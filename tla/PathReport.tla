----------------------------- MODULE PathReport -----------------------------
(***************************************************************************)
(* The path the admin UI shows for one peer (src/src/main.rs, report_path; *)
(* src/src/state.rs, peer_connected, peer_disconnected, peer_path).        *)
(*                                                                         *)
(* The entry is the peer's, the reporters are its connections': each one   *)
(* is a detached task that writes the path its own connection selected,    *)
(* on every event it reads and on every heartbeat.  The serving role makes *)
(* the entry and then reports, and the connections of a peer may overlap;  *)
(* the connecting role reports first and has one connection at a time.     *)
(***************************************************************************)
EXTENDS Naturals, Sequences

CONSTANTS
    Conns,         \* connections with the peer; each one is opened at most once
    Paths,         \* what path_kind can say: relayed, direct
    Pending,       \* no path has been selected, or none was recorded
    MaxEvents,     \* path events kept for a reader, then they are dropped
    MaxChanges     \* bound on how often a connection selects a path

ASSUME PathAssumption ==
    Pending \notin Paths /\ MaxEvents \in Nat /\ MaxChanges \in Nat

VARIABLES
    role,          \* the order in which `run` makes its two calls
    at,            \* per connection, where `run` is
    open,          \* per connection, whether it still is
    path,          \* per connection, its selected path
    changes,       \* per connection, how often it selected one
    entry,         \* the peer's entries in Runtime.peers: none or one
    reporter,      \* per connection, where the task of report_path is
    events         \* per connection, the events that task has not read

connVars == <<role, at, open>>
pathVars == <<path, changes>>
vars == <<connVars, pathVars, entry, reporter, events>>

Init ==
    /\ role \in {"serve", "connect"}
    /\ at = [c \in Conns |-> "none"]
    /\ open = [c \in Conns |-> FALSE]
    /\ path = [c \in Conns |-> Pending]
    /\ changes = [c \in Conns |-> 0]
    /\ entry = {}
    /\ reporter = [c \in Conns |-> "none"]
    /\ events = [c \in Conns |-> <<>>]

-----------------------------------------------------------------------------
(* The connection: its path may change while it is open. *)

Select(c, p) ==
    /\ open[c] /\ path[c] # p
    /\ changes[c] < MaxChanges
    /\ path' = [path EXCEPT ![c] = p]
    /\ changes' = [changes EXCEPT ![c] = @ + 1]
    /\ events' = IF reporter[c] = "reading" /\ Len(events[c]) < MaxEvents
                 THEN [events EXCEPT ![c] = Append(@, p)] ELSE events
    /\ UNCHANGED <<connVars, entry, reporter>>

Close(c) ==
    /\ open[c]
    /\ open' = [open EXCEPT ![c] = FALSE]
    /\ UNCHANGED <<role, at, pathVars, entry, reporter, events>>

-----------------------------------------------------------------------------
(* The calls *)

(* Mutant: a report makes the entry it does not find. *)
PeerPath_Inserts(p) == IF p = Pending THEN entry ELSE {p}

(* peer_path, and log_selected's skip of a path that is still pending. *)
PeerPath(p) == IF entry = {} \/ p = Pending THEN entry ELSE {p}

(* Mutant: every connection pushes an entry of its own. *)
PeerConnected_Pushes(c) ==
    /\ entry' = entry \cup {Pending}
    /\ UNCHANGED reporter

PeerConnected(c) ==
    /\ entry' = IF entry = {} THEN {Pending} ELSE entry
    /\ UNCHANGED reporter

ReportPath(c) ==
    /\ entry' = PeerPath(path[c])
    /\ reporter' = [reporter EXCEPT ![c] = "spawned"]

(* The connecting role has one connection at a time. *)
MayOpen(c) == role = "connect" => \A d \in Conns \ {c} : at[d] \in {"none", "ended"}

Opened(c) ==
    /\ at[c] = "none" /\ MayOpen(c)
    /\ at' = [at EXCEPT ![c] = "opened"]
    /\ open' = [open EXCEPT ![c] = TRUE]
    /\ path' \in {[path EXCEPT ![c] = p] : p \in Paths \cup {Pending}}
    /\ IF role = "serve" THEN PeerConnected(c) ELSE ReportPath(c)
    /\ UNCHANGED <<role, changes, events>>

Served(c) ==
    /\ at[c] = "opened"
    /\ at' = [at EXCEPT ![c] = "served"]
    /\ IF role = "serve" THEN ReportPath(c) ELSE PeerConnected(c)
    /\ UNCHANGED <<role, open, pathVars, events>>

(* Mutant: the entry outlives the connection. *)
PeerDisconnected_Never == UNCHANGED entry

PeerDisconnected == entry' = {}

Ended(c) ==
    /\ at[c] = "served" /\ ~open[c]
    /\ at' = [at EXCEPT ![c] = "ended"]
    /\ PeerDisconnected
    /\ UNCHANGED <<role, open, pathVars, reporter, events>>

-----------------------------------------------------------------------------
(* The task of report_path *)

(* It subscribes when it first runs: what was selected since the first report
   is not an event it will read. *)
Starts(c) ==
    /\ reporter[c] = "spawned"
    /\ reporter' = [reporter EXCEPT ![c] = "reading"]
    /\ UNCHANGED <<connVars, pathVars, entry, events>>

OnEvent(c) ==
    /\ reporter[c] = "reading" /\ events[c] # <<>>
    /\ entry' = PeerPath(Head(events[c]))
    /\ events' = [events EXCEPT ![c] = Tail(@)]
    /\ UNCHANGED <<connVars, pathVars, reporter>>

(* Mutant: the path is restated only while the peer has no path. *)
Heartbeat_OnlyPending(c) ==
    /\ reporter[c] = "reading"
    /\ entry' = IF entry = {Pending} THEN PeerPath(path[c]) ELSE entry
    /\ UNCHANGED <<connVars, pathVars, reporter, events>>

(* The tick: also of a connection that was closed, until the task sees it. *)
Heartbeat(c) ==
    /\ reporter[c] = "reading"
    /\ entry' = PeerPath(path[c])
    /\ UNCHANGED <<connVars, pathVars, reporter, events>>

Stops(c) ==
    /\ reporter[c] = "reading" /\ ~open[c] /\ events[c] = <<>>
    /\ reporter' = [reporter EXCEPT ![c] = "gone"]
    /\ UNCHANGED <<connVars, pathVars, entry, events>>

-----------------------------------------------------------------------------
Next ==
    \E c \in Conns :
        \/ Opened(c) \/ Served(c) \/ Close(c) \/ Ended(c)
        \/ \E p \in Paths : Select(c, p)
        \/ Starts(c) \/ OnEvent(c) \/ Heartbeat(c) \/ Stops(c)

Spec == Init /\ [][Next]_vars

(* The tasks are polled, the timer ticks, and `select!` picks among ready
   branches at random, so the ticks hold no event back. *)
Fairness ==
    \A c \in Conns :
        /\ WF_vars(Served(c)) /\ WF_vars(Ended(c))
        /\ WF_vars(Starts(c)) /\ WF_vars(OnEvent(c))
        /\ WF_vars(Heartbeat(c)) /\ WF_vars(Stops(c))

FairSpec == Spec /\ Fairness

-----------------------------------------------------------------------------
(* Properties *)

(* Types. *)
TypeOK ==
    /\ role \in {"serve", "connect"}
    /\ at \in [Conns -> {"none", "opened", "served", "ended"}]
    /\ open \in [Conns -> BOOLEAN]
    /\ path \in [Conns -> Paths \cup {Pending}]
    /\ changes \in [Conns -> 0..MaxChanges]
    /\ entry \subseteq Paths \cup {Pending}
    /\ \A p, q \in entry : p = q
    /\ reporter \in [Conns -> {"none", "spawned", "reading", "gone"}]
    /\ events \in [Conns -> Seq(Paths)]
    /\ \A c \in Conns : Len(events[c]) <= MaxEvents

(* peer_path: a reporter that outlives its connection never brings back the
   entry of a peer that is gone (or, of the connecting role, not yet there). *)
NoGhostEntry ==
    entry # {} =>
        \E c \in Conns : at[c] = "served" \/ (at[c] = "opened" /\ role = "serve")

(* The connection whose path the entry should show.  The last conjunct leaves
   out the case where an older connection of the peer, ending while c was
   served, took the entry away: report_path never makes one. *)
Settled(c, p) ==
    /\ at[c] = "served" /\ path[c] = p
    /\ \A d \in Conns \ {c} : ~open[d] /\ at[d] # "opened"
    /\ entry # {}

(* report_path: whatever events were missed or dropped, whichever call came
   first and whatever reporters of older connections still write, the path of
   the one connection that stays is what the admin UI shows in the end. *)
PathSettles ==
    \A c \in Conns, p \in Paths : <>[]Settled(c, p) => <>[](entry = {p})
=============================================================================
