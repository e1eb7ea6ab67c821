------------------------------ MODULE Connect ------------------------------
(***************************************************************************)
(* The connecting role (src/src/connect.rs): `run` with its listeners, its *)
(* dials and its retries, the forwarder tasks of each connection, and the  *)
(* local programs that connect to a listener.                              *)
(*                                                                         *)
(* `run` is one task, `phase` is where it is.  Reconciling is one step: no *)
(* await in it can block, and it looks at each port once.  A forwarder     *)
(* that was aborted runs on until it is dropped, and holds its socket.     *)
(* The sessions of the UDP forwarders are in UdpTunnel, the streams at the *)
(* far end in Serve.                                                       *)
(***************************************************************************)
EXTENDS Config, Functions

CONSTANTS
    Keys,          \* <<protocol, local port>> pairs
    Remotes,       \* ports of the far machine
    Configs,       \* configurations
    FirstConfig,   \* the one loaded at start
    Edits(_),      \* what an accepted edit can make of a configuration
    MaxVersion,    \* bound on the number of edits
    MaxConn,       \* bound on the number of connections
    BackoffMax,    \* BACKOFF_MAX, in units of BACKOFF_START
    Clients,       \* local programs, each connects to a TCP listener once
    Contested,     \* ports that other programs may take
    MayFail        \* listeners whose accept may fail

ASSUME ConnectAssumption ==
    /\ MaxVersion \in Nat /\ MaxConn \in Nat /\ BackoffMax \in Nat \ {0}

VARIABLES
    cfg, ver,      \* the published snapshot and the watch channel's version
    seen,          \* the version `run` has seen
    bound,         \* Listeners.bound: local key -> remote port
    binds,         \* Runtime.binds: what the admin UI reports
    foreign,       \* ports that other programs hold
    phase,         \* where `run` is
    delay,         \* the next wait before a redial
    conn, link,    \* the newest connection, and what is known of each
    tasks,         \* the forwarders that exist
    client         \* per local program, how far it got

configVars == <<cfg, ver>>
listenVars == <<seen, bound, binds>>
linkVars == <<conn, link>>
vars == <<configVars, listenVars, foreign, phase, delay, linkVars, tasks, client>>

Links == 1..MaxConn

NoEntry == [k \in {} |-> k]
NoClient == [at |-> "none"]

PortMaps == UNION {[D -> Remotes] : D \in SUBSET Keys}

(* active_bindings, as the listeners it asks for *)
Wanted(c) ==
    LET active == ActiveBindings(c)
    IN  [k \in {BindingKey(b) : b \in active} |->
            (CHOOSE b \in active : BindingKey(b) = k).remote]

ASSUME ConfigsAssumption ==
    /\ FirstConfig \in Configs
    /\ \A c \in Configs : Edits(c) \subseteq Configs /\ Wanted(c) \in PortMaps

Forwarder(k, remote, c) == [key |-> k, remote |-> remote, conn |-> c, aborted |-> FALSE]

(* Ports whose socket is open: a listener or a forwarder still has it. *)
Open(listeners, forwarders) == DOMAIN listeners \cup {t.key : t \in forwarders}

Free == {k \in Keys : k \notin foreign \cup Open(bound, tasks)}

Running == phase \in {"dialing", "up", "waiting"}

Init ==
    /\ cfg = FirstConfig /\ ver = 0 /\ seen = 0
    /\ bound = NoEntry /\ binds = NoEntry
    /\ foreign \in SUBSET Contested
    /\ phase = "boot"
    /\ delay = 1
    /\ conn = 0 /\ link = [c \in Links |-> "none"]
    /\ tasks = {}
    /\ client = [x \in Clients |-> NoClient]

-----------------------------------------------------------------------------
(* The operator and other programs *)

Mutate ==
    /\ ver < MaxVersion /\ phase # "exited"
    /\ cfg' \in Edits(cfg)
    /\ ver' = ver + 1
    /\ UNCHANGED <<listenVars, foreign, phase, delay, linkVars, tasks, client>>

TakePort(k) ==
    /\ k \in Contested \cap Free
    /\ foreign' = foreign \cup {k}
    /\ UNCHANGED <<configVars, listenVars, phase, delay, linkVars, tasks, client>>

ReleasePort(k) ==
    /\ k \in foreign
    /\ foreign' = foreign \ {k}
    /\ UNCHANGED <<configVars, listenVars, phase, delay, linkVars, tasks, client>>

-----------------------------------------------------------------------------
(* Listeners::reconcile *)

(* Mutant: a binding whose remote port changed keeps the old one. *)
Reconciled_NoRetarget(want) ==
    LET opened == (DOMAIN want \ DOMAIN bound) \cap Free
    IN  [k \in (DOMAIN bound \cap DOMAIN want) \cup opened |->
            IF k \in DOMAIN bound THEN bound[k] ELSE want[k]]

(* Mutant: every listener is dropped and those wanted are bound anew. *)
Reconciled_FromScratch(want) == Restrict(want, DOMAIN want \cap Free)

(* What is not wanted is dropped, what is bound is retargeted, and the rest is
   bound where the port is free. *)
Reconciled(want) ==
    LET opened == (DOMAIN want \ DOMAIN bound) \cap Free
    IN  [k \in (DOMAIN bound \cap DOMAIN want) \cup opened |-> want[k]]

(* Mutant: clear_bind is forgotten. *)
Reported_NotCleared(want, listeners) ==
    [k \in DOMAIN binds \cup DOMAIN want |->
        IF k \in DOMAIN want \ DOMAIN bound
        THEN IF k \in DOMAIN listeners THEN "listening" ELSE "failed"
        ELSE binds[k]]

(* clear_bind and set_bind: the state of a listener that failed to bind stays
   when it is no longer wanted. *)
Reported(want, listeners) ==
    [k \in (DOMAIN binds \ (DOMAIN bound \ DOMAIN want)) \cup DOMAIN want |->
        IF k \in DOMAIN want \ DOMAIN bound
        THEN IF k \in DOMAIN listeners THEN "listening" ELSE "failed"
        ELSE binds[k]]

Reconcile ==
    LET want == Wanted(cfg)
    IN  bound' = Reconciled(want) /\ binds' = Reported(want, bound')

(* A program that waits in the backlog of a socket that closes is reset. *)
SettleClients(open) ==
    client' = [x \in Clients |->
                 IF client[x].at = "queued"
                    /\ client[x].key \notin open
                 THEN [client[x] EXCEPT !.at = "reset"] ELSE client[x]]

(* `run` returns an error, and the process ends. *)
Exit ==
    /\ phase' = "exited"
    /\ bound' = NoEntry /\ binds' = NoEntry /\ tasks' = {}
    /\ client' = [x \in Clients |->
                    IF client[x].at \in {"queued", "opening", "open"}
                    THEN [client[x] EXCEPT !.at = "reset"] ELSE client[x]]

-----------------------------------------------------------------------------
(* run *)

Subscribe ==
    /\ phase = "boot"
    /\ phase' = "subscribed"
    /\ seen' = ver
    /\ UNCHANGED <<configVars, bound, binds, foreign, delay, linkVars, tasks, client>>

(* The first listeners.  None at all, of some, ends the command. *)
Start ==
    /\ phase = "subscribed"
    /\ IF DOMAIN Wanted(cfg) # {} /\ Reconciled(Wanted(cfg)) = NoEntry
       THEN Exit
       ELSE /\ Reconcile
            /\ phase' = "dialing"
            /\ UNCHANGED <<tasks, client>>
    /\ UNCHANGED <<configVars, seen, foreign, delay, linkVars>>

SpawnForwarders(c) == {Forwarder(k, bound'[k], c) : k \in DOMAIN bound'}

(* Mutant: the old forwarders are left running. *)
AbortAll_Forgotten == tasks

AbortAll == {[t EXCEPT !.aborted = TRUE] : t \in tasks}

Dialed ==
    /\ phase = "dialing" /\ conn < MaxConn
    /\ conn' = conn + 1
    /\ link' = [link EXCEPT ![conn + 1] = "open"]
    /\ phase' = "up"
    /\ delay' = 1
    /\ UNCHANGED <<configVars, listenVars, foreign, client>>
    /\ tasks' = tasks \cup SpawnForwarders(conn + 1)

DialFails ==
    /\ phase = "dialing"
    /\ phase' = "waiting"
    /\ UNCHANGED <<configVars, listenVars, foreign, delay, linkVars, tasks, client>>

(* The far end closes the connection, or it is lost: how it ends. *)
LinkEnds(c, how) ==
    /\ c \in Links /\ link[c] = "open"
    /\ link' = [link EXCEPT ![c] = how]
    /\ UNCHANGED <<configVars, listenVars, foreign, phase, delay, conn, tasks, client>>

(* Mutant: the forwarders are only started with a connection. *)
ApplyEdit_NoRespawn ==
    /\ phase = "up" /\ seen # ver
    /\ seen' = ver
    /\ Reconcile
    /\ tasks' = tasks
    /\ SettleClients(Open(bound', tasks'))
    /\ UNCHANGED <<configVars, foreign, phase, delay, linkVars>>

(* The `changed` branch while the link is up: the forwarders are started anew
   when the set of listeners changed. *)
ApplyEdit ==
    /\ phase = "up" /\ seen # ver
    /\ seen' = ver
    /\ Reconcile
    /\ tasks' = IF bound' = bound THEN tasks ELSE AbortAll \cup SpawnForwarders(conn)
    /\ SettleClients(Open(bound', tasks'))
    /\ UNCHANGED <<configVars, foreign, phase, delay, linkVars>>

(* Mutant: a connection that was lost ends the process too. *)
Closed_Final ==
    /\ phase = "up" /\ link[conn] # "open"
    /\ Exit
    /\ UNCHANGED <<configVars, seen, foreign, delay, linkVars>>

(* Mutant: only an application close ends the inner loop. *)
Closed_OnlyByPeer ==
    /\ phase = "up" /\ link[conn] = "closed"
    /\ Exit
    /\ UNCHANGED <<configVars, seen, foreign, delay, linkVars>>

(* The `closed` branch: an application close is final, anything else is not. *)
Closed ==
    /\ phase = "up" /\ link[conn] # "open"
    /\ IF link[conn] = "closed"
       THEN Exit
       ELSE /\ phase' = "waiting"
            /\ tasks' = AbortAll
            /\ UNCHANGED <<bound, binds, client>>
    /\ UNCHANGED <<configVars, seen, foreign, delay, linkVars>>

(* Mutant: the wait does not look at the configuration. *)
ApplyWaiting_Deaf == FALSE /\ UNCHANGED vars

(* The `changed` branch of the wait. *)
ApplyWaiting ==
    /\ phase = "waiting" /\ seen # ver
    /\ seen' = ver
    /\ Reconcile
    /\ SettleClients(Open(bound', tasks))
    /\ UNCHANGED <<configVars, foreign, phase, delay, linkVars, tasks>>

(* Mutant: the ladder has no ceiling. *)
Doubled_Uncapped(d) == d * 2

Doubled(d) == IF d * 2 < BackoffMax THEN d * 2 ELSE BackoffMax

Retry ==
    /\ phase = "waiting"
    /\ phase' = "dialing"
    /\ delay' = Doubled(delay)
    /\ UNCHANGED <<configVars, listenVars, foreign, linkVars, tasks, client>>

-----------------------------------------------------------------------------
(* Forwarders and the programs they serve *)

(* An abort takes effect. *)
Cancelled(t) ==
    /\ t \in tasks /\ t.aborted
    /\ tasks' = tasks \ {t}
    /\ SettleClients(Open(bound, tasks'))
    /\ UNCHANGED <<configVars, seen, bound, binds, foreign, phase, delay, linkVars>>

(* accept_tcp or pump_udp_out returns on an error; its listener stays. *)
AcceptFails(t) ==
    /\ t \in tasks /\ t.key \in MayFail
    /\ tasks' = tasks \ {t}
    /\ SettleClients(Open(bound, tasks'))
    /\ UNCHANGED <<configVars, seen, bound, binds, foreign, phase, delay, linkVars>>

ClientGoes(x, state) ==
    /\ client' = [client EXCEPT ![x] = state]
    /\ UNCHANGED <<configVars, listenVars, foreign, phase, delay, linkVars, tasks>>

(* A local program connects: the kernel queues it. *)
Arrive(x, k) ==
    /\ client[x] = NoClient
    /\ k[1] = "tcp" /\ k \in Open(bound, tasks)
    /\ ClientGoes(x, [at |-> "queued", key |-> k])

Accept(t, x) ==
    /\ t \in tasks
    /\ client[x].at = "queued" /\ client[x].key = t.key
    /\ ClientGoes(x, [at |-> "opening", conn |-> t.conn])

(* forward_tcp: open_bi and the port header, on the acceptor's connection. *)
OpenStream(x) ==
    /\ client[x].at = "opening"
    /\ ClientGoes(x, [client[x] EXCEPT !.at =
                        IF link[client[x].conn] = "open" THEN "open" ELSE "reset"])

(* copy_bidirectional ends: both sides are done, or the connection is gone. *)
StreamEnds(x) ==
    /\ client[x].at = "open"
    /\ ClientGoes(x, [client[x] EXCEPT !.at =
                        IF link[client[x].conn] = "open" THEN "done" ELSE "reset"])

StreamFails(x) ==
    /\ client[x].at = "open" /\ link[client[x].conn] # "open"
    /\ StreamEnds(x)

-----------------------------------------------------------------------------
RunNext ==
    \/ Subscribe \/ Start \/ Dialed \/ DialFails
    \/ ApplyEdit \/ Closed \/ ApplyWaiting \/ Retry

LinkNext == \E c \in Links, how \in {"lost", "closed"} : LinkEnds(c, how)

OthersNext == Mutate \/ \E k \in Contested : TakePort(k) \/ ReleasePort(k)

ForwardNext ==
    \/ \E t \in tasks : Cancelled(t) \/ AcceptFails(t)
    \/ \E x \in Clients :
          \/ \E k \in Keys : Arrive(x, k)
          \/ \E t \in tasks : Accept(t, x)
          \/ OpenStream(x) \/ StreamEnds(x)

Next == RunNext \/ LinkNext \/ OthersNext \/ ForwardNext

Spec == Init /\ [][Next]_vars

(* `run` and the forwarders are polled; a dial ends one way or the other; the
   wait looks at an edit at once, long before its timer fires; an aborted task
   is dropped some day.  Nothing makes a dial succeed or a link last. *)
Fairness ==
    /\ WF_vars(Subscribe) /\ WF_vars(Start) /\ WF_vars(Dialed \/ DialFails)
    /\ WF_vars(ApplyEdit) /\ WF_vars(Closed) /\ SF_vars(ApplyWaiting)
    /\ WF_vars(Retry) /\ WF_vars(\E t \in tasks : Cancelled(t))
    /\ \A x \in Clients : /\ WF_vars(\E t \in tasks : ~t.aborted /\ Accept(t, x))
                          /\ WF_vars(OpenStream(x)) /\ WF_vars(StreamFails(x))

FairSpec == Spec /\ Fairness

-----------------------------------------------------------------------------
(* Properties *)

BindStates == UNION {[D -> {"listening", "failed"}] : D \in SUBSET Keys}

(* Types; the delay climbs from a second to its ceiling and not past it. *)
TypeOK ==
    /\ cfg \in Configs /\ ver \in 0..MaxVersion /\ seen \in 0..ver
    /\ bound \in PortMaps /\ binds \in BindStates
    /\ foreign \subseteq Contested
    /\ phase \in {"boot", "subscribed", "dialing", "up", "waiting", "exited"}
    /\ delay \in 1..BackoffMax
    /\ conn \in 0..MaxConn
    /\ phase = "up" => conn \in Links
    /\ link \in [Links -> {"none", "open", "lost", "closed"}]
    /\ tasks \subseteq [key : Keys, remote : Remotes, conn : Links, aborted : BOOLEAN]
    /\ client \in [Clients -> {NoClient} \cup [at : {"queued", "reset"}, key : Keys]
                     \cup [at : {"opening", "open", "done", "reset"}, conn : Links]]

(* run, reconcile: when `run` has no edit left to look at, every binding that
   is enabled is bound to its remote port or reported as failed, and nothing
   else is bound, whatever it was doing when the edits came. *)
ListenersFollowConfig ==
    Running /\ seen = ver =>
        LET want == Wanted(cfg)
        IN  /\ DOMAIN bound \subseteq DOMAIN want
            /\ \A k \in DOMAIN bound : bound[k] = want[k]
            /\ \A k \in DOMAIN want \ DOMAIN bound :
                  k \in DOMAIN binds /\ binds[k] = "failed"

(* set_bind, clear_bind: the admin UI reports a port as listening exactly when
   this process listens on it. *)
ReportedAsListening ==
    \A k \in Keys : k \in DOMAIN bound <=> k \in DOMAIN binds /\ binds[k] = "listening"

(* run, spawn_forwarders: a forwarder that was not aborted carries a present
   listener to its present remote port over the present connection. *)
ForwardersFollow ==
    \A t \in tasks : ~t.aborted =>
        /\ phase = "up" /\ t.conn = conn
        /\ t.key \in DOMAIN bound /\ t.remote = bound[t.key]

(* reconcile: the listeners follow the configuration, and no edit, retry or
   lost link closes one that is still wanted (connect.rs:44: "kept across
   reconnects"). *)
Listeners == INSTANCE ListenerSet WITH
    wanted <- Wanted(cfg), offered <- bound, over <- (phase = "exited")
OthersUndisturbed == Listeners!Spec

(* run: an edit is looked at in the end, although no dial listens for edits and
   the far machine may never answer again. *)
EditsAreApplied == seen # ver /\ Running ~> seen = ver \/ ~Running

(* run: a connection that was lost, not closed, is dialed again. *)
LostLinkIsRedialed ==
    phase = "up" /\ link[conn] = "lost" ~> phase = "dialing"

(* accept_tcp: once a link stays up, a program that came during the outage, or
   to a listener that was added or retargeted meanwhile, is taken. *)
ClientsAreServed ==
    <>[](phase = "up") =>
        \A x \in Clients :
            client[x].at = "queued" /\ client[x].key \notin MayFail
                ~> client[x].at # "queued"
=============================================================================
