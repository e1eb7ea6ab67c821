------------------------------- MODULE Serve -------------------------------
(***************************************************************************)
(* The serving role (src/src/serve.rs): admission of connections against   *)
(* the live allowlist, the watcher that evicts a revoked peer, the TCP     *)
(* streams and the UDP sessions of each connection and their teardown,     *)
(* with the watch channel of `Shared` (src/src/state.rs) they all read.    *)
(*                                                                         *)
(* Every tokio task is a program counter: an action runs from one await    *)
(* that can block to the next, and the tasks of one connection interleave  *)
(* freely with each other, with other connections and with config edits.   *)
(***************************************************************************)
EXTENDS Config, UdpSessions, FiniteSets

CONSTANTS
    Peers,         \* endpoint ids
    Conns,         \* connections; each one is opened at most once
    PeerOf,        \* the endpoint id at the far end of each connection
    Streams,       \* bidirectional streams, over all connections
    Keys,          \* <<protocol, port>> pairs the edits name
    FirstConfig,   \* the configuration loaded at start
    MaxBuffered,   \* datagrams that iroh keeps for a connection's reader
    MaxVersion     \* bound on the number of edits

ASSUME ServeAssumption ==
    /\ PeerOf \in [Conns -> Peers]
    /\ MaxVersion \in Nat /\ MaxBuffered \in Nat

VARIABLES
    cfg, ver,      \* the published snapshot and the watch channel's version
    live,          \* Runtime.peers: the peers shown as connected
    link,          \* per connection, what its QUIC connection is
    task,          \* per connection, where `run`'s task for it is
    evict, seenE,  \* evict_when_revoked: where it is, the version it has seen
    gap,           \* history: the peer was already revoked when it subscribed
    buffered,      \* per connection, the datagrams received and not read yet
    pump, seenP,   \* pump_udp: where it is, the version it has seen
    opening,       \* pump_udp: the session open_session is about to insert
    sessions,      \* per connection, Sessions.by_id
    stream         \* per stream, where serve_stream is

sharedVars == <<cfg, ver>>
connVars == <<live, link, task>>
evictVars == <<evict, seenE, gap>>
pumpVars == <<buffered, pump, seenP, opening, sessions>>
vars == <<sharedVars, connVars, evictVars, pumpVars, stream>>

Ports == {k[2] : k \in Keys}
Nothing == [id |-> 0, port |-> 0]
NoStream == [at |-> "none"]

MayUse(c, proto) == Granted(cfg, PeerOf[c], proto)
Revoked(c) == ~Admits(cfg, PeerOf[c])
Aborted(c) == task[c] = "ended"      \* `abort` was called on the pumps

Init ==
    /\ cfg = FirstConfig /\ ver = 0
    /\ live = {}
    /\ link = [c \in Conns |-> "none"]
    /\ task = [c \in Conns |-> "none"]
    /\ evict = [c \in Conns |-> "none"]
    /\ seenE = [c \in Conns |-> 0]
    /\ gap = [c \in Conns |-> FALSE]
    /\ buffered = [c \in Conns |-> 0]
    /\ pump = [c \in Conns |-> "none"]
    /\ seenP = [c \in Conns |-> 0]
    /\ opening = [c \in Conns |-> Nothing]
    /\ sessions = [c \in Conns |-> NoEntries]
    /\ stream = [s \in Streams |-> NoStream]

-----------------------------------------------------------------------------
(* The operator and the peer *)

(* One accepted admin edit: `mutate` publishes the new snapshot. *)
Mutate ==
    /\ ver < MaxVersion
    /\ cfg' \in ServeEdits(cfg, Peers, Keys)
    /\ ver' = ver + 1
    /\ UNCHANGED <<connVars, evictVars, pumpVars, stream>>

Handshake(c) ==
    /\ link[c] = "none"
    /\ link' = [link EXCEPT ![c] = "open"]
    /\ task' = [task EXCEPT ![c] = "accepted"]
    /\ UNCHANGED <<sharedVars, live, evictVars, pumpVars, stream>>

(* The peer hangs up, or the connection times out. *)
Lost(c) ==
    /\ link[c] = "open"
    /\ link' = [link EXCEPT ![c] = "lost"]
    /\ UNCHANGED <<sharedVars, live, task, evictVars, pumpVars, stream>>

-----------------------------------------------------------------------------
(* run's task for one connection *)

PeerConnected(c) == live' = live \cup {PeerOf[c]}

(* Mutant: the entry is never removed. *)
PeerDisconnected_Never(c) == UNCHANGED live

(* One entry per peer, whatever the number of its connections. *)
PeerDisconnected(c) == live' = live \ {PeerOf[c]}

(* Mutant: the close call is forgotten. *)
Close_Forgotten(c, why) == UNCHANGED link

Close(c, why) ==
    link' = [link EXCEPT ![c] = IF @ = "open" THEN why ELSE @]

(* Mutant: a connection that is refused is counted as one that ended. *)
Admit_Disconnects(c) ==
    /\ task[c] = "accepted"
    /\ IF Revoked(c)
       THEN /\ Close(c, "refused") /\ PeerDisconnected(c)
            /\ task' = [task EXCEPT ![c] = "ended"]
       ELSE /\ task' = [task EXCEPT ![c] = "admitted"]
            /\ UNCHANGED <<link, live>>
    /\ UNCHANGED <<sharedVars, evictVars, pumpVars, stream>>

Admit(c) ==
    /\ task[c] = "accepted"
    /\ IF Revoked(c)
       THEN Close(c, "refused") /\ task' = [task EXCEPT ![c] = "ended"]
       ELSE task' = [task EXCEPT ![c] = "admitted"] /\ UNCHANGED link
    /\ UNCHANGED <<sharedVars, live, evictVars, pumpVars, stream>>

(* peer_connected, then serve_conn spawns its tasks: none of them has run yet. *)
Register(c) ==
    /\ task[c] = "admitted"
    /\ task' = [task EXCEPT ![c] = "serving"]
    /\ PeerConnected(c)
    /\ evict' = [evict EXCEPT ![c] = "spawned"]
    /\ pump' = [pump EXCEPT ![c] = "spawned"]
    /\ UNCHANGED <<sharedVars, link, seenE, gap, buffered, seenP, opening, sessions, stream>>

(* Mutant: the sessions are left to the tasks that hold them. *)
Teardown_KeepsTable(c) ==
    /\ task[c] = "serving" /\ link[c] # "open"
    /\ task' = [task EXCEPT ![c] = "ended"]
    /\ PeerDisconnected(c)
    /\ UNCHANGED <<sharedVars, link, evictVars, pumpVars, stream>>

(* accept_bi fails: abort the tasks, clear the table, peer_disconnected. *)
Teardown(c) ==
    /\ task[c] = "serving" /\ link[c] # "open"
    /\ task' = [task EXCEPT ![c] = "ended"]
    /\ sessions' = [sessions EXCEPT ![c] = NoEntries]
    /\ PeerDisconnected(c)
    /\ UNCHANGED <<sharedVars, link, evictVars, buffered, pump, seenP, opening, stream>>

-----------------------------------------------------------------------------
(* evict_when_revoked *)

EvictSubscribe(c) ==
    /\ evict[c] = "spawned"
    /\ evict' = [evict EXCEPT ![c] = "watching"]
    /\ seenE' = [seenE EXCEPT ![c] = ver]
    /\ gap' = [gap EXCEPT ![c] = Revoked(c)]
    /\ UNCHANGED <<sharedVars, connVars, pumpVars, stream>>

EvictOn(c, revoked) ==
    /\ evict[c] = "watching" /\ seenE[c] # ver
    /\ seenE' = [seenE EXCEPT ![c] = ver]
    /\ IF revoked
       THEN Close(c, "revoked") /\ evict' = [evict EXCEPT ![c] = "gone"]
       ELSE UNCHANGED <<link, evict>>
    /\ UNCHANGED <<sharedVars, live, task, gap, pumpVars, stream>>

(* Mutant: a parked peer counts as admitted. *)
EvictWake_Parked(c) == EvictOn(c, ~Listed(cfg, PeerOf[c]))

EvictWake(c) == EvictOn(c, Revoked(c))

EvictCancelled(c) ==
    /\ Aborted(c) /\ evict[c] \in {"spawned", "watching"}
    /\ evict' = [evict EXCEPT ![c] = "gone"]
    /\ UNCHANGED <<sharedVars, connVars, seenE, gap, pumpVars, stream>>

-----------------------------------------------------------------------------
(* pump_udp and the session table *)

PumpSubscribe(c) ==
    /\ pump[c] = "spawned"
    /\ pump' = [pump EXCEPT ![c] = "select"]
    /\ seenP' = [seenP EXCEPT ![c] = ver]
    /\ UNCHANGED <<sharedVars, connVars, evictVars, buffered, opening, sessions, stream>>

(* A datagram of the peer is received: iroh keeps it until it is read. *)
Arrive(c) ==
    /\ link[c] = "open" /\ buffered[c] < MaxBuffered
    /\ buffered' = [buffered EXCEPT ![c] = @ + 1]
    /\ UNCHANGED <<sharedVars, connVars, evictVars, pump, seenP, opening, sessions, stream>>

(* The `changed` branch of the select. *)
PumpConfig(c) ==
    /\ pump[c] = "select" /\ seenP[c] # ver
    /\ seenP' = [seenP EXCEPT ![c] = ver]
    /\ sessions' = [sessions EXCEPT ![c] = DropUngranted(@, MayUse(c, "udp"))]
    /\ UNCHANGED <<sharedVars, connVars, evictVars, buffered, pump, opening, stream>>

(* The `read_datagram` branch.  It hands out what was received while the
   connection was open also after it closed, and only then the error. *)
ReadDatagram(c) ==
    /\ pump[c] = "select" /\ buffered[c] > 0
    /\ buffered' = [buffered EXCEPT ![c] = @ - 1]

(* One that is shorter than the header, or names a port that is not granted. *)
PumpRefused(c) ==
    /\ ReadDatagram(c)
    /\ UNCHANGED <<sharedVars, connVars, evictVars, pump, seenP, opening, sessions, stream>>

(* One that passes the grant check: a known id is touched whatever port the
   datagram names. *)
AcceptDatagram(c, id, port) ==
    /\ ReadDatagram(c)
    /\ port \in MayUse(c, "udp")
    /\ IF id \in DOMAIN sessions[c]
       THEN /\ sessions' = [sessions EXCEPT ![c] = Touch(@, id)]
            /\ UNCHANGED <<pump, opening>>
       ELSE /\ pump' = [pump EXCEPT ![c] = "opening"]
            /\ opening' = [opening EXCEPT ![c] = [id |-> id, port |-> port]]
            /\ UNCHANGED sessions
    /\ UNCHANGED <<sharedVars, connVars, evictVars, stream>>

(* Mutant: the two fields of the header are read in the wrong order. *)
PumpDatagram_Misread(c, id, port) == AcceptDatagram(c, port, id) /\ UNCHANGED seenP

(* Mutant: the grant check reads the config with borrow_and_update, and so
   marks as seen a change whose sessions were not closed. *)
PumpDatagram_MarksSeen(c, id, port) ==
    AcceptDatagram(c, id, port) /\ seenP' = [seenP EXCEPT ![c] = ver]

PumpDatagram(c, id, port) == AcceptDatagram(c, id, port) /\ UNCHANGED seenP

(* open_session returns: the session is inserted, or bind or connect failed. *)
PumpOpened(c) ==
    /\ pump[c] = "opening"
    /\ \/ sessions' = [sessions EXCEPT ![c] =
             With(@, opening[c].id, [port |-> opening[c].port, idle |-> FALSE])]
       \/ UNCHANGED sessions
    /\ pump' = [pump EXCEPT ![c] = "select"]
    /\ opening' = [opening EXCEPT ![c] = Nothing]
    /\ UNCHANGED <<sharedVars, connVars, evictVars, buffered, seenP, stream>>

(* read_datagram fails, or the abort takes effect at an await. *)
PumpGone(c) ==
    /\ \/ pump[c] = "select" /\ link[c] # "open" /\ buffered[c] = 0
       \/ pump[c] \in {"spawned", "select", "opening"} /\ Aborted(c)
    /\ pump' = [pump EXCEPT ![c] = "gone"]
    /\ opening' = [opening EXCEPT ![c] = Nothing]
    /\ UNCHANGED <<sharedVars, connVars, evictVars, buffered, seenP, sessions, stream>>

(* pump_replies: the local service talks on a session. *)
Reply(c, id) ==
    /\ id \in DOMAIN sessions[c]
    /\ sessions' = [sessions EXCEPT ![c] = Touch(@, id)]
    /\ UNCHANGED <<sharedVars, connVars, evictVars, buffered, pump, seenP, opening, stream>>

GoIdle(c, id) ==
    /\ id \in DOMAIN sessions[c]
    /\ sessions' = [sessions EXCEPT ![c] = Silence(@, id)]
    /\ UNCHANGED <<sharedVars, connVars, evictVars, buffered, pump, seenP, opening, stream>>

Reap(c) ==
    /\ task[c] = "serving"
    /\ sessions' = [sessions EXCEPT ![c] = ReapIdle(@)]
    /\ UNCHANGED <<sharedVars, connVars, evictVars, buffered, pump, seenP, opening, stream>>

-----------------------------------------------------------------------------
(* serve_stream: detached tasks *)

StreamGoes(s, at) == stream' = [stream EXCEPT ![s].at = at]

(* accept_bi too hands out, after the close, what the peer opened before it. *)
AcceptStream(c, s) ==
    /\ task[c] = "serving" /\ stream[s] = NoStream
    /\ stream' = [stream EXCEPT ![s] = [at |-> "reading", conn |-> c]]
    /\ UNCHANGED <<sharedVars, connVars, evictVars, pumpVars>>

(* The two-byte port arrives and is checked against the live config. *)
ReadPort(s, port) ==
    /\ stream[s].at = "reading"
    /\ StreamGoes(s, IF port \in MayUse(stream[s].conn, "tcp")
                     THEN "connecting" ELSE "done")
    /\ UNCHANGED <<sharedVars, connVars, evictVars, pumpVars>>

(* TcpStream::connect succeeds or fails. *)
StreamConnected(s) ==
    /\ stream[s].at = "connecting"
    /\ StreamGoes(s, "open") \/ StreamGoes(s, "done")
    /\ UNCHANGED <<sharedVars, connVars, evictVars, pumpVars>>

(* The stream ends by itself: end of file, a reset, an error. *)
StreamEnds(s) ==
    /\ stream[s].at \in {"reading", "open"}
    /\ StreamGoes(s, "done")
    /\ UNCHANGED <<sharedVars, connVars, evictVars, pumpVars>>

(* Its connection is closed, so its next read or write fails. *)
StreamFails(s) ==
    /\ stream[s].at \in {"reading", "open"} /\ link[stream[s].conn] # "open"
    /\ StreamEnds(s)

-----------------------------------------------------------------------------
(* The process is stopped and started again, without flags: its configuration
   comes back from the file, everything else is gone.  The versions go on
   counting where the code starts anew: no task is left that has seen one. *)
Gone(at) == [c \in Conns |-> IF at[c] = "none" THEN "none" ELSE "gone"]

Restart ==
    /\ link' = [c \in Conns |-> IF link[c] = "open" THEN "lost" ELSE link[c]]
    /\ task' = [c \in Conns |-> IF link[c] = "none" THEN task[c] ELSE "ended"]
    /\ live' = {}
    /\ evict' = Gone(evict)
    /\ pump' = Gone(pump)
    /\ buffered' = [c \in Conns |-> 0]
    /\ opening' = [c \in Conns |-> Nothing]
    /\ sessions' = [c \in Conns |-> NoEntries]
    /\ stream' = [s \in Streams |-> IF stream[s] = NoStream THEN NoStream
                                    ELSE [stream[s] EXCEPT !.at = "done"]]
    /\ UNCHANGED <<sharedVars, seenE, gap, seenP>>

-----------------------------------------------------------------------------
ConnNext(c) == Handshake(c) \/ Lost(c) \/ Admit(c) \/ Register(c) \/ Teardown(c)

EvictNext(c) == EvictSubscribe(c) \/ EvictWake(c) \/ EvictCancelled(c)

PumpNext(c) ==
    \/ PumpSubscribe(c) \/ PumpConfig(c) \/ PumpOpened(c) \/ PumpGone(c) \/ Reap(c)
    \/ Arrive(c) \/ PumpRefused(c)
    \/ \E id \in Ids : Reply(c, id) \/ GoIdle(c, id)
    \/ \E id \in Ids, port \in Ports : PumpDatagram(c, id, port)

StreamNext(s) ==
    \/ \E c \in Conns : AcceptStream(c, s)
    \/ \E port \in Ports : ReadPort(s, port)
    \/ StreamConnected(s) \/ StreamEnds(s)

Next ==
    \/ Mutate \/ Restart
    \/ \E c \in Conns : ConnNext(c) \/ EvictNext(c) \/ PumpNext(c)
    \/ \E s \in Streams : StreamNext(s)

Spec == Init /\ [][Next]_vars

(* A task that can run is eventually polled.  The select of pump_udp picks a
   ready branch at random, so datagrams cannot hold back the config branch
   forever: strong fairness there. *)
Fairness ==
    /\ \A c \in Conns :
         /\ WF_vars(Admit(c)) /\ WF_vars(Register(c)) /\ WF_vars(Teardown(c))
         /\ WF_vars(EvictSubscribe(c)) /\ WF_vars(EvictWake(c))
         /\ WF_vars(EvictCancelled(c))
         /\ WF_vars(PumpSubscribe(c)) /\ SF_vars(PumpConfig(c))
         /\ WF_vars(PumpOpened(c)) /\ WF_vars(PumpGone(c))
    /\ \A s \in Streams : WF_vars(StreamConnected(s)) /\ WF_vars(StreamFails(s))

FairSpec == Spec /\ Fairness

-----------------------------------------------------------------------------
(* Properties *)

SessionTable ==
    UNION {[D -> [port : Ports, idle : BOOLEAN]] : D \in SUBSET Ids}

(* Types; no task has seen a version that was not published, and a session is
   on a port some offer can name. *)
TypeOK ==
    /\ ver \in 0..MaxVersion
    /\ live \subseteq Peers
    /\ link \in [Conns -> {"none", "open", "refused", "revoked", "lost"}]
    /\ task \in [Conns -> {"none", "accepted", "admitted", "serving", "ended"}]
    /\ evict \in [Conns -> {"none", "spawned", "watching", "gone"}]
    /\ seenE \in [Conns -> 0..ver]
    /\ gap \in [Conns -> BOOLEAN]
    /\ buffered \in [Conns -> 0..MaxBuffered]
    /\ pump \in [Conns -> {"none", "spawned", "select", "opening", "gone"}]
    /\ seenP \in [Conns -> 0..ver]
    /\ opening \in [Conns -> [id : Ids, port : Ports \cup {0}]]
    /\ \A c \in Conns : pump[c] = "opening" => opening[c].port \in Ports
    /\ sessions \in [Conns -> SessionTable]
    /\ stream \in [Streams -> {NoStream} \cup
          [at : {"reading", "connecting", "open", "done"}, conn : Conns]]

(* A peer the admin UI shows as connected has a connection that is being
   served: no entry of Runtime.peers outlives the last one. *)
NoGhostPeers ==
    \A p \in live : \E c \in Conns : PeerOf[c] = p /\ task[c] = "serving"

(* evict_when_revoked, once subscribed, cannot miss a revocation: an open
   connection of a peer that lost its admission since then has a config
   version its watcher has still to look at, however edits were coalesced. *)
NoMissedRevocation ==
    \A c \in Conns :
        evict[c] = "watching" /\ link[c] = "open" /\ Revoked(c) /\ ~gap[c]
            => seenE[c] # ver

(* pump_udp: a session whose port lost its grant, before or while open_session
   was inserting it, has a config version pump_udp has still to apply. *)
NoStaleSession ==
    \A c \in Conns :
        pump[c] \in {"select", "opening"} /\ seenP[c] = ver
            => /\ \A id \in DOMAIN sessions[c] :
                     sessions[c][id].port \in MayUse(c, "udp")
               /\ pump[c] = "opening" => opening[c].port \in MayUse(c, "udp")

(* The sessions that c has, and those that pump_udp may still open for what it
   has received. *)
Left(c) == Cardinality(DOMAIN sessions[c]) + buffered[c]
              + (IF pump[c] = "opening" THEN 1 ELSE 0)

(* "Everything spawned here is torn down before returning" (serve.rs:97-98), but
   serve_conn clears the table while pump_udp, aborted in the same moment, may
   still run up to its next suspension: what is left of a connection that was
   torn down is one session at most for each datagram that was received and not
   read yet, and the one that open_session was about to insert. *)
LeftoversAreFew ==
    \A c \in Conns : task[c] = "ended" => Left(c) <= MaxBuffered + 1

(* What a peer holds on the serving machine through one connection. *)
Holds(c) ==
    \/ link[c] = "open"
    \/ \E s \in Streams : stream[s].at \in {"reading", "connecting", "open"}
                          /\ stream[s].conn = c

(* A peer revoked while its watcher watches loses the connection and every
   TCP stream on it, detached as they are, unless it is admitted again. *)
RevokedPeerIsCutOff ==
    \A c \in Conns :
        evict[c] = "watching" /\ ~gap[c] /\ Revoked(c)
            ~> ~Holds(c) \/ ~Revoked(c)

(* A session whose port lost its grant is closed, not left to the idle timer. *)
WithdrawnSessionCloses ==
    \A c \in Conns, id \in Ids :
        LET Withdrawn == /\ task[c] = "serving" /\ id \in DOMAIN sessions[c]
                         /\ sessions[c][id].port \notin MayUse(c, "udp")
        IN  Withdrawn ~> ~Withdrawn

(* "Closes the connection as soon as the peer stops being admitted." *)
EveryRevocationCloses ==
    \A c \in Conns :
        task[c] = "serving" /\ Revoked(c) ~> link[c] # "open" \/ ~Revoked(c)
=============================================================================
