---------------------------- MODULE ServeProofs ----------------------------
(***************************************************************************)
(* Theorems about Serve, for every set of peers, connections, streams and  *)
(* ports, every first configuration and every number of edits.  The        *)
(* operators of Config stay opaque: nothing depends on what an edit does   *)
(* to the lists, only on a new version being published with it.            *)
(***************************************************************************)
EXTENDS Serve, FiniteSetTheorems, TLAPS

(***************************************************************************)
(* What the table operators do to a session table.                         *)
(***************************************************************************)
LEMMA TableNone == NoEntries \in SessionTable
  BY DEF SessionTable, NoEntries

LEMMA TableShape ==
  ASSUME NEW t
  PROVE  t \in SessionTable <=> /\ DOMAIN t \subseteq Ids
                                /\ t \in [DOMAIN t -> [port : Ports, idle : BOOLEAN]]
  BY DEF SessionTable

LEMMA TableSetIdle ==
  ASSUME NEW t \in SessionTable, NEW id \in DOMAIN t, NEW b \in BOOLEAN
  PROVE  [t EXCEPT ![id].idle = b] \in SessionTable
  <1>1. t \in [DOMAIN t -> [port : Ports, idle : BOOLEAN]] /\ DOMAIN t \subseteq Ids
    BY TableShape
  <1>2. [t[id] EXCEPT !.idle = b] \in [port : Ports, idle : BOOLEAN]
    BY <1>1
  <1>3. [t EXCEPT ![id] = [t[id] EXCEPT !.idle = b]]
          \in [DOMAIN t -> [port : Ports, idle : BOOLEAN]]
    BY <1>1, <1>2
  <1> QED
    BY <1>1, <1>3, TableShape

LEMMA TableTouch ==
  ASSUME NEW t \in SessionTable, NEW id
  PROVE  Touch(t, id) \in SessionTable
  BY TableSetIdle DEF Touch

LEMMA TableSilence ==
  ASSUME NEW t \in SessionTable, NEW id \in DOMAIN t
  PROVE  Silence(t, id) \in SessionTable
  BY TableSetIdle DEF Silence

LEMMA TableRestrict ==
  ASSUME NEW t \in SessionTable, NEW D \in SUBSET DOMAIN t
  PROVE  Restrict(t, D) \in SessionTable
  BY DEF SessionTable, Restrict

LEMMA TableReap == ASSUME NEW t \in SessionTable PROVE ReapIdle(t) \in SessionTable
  BY TableRestrict DEF ReapIdle, Retain

LEMMA TableDrop ==
  ASSUME NEW t \in SessionTable, NEW G
  PROVE  DropUngranted(t, G) \in SessionTable
  BY TableRestrict DEF DropUngranted, Retain

LEMMA TableWith ==
  ASSUME NEW t \in SessionTable, NEW id \in Ids, NEW p \in Ports
  PROVE  With(t, id, [port |-> p, idle |-> FALSE]) \in SessionTable
  <1>1. PICK D \in SUBSET Ids : t \in [D -> [port : Ports, idle : BOOLEAN]]
    BY DEF SessionTable
  <1>2. With(t, id, [port |-> p, idle |-> FALSE])
          \in [D \cup {id} -> [port : Ports, idle : BOOLEAN]]
    BY <1>1 DEF With
  <1> QED
    BY <1>2 DEF SessionTable

(***************************************************************************)
(* Type correctness: Spec => []TypeOK                                      *)
(***************************************************************************)
LEMMA TypeInit == Init => TypeOK
  <1>1. 0 \in Ids
    BY IdSpaceAssumption DEF Ids
  <1>2. 0 \in 0..MaxVersion /\ 0 \in 0..MaxBuffered
    BY ServeAssumption
  <1> QED
    BY <1>1, <1>2, TableNone DEF Init, TypeOK, Nothing

LEMMA TypeNext == TypeOK /\ [Next]_vars => TypeOK'
  <1> SUFFICES ASSUME TypeOK, [Next]_vars PROVE TypeOK'
    OBVIOUS
  <1> USE DEF TypeOK, sharedVars, connVars, evictVars, pumpVars
  <1>1. CASE Mutate
    BY <1>1, ServeAssumption DEF Mutate
  <1>2. ASSUME NEW c \in Conns, ConnNext(c) PROVE TypeOK'
    <2>1. CASE Handshake(c)
      BY <2>1 DEF Handshake
    <2>2. CASE Lost(c)
      BY <2>2 DEF Lost
    <2>3. CASE Admit(c)
      BY <2>3 DEF Admit, Close
    <2>4. CASE Register(c)
      <3>1. live' \subseteq Peers
        <4>1. PeerOf[c] \in Peers
          BY ServeAssumption
        <4> QED
          BY <2>4, <4>1 DEF Register, PeerConnected
      <3>2. evict' \in [Conns -> {"none", "spawned", "watching", "gone"}]
        BY <2>4 DEF Register
      <3>3. pump' \in [Conns -> {"none", "spawned", "select", "opening", "gone"}]
        BY <2>4 DEF Register
      <3>4. \A d \in Conns : pump'[d] = "opening" => opening'[d].port \in Ports
        BY <2>4 DEF Register
      <3> QED
        BY <2>4, <3>1, <3>2, <3>3, <3>4 DEF Register
    <2>5. CASE Teardown(c)
      <3>1. sessions' \in [Conns -> SessionTable]
        BY <2>5, TableNone DEF Teardown
      <3>2. live' \subseteq Peers
        BY <2>5 DEF Teardown, PeerDisconnected
      <3> QED
        BY <2>5, <3>1, <3>2 DEF Teardown
    <2> QED
      BY <1>2, <2>1, <2>2, <2>3, <2>4, <2>5 DEF ConnNext
  <1>3. ASSUME NEW c \in Conns, EvictNext(c) PROVE TypeOK'
    <2>1. CASE EvictSubscribe(c)
      BY <2>1 DEF EvictSubscribe, Revoked, Admits
    <2>2. CASE EvictWake(c)
      BY <2>2 DEF EvictWake, EvictOn, Close
    <2>3. CASE EvictCancelled(c)
      BY <2>3 DEF EvictCancelled
    <2> QED
      BY <1>3, <2>1, <2>2, <2>3 DEF EvictNext
  <1>4. ASSUME NEW c \in Conns, PumpNext(c) PROVE TypeOK'
    <2>1. CASE PumpSubscribe(c)
      BY <2>1 DEF PumpSubscribe
    <2>2. CASE PumpConfig(c)
      BY <2>2, TableDrop DEF PumpConfig
    <2>3. ASSUME NEW id \in Ids, NEW port \in Ports, PumpDatagram(c, id, port)
          PROVE  TypeOK'
      <3>1. sessions' \in [Conns -> SessionTable]
        <4>1. Touch(sessions[c], id) \in SessionTable
          BY TableTouch
        <4> QED
          BY <2>3, <4>1 DEF PumpDatagram, AcceptDatagram, ReadDatagram
      <3>2. opening' \in [Conns -> [id : Ids, port : Ports \cup {0}]]
        BY <2>3 DEF PumpDatagram, AcceptDatagram, ReadDatagram
      <3>3. \A d \in Conns : pump'[d] = "opening" => opening'[d].port \in Ports
        BY <2>3 DEF PumpDatagram, AcceptDatagram, ReadDatagram
      <3>4. buffered' \in [Conns -> 0..MaxBuffered]
        BY <2>3, ServeAssumption DEF PumpDatagram, AcceptDatagram, ReadDatagram
      <3>5. pump' \in [Conns -> {"none", "spawned", "select", "opening", "gone"}]
        BY <2>3 DEF PumpDatagram, AcceptDatagram, ReadDatagram
      <3>6. UNCHANGED <<sharedVars, connVars, evictVars, seenP, stream>>
        BY <2>3 DEF PumpDatagram, AcceptDatagram
      <3> QED
        BY <3>1, <3>2, <3>3, <3>4, <3>5, <3>6
    <2>4. CASE PumpOpened(c)
      <3>1. 0 \in Ids
        BY IdSpaceAssumption DEF Ids
      <3>2. sessions' \in [Conns -> SessionTable]
        <4>1. opening[c].id \in Ids /\ opening[c].port \in Ports
          BY <2>4 DEF PumpOpened
        <4>2. With(sessions[c], opening[c].id, [port |-> opening[c].port, idle |-> FALSE])
                \in SessionTable
          BY <4>1, TableWith
        <4> QED
          BY <2>4, <4>2 DEF PumpOpened
      <3>3. \A d \in Conns : pump'[d] = "opening" => opening'[d].port \in Ports
        BY <2>4 DEF PumpOpened
      <3> QED
        BY <2>4, <3>1, <3>2, <3>3 DEF PumpOpened, Nothing
    <2>5. CASE PumpGone(c)
      <3>1. 0 \in Ids
        BY IdSpaceAssumption DEF Ids
      <3> QED
        BY <2>5, <3>1 DEF PumpGone, Nothing
    <2>6. CASE Reap(c)
      BY <2>6, TableReap DEF Reap
    <2>7. ASSUME NEW id \in Ids, Reply(c, id) PROVE TypeOK'
      BY <2>7, TableTouch DEF Reply
    <2>8. ASSUME NEW id \in Ids, GoIdle(c, id) PROVE TypeOK'
      BY <2>8, TableSilence DEF GoIdle
    <2>9. CASE Arrive(c)
      BY <2>9, ServeAssumption DEF Arrive
    <2>10. CASE PumpRefused(c)
      <3>1. buffered' \in [Conns -> 0..MaxBuffered]
        BY <2>10, ServeAssumption DEF PumpRefused, ReadDatagram
      <3> QED
        BY <2>10, <3>1 DEF PumpRefused
    <2> QED
      BY <1>4, <2>1, <2>2, <2>3, <2>4, <2>5, <2>6, <2>7, <2>8, <2>9, <2>10 DEF PumpNext
  <1>5. ASSUME NEW s \in Streams, StreamNext(s) PROVE TypeOK'
    <2>1. ASSUME NEW c \in Conns, AcceptStream(c, s) PROVE TypeOK'
      BY <2>1 DEF AcceptStream
    <2>2. ASSUME NEW port \in Ports, ReadPort(s, port) PROVE TypeOK'
      BY <2>2 DEF ReadPort, StreamGoes, NoStream
    <2>3. CASE StreamConnected(s)
      <3>1. stream[s] \in [at : {"reading", "connecting", "open", "done"}, conn : Conns]
        BY <2>3 DEF StreamConnected, NoStream
      <3> QED
        BY <2>3, <3>1 DEF StreamConnected, StreamGoes
    <2>4. CASE StreamEnds(s)
      <3>1. stream[s] \in [at : {"reading", "connecting", "open", "done"}, conn : Conns]
        BY <2>4 DEF StreamEnds, NoStream
      <3> QED
        BY <2>4, <3>1 DEF StreamEnds, StreamGoes
    <2> QED
      BY <1>5, <2>1, <2>2, <2>3, <2>4 DEF StreamNext
  <1>6. CASE Restart
    <2>1. 0 \in Ids
      BY IdSpaceAssumption DEF Ids
    <2>2. sessions' \in [Conns -> SessionTable]
      BY <1>6, TableNone DEF Restart
    <2>3. stream' \in [Streams -> {NoStream} \cup
                         [at : {"reading", "connecting", "open", "done"}, conn : Conns]]
      BY <1>6 DEF Restart
    <2>4. /\ evict' \in [Conns -> {"none", "spawned", "watching", "gone"}]
          /\ pump' \in [Conns -> {"none", "spawned", "select", "opening", "gone"}]
          /\ opening' \in [Conns -> [id : Ids, port : Ports \cup {0}]]
      BY <1>6, <2>1 DEF Restart, Gone, Nothing
    <2>5. \A c \in Conns : pump'[c] # "opening"
      BY <1>6 DEF Restart, Gone
    <2>6. /\ buffered' \in [Conns -> 0..MaxBuffered]
          /\ link' \in [Conns -> {"none", "open", "refused", "revoked", "lost"}]
          /\ task' \in [Conns -> {"none", "accepted", "admitted", "serving", "ended"}]
          /\ live' \subseteq Peers
      BY <1>6, ServeAssumption DEF Restart
    <2>7. UNCHANGED <<sharedVars, seenE, gap, seenP>>
      BY <1>6 DEF Restart
    <2> QED
      BY <2>2, <2>3, <2>4, <2>5, <2>6, <2>7
  <1>7. CASE UNCHANGED vars
    BY <1>7 DEF vars
  <1> QED
    BY <1>1, <1>2, <1>3, <1>4, <1>5, <1>6, <1>7 DEF Next

(* The state of every task, table and stream stays within its type. *)
THEOREM TypeCorrect == Spec => []TypeOK
  <1> QED
    BY TypeInit, TypeNext, PTL DEF Spec

(***************************************************************************)
(* The invariant behind the three safety properties.  A connection goes    *)
(* through its stages in order: nothing is spawned for it before it is     *)
(* served, and its table stays empty until pump_udp runs.                  *)
(***************************************************************************)
Stages ==
    \A c \in Conns :
        /\ link[c] = "none" => task[c] = "none"
        /\ task[c] \in {"none", "accepted", "admitted"}
              => evict[c] = "none" /\ pump[c] = "none"
        /\ pump[c] \in {"none", "spawned"} => sessions[c] = NoEntries

LEMMA StagesInit == Init => Stages
  BY DEF Init, Stages

LEMMA StagesNext == TypeOK /\ Stages /\ [Next]_vars => Stages'
  <1> SUFFICES ASSUME TypeOK, Stages, [Next]_vars PROVE Stages'
    OBVIOUS
  <1> USE DEF TypeOK, Stages, sharedVars, connVars, evictVars, pumpVars
  <1>1. CASE Mutate
    BY <1>1 DEF Mutate
  <1>2. ASSUME NEW c \in Conns, ConnNext(c) PROVE Stages'
    <2>1. CASE Handshake(c)
      BY <2>1 DEF Handshake
    <2>2. CASE Lost(c)
      BY <2>2 DEF Lost
    <2>3. CASE Admit(c)
      BY <2>3 DEF Admit, Close
    <2>4. CASE Register(c)
      BY <2>4 DEF Register
    <2>5. CASE Teardown(c)
      BY <2>5 DEF Teardown
    <2> QED
      BY <1>2, <2>1, <2>2, <2>3, <2>4, <2>5 DEF ConnNext
  <1>3. ASSUME NEW c \in Conns, EvictNext(c) PROVE Stages'
    <2>1. CASE EvictSubscribe(c)
      BY <2>1 DEF EvictSubscribe
    <2>2. CASE EvictWake(c)
      BY <2>2 DEF EvictWake, EvictOn, Close
    <2>3. CASE EvictCancelled(c)
      BY <2>3 DEF EvictCancelled
    <2> QED
      BY <1>3, <2>1, <2>2, <2>3 DEF EvictNext
  <1>4. ASSUME NEW c \in Conns, PumpNext(c) PROVE Stages'
    <2>0. ReapIdle(NoEntries) = NoEntries
      BY DEF ReapIdle, Retain, Restrict, NoEntries
    <2>1. CASE PumpSubscribe(c)
      BY <2>1 DEF PumpSubscribe
    <2>2. CASE PumpConfig(c)
      BY <2>2 DEF PumpConfig
    <2>3. ASSUME NEW id \in Ids, NEW port \in Ports, PumpDatagram(c, id, port)
          PROVE  Stages'
      BY <2>3 DEF PumpDatagram, AcceptDatagram, ReadDatagram
    <2>4. CASE PumpOpened(c)
      BY <2>4 DEF PumpOpened
    <2>5. CASE PumpGone(c)
      BY <2>5 DEF PumpGone, Aborted
    <2>6. CASE Reap(c)
      BY <2>6, <2>0 DEF Reap
    <2>7. ASSUME NEW id \in Ids, Reply(c, id) PROVE Stages'
      BY <2>7 DEF Reply, NoEntries
    <2>8. ASSUME NEW id \in Ids, GoIdle(c, id) PROVE Stages'
      BY <2>8 DEF GoIdle, NoEntries
    <2>9. CASE Arrive(c)
      BY <2>9 DEF Arrive
    <2>10. CASE PumpRefused(c)
      BY <2>10 DEF PumpRefused, ReadDatagram
    <2> QED
      BY <1>4, <2>1, <2>2, <2>3, <2>4, <2>5, <2>6, <2>7, <2>8, <2>9, <2>10 DEF PumpNext
  <1>5. ASSUME NEW s \in Streams, StreamNext(s) PROVE Stages'
    BY <1>5 DEF StreamNext, AcceptStream, ReadPort, StreamConnected, StreamEnds
  <1>6. CASE Restart
    BY <1>6 DEF Restart, Gone
  <1>7. CASE UNCHANGED vars
    BY <1>7 DEF vars
  <1> QED
    BY <1>1, <1>2, <1>3, <1>4, <1>5, <1>6, <1>7 DEF Next

(***************************************************************************)
(* Which actions can disturb what: the steps that leave a part of the      *)
(* state alone, named once for the proofs below.                           *)
(***************************************************************************)
LEMMA NextCases ==
  ASSUME [Next]_vars
  PROVE  \/ Mutate \/ Restart
         \/ \E c \in Conns : ConnNext(c) \/ EvictNext(c) \/ PumpNext(c)
         \/ UNCHANGED <<sharedVars, connVars, evictVars, pumpVars>>
  BY DEF Next, vars, StreamNext, AcceptStream, ReadPort, StreamConnected,
         StreamEnds, sharedVars, connVars, evictVars, pumpVars

LEMMA PumpLeavesConn ==
  ASSUME NEW c \in Conns, PumpNext(c)
  PROVE  UNCHANGED <<sharedVars, connVars, evictVars>>
  BY DEF PumpNext, PumpSubscribe, PumpConfig, PumpDatagram,
         AcceptDatagram, ReadDatagram, PumpRefused, Arrive, PumpOpened, PumpGone,
         Reap, Reply, GoIdle

(***************************************************************************)
(* Spec => []NoGhostPeers                                                  *)
(***************************************************************************)
LEMMA GhostNext == TypeOK /\ Stages /\ NoGhostPeers /\ [Next]_vars => NoGhostPeers'
  <1> SUFFICES ASSUME TypeOK, Stages, NoGhostPeers, [Next]_vars PROVE NoGhostPeers'
    OBVIOUS
  <1> USE DEF TypeOK, Stages, NoGhostPeers, sharedVars, connVars
  <1>1. CASE Mutate
    BY <1>1 DEF Mutate
  <1>2. ASSUME NEW c \in Conns, ConnNext(c) PROVE NoGhostPeers'
    <2>1. CASE Handshake(c)
      BY <2>1 DEF Handshake
    <2>2. CASE Lost(c)
      BY <2>2 DEF Lost
    <2>3. CASE Admit(c)
      BY <2>3 DEF Admit
    <2>4. CASE Register(c)
      BY <2>4 DEF Register, PeerConnected
    <2>5. CASE Teardown(c)
      BY <2>5 DEF Teardown, PeerDisconnected
    <2> QED
      BY <1>2, <2>1, <2>2, <2>3, <2>4, <2>5 DEF ConnNext
  <1>3. ASSUME NEW c \in Conns, EvictNext(c) PROVE NoGhostPeers'
    BY <1>3 DEF EvictNext, EvictSubscribe, EvictWake, EvictOn, EvictCancelled
  <1>4. ASSUME NEW c \in Conns, PumpNext(c) PROVE NoGhostPeers'
    BY <1>4, PumpLeavesConn
  <1>5. CASE UNCHANGED <<sharedVars, connVars, evictVars, pumpVars>>
    BY <1>5
  <1>6. CASE Restart
    BY <1>6 DEF Restart
  <1> QED
    BY <1>1, <1>2, <1>3, <1>4, <1>5, <1>6, NextCases

(* No peer is shown as connected without a connection that is being served. *)
THEOREM GhostFree == Spec => []NoGhostPeers
  <1>1. Init => NoGhostPeers
    BY DEF Init, NoGhostPeers
  <1> QED
    BY <1>1, TypeInit, TypeNext, StagesInit, StagesNext, GhostNext, PTL DEF Spec

(***************************************************************************)
(* Spec => []NoMissedRevocation                                            *)
(***************************************************************************)
LEMMA RevocationNext ==
  TypeOK /\ Stages /\ NoMissedRevocation /\ [Next]_vars => NoMissedRevocation'
  <1> SUFFICES ASSUME TypeOK, Stages, NoMissedRevocation, [Next]_vars
               PROVE  NoMissedRevocation'
    OBVIOUS
  <1> USE DEF TypeOK, Stages, NoMissedRevocation, Revoked, sharedVars, connVars, evictVars
  <1>1. CASE Mutate
    <2>1. \A c \in Conns : seenE[c] # ver + 1
      OBVIOUS
    <2> QED
      BY <1>1, <2>1 DEF Mutate
  <1>2. ASSUME NEW c \in Conns, ConnNext(c) PROVE NoMissedRevocation'
    <2>1. CASE Handshake(c)
      BY <2>1 DEF Handshake
    <2>2. CASE Lost(c)
      BY <2>2 DEF Lost
    <2>3. CASE Admit(c)
      BY <2>3 DEF Admit, Close
    <2>4. CASE Register(c)
      BY <2>4 DEF Register
    <2>5. CASE Teardown(c)
      BY <2>5 DEF Teardown
    <2> QED
      BY <1>2, <2>1, <2>2, <2>3, <2>4, <2>5 DEF ConnNext
  <1>3. ASSUME NEW c \in Conns, EvictNext(c) PROVE NoMissedRevocation'
    <2>1. CASE EvictSubscribe(c)
      BY <2>1 DEF EvictSubscribe
    <2>2. CASE EvictWake(c)
      BY <2>2 DEF EvictWake, EvictOn, Close
    <2>3. CASE EvictCancelled(c)
      BY <2>3 DEF EvictCancelled
    <2> QED
      BY <1>3, <2>1, <2>2, <2>3 DEF EvictNext
  <1>4. ASSUME NEW c \in Conns, PumpNext(c) PROVE NoMissedRevocation'
    BY <1>4, PumpLeavesConn
  <1>5. CASE UNCHANGED <<sharedVars, connVars, evictVars, pumpVars>>
    BY <1>5
  <1>6. CASE Restart
    BY <1>6 DEF Restart, Gone
  <1> QED
    BY <1>1, <1>2, <1>3, <1>4, <1>5, <1>6, NextCases

(* The eviction watcher, once subscribed, never loses a revocation. *)
THEOREM RevocationNoticed == Spec => []NoMissedRevocation
  <1>1. Init => NoMissedRevocation
    BY DEF Init, NoMissedRevocation
  <1> QED
    BY <1>1, TypeInit, TypeNext, StagesInit, StagesNext, RevocationNext, PTL DEF Spec

(***************************************************************************)
(* Spec => []NoStaleSession                                                *)
(***************************************************************************)
LEMMA StaleNext == TypeOK /\ Stages /\ NoStaleSession /\ [Next]_vars => NoStaleSession'
  <1> SUFFICES ASSUME TypeOK, Stages, NoStaleSession, [Next]_vars
               PROVE  NoStaleSession'
    OBVIOUS
  <1> USE DEF TypeOK, Stages, NoStaleSession, MayUse, sharedVars, connVars, pumpVars
  <1>1. CASE Mutate
    <2>1. \A c \in Conns : seenP[c] # ver + 1
      OBVIOUS
    <2> QED
      BY <1>1, <2>1 DEF Mutate
  <1>2. ASSUME NEW c \in Conns, ConnNext(c) PROVE NoStaleSession'
    <2>1. CASE Handshake(c)
      BY <2>1 DEF Handshake
    <2>2. CASE Lost(c)
      BY <2>2 DEF Lost
    <2>3. CASE Admit(c)
      BY <2>3 DEF Admit
    <2>4. CASE Register(c)
      BY <2>4 DEF Register
    <2>5. CASE Teardown(c)
      BY <2>5 DEF Teardown, NoEntries
    <2> QED
      BY <1>2, <2>1, <2>2, <2>3, <2>4, <2>5 DEF ConnNext
  <1>3. ASSUME NEW c \in Conns, EvictNext(c) PROVE NoStaleSession'
    BY <1>3 DEF EvictNext, EvictSubscribe, EvictWake, EvictOn, EvictCancelled
  <1>4. ASSUME NEW c \in Conns, PumpNext(c) PROVE NoStaleSession'
    <2>1. CASE PumpSubscribe(c)
      BY <2>1 DEF PumpSubscribe, NoEntries
    <2>2. CASE PumpConfig(c)
      BY <2>2 DEF PumpConfig, DropUngranted, Retain, Restrict
    <2>3. ASSUME NEW id \in Ids, NEW port \in Ports, PumpDatagram(c, id, port)
          PROVE  NoStaleSession'
      <3>1. CASE id \in DOMAIN sessions[c]
        <4>1. sessions' = [sessions EXCEPT ![c] = Touch(@, id)] /\ UNCHANGED <<pump, opening>>
          BY <2>3, <3>1 DEF PumpDatagram, AcceptDatagram, ReadDatagram
        <4>2. UNCHANGED <<sharedVars, connVars, seenP>>
          BY <2>3 DEF PumpDatagram, AcceptDatagram, ReadDatagram
        <4> QED
          BY <4>1, <4>2 DEF Touch
      <3>2. CASE id \notin DOMAIN sessions[c]
        BY <2>3, <3>2 DEF PumpDatagram, AcceptDatagram, ReadDatagram
      <3> QED
        BY <3>1, <3>2
    <2>4. CASE PumpOpened(c)
      BY <2>4 DEF PumpOpened, With
    <2>5. CASE PumpGone(c)
      BY <2>5 DEF PumpGone
    <2>6. CASE Reap(c)
      BY <2>6 DEF Reap, ReapIdle, Retain, Restrict
    <2>7. ASSUME NEW id \in Ids, Reply(c, id) PROVE NoStaleSession'
      BY <2>7 DEF Reply, Touch
    <2>8. ASSUME NEW id \in Ids, GoIdle(c, id) PROVE NoStaleSession'
      BY <2>8 DEF GoIdle, Silence
    <2>9. CASE Arrive(c)
      BY <2>9 DEF Arrive
    <2>10. CASE PumpRefused(c)
      BY <2>10 DEF PumpRefused, ReadDatagram
    <2> QED
      BY <1>4, <2>1, <2>2, <2>3, <2>4, <2>5, <2>6, <2>7, <2>8, <2>9, <2>10 DEF PumpNext
  <1>5. CASE UNCHANGED <<sharedVars, connVars, evictVars, pumpVars>>
    BY <1>5
  <1>6. CASE Restart
    BY <1>6 DEF Restart, Gone
  <1> QED
    BY <1>1, <1>2, <1>3, <1>4, <1>5, <1>6, NextCases

(* A session on a withdrawn port always has a config change to be closed by. *)
THEOREM SessionsFollowGrants == Spec => []NoStaleSession
  <1>1. Init => NoStaleSession
    BY DEF Init, NoStaleSession
  <1> QED
    BY <1>1, TypeInit, TypeNext, StagesInit, StagesNext, StaleNext, PTL DEF Spec

(***************************************************************************)
(* Spec => []LeftoversAreFew                                               *)
(*                                                                         *)
(* Once a connection is torn down its link is closed, so no datagram       *)
(* arrives on it any more.  What it has left is counted by Left, which no  *)
(* step of pump_udp raises: a datagram is read before a session is opened  *)
(* for it, and the session is no longer being opened once it is inserted.  *)
(***************************************************************************)
Torn ==
    \A c \in Conns :
        task[c] = "ended" => link[c] # "open" /\ Left(c) <= MaxBuffered + 1

LEMMA TableFinite ==
  ASSUME NEW t \in SessionTable
  PROVE  IsFiniteSet(DOMAIN t) /\ Cardinality(DOMAIN t) \in Nat
  <1>1. IsFiniteSet(Ids)
    BY IdSpaceAssumption, FS_Interval DEF Ids
  <1> QED
    BY <1>1, TableShape, FS_Subset, FS_CardinalityType

LEMMA LeftIs ==
  ASSUME TypeOK, NEW c \in Conns
  PROVE  /\ Cardinality(DOMAIN sessions[c]) \in Nat /\ buffered[c] \in Nat
         /\ Left(c) = Cardinality(DOMAIN sessions[c]) + buffered[c]
                         + (IF pump[c] = "opening" THEN 1 ELSE 0)
  BY TableFinite DEF TypeOK, Left

(* Other connections keep what they have. *)
LEMMA LeftOfOthers ==
  ASSUME TypeOK, NEW c \in Conns, PumpNext(c), NEW d \in Conns \ {c}
  PROVE  Left(d)' = Left(d)
  <1>1. sessions'[d] = sessions[d] /\ buffered'[d] = buffered[d] /\ pump'[d] = pump[d]
    BY DEF TypeOK, PumpNext, PumpSubscribe, PumpConfig, PumpDatagram, AcceptDatagram,
           ReadDatagram, PumpRefused, Arrive, PumpOpened, PumpGone, Reap, Reply,
           GoIdle, pumpVars
  <1> QED
    BY <1>1 DEF Left

(* No entry is added to a table that is not opening a session. *)
LEMMA TableShrinks ==
  ASSUME TypeOK, TypeOK', NEW c \in Conns, DOMAIN sessions'[c] \subseteq DOMAIN sessions[c]
  PROVE  Cardinality(DOMAIN sessions'[c]) <= Cardinality(DOMAIN sessions[c])
  BY TableFinite, FS_Subset DEF TypeOK

LEMMA LeftShrinks ==
  ASSUME TypeOK, TypeOK', NEW c \in Conns, PumpNext(c), link[c] # "open"
  PROVE  Left(c)' <= Left(c)
  <1>0. /\ Cardinality(DOMAIN sessions[c]) \in Nat /\ buffered[c] \in Nat
        /\ Left(c) = Cardinality(DOMAIN sessions[c]) + buffered[c]
                        + (IF pump[c] = "opening" THEN 1 ELSE 0)
    BY LeftIs
  <1>00. /\ Cardinality(DOMAIN sessions'[c]) \in Nat /\ buffered'[c] \in Nat
         /\ Left(c)' = Cardinality(DOMAIN sessions'[c]) + buffered'[c]
                          + (IF pump'[c] = "opening" THEN 1 ELSE 0)
    BY TableFinite DEF TypeOK, Left
  <1> USE DEF TypeOK
  (* The steps that open nothing. *)
  <1>1. ASSUME DOMAIN sessions'[c] \subseteq DOMAIN sessions[c],
               buffered'[c] <= buffered[c],
               pump'[c] = "opening" => pump[c] = "opening"
        PROVE  Left(c)' <= Left(c)
    <2>1. Cardinality(DOMAIN sessions'[c]) <= Cardinality(DOMAIN sessions[c])
      BY <1>1, TableShrinks
    <2> QED
      BY <1>0, <1>00, <1>1, <2>1
  <1>2. CASE PumpSubscribe(c)
    BY <1>1, <1>2 DEF PumpSubscribe
  <1>3. CASE PumpConfig(c)
    BY <1>1, <1>3 DEF PumpConfig, DropUngranted, Retain, Restrict
  <1>4. ASSUME NEW id \in Ids, NEW port \in Ports, PumpDatagram(c, id, port)
        PROVE  Left(c)' <= Left(c)
    <2>1. pump[c] = "select" /\ buffered'[c] = buffered[c] - 1
      BY <1>4 DEF PumpDatagram, AcceptDatagram, ReadDatagram
    <2>2. DOMAIN sessions'[c] = DOMAIN sessions[c]
      <3>1. CASE id \in DOMAIN sessions[c]
        BY <1>4, <3>1 DEF PumpDatagram, AcceptDatagram, Touch
      <3>2. CASE id \notin DOMAIN sessions[c]
        BY <1>4, <3>2 DEF PumpDatagram, AcceptDatagram
      <3> QED
        BY <3>1, <3>2
    <2> QED
      BY <1>0, <1>00, <2>1, <2>2
  <1>5. CASE PumpOpened(c)
    <2>1. pump[c] = "opening" /\ pump'[c] = "select" /\ buffered'[c] = buffered[c]
      BY <1>5 DEF PumpOpened
    <2>2. CASE UNCHANGED sessions
      BY <1>1, <2>1, <2>2
    <2>3. CASE sessions' = [sessions EXCEPT ![c] =
                  With(@, opening[c].id, [port |-> opening[c].port, idle |-> FALSE])]
      <3>1. DOMAIN sessions'[c] = DOMAIN sessions[c] \cup {opening[c].id}
        <4>1. sessions'[c] = With(sessions[c], opening[c].id,
                                  [port |-> opening[c].port, idle |-> FALSE])
          BY <2>3
        <4> QED
          BY <4>1 DEF With
      <3>2. Cardinality(DOMAIN sessions'[c]) <= Cardinality(DOMAIN sessions[c]) + 1
        <4>1. IsFiniteSet(DOMAIN sessions[c])
          BY TableFinite
        <4>2. Cardinality(DOMAIN sessions[c] \cup {opening[c].id})
                 = IF opening[c].id \in DOMAIN sessions[c]
                   THEN Cardinality(DOMAIN sessions[c])
                   ELSE Cardinality(DOMAIN sessions[c]) + 1
          BY <4>1, FS_AddElement
        <4> QED
          BY <1>0, <3>1, <4>2
      <3> QED
        BY <1>0, <1>00, <2>1, <3>2
    <2> QED
      BY <1>5, <2>2, <2>3 DEF PumpOpened
  <1>6. CASE PumpGone(c)
    BY <1>1, <1>6 DEF PumpGone
  <1>7. CASE Reap(c)
    BY <1>1, <1>7 DEF Reap, ReapIdle, Retain, Restrict
  <1>8. ASSUME NEW id \in Ids, Reply(c, id) PROVE Left(c)' <= Left(c)
    BY <1>1, <1>8 DEF Reply, Touch
  <1>9. ASSUME NEW id \in Ids, GoIdle(c, id) PROVE Left(c)' <= Left(c)
    BY <1>1, <1>9 DEF GoIdle, Silence
  <1>10. CASE Arrive(c)
    BY <1>10 DEF Arrive
  <1>11. CASE PumpRefused(c)
    BY <1>1, <1>11 DEF PumpRefused, ReadDatagram
  <1> QED
    BY <1>2, <1>3, <1>4, <1>5, <1>6, <1>7, <1>8, <1>9, <1>10, <1>11 DEF PumpNext

LEMMA TornNext == TypeOK /\ TypeOK' /\ Stages /\ Torn /\ [Next]_vars => Torn'
  <1> SUFFICES ASSUME TypeOK, TypeOK', Stages, Torn, [Next]_vars PROVE Torn'
    OBVIOUS
  (* A table that is cleared. *)
  <1>0. ASSUME NEW c \in Conns, sessions'[c] = NoEntries PROVE Left(c)' <= MaxBuffered + 1
    <2>1. Cardinality(DOMAIN sessions'[c]) = 0
      BY <1>0, FS_EmptySet DEF NoEntries
    <2>2. buffered'[c] \in 0..MaxBuffered
      BY DEF TypeOK
    <2> QED
      BY <2>1, <2>2, ServeAssumption DEF Left
  <1>00. ASSUME UNCHANGED <<sessions, buffered, pump>>, NEW c \in Conns
         PROVE  Left(c)' = Left(c)
    BY <1>00 DEF Left
  <1> USE DEF Torn, sharedVars, connVars
  <1>1. CASE Mutate
    BY <1>1, <1>00 DEF Mutate, pumpVars
  <1>2. ASSUME NEW c \in Conns, ConnNext(c) PROVE Torn'
    <2>1. CASE Handshake(c)
      BY <1>00, <2>1 DEF Handshake, pumpVars, TypeOK, Stages
    <2>2. CASE Lost(c)
      BY <1>00, <2>2 DEF Lost, pumpVars, TypeOK
    <2>3. CASE Admit(c)
      <3>1. sessions[c] = NoEntries /\ UNCHANGED <<sessions, buffered, pump>>
        BY <2>3 DEF Admit, Stages, pumpVars
      <3> QED
        BY <1>0, <1>00, <2>3, <3>1 DEF Admit, Close, TypeOK
    <2>4. CASE Register(c)
      <3>1. task' = [task EXCEPT ![c] = "serving"] /\ UNCHANGED <<link, sessions, buffered>>
        BY <2>4 DEF Register
      <3>2. \A d \in Conns \ {c} : Left(d)' = Left(d)
        BY <2>4 DEF Register, Left, TypeOK
      <3> QED
        BY <3>1, <3>2 DEF TypeOK
    <2>5. CASE Teardown(c)
      <3>1. /\ link[c] # "open" /\ task' = [task EXCEPT ![c] = "ended"]
            /\ sessions' = [sessions EXCEPT ![c] = NoEntries]
            /\ UNCHANGED <<link, buffered, pump>>
        BY <2>5 DEF Teardown
      <3>2. \A d \in Conns \ {c} : Left(d)' = Left(d)
        BY <3>1 DEF Left, TypeOK
      <3> QED
        BY <1>0, <3>1, <3>2 DEF TypeOK
    <2> QED
      BY <1>2, <2>1, <2>2, <2>3, <2>4, <2>5 DEF ConnNext
  <1>3. ASSUME NEW c \in Conns, EvictNext(c) PROVE Torn'
    <2>1. UNCHANGED <<sessions, buffered, pump, task>>
      BY <1>3 DEF EvictNext, EvictSubscribe, EvictWake, EvictOn, EvictCancelled, pumpVars
    <2>2. \A d \in Conns : link[d] # "open" => link'[d] # "open"
      BY <1>3 DEF EvictNext, EvictSubscribe, EvictWake, EvictOn, EvictCancelled, Close, TypeOK
    <2> QED
      BY <1>00, <2>1, <2>2
  <1>4. ASSUME NEW c \in Conns, PumpNext(c) PROVE Torn'
    <2>1. UNCHANGED <<link, task>>
      BY <1>4, PumpLeavesConn
    <2>2. \A d \in Conns \ {c} : Left(d)' = Left(d)
      BY <1>4, LeftOfOthers
    <2>3. task[c] = "ended" => Left(c)' <= MaxBuffered + 1
      <3> SUFFICES ASSUME task[c] = "ended" PROVE Left(c)' <= MaxBuffered + 1
        OBVIOUS
      <3>1. Left(c)' <= Left(c)
        BY <1>4, LeftShrinks
      <3>2. Left(c) \in Int /\ Left(c)' \in Int
        BY TableFinite DEF TypeOK, Left
      <3> QED
        BY <3>1, <3>2, ServeAssumption
    <2> QED
      BY <2>1, <2>2, <2>3
  <1>5. CASE UNCHANGED <<sharedVars, connVars, evictVars, pumpVars>>
    BY <1>00, <1>5 DEF pumpVars
  <1>6. CASE Restart
    BY <1>0, <1>6 DEF Restart, TypeOK
  <1> QED
    BY <1>1, <1>2, <1>3, <1>4, <1>5, <1>6, NextCases

(* What a teardown leaves is bounded by what was received before it, and never
   grows again. *)
THEOREM TornDown == Spec => []LeftoversAreFew
  <1>1. Init => Torn
    BY DEF Init, Torn
  <1>2. Torn => LeftoversAreFew
    BY DEF Torn, LeftoversAreFew
  <1> QED
    BY <1>1, <1>2, TypeInit, TypeNext, StagesInit, StagesNext, TornNext, PTL DEF Spec
=============================================================================
