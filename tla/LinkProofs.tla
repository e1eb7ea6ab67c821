----------------------------- MODULE LinkProofs -----------------------------
(***************************************************************************)
(* Theorems about Link, for any peers, edits and number of connections.    *)
(***************************************************************************)
EXTENDS Link, TLAPS

(***************************************************************************)
(* What a step of either side does to the state the theorems are about.    *)
(***************************************************************************)
(* A connection that was never opened has no task. *)
Fresh ==
    /\ link \in [Conns -> {"none", "open", "refused", "revoked", "lost"}]
    /\ task \in [Conns -> {"none", "accepted", "admitted", "serving", "ended"}]
    /\ live \subseteq Peers
    /\ \A c \in Conns : link[c] = "none" => task[c] = "none"

LEMMA CloseOnlyOpen ==
  ASSUME Fresh, NEW c \in Conns, NEW why \in {"refused", "revoked"}, Close(c, why)
  PROVE  /\ link' \in [Conns -> {"none", "open", "refused", "revoked", "lost"}]
         /\ \A d \in Conns : /\ link'[d] = "none" => link[d] = "none"
                             /\ link[d] \in {"refused", "revoked"} => link'[d] = link[d]
  BY DEF Fresh, Close

LEMMA NearIsQuiet ==
  ASSUME NearRuns \/ \E c \in Conns : NearIsTold(c) \/ NearTimesOut(c)
  PROVE  UNCHANGED <<vars, overlapped>>
  BY DEF NearRuns, NearIsTold, NearTimesOut

LEMMA FreshNext == Fresh /\ [LinkNext]_allVars => Fresh'
  <1> SUFFICES ASSUME Fresh, [LinkNext]_allVars PROVE Fresh'
    OBVIOUS
  <1>1. CASE UNCHANGED vars
    BY <1>1 DEF vars, connVars, Fresh
  <1>2. CASE NearRuns \/ \E c \in Conns : NearIsTold(c) \/ NearTimesOut(c)
    BY <1>1, <1>2, NearIsQuiet
  <1>3. CASE Dial
    BY <1>3 DEF Dial, Handshake, Fresh
  <1>4. ASSUME NEW c \in Conns, FarTimesOut(c) PROVE Fresh'
    BY <1>4 DEF FarTimesOut, Lost, Fresh
  <1>5. ASSUME NEW c \in Conns, FarEnds(c) PROVE Fresh'
    BY <1>5 DEF FarEnds, Teardown, PeerDisconnected, Fresh
  <1>6. CASE Mutate
    BY <1>6 DEF Mutate, connVars, Fresh
  <1>7. ASSUME NEW c \in Conns, Admit(c) PROVE Fresh'
    BY <1>7, CloseOnlyOpen DEF Admit, Fresh
  <1>8. ASSUME NEW c \in Conns, Register(c) PROVE Fresh'
    BY <1>8, ServeAssumption DEF Register, PeerConnected, Fresh
  <1>9. ASSUME NEW c \in Conns, EvictNext(c) PROVE Fresh'
    BY <1>9, CloseOnlyOpen
       DEF EvictNext, EvictSubscribe, EvictWake, EvictOn, EvictCancelled, connVars, Fresh
  <1>10. CASE FarRestarts
    BY <1>10 DEF FarRestarts, Restart, Fresh
  <1> QED
    BY <1>1, <1>2, <1>3, <1>4, <1>5, <1>6, <1>7, <1>8, <1>9, <1>10
       DEF LinkNext, FarRuns, allVars

LEMMA FreshInit == LinkInit => Fresh
  BY DEF LinkInit, Init, Fresh

(* A connection that was registered at some time. *)
Began(c) == task[c] \in {"serving", "ended"}

(* Which steps touch who is served and who is shown. *)
LEMMA LiveSteps ==
  ASSUME Fresh, [LinkNext]_allVars
  PROVE  \/ /\ UNCHANGED <<live, overlapped>>
            /\ \A c \in Conns : /\ task'[c] = "serving" <=> task[c] = "serving"
                                /\ Began(c) => Began(c)'
         \/ /\ overlapped' = overlapped
            /\ \E c \in Conns : Register(c)
         \/ \E c \in Conns : FarEnds(c)
         \/ FarRestarts
  <1>1. CASE UNCHANGED <<vars, overlapped>>
    BY <1>1 DEF vars, connVars, Began
  <1>2. CASE NearRuns \/ \E c \in Conns : NearIsTold(c) \/ NearTimesOut(c)
    BY <1>1, <1>2, NearIsQuiet
  <1>3. CASE Dial
    BY <1>3 DEF Dial, Handshake, Fresh, Began
  <1>4. ASSUME NEW c \in Conns, FarTimesOut(c)
        PROVE  UNCHANGED <<live, overlapped, task>>
    BY <1>4 DEF FarTimesOut, Lost
  <1>5. ASSUME Mutate, UNCHANGED overlapped
        PROVE  UNCHANGED <<live, overlapped, task>>
    BY <1>5 DEF Mutate, connVars
  <1>6. ASSUME NEW c \in Conns, Admit(c), UNCHANGED overlapped
        PROVE  /\ UNCHANGED <<live, overlapped>>
               /\ \A d \in Conns : /\ task'[d] = "serving" <=> task[d] = "serving"
                                   /\ Began(d) => Began(d)'
    BY <1>6 DEF Admit, Fresh, Began
  <1>7. ASSUME NEW c \in Conns, EvictNext(c), UNCHANGED overlapped
        PROVE  UNCHANGED <<live, overlapped, task>>
    BY <1>7 DEF EvictNext, EvictSubscribe, EvictWake, EvictOn, EvictCancelled, connVars
  <1> QED
    BY <1>1, <1>2, <1>3, <1>4, <1>5, <1>6, <1>7 DEF LinkNext, FarRuns, allVars, Began

LEMMA AlwaysFresh == LinkSpec => []Fresh
  BY FreshInit, FreshNext, PTL DEF LinkSpec

(* What was overlapped had been registered before: a connection that is
   registered now is shown. *)
Overlaps == \A c \in Conns : c \in overlapped => Began(c)

(* peer_connected, peer_disconnected: the live table has exactly the peers with a
   served connection that was there at no other's end. *)
THEOREM ShownWhileServed == LinkSpec => []ShownUnlessOverlapped
  <1> DEFINE Exact == Overlaps /\ ShownUnlessOverlapped
  <1>1. LinkInit => Exact
    BY DEF LinkInit, Init, Overlaps, ShownUnlessOverlapped
  <1>2. Fresh /\ Exact /\ [LinkNext]_allVars => Exact'
    <2> SUFFICES ASSUME Fresh, Overlaps, ShownUnlessOverlapped, [LinkNext]_allVars
                 PROVE  Exact'
      OBVIOUS
    <2>1. CASE /\ UNCHANGED <<live, overlapped>>
               /\ \A c \in Conns : /\ task'[c] = "serving" <=> task[c] = "serving"
                                   /\ Began(c) => Began(c)'
      BY <2>1 DEF Overlaps, ShownUnlessOverlapped
    <2>2. ASSUME NEW c \in Conns, Register(c), overlapped' = overlapped
          PROVE  Exact'
      <3>1. c \notin overlapped
        BY <2>2 DEF Register, Overlaps, Began
      <3>2. task' = [task EXCEPT ![c] = "serving"] /\ live' = live \cup {PeerOf[c]}
        BY <2>2 DEF Register, PeerConnected
      <3> QED
        BY <2>2, <3>1, <3>2 DEF Fresh, Overlaps, Began, ShownUnlessOverlapped
    <2>3. ASSUME NEW c \in Conns, FarEnds(c)
          PROVE  Exact'
      <3>1. /\ task[c] = "serving" /\ task' = [task EXCEPT ![c] = "ended"]
            /\ live' = live \ {PeerOf[c]}
            /\ overlapped' = overlapped \cup
                 {d \in Conns \ {c} : task[d] = "serving" /\ PeerOf[d] = PeerOf[c]}
        BY <2>3 DEF FarEnds, Teardown, PeerDisconnected
      <3> QED
        BY <3>1 DEF Fresh, Overlaps, Began, ShownUnlessOverlapped
    <2>4. CASE FarRestarts
      BY <2>4 DEF FarRestarts, Restart, Fresh, Overlaps, Began, ShownUnlessOverlapped
    <2> QED
      BY <2>1, <2>2, <2>3, <2>4, LiveSteps
  <1> QED
    BY <1>1, <1>2, AlwaysFresh, PTL DEF LinkSpec

(* peer_disconnected: whatever is lost or restarted, no entry outlives the last
   served connection of its peer. *)
THEOREM NoGhosts == LinkSpec => []NoGhostPeers
  <1>1. LinkInit => NoGhostPeers
    BY DEF LinkInit, Init, NoGhostPeers
  <1>2. Fresh /\ NoGhostPeers /\ [LinkNext]_allVars => NoGhostPeers'
    <2> SUFFICES ASSUME Fresh, NoGhostPeers, [LinkNext]_allVars PROVE NoGhostPeers'
      OBVIOUS
    <2>1. CASE /\ UNCHANGED <<live, overlapped>>
               /\ \A c \in Conns : /\ task'[c] = "serving" <=> task[c] = "serving"
                                   /\ Began(c) => Began(c)'
      BY <2>1 DEF NoGhostPeers
    <2>2. ASSUME NEW c \in Conns, Register(c)
          PROVE  NoGhostPeers'
      BY <2>2 DEF Register, PeerConnected, Fresh, NoGhostPeers
    <2>3. ASSUME NEW c \in Conns, FarEnds(c)
          PROVE  NoGhostPeers'
      BY <2>3 DEF FarEnds, Teardown, PeerDisconnected, Fresh, NoGhostPeers
    <2>4. CASE FarRestarts
      BY <2>4 DEF FarRestarts, Restart, NoGhostPeers
    <2> QED
      BY <2>1, <2>2, <2>3, <2>4, LiveSteps
  <1> QED
    BY <1>1, <1>2, AlwaysFresh, PTL DEF LinkSpec

(***************************************************************************)
(* Who gives up.                                                           *)
(***************************************************************************)

(* The connecting side knows of a close only if there was one, and has ended
   only on a connection that was closed. *)
Told ==
    /\ conn \in Nat
    /\ near \in [1..MaxConn -> {"none", "open", "lost", "closed"}]
    /\ \A c \in Conns : near[c] = "closed" => link[c] \in {"refused", "revoked"}
    /\ phase \in {"up", "exited"} => conn \in Conns
    /\ phase = "exited" => near[conn] = "closed"

(* A close is final. *)
LEMMA ClosesStay ==
  ASSUME Fresh, [LinkNext]_allVars, NEW d \in Conns, link[d] \in {"refused", "revoked"}
  PROVE  link'[d] = link[d]
  <1>1. CASE UNCHANGED vars
    BY <1>1 DEF vars, connVars
  <1>2. CASE NearRuns \/ \E c \in Conns : NearIsTold(c) \/ NearTimesOut(c)
    BY <1>1, <1>2, NearIsQuiet
  <1>3. CASE Dial
    BY <1>3 DEF Dial, Handshake, Fresh
  <1>4. ASSUME NEW c \in Conns, FarTimesOut(c) PROVE link'[d] = link[d]
    BY <1>4 DEF FarTimesOut, Lost, Fresh
  <1>5. ASSUME NEW c \in Conns, FarEnds(c) PROVE link'[d] = link[d]
    BY <1>5 DEF FarEnds, Teardown
  <1>6. CASE Mutate
    BY <1>6 DEF Mutate, connVars
  <1>7. ASSUME NEW c \in Conns, Admit(c) PROVE link'[d] = link[d]
    BY <1>7, CloseOnlyOpen DEF Admit
  <1>8. ASSUME NEW c \in Conns, Register(c) PROVE link'[d] = link[d]
    BY <1>8 DEF Register
  <1>9. ASSUME NEW c \in Conns, EvictNext(c) PROVE link'[d] = link[d]
    BY <1>9, CloseOnlyOpen
       DEF EvictNext, EvictSubscribe, EvictWake, EvictOn, EvictCancelled, connVars
  <1>10. CASE FarRestarts
    BY <1>10 DEF FarRestarts, Restart, Fresh
  <1> QED
    BY <1>1, <1>2, <1>3, <1>4, <1>5, <1>6, <1>7, <1>8, <1>9, <1>10
       DEF LinkNext, FarRuns, allVars

(* A configuration without bindings asks for no listener. *)
LEMMA NothingWanted == DOMAIN Near!Wanted(EmptyConfig) = {}
  <1>1. Near!ActiveBindings(EmptyConfig) = {}
    BY DEF Near!ActiveBindings, Near!Entries, EmptyConfig
  <1> QED
    BY <1>1 DEF Near!Wanted

(* A step of the connecting side while it learns nothing. *)
LEMMA NearSteps ==
  ASSUME Told, [LinkNext]_allVars
  PROVE  \/ UNCHANGED nearVars
         \/ /\ UNCHANGED <<conn, near>> /\ phase' \notin {"up", "exited"}
         \/ /\ UNCHANGED <<conn, near>> /\ phase = "up" /\ near[conn] = "closed"
         \/ Dial
         \/ \E c \in Conns : NearIsTold(c) \/ NearTimesOut(c)
  <1>1. [EmptyConfig EXCEPT !.bindings = <<>>] = EmptyConfig
    BY DEF EmptyConfig
  <1>2. CASE NearRuns
    <2>1. CASE Near!Start
      BY <1>1, <2>1, NothingWanted DEF Near!Start, Near!linkVars
    <2>2. CASE Near!Closed
      BY <2>2 DEF Near!Closed, Near!linkVars
    <2>3. CASE Near!Subscribe \/ Near!DialFails \/ Near!Retry
      BY <2>3 DEF Near!Subscribe, Near!DialFails, Near!Retry, Near!linkVars
    <2> QED
      BY <1>2, <2>1, <2>2, <2>3 DEF NearRuns
  <1>3. CASE FarRuns \/ FarRestarts \/ \E c \in Conns : FarTimesOut(c) \/ FarEnds(c)
    BY <1>3 DEF FarRuns, FarRestarts, FarTimesOut, FarEnds
  <1>4. CASE UNCHANGED allVars
    BY <1>4 DEF allVars
  <1> QED
    BY <1>2, <1>3, <1>4 DEF LinkNext

LEMMA ToldNext ==
  ASSUME Fresh, Told, [LinkNext]_allVars
  PROVE  Told'
  <1> USE LinkAssumption
  <1>0. \A c \in Conns : link[c] \in {"refused", "revoked"} => link'[c] = link[c]
    BY ClosesStay
  <1>1. CASE UNCHANGED nearVars
    BY <1>0, <1>1 DEF nearVars, Told
  <1>2. CASE UNCHANGED <<conn, near>> /\ phase' \notin {"up", "exited"}
    BY <1>0, <1>2 DEF Told
  <1>3. CASE UNCHANGED <<conn, near>> /\ phase = "up" /\ near[conn] = "closed"
    <2>1. conn \in Conns
      BY <1>3 DEF Told
    <2> QED
      BY <1>0, <1>3, <2>1 DEF Told
  <1>4. CASE Dial
    <2>1. /\ conn' = conn + 1 /\ conn + 1 \in 1..MaxConn /\ phase' = "up"
          /\ near' = [near EXCEPT ![conn + 1] = "open"]
      BY <1>4 DEF Dial, Near!Dialed, Told
    <2> QED
      BY <1>0, <2>1 DEF Told
  <1>5. ASSUME NEW c \in Conns, NearIsTold(c)
        PROVE  Told'
    BY <1>0, <1>5 DEF NearIsTold, Near!LinkEnds, Told
  <1>6. ASSUME NEW c \in Conns, NearTimesOut(c)
        PROVE  Told'
    BY <1>0, <1>6 DEF NearTimesOut, Near!LinkEnds, Told
  <1> QED
    BY <1>1, <1>2, <1>3, <1>4, <1>5, <1>6, NearSteps

(* connect.rs, serve.rs: the connecting process gives up only when the serving
   side refused or revoked it; no lost link, restart or timeout does that. *)
THEOREM OnlyRefusalEnds == LinkSpec => []OnlyRefusalEndsNear
  <1>1. LinkInit => Told
    BY LinkAssumption DEF LinkInit, Near!Init, Near!Links, Told
  <1>2. Fresh /\ Told /\ [LinkNext]_allVars => Told'
    BY ToldNext
  <1>3. Told => OnlyRefusalEndsNear
    BY DEF Told, OnlyRefusalEndsNear
  <1> QED
    BY <1>1, <1>2, <1>3, AlwaysFresh, PTL DEF LinkSpec
=============================================================================
