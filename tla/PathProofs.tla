---------------------------- MODULE PathProofs ----------------------------
(***************************************************************************)
(* Theorems about PathReport, for any connections, paths and bounds.       *)
(***************************************************************************)
EXTENDS PathReport, SequenceTheorems, TLAPS

EntryOK == entry \subseteq Paths \cup {Pending} /\ \A p, q \in entry : p = q

Reads == /\ events \in [Conns -> Seq(Paths)]
         /\ \A c \in Conns : Len(events[c]) <= MaxEvents

(* The rest of TypeOK. *)
ConnsOK ==
    /\ role \in {"serve", "connect"}
    /\ at \in [Conns -> {"none", "opened", "served", "ended"}]
    /\ open \in [Conns -> BOOLEAN]
    /\ path \in [Conns -> Paths \cup {Pending}]
    /\ changes \in [Conns -> 0..MaxChanges]
    /\ reporter \in [Conns -> {"none", "spawned", "reading", "gone"}]

LEMMA TypeParts == TypeOK <=> ConnsOK /\ EntryOK /\ Reads
  BY DEF TypeOK, ConnsOK, EntryOK, Reads

(* A report changes an entry that is there, to what it reports. *)
LEMMA ReportKeeps ==
  ASSUME EntryOK, NEW p \in Paths \cup {Pending}, entry' = PeerPath(p)
  PROVE  EntryOK' /\ (entry' # {} => entry # {})
  BY DEF EntryOK, PeerPath

LEMMA ConnectedKeeps ==
  ASSUME EntryOK, NEW c \in Conns, PeerConnected(c)
  PROVE  EntryOK'
  BY DEF EntryOK, PeerConnected

(* Calls happen in `run` only, and each leaves one entry at most. *)
LEMMA EntryStep ==
  ASSUME ConnsOK, EntryOK, Reads, Next
  PROVE  EntryOK'
  <1>1. ASSUME NEW c \in Conns, Opened(c) PROVE EntryOK'
    <2>1. path[c] \in Paths \cup {Pending}
      BY DEF ConnsOK
    <2> QED
      BY <1>1, <2>1, ReportKeeps, ConnectedKeeps DEF Opened, ReportPath
  <1>2. ASSUME NEW c \in Conns, Served(c) PROVE EntryOK'
    <2>1. path[c] \in Paths \cup {Pending}
      BY DEF ConnsOK
    <2> QED
      BY <1>2, <2>1, ReportKeeps, ConnectedKeeps DEF Served, ReportPath
  <1>3. ASSUME NEW c \in Conns, Ended(c) PROVE EntryOK'
    BY <1>3 DEF Ended, PeerDisconnected, EntryOK
  <1>4. ASSUME NEW c \in Conns, OnEvent(c) PROVE EntryOK'
    <2>1. Head(events[c]) \in Paths
      BY <1>4, HeadTailProperties DEF OnEvent, Reads
    <2> QED
      BY <1>4, <2>1, ReportKeeps DEF OnEvent
  <1>5. ASSUME NEW c \in Conns, Heartbeat(c) PROVE EntryOK'
    <2>1. path[c] \in Paths \cup {Pending}
      BY DEF ConnsOK
    <2> QED
      BY <1>5, <2>1, ReportKeeps DEF Heartbeat
  <1>6. ASSUME NEW c \in Conns,
               Close(c) \/ Starts(c) \/ Stops(c) \/ \E p \in Paths : Select(c, p)
        PROVE  EntryOK'
    BY <1>6 DEF Close, Starts, Stops, Select, EntryOK
  <1> QED
    BY <1>1, <1>2, <1>3, <1>4, <1>5, <1>6 DEF Next

LEMMA ConnsStep ==
  ASSUME ConnsOK, Next
  PROVE  ConnsOK'
  <1>1. ASSUME NEW c \in Conns, NEW p \in Paths, Select(c, p) PROVE ConnsOK'
    <2>1. changes[c] + 1 \in 0..MaxChanges
      BY <1>1, PathAssumption DEF ConnsOK, Select
    <2> QED
      BY <1>1, <2>1 DEF ConnsOK, Select, connVars
  <1>2. ASSUME NEW c \in Conns, Opened(c) PROVE ConnsOK'
    <2>1. path' \in [Conns -> Paths \cup {Pending}]
      BY <1>2 DEF Opened, ConnsOK
    <2>2. reporter' \in [Conns -> {"none", "spawned", "reading", "gone"}]
      BY <1>2 DEF Opened, ReportPath, PeerConnected, ConnsOK
    <2> QED
      BY <1>2, <2>1, <2>2 DEF Opened, ConnsOK
  <1>3. ASSUME NEW c \in Conns, Served(c) PROVE ConnsOK'
    BY <1>3 DEF Served, ReportPath, PeerConnected, ConnsOK, pathVars
  <1>4. ASSUME NEW c \in Conns,
               Close(c) \/ Ended(c) \/ Starts(c) \/ OnEvent(c) \/ Heartbeat(c) \/ Stops(c)
        PROVE  ConnsOK'
    BY <1>4 DEF Close, Ended, Starts, OnEvent, Heartbeat, Stops, ConnsOK, connVars, pathVars
  <1> QED
    BY <1>1, <1>2, <1>3, <1>4 DEF Next

LEMMA ReadsStep ==
  ASSUME ConnsOK, Reads, Next
  PROVE  Reads'
  <1>1. ASSUME NEW c \in Conns, NEW p \in Paths, Select(c, p) PROVE Reads'
    <2>1. CASE events' = events
      BY <2>1 DEF Reads
    <2>2. CASE Len(events[c]) < MaxEvents /\ events' = [events EXCEPT ![c] = Append(@, p)]
      <3>1. Append(events[c], p) \in Seq(Paths) /\ Len(Append(events[c], p)) = Len(events[c]) + 1
        BY AppendProperties DEF Reads
      <3>2. Len(events[c]) + 1 <= MaxEvents
        BY <2>2, PathAssumption, LenProperties DEF Reads
      <3> QED
        BY <2>2, <3>1, <3>2 DEF Reads
    <2> QED
      BY <1>1, <2>1, <2>2 DEF Select
  <1>2. ASSUME NEW c \in Conns, OnEvent(c) PROVE Reads'
    <2>1. Tail(events[c]) \in Seq(Paths) /\ Len(Tail(events[c])) <= MaxEvents
      <3>1. events[c] \in Seq(Paths) /\ events[c] # <<>> /\ Len(events[c]) <= MaxEvents
        BY <1>2 DEF OnEvent, Reads
      <3>2. Tail(events[c]) \in Seq(Paths) /\ Len(Tail(events[c])) = Len(events[c]) - 1
            /\ Len(events[c]) \in Nat
        BY <3>1, HeadTailProperties, LenProperties
      <3> QED
        BY <3>1, <3>2, PathAssumption
    <2> QED
      BY <1>2, <2>1 DEF OnEvent, Reads
  <1>3. ASSUME NEW c \in Conns,
               \/ Opened(c) \/ Served(c) \/ Close(c) \/ Ended(c)
               \/ Starts(c) \/ Heartbeat(c) \/ Stops(c)
        PROVE  Reads'
    BY <1>3 DEF Opened, Served, Close, Ended, Starts, Heartbeat, Stops, Reads
  <1> QED
    BY <1>1, <1>2, <1>3 DEF Next

LEMMA TypeInit == Init => TypeOK
  <1> SUFFICES ASSUME Init PROVE TypeOK
    OBVIOUS
  <1>1. Reads
    <2>1. <<>> \in Seq(Paths) /\ Len(<<>>) = 0
      BY EmptySeq
    <2> QED
      BY <2>1, PathAssumption DEF Init, Reads
  <1>2. ConnsOK /\ EntryOK
    BY PathAssumption DEF Init, ConnsOK, EntryOK
  <1> QED
    BY <1>1, <1>2, TypeParts

LEMMA TypeNext == TypeOK /\ [Next]_vars => TypeOK'
  <1> SUFFICES ASSUME TypeOK, [Next]_vars PROVE TypeOK'
    OBVIOUS
  <1>1. CASE Next
    <2>1. ConnsOK' /\ EntryOK' /\ Reads'
      BY <1>1, TypeParts, EntryStep, ConnsStep, ReadsStep
    <2> QED
      BY <2>1 DEF TypeOK, ConnsOK, EntryOK, Reads
  <1>2. CASE UNCHANGED vars
    BY <1>2 DEF vars, connVars, pathVars, TypeOK
  <1> QED
    BY <1>1, <1>2

(* A peer has one entry at most, every reader no more events than are kept,
   and every value is of its type. *)
THEOREM TypeCorrect == Spec => []TypeOK
  BY TypeInit, TypeNext, PTL DEF Spec

(***************************************************************************)
(* An entry belongs to a connection.                                       *)
(***************************************************************************)

(* The connections that may have an entry. *)
Owns(c) == at[c] = "served" \/ (at[c] = "opened" /\ role = "serve")

(* A report never makes an entry. *)
LEMMA NoReportMakesOne == ASSUME NEW p PROVE PeerPath(p) # {} => entry # {}
  BY DEF PeerPath

LEMMA GhostOpened ==
  ASSUME ConnsOK, NoGhostEntry, NEW c \in Conns, Opened(c)
  PROVE  NoGhostEntry'
  <1>1. /\ at[c] = "none" /\ at'[c] = "opened" /\ role' = role
        /\ \A d \in Conns \ {c} : at'[d] = at[d]
    BY DEF Opened, ConnsOK
  <1>2. CASE role = "serve"
    BY <1>1, <1>2 DEF NoGhostEntry
  <1>3. CASE role # "serve"
    <2>1. role = "connect" /\ \A d \in Conns : ~Owns(d)
      BY <1>1, <1>3 DEF ConnsOK, Owns, Opened, MayOpen
    <2>2. entry = {}
      BY <2>1 DEF NoGhostEntry, Owns
    <2>3. entry' = {}
      BY <1>3, <2>2, NoReportMakesOne DEF Opened, ReportPath
    <2> QED
      BY <2>3 DEF NoGhostEntry
  <1> QED
    BY <1>2, <1>3

LEMMA GhostServed ==
  ASSUME ConnsOK, NEW c \in Conns, Served(c)
  PROVE  NoGhostEntry'
  BY DEF Served, ConnsOK, NoGhostEntry

LEMMA GhostNext == TypeOK /\ NoGhostEntry /\ [Next]_vars => NoGhostEntry'
  <1> SUFFICES ASSUME TypeOK, NoGhostEntry, [Next]_vars PROVE NoGhostEntry'
    OBVIOUS
  <1>1. ConnsOK
    BY TypeParts
  <1>2. ASSUME NEW c \in Conns, OnEvent(c) \/ Heartbeat(c) PROVE NoGhostEntry'
    <2>1. UNCHANGED <<role, at>> /\ (entry' # {} => entry # {})
      BY <1>2, NoReportMakesOne DEF OnEvent, Heartbeat, connVars
    <2> QED
      BY <2>1 DEF NoGhostEntry
  <1>3. ASSUME NEW c \in Conns, Ended(c) PROVE NoGhostEntry'
    BY <1>3 DEF Ended, PeerDisconnected, NoGhostEntry
  <1>4. ASSUME NEW c \in Conns,
               Close(c) \/ Starts(c) \/ Stops(c) \/ \E p \in Paths : Select(c, p)
        PROVE  NoGhostEntry'
    BY <1>4 DEF Close, Starts, Stops, Select, NoGhostEntry, connVars
  <1>5. CASE UNCHANGED vars
    BY <1>5 DEF vars, connVars, NoGhostEntry
  <1> QED
    BY <1>1, <1>2, <1>3, <1>4, <1>5, GhostOpened, GhostServed DEF Next

(* A reporter that outlives its connection never brings a peer's entry back:
   there is one only while a connection that made it is served. *)
THEOREM NoGhosts == Spec => []NoGhostEntry
  <1>1. Init => NoGhostEntry
    BY DEF Init, NoGhostEntry
  <1> QED
    BY <1>1, TypeInit, TypeNext, GhostNext, PTL DEF Spec
=============================================================================
