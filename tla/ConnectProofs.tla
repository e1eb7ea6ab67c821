--------------------------- MODULE ConnectProofs ---------------------------
(***************************************************************************)
(* Theorems about Connect, for every set of ports, configurations, edits   *)
(* and local programs, and every number of edits and connections; the      *)
(* last ones are about the configurations of the code, ValidConfigs.       *)
(***************************************************************************)
EXTENDS Connect, ConfigProofs, TLAPS

(***************************************************************************)
(* The operators on port maps.                                             *)
(***************************************************************************)
LEMMA PortMapShape ==
  ASSUME NEW m
  PROVE  m \in PortMaps <=> DOMAIN m \subseteq Keys /\ m \in [DOMAIN m -> Remotes]
  BY DEF PortMaps

LEMMA BindStatesShape ==
  ASSUME NEW m
  PROVE  m \in BindStates <=> /\ DOMAIN m \subseteq Keys
                              /\ m \in [DOMAIN m -> {"listening", "failed"}]
  BY DEF BindStates

LEMMA NoEntryShape == NoEntry \in PortMaps /\ NoEntry \in BindStates /\ DOMAIN NoEntry = {}
  BY DEF PortMaps, BindStates, NoEntry

LEMMA WantedType == ASSUME NEW c \in Configs PROVE Wanted(c) \in PortMaps
  BY ConfigsAssumption

(* What reconcile leaves bound: nothing that is not wanted, everything that is
   wanted and was bound, each to the port it is wanted for. *)
LEMMA ReconciledMap ==
  ASSUME NEW want
  PROVE  /\ DOMAIN Reconciled(want) \subseteq DOMAIN want
         /\ DOMAIN bound \cap DOMAIN want \subseteq DOMAIN Reconciled(want)
         /\ Reconciled(want) = [k \in DOMAIN Reconciled(want) |-> want[k]]
  BY DEF Reconciled

LEMMA ReconciledType ==
  ASSUME NEW want \in PortMaps
  PROVE  Reconciled(want) \in PortMaps
  <1>1. DOMAIN want \subseteq Keys /\ want \in [DOMAIN want -> Remotes]
    BY PortMapShape
  <1>2. DOMAIN Reconciled(want) \subseteq DOMAIN want
    BY ReconciledMap
  <1>3. \A k \in DOMAIN Reconciled(want) : Reconciled(want)[k] = want[k]
    BY ReconciledMap
  <1>4. Reconciled(want) = [k \in DOMAIN Reconciled(want) |-> want[k]]
    BY ReconciledMap
  <1>5. [k \in DOMAIN Reconciled(want) |-> want[k]] \in [DOMAIN Reconciled(want) -> Remotes]
    BY <1>1, <1>2
  <1> QED
    BY <1>1, <1>2, <1>4, <1>5, PortMapShape

(* The states of the bindings that are wanted and bound are there to be kept,
   because they are reported as listening. *)
LEMMA ReportedType ==
  ASSUME bound \in PortMaps, binds \in BindStates, ReportedAsListening,
         NEW want \in PortMaps, NEW listeners
  PROVE  Reported(want, listeners) \in BindStates
  <1> DEFINE r == Reported(want, listeners)
  <1>1. DOMAIN want \subseteq Keys /\ DOMAIN bound \subseteq Keys
    BY PortMapShape
  <1>2. DOMAIN binds \subseteq Keys /\ \A k \in DOMAIN binds : binds[k] \in {"listening", "failed"}
    BY BindStatesShape
  <1>3. DOMAIN r = (DOMAIN binds \ (DOMAIN bound \ DOMAIN want)) \cup DOMAIN want
    BY DEF Reported
  <1>4. ASSUME NEW k \in DOMAIN r
        PROVE  r[k] \in {"listening", "failed"}
    <2>1. CASE k \in DOMAIN want \ DOMAIN bound
      BY <2>1, <1>3 DEF Reported
    <2>2. CASE k \notin DOMAIN want \ DOMAIN bound
      <3>1. k \in DOMAIN binds
        BY <2>2, <1>1, <1>3 DEF ReportedAsListening
      <3>2. r[k] = binds[k]
        BY <2>2, <1>3 DEF Reported
      <3> QED
        BY <3>1, <3>2, <1>2
    <2> QED
      BY <2>1, <2>2
  <1>5. r = [k \in DOMAIN r |-> r[k]]
    BY DEF Reported
  <1>6. r \in [DOMAIN r -> {"listening", "failed"}]
    BY <1>4, <1>5
  <1>7. DOMAIN r \subseteq Keys
    BY <1>1, <1>2, <1>3
  <1> QED
    BY <1>6, <1>7, BindStatesShape

(* What is bound after a reconcile, and only that, is reported as listening. *)
LEMMA ReportedSound ==
  ASSUME bound \in PortMaps, ReportedAsListening, Reconcile
  PROVE  ReportedAsListening'
  <1> DEFINE want == Wanted(cfg)
  <1>1. bound' = Reconciled(want) /\ binds' = Reported(want, bound')
    BY DEF Reconcile
  <1>2. DOMAIN bound' \subseteq DOMAIN want
         /\ DOMAIN bound \cap DOMAIN want \subseteq DOMAIN bound'
    BY <1>1, ReconciledMap
  <1>3. DOMAIN binds' = (DOMAIN binds \ (DOMAIN bound \ DOMAIN want)) \cup DOMAIN want
    BY <1>1 DEF Reported
  <1>4. \A k \in DOMAIN binds' :
          binds'[k] = IF k \in DOMAIN want \ DOMAIN bound
                      THEN IF k \in DOMAIN bound' THEN "listening" ELSE "failed"
                      ELSE binds[k]
    BY <1>1, <1>3 DEF Reported
  <1> HIDE DEF want
  <1> SUFFICES ASSUME NEW k \in Keys
               PROVE  k \in DOMAIN bound' <=> k \in DOMAIN binds' /\ binds'[k] = "listening"
    BY DEF ReportedAsListening
  <1>5. k \in DOMAIN bound <=> k \in DOMAIN binds /\ binds[k] = "listening"
    BY DEF ReportedAsListening
  <1>6. CASE k \in DOMAIN want \ DOMAIN bound
    BY <1>3, <1>4, <1>6
  <1>7. CASE k \in DOMAIN want \cap DOMAIN bound
    BY <1>2, <1>3, <1>4, <1>5, <1>7
  <1>8. CASE k \notin DOMAIN want
    BY <1>2, <1>3, <1>4, <1>5, <1>8
  <1> QED
    BY <1>6, <1>7, <1>8

(***************************************************************************)
(* Type correctness, with ReportedAsListening, which it needs.             *)
(***************************************************************************)
ClientStates ==
    {NoClient} \cup [at : {"queued", "reset"}, key : Keys]
               \cup [at : {"opening", "open", "done", "reset"}, conn : Links]

ForwarderStates == [key : Keys, remote : Remotes, conn : Links, aborted : BOOLEAN]

LEMMA ReconcileType ==
  ASSUME TypeOK, ReportedAsListening, Reconcile
  PROVE  bound' \in PortMaps /\ binds' \in BindStates
  <1>1. Wanted(cfg) \in PortMaps
    BY WantedType DEF TypeOK
  <1> QED
    BY <1>1, ReconciledType, ReportedType DEF Reconcile, TypeOK

LEMMA SettledType ==
  ASSUME TypeOK, NEW open, SettleClients(open)
  PROVE  client' \in [Clients -> ClientStates]
  <1>1. ASSUME NEW x \in Clients, client[x].at = "queued"
        PROVE  [client[x] EXCEPT !.at = "reset"] \in ClientStates
    <2>1. client[x] \in [at : {"queued", "reset"}, key : Keys]
      BY <1>1 DEF TypeOK, NoClient
    <2> QED
      BY <2>1 DEF ClientStates
  <1>2. \A x \in Clients : client[x] \in ClientStates
    BY DEF TypeOK, ClientStates
  <1> QED
    BY <1>1, <1>2 DEF SettleClients

LEMMA ExitType ==
  ASSUME TypeOK, Exit
  PROVE  /\ bound' \in PortMaps /\ binds' \in BindStates /\ tasks' = {}
         /\ phase' = "exited" /\ client' \in [Clients -> ClientStates]
  <1>1. ASSUME NEW x \in Clients, client[x].at \in {"queued", "opening", "open"}
        PROVE  [client[x] EXCEPT !.at = "reset"] \in ClientStates
    <2>1. \/ client[x] \in [at : {"queued", "reset"}, key : Keys]
          \/ client[x] \in [at : {"opening", "open", "done", "reset"}, conn : Links]
      BY <1>1 DEF TypeOK, NoClient
    <2> QED
      BY <2>1 DEF ClientStates
  <1>2. \A x \in Clients : client[x] \in ClientStates
    BY DEF TypeOK, ClientStates
  <1>3. client' \in [Clients -> ClientStates]
    BY <1>1, <1>2 DEF Exit
  <1> QED
    BY <1>3, NoEntryShape DEF Exit

LEMMA SpawnType ==
  ASSUME bound' \in PortMaps, NEW c \in Links
  PROVE  SpawnForwarders(c) \subseteq ForwarderStates
  <1>1. ASSUME NEW k \in DOMAIN bound'
        PROVE  Forwarder(k, bound'[k], c) \in ForwarderStates
    <2>1. k \in Keys /\ bound'[k] \in Remotes
      BY PortMapShape
    <2> QED
      BY <2>1 DEF Forwarder, ForwarderStates
  <1> QED
    BY <1>1 DEF SpawnForwarders

LEMMA AbortType == ASSUME TypeOK PROVE AbortAll \subseteq ForwarderStates
  BY DEF TypeOK, AbortAll, ForwarderStates

LEMMA DoubledType == ASSUME NEW d \in 1..BackoffMax PROVE Doubled(d) \in 1..BackoffMax
  BY ConnectAssumption DEF Doubled

LEMMA TypeInit == Init => TypeOK
  <1> SUFFICES ASSUME Init PROVE TypeOK
    OBVIOUS
  <1>1. ver \in 0..MaxVersion /\ seen \in 0..ver /\ delay \in 1..BackoffMax /\ conn \in 0..MaxConn
    BY ConnectAssumption DEF Init
  <1>2. cfg \in Configs /\ bound \in PortMaps /\ binds \in BindStates
    BY ConfigsAssumption, NoEntryShape DEF Init
  <1> QED
    BY <1>1, <1>2 DEF Init, TypeOK

LEMMA ReportedInit == Init => ReportedAsListening
  BY NoEntryShape DEF Init, ReportedAsListening

(* The steps that change neither the listeners nor what is reported of them. *)
LEMMA ReportedUnchanged ==
  ASSUME ReportedAsListening, UNCHANGED <<bound, binds>>
  PROVE  ReportedAsListening'
  BY DEF ReportedAsListening

LEMMA ReportedExit == Exit => ReportedAsListening'
  BY NoEntryShape DEF Exit, ReportedAsListening

LEMMA RunType ==
  ASSUME TypeOK, ReportedAsListening, RunNext
  PROVE  TypeOK' /\ ReportedAsListening'
  <1> USE DEF configVars, listenVars, linkVars
  <1>0. seen \in 0..ver /\ ver \in 0..ver
    BY DEF TypeOK
  <1>1. CASE Subscribe
    <2>1. TypeOK'
      BY <1>0, <1>1 DEF Subscribe, TypeOK
    <2> QED
      BY <2>1, <1>1, ReportedUnchanged DEF Subscribe
  <1>2. CASE Start
    <2>1. CASE Exit
      <3>1. TypeOK'
        BY <1>2, <2>1, ExitType DEF Start, TypeOK, ClientStates
      <3> QED
        BY <3>1, <2>1, ReportedExit
    <2>2. CASE ~Exit
      <3>1. /\ Reconcile /\ phase' = "dialing"
            /\ UNCHANGED <<configVars, seen, foreign, delay, linkVars, tasks, client>>
        BY <1>2, <2>2 DEF Start
      <3>2. bound' \in PortMaps /\ binds' \in BindStates
        BY <3>1, ReconcileType
      <3>3. TypeOK'
        BY <3>1, <3>2 DEF TypeOK
      <3> QED
        BY <3>1, <3>3, ReportedSound DEF TypeOK
    <2> QED
      BY <2>1, <2>2
  <1>3. CASE Dialed
    <2>1. conn + 1 \in Links /\ conn' = conn + 1 /\ conn' \in 0..MaxConn
      BY <1>3, ConnectAssumption DEF Dialed, TypeOK, Links
    <2>2. bound' \in PortMaps /\ binds' \in BindStates /\ UNCHANGED <<bound, binds>>
      BY <1>3 DEF Dialed, TypeOK
    <2>3. SpawnForwarders(conn + 1) \subseteq ForwarderStates
      BY <2>1, <2>2, SpawnType
    <2>4. tasks' \subseteq ForwarderStates
      BY <1>3, <2>3 DEF Dialed, TypeOK, ForwarderStates
    <2>5. 1 \in 1..BackoffMax
      BY ConnectAssumption
    <2>6. TypeOK'
      BY <1>3, <2>1, <2>2, <2>4, <2>5 DEF Dialed, TypeOK, ForwarderStates
    <2> QED
      BY <2>2, <2>6, ReportedUnchanged
  <1>4. CASE DialFails
    <2>1. TypeOK'
      BY <1>4 DEF DialFails, TypeOK
    <2> QED
      BY <2>1, <1>4, ReportedUnchanged DEF DialFails
  <1>5. CASE ApplyEdit
    <2>1. bound' \in PortMaps /\ binds' \in BindStates /\ ReportedAsListening'
      BY <1>5, ReconcileType, ReportedSound DEF ApplyEdit, TypeOK
    <2>2. conn \in Links
      BY <1>5 DEF ApplyEdit, TypeOK
    <2>3. SpawnForwarders(conn) \subseteq ForwarderStates
      BY <2>1, <2>2, SpawnType
    <2>4. tasks' \subseteq ForwarderStates
      BY <1>5, <2>3, AbortType DEF ApplyEdit, TypeOK, ForwarderStates
    <2>5. client' \in [Clients -> ClientStates]
      BY <1>5, SettledType DEF ApplyEdit
    <2>6. TypeOK'
      BY <1>0, <1>5, <2>1, <2>4, <2>5 DEF ApplyEdit, TypeOK, ForwarderStates, ClientStates
    <2> QED
      BY <2>1, <2>6
  <1>6. CASE Closed
    <2>1. CASE Exit
      <3>1. TypeOK'
        BY <1>6, <2>1, ExitType DEF Closed, TypeOK, ClientStates
      <3> QED
        BY <3>1, <2>1, ReportedExit
    <2>2. CASE ~Exit
      <3>1. /\ phase' = "waiting" /\ tasks' = AbortAll
            /\ UNCHANGED <<configVars, listenVars, foreign, delay, linkVars, client>>
        BY <1>6, <2>2 DEF Closed
      <3>2. TypeOK'
        BY <3>1, AbortType DEF TypeOK, ForwarderStates
      <3> QED
        BY <3>1, <3>2, ReportedUnchanged
    <2> QED
      BY <2>1, <2>2
  <1>7. CASE ApplyWaiting
    <2>1. bound' \in PortMaps /\ binds' \in BindStates /\ ReportedAsListening'
      BY <1>7, ReconcileType, ReportedSound DEF ApplyWaiting, TypeOK
    <2>2. client' \in [Clients -> ClientStates]
      BY <1>7, SettledType DEF ApplyWaiting
    <2>3. TypeOK'
      BY <1>0, <1>7, <2>1, <2>2 DEF ApplyWaiting, TypeOK, ClientStates
    <2> QED
      BY <2>1, <2>3
  <1>8. CASE Retry
    <2>1. delay' \in 1..BackoffMax
      BY <1>8, DoubledType DEF Retry, TypeOK
    <2>2. TypeOK'
      BY <1>8, <2>1 DEF Retry, TypeOK
    <2> QED
      BY <2>2, <1>8, ReportedUnchanged DEF Retry
  <1> QED
    BY <1>1, <1>2, <1>3, <1>4, <1>5, <1>6, <1>7, <1>8 DEF RunNext

LEMMA OthersType ==
  ASSUME TypeOK, OthersNext
  PROVE  TypeOK' /\ UNCHANGED <<bound, binds>>
  <1> USE DEF configVars, listenVars, linkVars
  <1>1. CASE Mutate
    <2>1. cfg' \in Configs
      BY <1>1, ConfigsAssumption DEF Mutate, TypeOK
    <2>2. ver' \in 0..MaxVersion /\ seen' \in 0..ver'
      BY <1>1, ConnectAssumption DEF Mutate, TypeOK
    <2> QED
      BY <1>1, <2>1, <2>2 DEF Mutate, TypeOK
  <1>2. ASSUME NEW k \in Contested, TakePort(k) \/ ReleasePort(k)
        PROVE  TypeOK' /\ UNCHANGED <<bound, binds>>
    BY <1>2 DEF TakePort, ReleasePort, TypeOK
  <1> QED
    BY <1>1, <1>2 DEF OthersNext

LEMMA LinkType ==
  ASSUME TypeOK, LinkNext
  PROVE  TypeOK' /\ UNCHANGED <<bound, binds>>
  BY DEF LinkNext, LinkEnds, TypeOK, configVars, listenVars

LEMMA ForwardType ==
  ASSUME TypeOK, ForwardNext
  PROVE  TypeOK' /\ UNCHANGED <<bound, binds>>
  <1> USE DEF configVars, listenVars, linkVars
  <1>0. \A x \in Clients : client[x] \in ClientStates
    BY DEF TypeOK, ClientStates
  <1>1. ASSUME NEW x \in Clients, NEW state \in ClientStates, ClientGoes(x, state)
        PROVE  TypeOK' /\ UNCHANGED <<bound, binds>>
    <2>1. client' \in [Clients -> ClientStates]
      BY <1>1 DEF ClientGoes, TypeOK, ClientStates
    <2> QED
      BY <1>1, <2>1 DEF ClientGoes, TypeOK, ClientStates
  <1>2. ASSUME NEW t \in tasks, Cancelled(t) \/ AcceptFails(t)
        PROVE  TypeOK' /\ UNCHANGED <<bound, binds>>
    <2>1. client' \in [Clients -> ClientStates]
      BY <1>2, SettledType DEF Cancelled, AcceptFails
    <2> QED
      BY <1>2, <2>1 DEF Cancelled, AcceptFails, TypeOK, ClientStates
  <1>3. ASSUME NEW x \in Clients, NEW k \in Keys, Arrive(x, k)
        PROVE  TypeOK' /\ UNCHANGED <<bound, binds>>
    <2>1. [at |-> "queued", key |-> k] \in ClientStates
      BY DEF ClientStates
    <2> QED
      BY <1>1, <1>3, <2>1 DEF Arrive
  <1>4. ASSUME NEW x \in Clients, NEW t \in tasks, Accept(t, x)
        PROVE  TypeOK' /\ UNCHANGED <<bound, binds>>
    <2>1. t.conn \in Links
      BY DEF TypeOK
    <2>2. [at |-> "opening", conn |-> t.conn] \in ClientStates
      BY <2>1 DEF ClientStates
    <2> QED
      BY <1>1, <1>4, <2>2 DEF Accept
  <1>5. ASSUME NEW x \in Clients, OpenStream(x) \/ StreamEnds(x)
        PROVE  TypeOK' /\ UNCHANGED <<bound, binds>>
    <2>1. client[x] \in [at : {"opening", "open", "done", "reset"}, conn : Links]
      BY <1>0, <1>5 DEF OpenStream, StreamEnds, ClientStates, NoClient
    <2>2. \A s \in {"open", "done", "reset"} : [client[x] EXCEPT !.at = s] \in ClientStates
      BY <2>1 DEF ClientStates
    <2>3. CASE OpenStream(x)
      BY <2>2, <2>3, <1>1 DEF OpenStream
    <2>4. CASE StreamEnds(x)
      BY <2>2, <2>4, <1>1 DEF StreamEnds
    <2> QED
      BY <1>5, <2>3, <2>4
  <1> QED
    BY <1>2, <1>3, <1>4, <1>5 DEF ForwardNext

LEMMA TypeNext ==
  TypeOK /\ ReportedAsListening /\ [Next]_vars => TypeOK' /\ ReportedAsListening'
  <1> SUFFICES ASSUME TypeOK, ReportedAsListening, [Next]_vars
               PROVE  TypeOK' /\ ReportedAsListening'
    OBVIOUS
  <1>1. CASE RunNext
    BY <1>1, RunType
  <1>2. CASE LinkNext \/ OthersNext \/ ForwardNext
    BY <1>2, LinkType, OthersType, ForwardType, ReportedUnchanged
  <1>3. CASE UNCHANGED vars
    <2>1. TypeOK'
      BY <1>3 DEF vars, configVars, listenVars, linkVars, TypeOK
    <2> QED
      BY <1>3, <2>1, ReportedUnchanged DEF vars, listenVars
  <1> QED
    BY <1>1, <1>2, <1>3 DEF Next

(* Every reachable state is well typed: in particular the delay stays between a
   second and its ceiling. *)
THEOREM TypeCorrect == Spec => []TypeOK
  BY TypeInit, ReportedInit, TypeNext, PTL DEF Spec

(* The admin UI reports a port as listening exactly when it is bound. *)
THEOREM ReportsAreTrue == Spec => []ReportedAsListening
  BY TypeInit, ReportedInit, TypeNext, PTL DEF Spec

(***************************************************************************)
(* Spec => []ListenersFollowConfig                                         *)
(*                                                                         *)
(* Inductive as it stands, given that seen never passes ver: an edit makes *)
(* them differ, and every step that makes them equal again reconciles.     *)
(***************************************************************************)
LEMMA ReconcileFollows ==
  ASSUME Reconcile, UNCHANGED cfg
  PROVE  ListenersFollowConfig'
  <1> DEFINE want == Wanted(cfg)
  <1>1. bound' = Reconciled(want) /\ binds' = Reported(want, bound')
    BY DEF Reconcile
  <1>2. /\ DOMAIN bound' \subseteq DOMAIN want
        /\ DOMAIN bound \cap DOMAIN want \subseteq DOMAIN bound'
        /\ \A k \in DOMAIN bound' : bound'[k] = want[k]
    BY <1>1 DEF Reconciled
  <1>3. \A k \in DOMAIN want \ DOMAIN bound' : k \in DOMAIN binds' /\ binds'[k] = "failed"
    BY <1>1, <1>2 DEF Reported
  <1>4. Wanted(cfg)' = want
    BY DEF Wanted
  <1> QED
    BY <1>2, <1>3, <1>4 DEF ListenersFollowConfig

LEMMA FollowUnchanged ==
  ASSUME ListenersFollowConfig, Running' => Running,
         UNCHANGED <<cfg, ver, seen, bound, binds>>
  PROVE  ListenersFollowConfig'
  <1>1. Wanted(cfg)' = Wanted(cfg)
    BY DEF Wanted
  <1> QED
    BY <1>1 DEF ListenersFollowConfig

LEMMA FollowNext ==
  TypeOK /\ ListenersFollowConfig /\ [Next]_vars => ListenersFollowConfig'
  <1> SUFFICES ASSUME TypeOK, ListenersFollowConfig, [Next]_vars
               PROVE  ListenersFollowConfig'
    OBVIOUS
  <1> USE DEF configVars, listenVars, linkVars
  <1>1. CASE Subscribe
    BY <1>1 DEF Subscribe, ListenersFollowConfig, Running
  <1>2. CASE Start \/ Closed
    <2>1. CASE Exit
      BY <2>1 DEF Exit, ListenersFollowConfig, Running
    <2>2. CASE Start /\ ~Exit
      BY <2>2, ReconcileFollows DEF Start
    <2>3. CASE Closed /\ ~Exit
      BY <2>3, FollowUnchanged DEF Closed, Running
    <2> QED
      BY <1>2, <2>1, <2>2, <2>3
  <1>3. CASE Dialed \/ DialFails \/ Retry
    BY <1>3, FollowUnchanged DEF Dialed, DialFails, Retry, Running
  <1>4. CASE ApplyEdit \/ ApplyWaiting
    BY <1>4, ReconcileFollows DEF ApplyEdit, ApplyWaiting
  <1>5. CASE Mutate
    <2>1. seen' # ver'
      BY <1>5 DEF Mutate, TypeOK
    <2> QED
      BY <2>1 DEF ListenersFollowConfig
  <1>6. CASE LinkNext \/ (\E k \in Contested : TakePort(k) \/ ReleasePort(k)) \/ ForwardNext
    <2>1. UNCHANGED <<cfg, ver, seen, bound, binds, phase>>
      BY <1>6 DEF LinkNext, LinkEnds, TakePort, ReleasePort, ForwardNext, Cancelled,
                  AcceptFails, Arrive, Accept, OpenStream, StreamEnds, ClientGoes
    <2> QED
      BY <2>1, FollowUnchanged DEF Running
  <1>7. CASE UNCHANGED vars
    BY <1>7, FollowUnchanged DEF vars, Running
  <1> QED
    BY <1>1, <1>2, <1>3, <1>4, <1>5, <1>6, <1>7 DEF Next, RunNext, OthersNext

(* Once an edit was looked at, what is bound is what the configuration asks for
   and the system allows. *)
THEOREM ListenersFollow == Spec => []ListenersFollowConfig
  <1>1. Init => ListenersFollowConfig
    BY DEF Init, ListenersFollowConfig, Running
  <1> QED
    BY <1>1, TypeInit, ReportedInit, TypeNext, FollowNext, PTL DEF Spec

(***************************************************************************)
(* Spec => []ForwardersFollow                                              *)
(***************************************************************************)
LEMMA SpawnFollows ==
  ASSUME NEW c, phase' = "up", conn' = c,
         NEW t \in SpawnForwarders(c)
  PROVE  t.conn = conn' /\ t.key \in DOMAIN bound' /\ t.remote = bound'[t.key]
  BY DEF SpawnForwarders, Forwarder

LEMMA AbortedAll == ASSUME TypeOK PROVE \A t \in AbortAll : t.aborted
  BY DEF AbortAll, TypeOK

LEMMA ForwardersNext ==
  TypeOK /\ ForwardersFollow /\ [Next]_vars => ForwardersFollow'
  <1> SUFFICES ASSUME TypeOK, ForwardersFollow, [Next]_vars PROVE ForwardersFollow'
    OBVIOUS
  <1> USE DEF configVars, listenVars, linkVars
  <1>0. phase # "up" => \A t \in tasks : t.aborted
    BY DEF ForwardersFollow, TypeOK
  <1>1. CASE Subscribe \/ DialFails \/ Retry
    BY <1>0, <1>1 DEF Subscribe, DialFails, Retry, ForwardersFollow
  <1>2. CASE Start
    <2>1. CASE Exit
      BY <2>1 DEF Exit, ForwardersFollow
    <2>2. CASE ~Exit
      BY <1>0, <1>2, <2>2 DEF Start, ForwardersFollow
    <2> QED
      BY <2>1, <2>2
  <1>3. CASE Dialed
    <2>1. \A t \in tasks : t.aborted
      BY <1>0, <1>3 DEF Dialed
    <2> QED
      BY <1>3, <2>1, SpawnFollows DEF Dialed, ForwardersFollow
  <1>4. CASE ApplyEdit
    <2>1. CASE bound' = bound
      BY <1>4, <2>1 DEF ApplyEdit, ForwardersFollow
    <2>2. CASE bound' # bound
      <3>1. tasks' = AbortAll \cup SpawnForwarders(conn) /\ phase' = "up" /\ conn' = conn
        BY <1>4, <2>2 DEF ApplyEdit
      <3> QED
        BY <3>1, AbortedAll, SpawnFollows DEF ForwardersFollow
    <2> QED
      BY <2>1, <2>2
  <1>5. CASE Closed
    <2>1. CASE Exit
      BY <2>1 DEF Exit, ForwardersFollow
    <2>2. CASE ~Exit
      BY <1>5, <2>2, AbortedAll DEF Closed, ForwardersFollow
    <2> QED
      BY <2>1, <2>2
  <1>6. CASE ApplyWaiting
    BY <1>0, <1>6 DEF ApplyWaiting, ForwardersFollow
  <1>7. CASE LinkNext \/ OthersNext
    BY <1>7 DEF LinkNext, LinkEnds, OthersNext, Mutate, TakePort, ReleasePort,
                ForwardersFollow
  <1>8. CASE ForwardNext
    <2>1. tasks' \subseteq tasks /\ UNCHANGED <<bound, phase, conn>>
      BY <1>8 DEF ForwardNext, Cancelled, AcceptFails, Arrive, Accept, OpenStream,
                  StreamEnds, ClientGoes
    <2> QED
      BY <2>1 DEF ForwardersFollow
  <1>9. CASE UNCHANGED vars
    BY <1>9 DEF vars, ForwardersFollow
  <1> QED
    BY <1>1, <1>2, <1>3, <1>4, <1>5, <1>6, <1>7, <1>8, <1>9 DEF Next, RunNext

(* Whatever carries traffic carries it for a present listener to its present
   port over the present connection. *)
THEOREM ForwardersKeepUp == Spec => []ForwardersFollow
  <1>1. Init => ForwardersFollow
    BY DEF Init, ForwardersFollow
  <1> QED
    BY <1>1, TypeInit, ReportedInit, TypeNext, ForwardersNext, PTL DEF Spec

(***************************************************************************)
(* Connect implements ListenerSet.                                         *)
(***************************************************************************)
LEMMA ReconcileIsFollow ==
  ASSUME Reconcile, UNCHANGED cfg, phase # "exited", phase' # "exited"
  PROVE  Listeners!Follow
  <1> DEFINE want == Wanted(cfg)
             D == DOMAIN Reconciled(want)
  <1>1. /\ D \in SUBSET DOMAIN want
        /\ DOMAIN bound \cap DOMAIN want \subseteq D
        /\ bound' = [k \in D |-> want[k]]
    BY ReconciledMap DEF Reconcile
  <1>2. Wanted(cfg)' = want
    BY DEF Wanted
  <1> QED
    BY <1>1, <1>2 DEF Listeners!Follow

LEMMA ExitIsEnd ==
  ASSUME Exit, UNCHANGED cfg
  PROVE  Listeners!End
  <1>1. Wanted(cfg)' = Wanted(cfg)
    BY DEF Wanted
  <1> QED
    BY <1>1 DEF Exit, Listeners!End, Listeners!Nothing, NoEntry

LEMMA StepRefines == TypeOK /\ [Next]_vars => [Listeners!Next]_Listeners!vars
  <1> SUFFICES ASSUME TypeOK, [Next]_vars
               PROVE  Listeners!Next \/ UNCHANGED Listeners!vars
    OBVIOUS
  <1> USE DEF configVars, listenVars, linkVars
  <1>1. CASE Exit /\ (Start \/ Closed)
    BY <1>1, ExitIsEnd DEF Start, Closed, Listeners!Next
  <1>2. CASE ~Exit /\ Start
    BY <1>2, ReconcileIsFollow DEF Start, Listeners!Next
  <1>3. CASE ApplyEdit \/ ApplyWaiting
    BY <1>3, ReconcileIsFollow DEF ApplyEdit, ApplyWaiting, Listeners!Next
  <1>4. CASE \/ Subscribe \/ Dialed \/ DialFails \/ Retry \/ (Closed /\ ~Exit)
             \/ LinkNext \/ OthersNext \/ ForwardNext \/ UNCHANGED vars
    <2>1. bound' = bound /\ ((phase' = "exited") <=> (phase = "exited"))
      BY <1>4 DEF Subscribe, Dialed, DialFails, Retry, Closed, LinkNext, LinkEnds,
                  OthersNext, Mutate, TakePort, ReleasePort, ForwardNext, Cancelled,
                  AcceptFails, Arrive, Accept, OpenStream, StreamEnds, ClientGoes, vars
    <2> QED
      BY <2>1 DEF Listeners!Next, Listeners!Edit
  <1> QED
    BY <1>1, <1>2, <1>3, <1>4 DEF Next, RunNext

(* The listeners follow the configuration, and no edit, retry or lost link
   closes one that is still wanted. *)
THEOREM ImplementsListenerSet == Spec => OthersUndisturbed
  <1>1. Init => Listeners!Init
    BY DEF Init, Listeners!Init, Listeners!Nothing, NoEntry
  <1> QED
    BY <1>1, TypeInit, ReportedInit, TypeNext, StepRefines, PTL
       DEF Spec, OthersUndisturbed, Listeners!Spec

(***************************************************************************)
(* The listeners and the bindings of the code.                             *)
(***************************************************************************)
(* active_bindings: the listeners a valid configuration asks for are its
   enabled bindings, one for one. *)
LEMMA WantedMeans ==
  ASSUME NEW ids, NEW c \in ValidConfigs(ids)
  PROVE  /\ DOMAIN Wanted(c) = {BindingKey(b) : b \in ActiveBindings(c)}
         /\ \A b \in ActiveBindings(c) : Wanted(c)[BindingKey(b)] = b.remote
  <1> PICK active : active = ActiveBindings(c)
    OBVIOUS
  <1>1. \A a, b \in active : BindingKey(a) = BindingKey(b) => a = b
    BY DEF ActiveBindings, Entries, ValidConfigs, Validate, NoRepeat
  <1>2. Wanted(c) = [k \in {BindingKey(b) : b \in active} |->
                        (CHOOSE b \in active : BindingKey(b) = k).remote]
    BY DEF Wanted
  <1>3. ASSUME NEW b \in active
        PROVE  (CHOOSE a \in active : BindingKey(a) = BindingKey(b)) = b
    BY <1>1
  <1> QED
    BY <1>2, <1>3

(* What ConfigsAssumption asks of a configuration, every valid one of the code
   gives it. *)
LEMMA WantedIsPortMap ==
  ASSUME NEW ids, NEW c \in ValidConfigs(ids), Keys = Proto \X Port, Remotes = Port
  PROVE  Wanted(c) \in PortMaps
  <1> PICK want : want = Wanted(c)
    OBVIOUS
  <1>1. /\ DOMAIN want = {BindingKey(b) : b \in ActiveBindings(c)}
        /\ \A b \in ActiveBindings(c) : want[BindingKey(b)] = b.remote
    BY WantedMeans
  <1>2. want = [k \in DOMAIN want |-> want[k]]
    BY DEF Wanted
  <1>3. \A b \in ActiveBindings(c) : BindingKey(b) \in Keys /\ b.remote \in Remotes
    BY ConfigShape DEF ActiveBindings, ValidConfigs, BindingKey, Binding
  <1>4. DOMAIN want \subseteq Keys /\ \A k \in DOMAIN want : want[k] \in Remotes
    BY <1>1, <1>3
  <1>5. want \in [DOMAIN want -> Remotes]
    BY <1>2, <1>4
  <1> QED
    BY <1>4, <1>5, PortMapShape

(* What a user of the machine sees: once `run` has looked at every edit, each
   enabled binding is served at its own remote port or reported as failed, and
   no port is open that no enabled binding asks for. *)
BindingsAreServed ==
    Running /\ seen = ver =>
        /\ \A b \in ActiveBindings(cfg) :
              \/ BindingKey(b) \in DOMAIN bound /\ bound[BindingKey(b)] = b.remote
              \/ BindingKey(b) \in DOMAIN binds /\ binds[BindingKey(b)] = "failed"
        /\ \A k \in DOMAIN bound : \E b \in ActiveBindings(cfg) : BindingKey(b) = k

(* run, reconcile, active_bindings: that holds of every valid configuration,
   whatever edits and whatever the link did. *)
THEOREM EveryBindingIsServed ==
  ASSUME NEW CONSTANT ids, Configs \subseteq ValidConfigs(ids)
  PROVE  Spec => []BindingsAreServed
  <1>1. TypeOK /\ ListenersFollowConfig => BindingsAreServed
    <2> SUFFICES ASSUME TypeOK, ListenersFollowConfig, Running, seen = ver
                 PROVE  /\ \A b \in ActiveBindings(cfg) :
                              \/ BindingKey(b) \in DOMAIN bound /\ bound[BindingKey(b)] = b.remote
                              \/ BindingKey(b) \in DOMAIN binds /\ binds[BindingKey(b)] = "failed"
                        /\ \A k \in DOMAIN bound : \E b \in ActiveBindings(cfg) : BindingKey(b) = k
      BY DEF BindingsAreServed
    <2> PICK want : want = Wanted(cfg)
      OBVIOUS
    <2>1. cfg \in ValidConfigs(ids)
      BY DEF TypeOK
    <2>2. /\ DOMAIN want = {BindingKey(b) : b \in ActiveBindings(cfg)}
          /\ \A b \in ActiveBindings(cfg) : want[BindingKey(b)] = b.remote
      BY <2>1, WantedMeans
    <2>3. /\ DOMAIN bound \subseteq DOMAIN want
          /\ \A k \in DOMAIN bound : bound[k] = want[k]
          /\ \A k \in DOMAIN want \ DOMAIN bound : k \in DOMAIN binds /\ binds[k] = "failed"
      BY DEF ListenersFollowConfig
    <2> QED
      BY <2>2, <2>3
  <1> QED
    BY <1>1, TypeCorrect, ListenersFollow, PTL

(* admin.rs, reconcile: an edit of one binding leaves what is wanted of every
   other as it was, takes the listener of a deleted or parked one away, and
   asks for that of an added or patched one at the port it was given. *)
THEOREM EditsMoveOneListener ==
  ASSUME NEW ids, NEW c \in ValidConfigs(ids), NEW key \in Proto \X Port,
         NEW remote \in Port, NEW on \in BOOLEAN,
         NEW d \in DelBinding(c, key) \cup AddBinding(c, key, remote)
                     \cup PatchBinding(c, key, remote, on)
  PROVE  /\ \A k : k # key => (k \in DOMAIN Wanted(d) <=> k \in DOMAIN Wanted(c))
         /\ \A k \in DOMAIN Wanted(c) : k # key => Wanted(d)[k] = Wanted(c)[k]
         /\ d \in DelBinding(c, key) => key \notin DOMAIN Wanted(d)
         /\ d \in AddBinding(c, key, remote) =>
               key \in DOMAIN Wanted(d) /\ Wanted(d)[key] = remote
         /\ d \in PatchBinding(c, key, remote, on) =>
               /\ key \in DOMAIN Wanted(d) <=> on
               /\ on => Wanted(d)[key] = remote
  <1>1. /\ d \in ValidConfigs(ids)
        /\ \A b : BindingKey(b) # key => (b \in ActiveBindings(d) <=> b \in ActiveBindings(c))
    BY BindingEditsKeepOthers
  <1> PICK was, now : was = Wanted(c) /\ now = Wanted(d)
    OBVIOUS
  <1>2. /\ DOMAIN was = {BindingKey(b) : b \in ActiveBindings(c)}
        /\ \A b \in ActiveBindings(c) : was[BindingKey(b)] = b.remote
    BY WantedMeans
  <1>3. /\ DOMAIN now = {BindingKey(b) : b \in ActiveBindings(d)}
        /\ \A b \in ActiveBindings(d) : now[BindingKey(b)] = b.remote
    BY <1>1, WantedMeans
  <1>4. \A k : k # key => (k \in DOMAIN now <=> k \in DOMAIN was)
    BY <1>1, <1>2, <1>3
  <1>5. \A k \in DOMAIN was : k # key => now[k] = was[k]
    BY <1>1, <1>2, <1>3
  <1>6. ASSUME d \in DelBinding(c, key) PROVE key \notin DOMAIN now
    <2>1. Entries(d.bindings) = {b \in Entries(c.bindings) : BindingKey(b) # key}
      BY <1>6, DelBindingDoes
    <2>2. \A b \in ActiveBindings(d) : BindingKey(b) # key
      BY <2>1 DEF ActiveBindings
    <2> QED
      BY <1>3, <2>2
  <1>7. ASSUME d \in AddBinding(c, key, remote) PROVE key \in DOMAIN now /\ now[key] = remote
    <2>1. NewBinding(key, remote) \in Entries(d.bindings)
      BY <1>7, AddBindingDoes
    <2>2. PICK b \in Entries(d.bindings) : BindingKey(b) = key /\ b.remote = remote /\ b.enabled
      <3>1. PICK proto \in Proto, local \in Port : key = <<proto, local>>
        OBVIOUS
      <3>2. LET n == NewBinding(key, remote)
            IN  BindingKey(n) = key /\ n.remote = remote /\ n.enabled
        BY <3>1 DEF NewBinding, BindingKey
      <3> QED
        BY <2>1, <3>2
    <2> QED
      BY <1>3, <2>2 DEF ActiveBindings
  <1>8. ASSUME d \in PatchBinding(c, key, remote, on)
        PROVE  /\ key \in DOMAIN now <=> on
               /\ on => now[key] = remote
    <2>1. RevisesOne(c, d, key, remote, on)
      BY <1>8, PatchBindingDoes
    <2>2. PICK b \in Entries(c.bindings) :
             /\ BindingKey(b) = key
             /\ Entries(d.bindings) = (Entries(c.bindings) \ {b}) \cup {Revised(b, remote, on)}
      BY <2>1 DEF RevisesOne
    <2>3. \A x \in Entries(c.bindings) : BindingKey(x) = key => x = b
      BY <2>2 DEF Entries, ValidConfigs, Validate, NoRepeat
    <2>4. b \in Binding
      BY ConfigShape DEF ValidConfigs
    <2>5. PICK n : n = Revised(b, remote, on)
      OBVIOUS
    <2>6. BindingKey(n) = key /\ n.remote = remote /\ n.enabled = on
      BY <2>2, <2>4, <2>5 DEF Revised, Binding, BindingKey
    <2>7. \A x \in Entries(d.bindings) : BindingKey(x) = key => x = n
      BY <2>2, <2>3, <2>5
    <2>8. n \in Entries(d.bindings)
      BY <2>2, <2>5
    <2> QED
      BY <1>3, <2>6, <2>7, <2>8 DEF ActiveBindings
  <1> QED
    BY <1>4, <1>5, <1>6, <1>7, <1>8
=============================================================================
