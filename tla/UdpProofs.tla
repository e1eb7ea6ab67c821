----------------------------- MODULE UdpProofs -----------------------------
(***************************************************************************)
(* Theorems about UdpTunnel, for every set of programs, local and remote   *)
(* ports and any bounds: the types, the agreement of the two views of the  *)
(* connecting side's session table, and that ids cannot mix up replies or  *)
(* payloads within one generation of forwarders.                           *)
(***************************************************************************)
EXTENDS UdpTunnel, TLAPS

Keys == Sources \X Remotes
Route1 == [src : Sources, sock : Locals, idle : BOOLEAN]

(***************************************************************************)
(* Tables as functions on their domains.                                   *)
(***************************************************************************)
LEMMA KeyShape ==
  ASSUME NEW k
  PROVE  k \in KeyTable <=> DOMAIN k \subseteq Keys /\ k \in [DOMAIN k -> MintedIds]
  BY DEF KeyTable, Keys

LEMMA RouteShape ==
  ASSUME NEW r
  PROVE  r \in RouteTable <=> DOMAIN r \subseteq MintedIds /\ r \in [DOMAIN r -> Route1]
  BY DEF RouteTable, Route1

(* What TypeOK says of the sessions, as a set. *)
ServerTable == UNION {[D -> Session] : D \in SUBSET MintedIds}

LEMMA ServerShape ==
  ASSUME NEW s
  PROVE  s \in ServerTable <=> DOMAIN s \subseteq MintedIds /\ s \in [DOMAIN s -> Session]
  BY DEF ServerTable

LEMMA BoundsShape ==
  ASSUME NEW b
  PROVE  b \in Bounds <=> DOMAIN b \subseteq Locals /\ b \in [DOMAIN b -> Remotes]
  BY DEF Bounds

LEMMA MintedAreIds == MintedIds \subseteq Ids /\ MaxOpened + 1 <= IdSpace
  BY IdSpaceAssumption, UdpTunnelAssumption DEF MintedIds, Ids

(***************************************************************************)
(* One table of the connecting side, spawned with the listeners b: its two *)
(* views agree, ids were minted in order, and an entry's socket forwards   *)
(* to the port of its key.                                                 *)
(***************************************************************************)
Agree(t) ==
    /\ Range(t.by_key) = DOMAIN t.by_id
    /\ \A k \in DOMAIN t.by_key : t.by_id[t.by_key[k]].src = k[1]
    /\ \A k1, k2 \in DOMAIN t.by_key : t.by_key[k1] = t.by_key[k2] => k1 = k2

Sound(t, b) ==
    /\ t \in Tables
    /\ Agree(t)
    /\ \A id \in DOMAIN t.by_id : id <= t.next_id
    /\ \A k \in DOMAIN t.by_key : LET l == t.by_id[t.by_key[k]].sock
                                  IN  l \in DOMAIN b /\ b[l] = k[2]

LEMMA NewSound == ASSUME NEW b PROVE Sound(NewSessions, b)
  <1>1. NoEntries \in KeyTable /\ NoEntries \in RouteTable
    <2>1. DOMAIN NoEntries = {} /\ NoEntries \in [{} -> MintedIds] /\ NoEntries \in [{} -> Route1]
      BY DEF NoEntries
    <2> QED
      BY <2>1, KeyShape, RouteShape
  <1>2. 0 \in 0..MaxOpened
    BY UdpTunnelAssumption
  <1>3. NewSessions \in Tables
    BY <1>1, <1>2 DEF NewSessions, Tables
  <1>4. DOMAIN NoEntries = {}
    BY DEF NoEntries
  <1> QED
    BY <1>3, <1>4 DEF Sound, Agree, NewSessions, Range

(* u is t but for the idle flag of some entries. *)
SameRoutes(t, u) ==
    /\ u.by_key = t.by_key /\ u.next_id = t.next_id /\ DOMAIN u.by_id = DOMAIN t.by_id
    /\ \A x \in DOMAIN t.by_id : /\ u.by_id[x].src = t.by_id[x].src
                                 /\ u.by_id[x].sock = t.by_id[x].sock

LEMMA SameRoutesSound ==
  ASSUME NEW b, NEW t, Sound(t, b), NEW u \in Tables, SameRoutes(t, u)
  PROVE  Sound(u, b)
  <1>1. \A k \in DOMAIN t.by_key : t.by_key[k] \in DOMAIN t.by_id
    BY DEF Sound, Agree, Range
  <1> QED
    BY <1>1 DEF Sound, Agree, SameRoutes

(* The entry of an id, used again or silent, keeps its route. *)
LEMMA SetIdle ==
  ASSUME NEW t \in Tables, NEW id \in DOMAIN t.by_id, NEW i \in BOOLEAN
  PROVE  LET u == [t EXCEPT !.by_id = [@ EXCEPT ![id].idle = i]]
         IN  u \in Tables /\ SameRoutes(t, u)
  <1> DEFINE e == [t.by_id[id] EXCEPT !.idle = i]
             r == [t.by_id EXCEPT ![id] = e]
             u == [t EXCEPT !.by_id = r]
  <1>1. t.by_id \in [DOMAIN t.by_id -> Route1] /\ DOMAIN t.by_id \subseteq MintedIds
    BY RouteShape DEF Tables
  <1>2. t.by_id[id] \in Route1
    BY <1>1
  <1>3. e \in Route1 /\ e.src = t.by_id[id].src /\ e.sock = t.by_id[id].sock
    BY <1>2 DEF Route1
  <1>4. r \in [DOMAIN t.by_id -> Route1] /\ DOMAIN r = DOMAIN t.by_id
    BY <1>1, <1>3
  <1>5. \A x \in DOMAIN t.by_id : r[x].src = t.by_id[x].src /\ r[x].sock = t.by_id[x].sock
    BY <1>1, <1>3
  <1>6. r \in RouteTable
    BY <1>1, <1>4, RouteShape
  <1>7. u \in Tables /\ u.by_key = t.by_key /\ u.next_id = t.next_id /\ u.by_id = r
    BY <1>6 DEF Tables
  <1>8. SameRoutes(t, u)
    BY <1>4, <1>5, <1>7 DEF SameRoutes
  <1>9. u = [t EXCEPT !.by_id = [@ EXCEPT ![id].idle = i]]
    OBVIOUS
  <1> QED
    BY <1>7, <1>8, <1>9

LEMMA TouchRoutes ==
  ASSUME NEW t \in Tables, NEW id
  PROVE  LET u == [t EXCEPT !.by_id = Touch(@, id)]
         IN  u \in Tables /\ SameRoutes(t, u)
  <1>1. CASE id \in DOMAIN t.by_id
    <2>1. LET u == [t EXCEPT !.by_id = [@ EXCEPT ![id].idle = FALSE]]
          IN  u \in Tables /\ SameRoutes(t, u)
      BY <1>1, SetIdle
    <2> QED
      BY <1>1, <2>1 DEF Touch
  <1>2. CASE id \notin DOMAIN t.by_id
    <2>1. [t EXCEPT !.by_id = Touch(@, id)] = t
      BY <1>2 DEF Touch, Tables
    <2> QED
      BY <2>1 DEF SameRoutes
  <1> QED
    BY <1>1, <1>2

LEMMA SilenceRoutes ==
  ASSUME NEW t \in Tables, NEW id \in DOMAIN t.by_id
  PROVE  LET u == [t EXCEPT !.by_id = Silence(@, id)]
         IN  u \in Tables /\ SameRoutes(t, u)
  <1>1. LET u == [t EXCEPT !.by_id = [@ EXCEPT ![id].idle = TRUE]]
        IN  u \in Tables /\ SameRoutes(t, u)
    BY SetIdle
  <1> QED
    BY <1>1 DEF Silence

(* reap keeps a sound table sound, and mints nothing. *)
LEMMA ReapSound ==
  ASSUME NEW b, NEW t, Sound(t, b)
  PROVE  LET u == ReapBoth(t)
         IN  /\ Sound(u, b) /\ u.next_id = t.next_id
             /\ DOMAIN u.by_id \subseteq DOMAIN t.by_id
             /\ \A x \in DOMAIN u.by_id : u.by_id[x] = t.by_id[x]
  <1> DEFINE L == {x \in DOMAIN t.by_id : ~t.by_id[x].idle}
             K == {k \in DOMAIN t.by_key : t.by_key[k] \in L}
             left == [x \in L |-> t.by_id[x]]
             keys == [k \in K |-> t.by_key[k]]
             u == ReapBoth(t)
  <1>1. t \in Tables /\ Agree(t)
    BY DEF Sound
  <1>2. left = ReapIdle(t.by_id) /\ DOMAIN left = L
    BY DEF ReapIdle, Retain, Restrict
  <1>3. keys = Restrict(t.by_key, {k \in DOMAIN t.by_key :
                                        t.by_key[k] \in DOMAIN ReapIdle(t.by_id)})
    BY <1>2 DEF Restrict
  <1>4. u = [by_key |-> keys, by_id |-> left, next_id |-> t.next_id]
    <2>1. t = [by_key |-> t.by_key, by_id |-> t.by_id, next_id |-> t.next_id]
      BY <1>1 DEF Tables
    <2>2. u = [t EXCEPT !.by_id = left, !.by_key = keys]
      <3> HIDE DEF left, keys
      <3> QED
        BY <1>2, <1>3 DEF ReapBoth
    <2> HIDE DEF left, keys, u
    <2> QED
      BY <2>1, <2>2
  <1>5. left \in RouteTable
    BY <1>1, RouteShape DEF Tables
  <1>6. keys \in KeyTable
    BY <1>1, KeyShape DEF Tables
  <1>7. u \in Tables
    BY <1>1, <1>4, <1>5, <1>6 DEF Tables
  <1>8. Range(keys) = L
    <2>1. \A id \in L : \E k \in DOMAIN t.by_key : t.by_key[k] = id
      BY <1>1 DEF Agree, Range
    <2>2. \A k \in K : keys[k] = t.by_key[k]
      OBVIOUS
    <2>3. \A id \in L : \E k \in K : keys[k] = id
      BY <2>1, <2>2
    <2> QED
      BY <2>2, <2>3 DEF Range
  <1>9. /\ u.by_key = keys /\ u.by_id = left /\ u.next_id = t.next_id
        /\ DOMAIN keys = K /\ DOMAIN left = L
        /\ \A k \in K : keys[k] = t.by_key[k] /\ t.by_key[k] \in L
        /\ \A id \in L : left[id] = t.by_id[id]
        /\ K \subseteq DOMAIN t.by_key /\ L \subseteq DOMAIN t.by_id
    BY <1>4
  <1> HIDE DEF keys, left, K, L, u
  <1>10. Agree(u)
    BY <1>1, <1>8, <1>9 DEF Agree
  <1>11. Sound(u, b)
    BY <1>7, <1>9, <1>10 DEF Sound
  <1> QED
    BY <1>9, <1>11 DEF u

(* id_for: the id it answers leads back to the key, and no other route moves.
   A fresh id is above every id minted before. *)
Leads(t, b, id, k) ==
    /\ id \in DOMAIN t.by_id /\ id <= t.next_id
    /\ t.by_id[id].src = k[1]
    /\ t.by_id[id].sock \in DOMAIN b /\ b[t.by_id[id].sock] = k[2]

Kept(t, u, id) ==
    /\ t.next_id <= u.next_id
    /\ \A x \in DOMAIN u.by_id :
         \/ x = id /\ t.next_id < x
         \/ /\ x \in DOMAIN t.by_id
            /\ u.by_id[x].src = t.by_id[x].src /\ u.by_id[x].sock = t.by_id[x].sock

LEMMA FreshId ==
  ASSUME NEW t \in Tables, t.next_id < MaxOpened
  PROVE  NextId(t) = t.next_id + 1 /\ NextId(t) \in MintedIds
  <1>1. t.next_id \in Nat /\ t.next_id + 1 < IdSpace /\ IdSpace \in Nat
    BY IdSpaceAssumption, UdpTunnelAssumption DEF Tables
  <1>2. \A m, n \in Nat : m < n => m % n = m
    OBVIOUS
  <1>3. (t.next_id + 1) % IdSpace = t.next_id + 1
    BY <1>1, <1>2
  <1> QED
    BY <1>1, <1>3, UdpTunnelAssumption DEF NextId, MintedIds

LEMMA IdForKnown ==
  ASSUME NEW b, NEW t, Sound(t, b), NEW k \in Keys, NEW l, Known(t, k)
  PROVE  LET u == AfterIdFor(t, k, l)
             id == IdFor(t, k)
         IN  Sound(u, b) /\ id \in MintedIds /\ Leads(u, b, id, k) /\ Kept(t, u, id)
  <1> DEFINE u == AfterIdFor(t, k, l)
             id == t.by_key[k]
  <1>1. t \in Tables /\ Agree(t) /\ k \in DOMAIN t.by_key /\ IdFor(t, k) = id
    BY DEF Sound, Known, IdFor
  <1>2. id \in DOMAIN t.by_id /\ id \in MintedIds
    BY <1>1, KeyShape DEF Agree, Range, Tables
  <1>3. u = [t EXCEPT !.by_id = [@ EXCEPT ![id].idle = FALSE]]
    BY DEF AfterIdFor
  <1>4. u \in Tables /\ SameRoutes(t, u)
    <2>1. LET v == [t EXCEPT !.by_id = [@ EXCEPT ![id].idle = FALSE]]
          IN  v \in Tables /\ SameRoutes(t, v)
      BY <1>1, <1>2, SetIdle
    <2> QED
      BY <1>3, <2>1
  <1>5. Sound(u, b)
    BY <1>4, SameRoutesSound
  <1>6. t.next_id \in Nat
    BY <1>1 DEF Tables
  <1> HIDE DEF u
  <1>7. Leads(u, b, id, k)
    BY <1>1, <1>2, <1>4 DEF Leads, SameRoutes, Sound, Agree
  <1>8. Kept(t, u, id)
    BY <1>4, <1>6 DEF Kept, SameRoutes
  <1> QED
    BY <1>1, <1>2, <1>5, <1>7, <1>8 DEF u

LEMMA IdForFresh ==
  ASSUME NEW b, NEW t, Sound(t, b), NEW k \in Keys, ~Known(t, k), t.next_id < MaxOpened,
         NEW l \in Locals, l \in DOMAIN b, b[l] = k[2]
  PROVE  LET u == AfterIdFor(t, k, l)
             id == IdFor(t, k)
         IN  Sound(u, b) /\ id \in MintedIds /\ Leads(u, b, id, k) /\ Kept(t, u, id)
  <1> DEFINE u == AfterIdFor(t, k, l)
             id == t.next_id + 1
             e == [src |-> k[1], sock |-> l, idle |-> FALSE]
             keys == With(t.by_key, k, id)
             routes == With(t.by_id, id, e)
  <1>1. t \in Tables /\ Agree(t) /\ k \notin DOMAIN t.by_key
    BY DEF Sound, Known
  <1>2. IdFor(t, k) = id /\ id \in MintedIds /\ t.next_id \in Nat
    BY <1>1, FreshId DEF IdFor, Tables
  <1>3. u = [by_key |-> keys, by_id |-> routes, next_id |-> id]
    BY <1>2 DEF AfterIdFor
  <1>4. /\ t.by_key \in [DOMAIN t.by_key -> MintedIds] /\ DOMAIN t.by_key \subseteq Keys
        /\ t.by_id \in [DOMAIN t.by_id -> Route1] /\ DOMAIN t.by_id \subseteq MintedIds
    BY <1>1, KeyShape, RouteShape DEF Tables
  <1>5. e \in Route1
    BY DEF Route1, Keys
  <1>6. /\ DOMAIN keys = DOMAIN t.by_key \cup {k} /\ keys[k] = id
        /\ \A x \in DOMAIN t.by_key : keys[x] = t.by_key[x]
        /\ keys \in [DOMAIN keys -> MintedIds]
    BY <1>1, <1>2, <1>4 DEF With
  <1>7. id \notin DOMAIN t.by_id /\ \A x \in DOMAIN t.by_id : x < id
    BY <1>2, <1>4 DEF Sound, MintedIds
  <1>8. /\ DOMAIN routes = DOMAIN t.by_id \cup {id} /\ routes[id] = e
        /\ \A x \in DOMAIN t.by_id : routes[x] = t.by_id[x]
        /\ routes \in [DOMAIN routes -> Route1]
    BY <1>4, <1>5, <1>7 DEF With
  <1>9. keys \in KeyTable
    <2>1. DOMAIN keys \subseteq Keys
      BY <1>4, <1>6
    <2> HIDE DEF keys
    <2> QED
      BY <1>6, <2>1, KeyShape
  <1>10. routes \in RouteTable
    <2>1. DOMAIN routes \subseteq MintedIds
      BY <1>2, <1>4, <1>8
    <2> HIDE DEF routes
    <2> QED
      BY <1>8, <2>1, RouteShape
  <1>11. u \in Tables /\ u.by_key = keys /\ u.by_id = routes /\ u.next_id = id
    BY <1>2, <1>3, <1>9, <1>10 DEF Tables, MintedIds
  <1>12. e.src = k[1] /\ e.sock = l
    OBVIOUS
  <1>13. \A x \in DOMAIN t.by_key : t.by_key[x] \in DOMAIN t.by_id
    BY <1>1 DEF Agree, Range
  <1> HIDE DEF u, keys, routes, e
  <1>14. Range(keys) = DOMAIN routes
    <2>1. \A x \in DOMAIN t.by_id : \E y \in DOMAIN keys : keys[y] = x
      BY <1>1, <1>6 DEF Agree, Range
    <2>2. \A y \in DOMAIN keys : keys[y] \in DOMAIN routes
      BY <1>6, <1>8, <1>13
    <2>3. \A x \in DOMAIN routes : \E y \in DOMAIN keys : keys[y] = x
      BY <2>1, <1>6, <1>8
    <2> QED
      BY <2>2, <2>3 DEF Range
  <1>15. Agree(u)
    BY <1>1, <1>6, <1>7, <1>8, <1>11, <1>12, <1>13, <1>14 DEF Agree
  <1>16. \A x \in DOMAIN routes : x <= id
    BY <1>2, <1>4, <1>7, <1>8 DEF MintedIds
  <1>17. Sound(u, b)
    BY <1>6, <1>7, <1>8, <1>11, <1>12, <1>13, <1>15, <1>16 DEF Sound
  <1>18. Leads(u, b, id, k)
    BY <1>2, <1>8, <1>11, <1>12 DEF Leads
  <1>19. Kept(t, u, id)
    BY <1>2, <1>8, <1>11 DEF Kept
  <1> QED
    BY <1>2, <1>17, <1>18, <1>19 DEF u

LEMMA IdForSound ==
  ASSUME NEW b, NEW t, Sound(t, b), NEW k \in Keys, NEW l \in Locals,
         l \in DOMAIN b, b[l] = k[2], Known(t, k) \/ t.next_id < MaxOpened
  PROVE  LET u == AfterIdFor(t, k, l)
             id == IdFor(t, k)
         IN  Sound(u, b) /\ id \in MintedIds /\ Leads(u, b, id, k) /\ Kept(t, u, id)
  <1>1. CASE Known(t, k)
    BY <1>1, IdForKnown
  <1>2. CASE ~Known(t, k)
    BY <1>2, IdForFresh
  <1> QED
    BY <1>1, <1>2

(***************************************************************************)
(* Type correctness, and every table sound for the listeners of its        *)
(* generation: Spec => [](TypeOK /\ TablesSound)                           *)
(***************************************************************************)
TablesSound ==
    \A g \in Gens : /\ Sound(tables[g], maps[g])
                    /\ g \notin running => tables[g] = NewSessions

LEMMA ServerWith ==
  ASSUME NEW s \in ServerTable, NEW id \in MintedIds, NEW e \in Session
  PROVE  With(s, id, e) \in ServerTable
  <1>1. With(s, id, e) \in [DOMAIN s \cup {id} -> Session] /\ DOMAIN s \subseteq MintedIds
    BY ServerShape DEF With
  <1>2. DOMAIN With(s, id, e) = DOMAIN s \cup {id}
    BY DEF With
  <1> QED
    BY <1>1, <1>2, ServerShape

LEMMA ServerUpdate ==
  ASSUME NEW s \in ServerTable, NEW id \in DOMAIN s, NEW e \in Session
  PROVE  [s EXCEPT ![id] = e] \in ServerTable
  <1>1. s \in [DOMAIN s -> Session] /\ DOMAIN s \subseteq MintedIds
    BY ServerShape
  <1> QED
    BY <1>1, ServerShape

LEMMA ServerEntry ==
  ASSUME NEW s \in ServerTable, NEW id \in DOMAIN s
  PROVE  s[id] \in Session /\ id \in MintedIds
  BY ServerShape

LEMMA ServerSetIdle ==
  ASSUME NEW s \in ServerTable, NEW id \in DOMAIN s, NEW i \in BOOLEAN
  PROVE  [s EXCEPT ![id].idle = i] \in ServerTable
  <1>1. [s[id] EXCEPT !.idle = i] \in Session
    BY ServerEntry DEF Session
  <1>2. [s EXCEPT ![id] = [s[id] EXCEPT !.idle = i]] \in ServerTable
    BY <1>1, ServerUpdate
  <1> QED
    BY <1>2

LEMMA ServerTouch == ASSUME NEW s \in ServerTable, NEW id PROVE Touch(s, id) \in ServerTable
  BY ServerSetIdle DEF Touch

LEMMA ServerReaped == ASSUME NEW s \in ServerTable PROVE ReapIdle(s) \in ServerTable
  <1>1. s \in [DOMAIN s -> Session] /\ DOMAIN s \subseteq MintedIds
    BY ServerShape
  <1> QED
    BY <1>1, ServerShape DEF ReapIdle, Retain, Restrict

LEMMA SentSession ==
  ASSUME NEW s \in Session, NEW f \in Flow
  PROVE  Sent(s, f) \in Session
  BY DEF Sent, Session

LEMMA NoBounds == NoEntries \in Bounds
  <1>1. DOMAIN NoEntries = {} /\ NoEntries \in [{} -> Remotes]
    BY DEF NoEntries
  <1> QED
    BY <1>1, BoundsShape

LEMMA SoundInit == Init => TypeOK /\ TablesSound
  <1> SUFFICES ASSUME Init PROVE TypeOK /\ TablesSound
    OBVIOUS
  <1>1. gen \in Gens /\ running \subseteq 1..gen
    BY UdpTunnelAssumption DEF Init, Gens, Forwarders
  <1>2. maps \in [Gens -> Bounds]
    BY NoBounds, UdpTunnelAssumption DEF Init, Bounds
  <1>3. TablesSound
    BY NewSound DEF Init, TablesSound
  <1>4. tables \in [Gens -> Tables]
    BY NewSound DEF Init, Sound
  <1>5. server \in ServerTable
    <2>1. DOMAIN NoEntries = {} /\ NoEntries \in [{} -> Session]
      BY DEF NoEntries
    <2> QED
      BY <2>1, ServerShape DEF Init
  <1>6. up \in [Remotes -> BOOLEAN] /\ handed \subseteq Delivery
        /\ toServe \subseteq Datagram /\ toClient \subseteq Datagram
    BY DEF Init
  <1> QED
    BY <1>1, <1>2, <1>3, <1>4, <1>5, <1>6, ServerShape DEF TypeOK

(* A step that replaces one table by a sound one keeps all of them sound. *)
LEMMA OneTable ==
  ASSUME TypeOK, TablesSound, NEW g \in running, NEW u, Sound(u, maps[g]),
         tables' = [tables EXCEPT ![g] = u], UNCHANGED <<gen, maps, running>>
  PROVE  TablesSound' /\ tables' \in [Gens -> Tables] /\ g \in Gens
  <1>1. g \in Gens
    BY UdpTunnelAssumption DEF TypeOK, Gens
  <1>2. tables \in [Gens -> Tables] /\ u \in Tables
    BY DEF TypeOK, Sound
  <1>3. tables' \in [Gens -> Tables]
    BY <1>1, <1>2
  <1>4. ASSUME NEW h \in Gens
        PROVE  Sound(tables'[h], maps'[h]) /\ (h \notin running' => tables'[h] = NewSessions)
    <2>1. CASE h = g
      BY <1>1, <1>2, <2>1
    <2>2. CASE h # g
      BY <1>2, <2>2 DEF TablesSound
    <2> QED
      BY <2>1, <2>2
  <1> QED
    BY <1>1, <1>3, <1>4 DEF TablesSound

LEMMA SoundClient ==
  ASSUME TypeOK, TablesSound, ClientNext
  PROVE  TypeOK' /\ TablesSound'
  <1> USE DEF TypeOK
  <1>1. ASSUME NEW g \in Gens, NEW s \in Sources, NEW l \in Locals, ForwardOut(g, s, l)
        PROVE  TypeOK' /\ TablesSound'
    <2> DEFINE t == tables[g]
               port == maps[g][l]
               key == SessionKey(s, port)
               flow == [src |-> s, local |-> l, remote |-> port, gen |-> g]
               d == [id |-> IdFor(t, key), port |-> port, flow |-> flow]
    <2>1. g \in running /\ l \in DOMAIN maps[g] /\ port \in Remotes
      BY <1>1, BoundsShape DEF ForwardOut
    <2>2. key \in Keys /\ key[2] = port /\ Sound(t, maps[g])
      BY <2>1 DEF SessionKey, Keys, TablesSound
    <2>3. /\ Known(t, key) \/ t.next_id < MaxOpened
          /\ toServe' = toServe \cup {d}
          /\ tables' = [tables EXCEPT ![g] = AfterIdFor(t, key, l)]
          /\ UNCHANGED <<gen, maps, running, toClient, server, up>> /\ handed' = {}
      BY <1>1 DEF ForwardOut
    <2> HIDE DEF t, key
    <2>4. Sound(AfterIdFor(t, key, l), maps[g]) /\ IdFor(t, key) \in MintedIds
      BY <2>1, <2>2, <2>3, IdForSound
    <2>5. d \in Datagram
      BY <2>1, <2>4 DEF Datagram, Flow
    <2>6. TablesSound' /\ tables' \in [Gens -> Tables]
      BY <2>1, <2>3, <2>4, OneTable
    <2> QED
      BY <2>3, <2>5, <2>6
  <1>2. ASSUME NEW g \in Gens, NEW d \in toClient, DeliverBack(g, d)
        PROVE  TypeOK' /\ TablesSound'
    <2> DEFINE t == tables[g]
               u == [t EXCEPT !.by_id = Touch(@, d.id)]
    <2>1. g \in running /\ Sound(t, maps[g]) /\ t \in Tables
      BY <1>2 DEF DeliverBack, TablesSound, Sound
    <2>2. u \in Tables /\ SameRoutes(t, u)
      BY <2>1, TouchRoutes
    <2>3. Sound(u, maps[g])
      BY <2>1, <2>2, SameRoutesSound
    <2>4. tables' = [tables EXCEPT ![g] = u]
      BY <1>2 DEF DeliverBack
    <2>5. UNCHANGED <<gen, maps, running, toServe, server, up>> /\ toClient' \subseteq toClient
      BY <1>2 DEF DeliverBack
    <2>6. handed' \subseteq Delivery
      <3>1. \A r \in Route(t.by_id, d.id) : r \in Route1
        BY <2>1, RouteShape DEF Route, Tables
      <3>2. d.flow \in Flow
        BY DEF Datagram
      <3>3. \A r \in Route1 : [to |-> r.src, local |-> r.sock, flow |-> d.flow] \in Delivery
        BY <3>2 DEF Route1, Delivery
      <3> QED
        BY <1>2, <3>1, <3>3 DEF DeliverBack
    <2>7. TablesSound' /\ tables' \in [Gens -> Tables]
      BY <2>1, <2>3, <2>4, <2>5, OneTable
    <2> QED
      BY <2>5, <2>6, <2>7
  <1>3. ASSUME NEW b \in LaterBounds, Respawn(b)
        PROVE  TypeOK' /\ TablesSound'
    <2>1. /\ gen \in Gens /\ gen' = gen + 1 /\ gen' \in Gens
          /\ running \subseteq 1..gen
      BY <1>3, UdpTunnelAssumption DEF Respawn, Gens
    <2>2. running' \subseteq 1..gen'
      BY <1>3, <2>1, UdpTunnelAssumption DEF Respawn, Forwarders, Gens
    <2>3. maps' = [maps EXCEPT ![gen'] = b] /\ tables' = tables
      BY <1>3, <2>1 DEF Respawn
    <2>4. maps' \in [Gens -> Bounds]
      BY <2>1, <2>3, UdpTunnelAssumption DEF Bounds
    <2>5. gen' \notin running
      BY <2>1, UdpTunnelAssumption DEF Gens
    <2>6. ASSUME NEW g \in Gens
          PROVE  Sound(tables'[g], maps'[g]) /\ (g \notin running' => tables'[g] = NewSessions)
      <3>1. CASE g = gen'
        BY <2>3, <2>5, <3>1, NewSound DEF TablesSound
      <3>2. CASE g # gen'
        <4>1. maps'[g] = maps[g]
          BY <2>3, <3>2
        <4>2. g \notin running' => g \notin running
          BY <1>3 DEF Respawn
        <4> QED
          BY <2>3, <4>1, <4>2 DEF TablesSound
      <3> QED
        BY <3>1, <3>2
    <2>7. UNCHANGED <<toServe, toClient, server, up>> /\ handed' = {}
      BY <1>3 DEF Respawn
    <2> QED
      BY <2>1, <2>2, <2>3, <2>4, <2>6, <2>7 DEF TablesSound
  <1>4. ASSUME NEW g \in Gens, Cancelled(g)
        PROVE  TypeOK' /\ TablesSound'
    <2>1. /\ running' = running \ {g} /\ tables' = [tables EXCEPT ![g] = NewSessions]
          /\ UNCHANGED <<gen, maps, toServe, toClient, server, up>> /\ handed' = {}
      BY <1>4 DEF Cancelled
    <2>2. NewSessions \in Tables
      BY NewSound DEF Sound
    <2>3. tables' \in [Gens -> Tables]
      BY <2>1, <2>2
    <2>4. ASSUME NEW h \in Gens
          PROVE  Sound(tables'[h], maps'[h]) /\ (h \notin running' => tables'[h] = NewSessions)
      <3>1. CASE h = g
        BY <2>1, <3>1, NewSound
      <3>2. CASE h # g
        BY <2>1, <3>2 DEF TablesSound
      <3> QED
        BY <3>1, <3>2
    <2>5. running' \subseteq 1..gen'
      BY <2>1
    <2> QED
      BY <2>1, <2>3, <2>4, <2>5 DEF TablesSound
  <1>5. ASSUME NEW g \in Gens, ClientReap(g)
        PROVE  TypeOK' /\ TablesSound'
    <2>1. /\ g \in running /\ tables' = [tables EXCEPT ![g] = ReapBoth(tables[g])]
          /\ UNCHANGED <<gen, maps, running, toServe, toClient, server, up>> /\ handed' = {}
      BY <1>5 DEF ClientReap
    <2>2. Sound(ReapBoth(tables[g]), maps[g])
      BY ReapSound DEF TablesSound
    <2>3. TablesSound' /\ tables' \in [Gens -> Tables]
      BY <2>1, <2>2, OneTable
    <2> QED
      BY <2>1, <2>3
  <1>6. ASSUME NEW g \in Gens, NEW id \in Ids, ClientSilence(g, id)
        PROVE  TypeOK' /\ TablesSound'
    <2> DEFINE t == tables[g]
               u == [t EXCEPT !.by_id = Silence(@, id)]
    <2>1. id \in DOMAIN t.by_id /\ Sound(t, maps[g]) /\ t \in Tables
      BY <1>6 DEF ClientSilence, TablesSound, Sound
    <2>2. g \in running
      BY <2>1 DEF TablesSound, NewSessions, NoEntries
    <2>3. u \in Tables /\ SameRoutes(t, u)
      BY <2>1, SilenceRoutes
    <2>4. Sound(u, maps[g])
      BY <2>1, <2>3, SameRoutesSound
    <2>5. /\ tables' = [tables EXCEPT ![g] = u]
          /\ UNCHANGED <<gen, maps, running, toServe, toClient, server, up>> /\ handed' = {}
      BY <1>6 DEF ClientSilence
    <2>6. TablesSound' /\ tables' \in [Gens -> Tables]
      BY <2>2, <2>4, <2>5, OneTable
    <2> QED
      BY <2>5, <2>6
  <1> QED
    BY <1>1, <1>2, <1>3, <1>4, <1>5, <1>6 DEF ClientNext

LEMMA SoundServer ==
  ASSUME TypeOK, TablesSound, ServerNext
  PROVE  TypeOK' /\ TablesSound'
  <1> USE DEF TypeOK, clientVars
  <1>0. server \in ServerTable
    BY ServerShape
  <1>1. UNCHANGED <<gen, maps, running, tables, up>> /\ handed' = {}
    BY DEF ServerNext, DeliverOut, OpenFails, ReplyBack, ReplyOn, ReplyTaskEnds,
           ServerSilence, ServerReap
  <1>2. TablesSound'
    BY <1>1 DEF TablesSound
  <1>3. ASSUME NEW d \in toServe, DeliverOut(d)
        PROVE  server' \in ServerTable /\ toServe' \subseteq Datagram /\ toClient' \subseteq Datagram
    <2>1. d.id \in MintedIds /\ d.port \in Remotes /\ d.flow \in Flow /\ d.flow.gen \in Gens
      BY DEF Datagram, Flow
    <2>2. Opened(d) \in Session
      BY <2>1 DEF Opened, Session
    <2>3. SessionOf(d) \in Session
      BY <1>0, <2>2, ServerEntry DEF SessionOf
    <2>4. Sent(SessionOf(d), d.flow) \in Session
      BY <2>1, <2>3, SentSession
    <2> QED
      BY <1>0, <1>3, <2>1, <2>4, ServerWith DEF DeliverOut
  <1>4. ASSUME NEW d \in toServe, OpenFails(d)
        PROVE  server' \in ServerTable /\ toServe' \subseteq Datagram /\ toClient' \subseteq Datagram
    BY <1>0, <1>4 DEF OpenFails
  <1>5. ASSUME NEW id \in DOMAIN server, NEW f \in server[id].heard, ReplyBack(id, f)
        PROVE  server' \in ServerTable /\ toServe' \subseteq Datagram /\ toClient' \subseteq Datagram
    <2>1. id \in MintedIds /\ server[id].port \in Remotes /\ f \in Flow
      BY ServerEntry DEF Session
    <2>2. [id |-> id, port |-> server[id].port, flow |-> f] \in Datagram
      BY <2>1 DEF Datagram
    <2> QED
      BY <1>0, <1>5, <2>2, ServerTouch DEF ReplyBack, ReplyOn
  <1>6. ASSUME NEW id \in Ids, ReplyTaskEnds(id)
        PROVE  server' \in ServerTable /\ toServe' \subseteq Datagram /\ toClient' \subseteq Datagram
    <2> DEFINE e == [server[id] EXCEPT !.pump = FALSE, !.err = FALSE]
    <2>1. id \in DOMAIN server /\ UNCHANGED <<toServe, toClient>>
          /\ server' = [server EXCEPT ![id] = e]
      BY <1>6 DEF ReplyTaskEnds
    <2>2. server[id] \in Session
      BY <2>1, ServerEntry
    <2>3. e \in Session
      BY <2>2 DEF Session
    <2> QED
      BY <1>0, <2>1, <2>3, ServerUpdate
  <1>7. ASSUME NEW id \in Ids, ServerSilence(id)
        PROVE  server' \in ServerTable /\ toServe' \subseteq Datagram /\ toClient' \subseteq Datagram
    BY <1>0, <1>7, ServerSetIdle DEF ServerSilence, Silence
  <1>8. ASSUME ServerReap
        PROVE  server' \in ServerTable /\ toServe' \subseteq Datagram /\ toClient' \subseteq Datagram
    BY <1>0, <1>8, ServerReaped DEF ServerReap
  <1>9. server' \in ServerTable /\ toServe' \subseteq Datagram /\ toClient' \subseteq Datagram
    BY <1>3, <1>4, <1>5, <1>6, <1>7, <1>8 DEF ServerNext
  <1> QED
    BY <1>1, <1>2, <1>9, ServerShape

LEMMA SoundOutside ==
  ASSUME TypeOK, TablesSound, OutsideNext
  PROVE  TypeOK' /\ TablesSound'
  <1> USE DEF TypeOK, clientVars
  <1>1. UNCHANGED <<gen, maps, running, tables>> /\ handed' = {}
    BY DEF OutsideNext, Lose, ServiceStops, ServiceStarts
  <1>2. TablesSound'
    BY <1>1 DEF TablesSound
  <1>3. ASSUME NEW d \in toServe \cup toClient, Lose(d)
        PROVE  TypeOK'
    BY <1>1, <1>3 DEF Lose
  <1>4. ASSUME NEW p \in MayStop, ServiceStops(p)
        PROVE  TypeOK'
    <2>1. server \in [DOMAIN server -> Session] /\ DOMAIN server \subseteq MintedIds
      OBVIOUS
    <2>2. \A id \in DOMAIN server : [server[id] EXCEPT !.heard = {}] \in Session
      BY <2>1 DEF Session
    <2>3. server' \in [DOMAIN server -> Session] /\ DOMAIN server' = DOMAIN server
      BY <1>4, <2>1, <2>2 DEF ServiceStops
    <2>4. DOMAIN server' \subseteq MintedIds /\ server' \in [DOMAIN server' -> Session]
      BY <2>1, <2>3
    <2> QED
      BY <1>1, <1>4, <2>4 DEF ServiceStops
  <1>5. ASSUME NEW p \in MayStop, ServiceStarts(p)
        PROVE  TypeOK'
    BY <1>1, <1>5 DEF ServiceStarts
  <1> QED
    BY <1>2, <1>3, <1>4, <1>5 DEF OutsideNext

LEMMA SoundNext == TypeOK /\ TablesSound /\ [Next]_vars => TypeOK' /\ TablesSound'
  <1> SUFFICES ASSUME TypeOK, TablesSound, [Next]_vars
               PROVE  TypeOK' /\ TablesSound'
    OBVIOUS
  <1>1. CASE UNCHANGED vars
    BY <1>1 DEF TypeOK, TablesSound, vars, clientVars
  <1> QED
    BY <1>1, SoundClient, SoundServer, SoundOutside DEF Next

(* Every reachable state of the UDP data path is well typed: ids stay within
   what was minted, and both session tables within their types. *)
THEOREM TypeCorrect == Spec => []TypeOK
  <1>1. Spec => [](TypeOK /\ TablesSound)
    BY SoundInit, SoundNext, PTL DEF Spec
  <1> QED
    BY <1>1, PTL

(* The two views of the session table, `by_key` and `by_id`, agree in every
   reachable state, so id_for's unwrap never fails. *)
THEOREM ViewsAgree == Spec => []TablesAgree
  <1>1. Spec => [](TypeOK /\ TablesSound)
    BY SoundInit, SoundNext, PTL DEF Spec
  <1>2. TablesSound => TablesAgree
    BY DEF TablesSound, TablesAgree, Sound, Agree
  <1> QED
    BY <1>1, <1>2, PTL

(***************************************************************************)
(* What an id stands for.  A datagram or a reply in flight and a payload a *)
(* service has heard claim that their id means their flow; they, and the   *)
(* sessions, claim that it means a port.                                   *)
(***************************************************************************)
Claimed(id, f) ==
    \/ \E d \in toServe \cup toClient : d.id = id /\ d.flow = f
    \/ id \in DOMAIN server /\ f \in server[id].heard

PortClaimed(id, g, p) ==
    \/ \E f \in Flow : Claimed(id, f) /\ f.gen = g /\ f.remote = p
    \/ id \in DOMAIN server /\ server[id].gen = g /\ server[id].port = p

(* The table of a generation that still runs has minted every id claimed in
   its name, and if it still has the id, it means the same port by it. *)
PortFits(id, g, p) ==
    /\ g <= gen
    /\ g \in running =>
         /\ id <= tables[g].next_id
         /\ id \in DOMAIN tables[g].by_id => maps[g][tables[g].by_id[id].sock] = p

SourceFits(id, f) ==
    f.gen \in running /\ id \in DOMAIN tables[f.gen].by_id
        => tables[f.gen].by_id[id].src = f.src

IdsMeanOneFlow ==
    /\ \A id \in MintedIds, g \in Gens, p \in Remotes :
         PortClaimed(id, g, p) => PortFits(id, g, p)
    /\ \A id \in MintedIds, g \in Gens, p, q \in Remotes :
         PortClaimed(id, g, p) /\ PortClaimed(id, g, q) => p = q
    /\ \A id \in MintedIds, f \in Flow : Claimed(id, f) => SourceFits(id, f)
    /\ \A d \in toServe : d.port = d.flow.remote

(* The running tables only forget, from a state to the next, or mint above
   what they had minted, but for what skip names. *)
OnlyForget(skip, skipGen) ==
    \A g \in running' : g <= gen =>
        /\ g \in running /\ maps'[g] = maps[g]
        /\ tables[g].next_id <= tables'[g].next_id
        /\ \A x \in DOMAIN tables'[g].by_id :
             \/ x = skip /\ g = skipGen /\ tables[g].next_id < x
             \/ /\ x \in DOMAIN tables[g].by_id
                /\ tables'[g].by_id[x].src = tables[g].by_id[x].src
                /\ tables'[g].by_id[x].sock = tables[g].by_id[x].sock

(* A claim that fits still does after such a step: it is not about an id that
   was minted only now. *)
LEMMA StillFits ==
  ASSUME TypeOK, TypeOK', gen <= gen', NEW skip, NEW sg, OnlyForget(skip, sg),
         NEW id \in MintedIds, NEW g \in Gens, NEW p \in Remotes, PortFits(id, g, p)
  PROVE  /\ PortFits(id, g, p)'
         /\ \A f \in Flow : f.gen = g /\ SourceFits(id, f) => SourceFits(id, f)'
  <1>1. /\ gen \in Int /\ gen' \in Int /\ g \in Int /\ g <= gen /\ g <= gen'
        /\ id \in Int
    BY UdpTunnelAssumption DEF TypeOK, Gens, PortFits, MintedIds
  <1>2. CASE g \notin running'
    BY <1>1, <1>2 DEF PortFits, SourceFits
  <1>3. CASE g \in running'
    <2>1. /\ g \in running /\ maps'[g] = maps[g] /\ tables[g].next_id <= tables'[g].next_id
          /\ id <= tables[g].next_id
      BY <1>1, <1>3 DEF OnlyForget, PortFits
    <2>2. tables[g].next_id \in Int /\ tables'[g].next_id \in Int
      BY DEF TypeOK, Tables
    <2>3. id \in DOMAIN tables'[g].by_id =>
            /\ id \in DOMAIN tables[g].by_id
            /\ tables'[g].by_id[id].src = tables[g].by_id[id].src
            /\ tables'[g].by_id[id].sock = tables[g].by_id[id].sock
      BY <1>1, <1>3, <2>1, <2>2 DEF OnlyForget
    <2>4. id <= tables'[g].next_id
      BY <1>1, <2>1, <2>2
    <2> QED
      BY <1>1, <1>3, <2>1, <2>3, <2>4 DEF PortFits, SourceFits
  <1> QED
    BY <1>2, <1>3

(* No new claim, and the tables only forget. *)
LEMMA FewerClaims ==
  ASSUME TypeOK, TypeOK', IdsMeanOneFlow, gen <= gen',
         NEW skip, NEW sg, OnlyForget(skip, sg),
         \A id \in MintedIds, f \in Flow : Claimed(id, f)' => Claimed(id, f),
         \A id \in MintedIds, g \in Gens, p \in Remotes :
            PortClaimed(id, g, p)' => PortClaimed(id, g, p),
         \A d \in toServe' : d.port = d.flow.remote
  PROVE  IdsMeanOneFlow'
  <1>1. ASSUME NEW id \in MintedIds, NEW g \in Gens, NEW p \in Remotes,
               PortClaimed(id, g, p)'
        PROVE  PortFits(id, g, p)'
    BY <1>1, StillFits DEF IdsMeanOneFlow
  <1>2. ASSUME NEW id \in MintedIds, NEW f \in Flow, Claimed(id, f)'
        PROVE  SourceFits(id, f)'
    <2>1. f.gen \in Gens /\ f.remote \in Remotes
      BY DEF Flow
    <2>2. PortClaimed(id, f.gen, f.remote) /\ SourceFits(id, f)
      BY <1>2 DEF PortClaimed, IdsMeanOneFlow
    <2>3. PortFits(id, f.gen, f.remote)
      BY <2>1, <2>2 DEF IdsMeanOneFlow
    <2> QED
      BY <2>1, <2>2, <2>3, StillFits
  <1>3. ASSUME NEW id \in MintedIds, NEW g \in Gens, NEW p \in Remotes, NEW q \in Remotes,
               PortClaimed(id, g, p)', PortClaimed(id, g, q)'
        PROVE  p = q
    BY <1>3 DEF IdsMeanOneFlow
  <1> QED
    BY <1>1, <1>2, <1>3 DEF IdsMeanOneFlow

LEMMA ForgetNothing ==
  ASSUME TypeOK, UNCHANGED <<gen, maps, running, tables>>
  PROVE  OnlyForget(0, 0)
  <1>1. \A g \in running : tables[g].next_id \in Int
    BY UdpTunnelAssumption DEF TypeOK, Tables, Gens
  <1> QED
    BY <1>1 DEF OnlyForget

LEMMA ClaimsForward ==
  ASSUME TypeOK, TypeOK', TablesSound, IdsMeanOneFlow,
         NEW g \in Gens, NEW s \in Sources, NEW l \in Locals, ForwardOut(g, s, l)
  PROVE  IdsMeanOneFlow'
  <1>1. g \in running /\ UNCHANGED <<gen, maps, running, toClient, server>>
    BY DEF ForwardOut
  <1>2. PICK id, port, flow, d, u :
          /\ id \in MintedIds /\ port \in Remotes /\ flow \in Flow
          /\ flow.gen = g /\ flow.src = s /\ flow.remote = port
          /\ d.id = id /\ d.port = port /\ d.flow = flow
          /\ toServe' = toServe \cup {d}
          /\ tables' = [tables EXCEPT ![g] = u]
          /\ Leads(u, maps[g], id, <<s, port>>) /\ Kept(tables[g], u, id)
    <2> DEFINE t == tables[g]
               port == maps[g][l]
               key == SessionKey(s, port)
               id == IdFor(t, key)
               flow == [src |-> s, local |-> l, remote |-> port, gen |-> g]
               d == [id |-> id, port |-> port, flow |-> flow]
               u == AfterIdFor(t, key, l)
    <2>1. l \in DOMAIN maps[g] /\ port \in Remotes
      BY BoundsShape DEF ForwardOut, TypeOK
    <2>2. key \in Keys /\ key = <<s, port>> /\ key[2] = maps[g][l] /\ Sound(t, maps[g])
      BY <2>1 DEF SessionKey, Keys, TablesSound
    <2>3. /\ Known(t, key) \/ t.next_id < MaxOpened
          /\ toServe' = toServe \cup {d} /\ tables' = [tables EXCEPT ![g] = u]
      BY DEF ForwardOut
    <2>4. flow \in Flow /\ flow.gen = g /\ flow.src = s /\ flow.remote = port
      BY <2>1 DEF Flow
    <2>5. d.id = id /\ d.port = port /\ d.flow = flow
      OBVIOUS
    <2> HIDE DEF t, key, flow, d, port
    <2>6. id \in MintedIds /\ Leads(u, maps[g], id, key) /\ Kept(t, u, id)
      BY <2>1, <2>2, <2>3, IdForSound
    <2> HIDE DEF id, u
    <2> QED
      BY <2>1, <2>2, <2>3, <2>4, <2>5, <2>6 DEF t
  <1>3. /\ id \in DOMAIN u.by_id /\ id <= u.next_id /\ u.by_id[id].src = s
        /\ maps[g][u.by_id[id].sock] = port
    BY <1>2 DEF Leads
  <1>7. tables'[g] = u /\ \A h \in Gens : h # g => tables'[h] = tables[h]
    BY <1>2 DEF TypeOK
  <1>8. \A h \in running : h \in Gens /\ h <= gen /\ tables[h].next_id \in Int
    BY UdpTunnelAssumption DEF TypeOK, Tables, Gens
  <1>9. OnlyForget(id, g)
    <2> SUFFICES ASSUME NEW h \in running
                 PROVE  /\ tables[h].next_id <= tables'[h].next_id
                        /\ \A x \in DOMAIN tables'[h].by_id :
                             \/ x = id /\ h = g /\ tables[h].next_id < x
                             \/ /\ x \in DOMAIN tables[h].by_id
                                /\ tables'[h].by_id[x].src = tables[h].by_id[x].src
                                /\ tables'[h].by_id[x].sock = tables[h].by_id[x].sock
      BY <1>1 DEF OnlyForget
    <2>1. CASE h = g
      BY <1>2, <1>7, <2>1 DEF Kept
    <2>2. CASE h # g
      BY <1>7, <1>8, <2>2
    <2> QED
      BY <2>1, <2>2
  <1>10. gen <= gen'
    BY <1>1 DEF TypeOK, Gens
  <1>11. \A i, f : Claimed(i, f)' => Claimed(i, f) \/ (i = id /\ f = flow)
    BY <1>1, <1>2 DEF Claimed
  <1>12. \A i, h, p : PortClaimed(i, h, p)' =>
                        PortClaimed(i, h, p) \/ (i = id /\ h = g /\ p = port)
    BY <1>1, <1>2, <1>11 DEF PortClaimed
  <1>13. PortFits(id, g, port)'
    BY <1>1, <1>3, <1>7, <1>8 DEF PortFits
  <1>14. SourceFits(id, flow)'
    BY <1>2, <1>3, <1>7 DEF SourceFits
  <1>15. ASSUME NEW i \in MintedIds, NEW h \in Gens, NEW p \in Remotes, PortClaimed(i, h, p)'
         PROVE  PortFits(i, h, p)'
    BY <1>9, <1>10, <1>12, <1>13, <1>15, StillFits DEF IdsMeanOneFlow
  <1>16. ASSUME NEW p \in Remotes, PortClaimed(id, g, p)'
         PROVE  p = port
    <2>1. PortFits(id, g, p)'
      BY <1>2, <1>15, <1>16
    <2> QED
      BY <1>1, <1>3, <1>7, <2>1 DEF PortFits
  <1>17. ASSUME NEW i \in MintedIds, NEW h \in Gens, NEW p \in Remotes, NEW q \in Remotes,
                PortClaimed(i, h, p)', PortClaimed(i, h, q)'
         PROVE  p = q
    <2>1. CASE i = id /\ h = g
      BY <1>16, <1>17, <2>1
    <2>2. CASE ~(i = id /\ h = g)
      BY <1>12, <1>17, <2>2 DEF IdsMeanOneFlow
    <2> QED
      BY <2>1, <2>2
  <1>18. ASSUME NEW i \in MintedIds, NEW f \in Flow, Claimed(i, f)'
         PROVE  SourceFits(i, f)'
    <2>1. CASE i = id /\ f = flow
      BY <1>14, <2>1
    <2>2. CASE Claimed(i, f)
      <3>1. f.gen \in Gens /\ f.remote \in Remotes
        BY DEF Flow
      <3>2. PortClaimed(i, f.gen, f.remote) /\ SourceFits(i, f)
        BY <2>2 DEF PortClaimed, IdsMeanOneFlow
      <3>3. PortFits(i, f.gen, f.remote)
        BY <3>1, <3>2 DEF IdsMeanOneFlow
      <3> QED
        BY <1>9, <1>10, <3>1, <3>2, <3>3, StillFits
    <2> QED
      BY <1>11, <1>18, <2>1, <2>2
  <1>19. \A e \in toServe' : e.port = e.flow.remote
    BY <1>2 DEF IdsMeanOneFlow
  <1> QED
    BY <1>15, <1>17, <1>18, <1>19 DEF IdsMeanOneFlow

LEMMA ClaimsClient ==
  ASSUME TypeOK, TypeOK', TablesSound, IdsMeanOneFlow, ClientNext
  PROVE  IdsMeanOneFlow'
  <1>1. ASSUME NEW g \in Gens, NEW s \in Sources, NEW l \in Locals, ForwardOut(g, s, l)
        PROVE  IdsMeanOneFlow'
    BY <1>1, ClaimsForward
  <1>2. ASSUME UNCHANGED <<toServe, server>>, toClient' \subseteq toClient,
               gen <= gen', OnlyForget(0, 0)
        PROVE  IdsMeanOneFlow'
    <2>1. \A id, f : Claimed(id, f)' => Claimed(id, f)
      BY <1>2 DEF Claimed
    <2>2. \A id, g, p : PortClaimed(id, g, p)' => PortClaimed(id, g, p)
      BY <1>2, <2>1 DEF PortClaimed
    <2>3. \A d \in toServe' : d.port = d.flow.remote
      BY <1>2 DEF IdsMeanOneFlow
    <2> QED
      BY <1>2, <2>1, <2>2, <2>3, FewerClaims
  <1>3. /\ gen \in Int /\ running \subseteq Gens
        /\ \A g \in Gens : tables[g].next_id \in Int /\ tables[g] \in Tables
    <2>1. gen \in Int /\ running \subseteq Gens
      BY UdpTunnelAssumption DEF TypeOK, Gens
    <2>2. \A g \in Gens : tables[g] \in Tables
      BY DEF TypeOK
    <2> QED
      BY <2>1, <2>2, UdpTunnelAssumption DEF Tables
  (* One table of a running generation changes, its routes do not. *)
  <1>4. ASSUME NEW g \in Gens, NEW u, tables' = [tables EXCEPT ![g] = u],
               UNCHANGED <<gen, maps, running>>, u.next_id = tables[g].next_id,
               \A x \in DOMAIN u.by_id : /\ x \in DOMAIN tables[g].by_id
                                        /\ u.by_id[x].src = tables[g].by_id[x].src
                                        /\ u.by_id[x].sock = tables[g].by_id[x].sock
        PROVE  OnlyForget(0, 0)
    <2>1. tables'[g] = u /\ \A h \in Gens : h # g => tables'[h] = tables[h]
      BY <1>4 DEF TypeOK
    <2>2. SUFFICES ASSUME NEW h \in running
                   PROVE  /\ tables[h].next_id <= tables'[h].next_id
                          /\ \A x \in DOMAIN tables'[h].by_id :
                                /\ x \in DOMAIN tables[h].by_id
                                /\ tables'[h].by_id[x].src = tables[h].by_id[x].src
                                /\ tables'[h].by_id[x].sock = tables[h].by_id[x].sock
      BY <1>4 DEF OnlyForget
    <2>3. CASE h = g
      BY <1>3, <1>4, <2>1, <2>3
    <2>4. CASE h # g
      BY <1>3, <2>1, <2>4
    <2> QED
      BY <2>3, <2>4
  <1>5. ASSUME NEW g \in Gens, NEW d \in toClient, DeliverBack(g, d)
        PROVE  IdsMeanOneFlow'
    <2> DEFINE u == [tables[g] EXCEPT !.by_id = Touch(@, d.id)]
    <2>1. /\ tables' = [tables EXCEPT ![g] = u] /\ toClient' \subseteq toClient
          /\ UNCHANGED <<gen, maps, running, toServe, server>>
      BY <1>5 DEF DeliverBack
    <2>2. SameRoutes(tables[g], u)
      BY <1>3, TouchRoutes
    <2> HIDE DEF u
    <2>3. OnlyForget(0, 0)
      BY <1>4, <2>1, <2>2 DEF SameRoutes
    <2> QED
      BY <1>2, <1>3, <2>1, <2>3
  <1>6. ASSUME NEW b \in LaterBounds, Respawn(b)
        PROVE  IdsMeanOneFlow'
    <2>1. /\ gen' = gen + 1 /\ maps' = [maps EXCEPT ![gen + 1] = b]
          /\ running' \subseteq running \cup {gen + 1}
          /\ UNCHANGED <<tables, toServe, toClient, server>>
      BY <1>6 DEF Respawn, Forwarders
    <2>2. \A g \in running' : g <= gen => g \in running /\ maps'[g] = maps[g]
      BY <1>3, <2>1 DEF TypeOK
    <2>3. OnlyForget(0, 0)
      BY <1>3, <2>1, <2>2 DEF OnlyForget
    <2> QED
      BY <1>2, <1>3, <2>1, <2>3
  <1>7. ASSUME NEW g \in Gens, Cancelled(g)
        PROVE  IdsMeanOneFlow'
    <2>1. /\ running' = running \ {g} /\ tables' = [tables EXCEPT ![g] = NewSessions]
          /\ UNCHANGED <<gen, maps, toServe, toClient, server>>
      BY <1>7 DEF Cancelled
    <2>2. \A h \in running' : tables'[h] = tables[h]
      BY <2>1 DEF TypeOK
    <2>3. OnlyForget(0, 0)
      BY <1>3, <2>1, <2>2 DEF OnlyForget
    <2> QED
      BY <1>2, <1>3, <2>1, <2>3
  <1>8. ASSUME NEW g \in Gens, ClientReap(g)
        PROVE  IdsMeanOneFlow'
    <2> DEFINE u == ReapBoth(tables[g])
    <2>1. /\ tables' = [tables EXCEPT ![g] = u]
          /\ UNCHANGED <<gen, maps, running, toServe, toClient, server>>
      BY <1>8 DEF ClientReap
    <2>2. /\ u.next_id = tables[g].next_id /\ DOMAIN u.by_id \subseteq DOMAIN tables[g].by_id
          /\ \A x \in DOMAIN u.by_id : u.by_id[x] = tables[g].by_id[x]
      <3>1. Sound(tables[g], maps[g])
        BY DEF TablesSound
      <3> QED
        BY <3>1, ReapSound
    <2> HIDE DEF u
    <2>3. OnlyForget(0, 0)
      BY <1>4, <2>1, <2>2
    <2> QED
      BY <1>2, <1>3, <2>1, <2>3
  <1>9. ASSUME NEW g \in Gens, NEW id \in Ids, ClientSilence(g, id)
        PROVE  IdsMeanOneFlow'
    <2> DEFINE u == [tables[g] EXCEPT !.by_id = Silence(@, id)]
    <2>1. /\ tables' = [tables EXCEPT ![g] = u] /\ id \in DOMAIN tables[g].by_id
          /\ UNCHANGED <<gen, maps, running, toServe, toClient, server>>
      BY <1>9 DEF ClientSilence
    <2>2. SameRoutes(tables[g], u)
      BY <1>3, <2>1, SilenceRoutes
    <2> HIDE DEF u
    <2>3. OnlyForget(0, 0)
      BY <1>4, <2>1, <2>2 DEF SameRoutes
    <2> QED
      BY <1>2, <1>3, <2>1, <2>3
  <1> QED
    BY <1>1, <1>5, <1>6, <1>7, <1>8, <1>9 DEF ClientNext

(* What pump_udp makes of the session a datagram selects. *)
LEMMA SentMeans ==
  ASSUME NEW s \in Session, NEW f \in Flow
  PROVE  /\ Sent(s, f).port = s.port /\ Sent(s, f).gen = s.gen
         /\ Sent(s, f).heard \subseteq s.heard \cup {f}
  BY DEF Sent, Session

(* A step of the serving side or the outside: the other side is unchanged. *)
LEMMA ClaimsElsewhere ==
  ASSUME TypeOK, TypeOK', IdsMeanOneFlow, UNCHANGED clientVars,
         \A id \in MintedIds, f \in Flow : Claimed(id, f)' => Claimed(id, f),
         \A id \in MintedIds : id \in DOMAIN server' =>
            PortClaimed(id, server'[id].gen, server'[id].port),
         toServe' \subseteq toServe
  PROVE  IdsMeanOneFlow'
  <1>1. OnlyForget(0, 0) /\ gen <= gen'
    BY ForgetNothing DEF clientVars, TypeOK, Gens
  <1>2. \A id \in MintedIds, g \in Gens, p \in Remotes :
           PortClaimed(id, g, p)' => PortClaimed(id, g, p)
    BY DEF PortClaimed
  <1>3. \A d \in toServe' : d.port = d.flow.remote
    BY DEF IdsMeanOneFlow
  <1> QED
    BY <1>1, <1>2, <1>3, FewerClaims

LEMMA ClaimsServer ==
  ASSUME TypeOK, TypeOK', IdsMeanOneFlow, ServerNext
  PROVE  IdsMeanOneFlow'
  <1>1. UNCHANGED clientVars /\ toServe' \subseteq toServe
    BY DEF ServerNext, DeliverOut, OpenFails, ReplyBack, ReplyOn, ReplyTaskEnds,
           ServerSilence, ServerReap
  <1>2. \A id \in DOMAIN server : PortClaimed(id, server[id].gen, server[id].port)
    BY DEF PortClaimed
  <1>3. server \in ServerTable
    BY ServerShape DEF TypeOK
  (* The sessions are some of those there were, for the same ports, and have
     heard no more. *)
  <1>4. ASSUME toClient' \subseteq toClient,
               \A id \in DOMAIN server' : /\ id \in DOMAIN server
                                         /\ server'[id].port = server[id].port
                                         /\ server'[id].gen = server[id].gen
                                         /\ server'[id].heard = server[id].heard
        PROVE  IdsMeanOneFlow'
    <2>1. \A id, f : Claimed(id, f)' => Claimed(id, f)
      BY <1>1, <1>4 DEF Claimed
    <2> QED
      BY <1>1, <1>2, <1>4, <2>1, ClaimsElsewhere
  <1>5. ASSUME NEW d \in toServe, DeliverOut(d)
        PROVE  IdsMeanOneFlow'
    <2>1. /\ d.id \in MintedIds /\ d.flow \in Flow /\ d.port = d.flow.remote
          /\ Claimed(d.id, d.flow) /\ PortClaimed(d.id, d.flow.gen, d.port)
      BY DEF TypeOK, Datagram, IdsMeanOneFlow, Claimed, PortClaimed
    <2>2. SessionOf(d) \in Session
      <3>1. Opened(d) \in Session
        BY DEF TypeOK, Datagram, Flow, Opened, Session
      <3> QED
        BY <1>3, <3>1, ServerEntry DEF SessionOf
    <2>3. /\ PortClaimed(d.id, SessionOf(d).gen, SessionOf(d).port)
          /\ \A f \in SessionOf(d).heard : Claimed(d.id, f)
      <3>1. CASE d.id \in DOMAIN server
        BY <1>2, <3>1 DEF SessionOf, Claimed
      <3>2. CASE d.id \notin DOMAIN server
        BY <2>1, <3>2 DEF SessionOf, Opened
      <3> QED
        BY <3>1, <3>2
    <2> DEFINE e == Sent(SessionOf(d), d.flow)
    <2>4. /\ e.port = SessionOf(d).port /\ e.gen = SessionOf(d).gen
          /\ e.heard \subseteq SessionOf(d).heard \cup {d.flow}
      BY <2>1, <2>2, SentMeans
    <2> HIDE DEF e
    <2>5. /\ DOMAIN server' = DOMAIN server \cup {d.id} /\ server'[d.id] = e
          /\ \A id \in DOMAIN server : id # d.id => server'[id] = server[id]
          /\ toClient' = toClient
      BY <1>5 DEF DeliverOut, With, e
    <2>6. \A id, f : Claimed(id, f)' => Claimed(id, f)
      BY <1>1, <2>1, <2>3, <2>4, <2>5 DEF Claimed
    <2>7. \A id \in DOMAIN server' : PortClaimed(id, server'[id].gen, server'[id].port)
      BY <1>2, <2>3, <2>4, <2>5
    <2> QED
      BY <1>1, <2>6, <2>7, ClaimsElsewhere
  <1>6. ASSUME NEW d \in toServe, OpenFails(d)
        PROVE  IdsMeanOneFlow'
    BY <1>4, <1>6 DEF OpenFails
  <1>7. ASSUME NEW id \in DOMAIN server, NEW f \in server[id].heard, ReplyBack(id, f)
        PROVE  IdsMeanOneFlow'
    <2>1. /\ toClient' = toClient \cup {[id |-> id, port |-> server[id].port, flow |-> f]}
          /\ server' = Touch(server, id) /\ toServe' = toServe
      BY <1>7 DEF ReplyBack, ReplyOn
    <2>2. /\ DOMAIN server' = DOMAIN server
          /\ \A i \in DOMAIN server : /\ server'[i].port = server[i].port
                                      /\ server'[i].gen = server[i].gen
                                      /\ server'[i].heard = server[i].heard
      <3>1. \A i \in DOMAIN server : server[i] \in Session
        BY <1>3, ServerEntry
      <3>2. server' = [server EXCEPT ![id] = [server[id] EXCEPT !.idle = FALSE]]
        BY <2>1 DEF Touch
      <3> QED
        BY <3>1, <3>2, <1>3, ServerShape DEF Session
    <2>3. \A i, g : Claimed(i, g)' => Claimed(i, g)
      BY <2>1, <2>2 DEF Claimed
    <2> QED
      BY <1>1, <1>2, <2>2, <2>3, ClaimsElsewhere
  <1>8. ASSUME NEW id \in Ids, ReplyTaskEnds(id) \/ ServerSilence(id)
        PROVE  IdsMeanOneFlow'
    <2>1. \A i \in DOMAIN server : server[i] \in Session
      BY <1>3, ServerEntry
    <2>2. id \in DOMAIN server /\ toClient' = toClient
      BY <1>8 DEF ReplyTaskEnds, ServerSilence
    <2>3. PICK e : /\ server' = [server EXCEPT ![id] = e]
                   /\ e.port = server[id].port /\ e.gen = server[id].gen
                   /\ e.heard = server[id].heard
      <3>1. CASE ReplyTaskEnds(id)
        <4> DEFINE e == [server[id] EXCEPT !.pump = FALSE, !.err = FALSE]
        <4>1. server' = [server EXCEPT ![id] = e]
          BY <3>1 DEF ReplyTaskEnds
        <4>2. /\ e.port = server[id].port /\ e.gen = server[id].gen
              /\ e.heard = server[id].heard
          BY <2>1, <2>2 DEF Session
        <4> QED
          BY <4>1, <4>2
      <3>2. CASE ServerSilence(id)
        <4> DEFINE e == [server[id] EXCEPT !.idle = TRUE]
        <4>1. server' = [server EXCEPT ![id] = e]
          BY <3>2 DEF ServerSilence, Silence
        <4>2. /\ e.port = server[id].port /\ e.gen = server[id].gen
              /\ e.heard = server[id].heard
          BY <2>1, <2>2 DEF Session
        <4> QED
          BY <4>1, <4>2
      <3> QED
        BY <1>8, <3>1, <3>2
    <2>4. \A i \in DOMAIN server' : /\ i \in DOMAIN server
                                    /\ server'[i].port = server[i].port
                                    /\ server'[i].gen = server[i].gen
                                    /\ server'[i].heard = server[i].heard
      BY <2>3, <1>3, ServerShape
    <2> QED
      BY <1>4, <2>2, <2>4
  <1>9. ASSUME ServerReap
        PROVE  IdsMeanOneFlow'
    BY <1>4, <1>9 DEF ServerReap, ReapIdle, Retain, Restrict
  <1> QED
    BY <1>5, <1>6, <1>7, <1>8, <1>9 DEF ServerNext

LEMMA ClaimsOutside ==
  ASSUME TypeOK, TypeOK', IdsMeanOneFlow, OutsideNext
  PROVE  IdsMeanOneFlow'
  <1>1. UNCHANGED clientVars /\ toServe' \subseteq toServe /\ toClient' \subseteq toClient
    BY DEF OutsideNext, Lose, ServiceStops, ServiceStarts
  <1>2. /\ DOMAIN server' = DOMAIN server
        /\ \A id \in DOMAIN server : /\ server'[id].port = server[id].port
                                     /\ server'[id].gen = server[id].gen
                                     /\ server'[id].heard \subseteq server[id].heard
    <2>1. CASE server' = server
      BY <2>1
    <2>2. ASSUME NEW p \in MayStop, ServiceStops(p)
          PROVE  /\ DOMAIN server' = DOMAIN server
                 /\ \A id \in DOMAIN server : /\ server'[id].port = server[id].port
                                              /\ server'[id].gen = server[id].gen
                                              /\ server'[id].heard \subseteq server[id].heard
      <3>1. \A id \in DOMAIN server : server[id] \in Session
        BY ServerEntry DEF TypeOK
      <3>2. \A id \in DOMAIN server :
              /\ [server[id] EXCEPT !.heard = {}].port = server[id].port
              /\ [server[id] EXCEPT !.heard = {}].gen = server[id].gen
              /\ [server[id] EXCEPT !.heard = {}].heard = {}
        BY <3>1 DEF Session
      <3> QED
        BY <2>2, <3>2 DEF ServiceStops
    <2> QED
      BY <2>1, <2>2 DEF OutsideNext, Lose, ServiceStarts
  <1>3. \A id, f : Claimed(id, f)' => Claimed(id, f)
    BY <1>1, <1>2 DEF Claimed
  <1>4. \A id \in DOMAIN server' : PortClaimed(id, server'[id].gen, server'[id].port)
    BY <1>2 DEF PortClaimed
  <1> QED
    BY <1>1, <1>3, <1>4, ClaimsElsewhere

Inv == TypeOK /\ TablesSound /\ IdsMeanOneFlow

LEMMA InvInit == Init => Inv
  <1>1. Init => IdsMeanOneFlow
    BY DEF Init, IdsMeanOneFlow, Claimed, PortClaimed, NoEntries
  <1> QED
    BY <1>1, SoundInit DEF Inv

LEMMA InvNext == Inv /\ [Next]_vars => Inv'
  <1> SUFFICES ASSUME Inv, [Next]_vars PROVE Inv'
    OBVIOUS
  <1>1. TypeOK' /\ TablesSound'
    BY SoundNext DEF Inv
  <1>2. CASE Next
    BY <1>1, <1>2, ClaimsClient, ClaimsServer, ClaimsOutside DEF Inv, Next
  <1>3. CASE UNCHANGED vars
    <2>1. UNCHANGED clientVars /\ UNCHANGED <<toServe, toClient, server>>
      BY <1>3 DEF vars
    <2>2. \A id, f : Claimed(id, f)' => Claimed(id, f)
      BY <2>1 DEF Claimed
    <2>3. \A id \in DOMAIN server' : PortClaimed(id, server'[id].gen, server'[id].port)
      BY <2>1 DEF PortClaimed
    <2>4. IdsMeanOneFlow'
      BY <1>1, <2>1, <2>2, <2>3, ClaimsElsewhere DEF Inv
    <2> QED
      BY <1>1, <2>4 DEF Inv
  <1> QED
    BY <1>1, <1>2, <1>3

LEMMA InvRoutes == Inv => RepliesFindTheirSource
  <1> SUFFICES ASSUME Inv, NEW d \in toClient, d.flow.gen \in running,
                      d.id \in DOMAIN tables[d.flow.gen].by_id
               PROVE  LET r == tables[d.flow.gen].by_id[d.id]
                      IN  r.src = d.flow.src /\ maps[d.flow.gen][r.sock] = d.flow.remote
    BY DEF RepliesFindTheirSource
  <1>1. /\ d.id \in MintedIds /\ d.flow \in Flow /\ d.flow.gen \in Gens
        /\ d.flow.remote \in Remotes
    BY DEF Inv, TypeOK, Datagram, Flow
  <1>2. Claimed(d.id, d.flow) /\ PortClaimed(d.id, d.flow.gen, d.flow.remote)
    BY <1>1 DEF Claimed, PortClaimed
  <1> QED
    BY <1>1, <1>2 DEF Inv, IdsMeanOneFlow, PortFits, SourceFits

LEMMA InvPayloads == Inv => PayloadsReachTheirPort
  <1> SUFFICES ASSUME Inv, NEW id \in DOMAIN server, NEW f \in server[id].heard,
                      f.gen = server[id].gen
               PROVE  f.remote = server[id].port
    BY DEF PayloadsReachTheirPort
  <1>1. server[id] \in Session /\ id \in MintedIds
    BY ServerEntry DEF Inv, TypeOK
  <1>2. f \in Flow /\ f.gen \in Gens /\ f.remote \in Remotes /\ server[id].port \in Remotes
    BY <1>1 DEF Session, Flow
  <1>3. PortClaimed(id, f.gen, f.remote) /\ PortClaimed(id, f.gen, server[id].port)
    BY <1>2 DEF Claimed, PortClaimed
  <1> QED
    BY <1>1, <1>2, <1>3 DEF Inv, IdsMeanOneFlow

(* However late a reply is and whatever either side has reaped, the table of
   the generation that asked can route it only to who asked, from a port bound
   to the service that was asked. *)
THEOREM RepliesRouted == Spec => []RepliesFindTheirSource
  BY InvRoutes, InvInit, InvNext, PTL DEF Spec

(* Although pump_udp never compares the port a datagram names with the port of
   the session its id selects, no payload of the generation that opened a
   session reaches another port. *)
THEOREM PayloadsRouted == Spec => []PayloadsReachTheirPort
  BY InvPayloads, InvInit, InvNext, PTL DEF Spec

(***************************************************************************)
(* UdpTunnel with one generation of forwarders implements UdpService, for  *)
(* every set of programs and ports and any bounds: the session tables, the *)
(* ids and the reaping on both sides amount to a relay that answers only   *)
(* who asked.  With a second generation they do not: see the run           *)
(* udp_crossed_replies.                                                    *)
(***************************************************************************)


(* What UdpService sees of the datagrams in flight and of the sessions. *)
FlowsOf(datagrams) == {d.flow : d \in datagrams}

HeardBy(sessions) ==
    UNION {{[port |-> sessions[id].port, flow |-> f] : f \in sessions[id].heard} :
             id \in DOMAIN sessions}

(* The state of the relay, as the refinement mapping gives it. *)
LEMMA HeardShape ==
  ASSUME NEW s, NEW h
  PROVE  h \in HeardBy(s) <=> \E id \in DOMAIN s : \E f \in s[id].heard :
                                h = [port |-> s[id].port, flow |-> f]
  BY DEF HeardBy

LEMMA FewerHeard ==
  ASSUME NEW s, NEW t,
         \A id \in DOMAIN t : /\ id \in DOMAIN s /\ t[id].port = s[id].port
                              /\ t[id].heard \subseteq s[id].heard
  PROVE  HeardBy(t) \subseteq HeardBy(s)
  <1> SUFFICES ASSUME NEW h \in HeardBy(t) PROVE h \in HeardBy(s)
    OBVIOUS
  <1>1. PICK id \in DOMAIN t : \E f \in t[id].heard : h = [port |-> t[id].port, flow |-> f]
    BY HeardShape
  <1> QED
    BY <1>1, HeardShape

LEMMA FewerFlows ==
  ASSUME NEW S, NEW T, T \subseteq S
  PROVE  FlowsOf(T) \subseteq FlowsOf(S)
  BY DEF FlowsOf

LEMMA FlowsWith ==
  ASSUME NEW S, NEW d
  PROVE  FlowsOf(S \cup {d}) = FlowsOf(S) \cup {d.flow}
  BY DEF FlowsOf

(* Taking one datagram takes its flow, or another still carries it. *)
LEMMA FlowsWithout ==
  ASSUME NEW S, NEW d \in S
  PROVE  FlowsOf(S \ {d}) \in {FlowsOf(S), FlowsOf(S) \ {d.flow}}
  <1>1. FlowsOf(S) \ {d.flow} \subseteq FlowsOf(S \ {d})
    BY DEF FlowsOf
  <1>2. FlowsOf(S \ {d}) \subseteq FlowsOf(S)
    BY FewerFlows
  <1> QED
    BY <1>1, <1>2

(***************************************************************************)
(* Steps of the relay.                                                     *)
(***************************************************************************)
LEMMA QuietStep ==
  ASSUME toServe' \subseteq toServe, toClient' \subseteq toClient, handed' = {},
         \A id \in DOMAIN server' : /\ id \in DOMAIN server
                                    /\ server'[id].port = server[id].port
                                    /\ server'[id].heard \subseteq server[id].heard
  PROVE  Service!LoseAndForget
  <1>1. /\ FlowsOf(toServe') \subseteq FlowsOf(toServe)
        /\ FlowsOf(toClient') \subseteq FlowsOf(toClient)
        /\ HeardBy(server') \subseteq HeardBy(server)
    BY FewerFlows, FewerHeard
  <1> QED
    BY <1>1 DEF Service!LoseAndForget, FlowsOf, HeardBy

LEMMA AskStep ==
  ASSUME NEW d, toServe' = toServe \cup {d}, UNCHANGED <<toClient, server>>, handed' = {}
  PROVE  Service!Ask(d.flow)
  <1>1. FlowsOf(toServe') = FlowsOf(toServe) \cup {d.flow}
    BY FlowsWith
  <1> QED
    BY <1>1 DEF Service!Ask, FlowsOf

LEMMA AnswerStep ==
  ASSUME NEW d, NEW id \in DOMAIN server, d.flow \in server[id].heard,
         server[id].port = d.flow.remote, toClient' = toClient \cup {d},
         toServe' = toServe, DOMAIN server' = DOMAIN server, handed' = {},
         \A i \in DOMAIN server : /\ server'[i].port = server[i].port
                                  /\ server'[i].heard = server[i].heard
  PROVE  Service!Answer(d.flow)
  <1>1. FlowsOf(toClient') = FlowsOf(toClient) \cup {d.flow}
    BY FlowsWith
  <1>2. HeardBy(server') = HeardBy(server)
    <2>1. HeardBy(server') \subseteq HeardBy(server) /\ HeardBy(server) \subseteq HeardBy(server')
      BY FewerHeard
    <2> QED
      BY <2>1
  <1>3. [port |-> d.flow.remote, flow |-> d.flow] \in HeardBy(server)
    BY HeardShape
  <1> QED
    BY <1>1, <1>2, <1>3 DEF Service!Answer, FlowsOf, HeardBy

LEMMA HearStep ==
  ASSUME NEW d \in toServe, toServe' = toServe \ {d}, toClient' = toClient, handed' = {},
         DOMAIN server' = DOMAIN server \cup {d.id}, server'[d.id].port = d.flow.remote,
         d.id \in DOMAIN server =>
            /\ server[d.id].port = d.flow.remote
            /\ server'[d.id].heard = server[d.id].heard \cup {d.flow},
         d.id \notin DOMAIN server => server'[d.id].heard = {d.flow},
         \A id \in DOMAIN server : id # d.id => server'[id] = server[id]
  PROVE  Service!Hear(d.flow)
  <1> DEFINE h == [port |-> d.flow.remote, flow |-> d.flow]
  <1>1. HeardBy(server) \cup {h} \subseteq HeardBy(server')
    <2>1. h \in HeardBy(server')
      BY HeardShape
    <2>2. ASSUME NEW x \in HeardBy(server) PROVE x \in HeardBy(server')
      <3>1. PICK id \in DOMAIN server :
              \E f \in server[id].heard : x = [port |-> server[id].port, flow |-> f]
        BY HeardShape
      <3>2. server[id].port = server'[id].port /\ server[id].heard \subseteq server'[id].heard
        OBVIOUS
      <3> QED
        BY <3>1, <3>2, HeardShape
    <2> QED
      BY <2>1, <2>2
  <1>2. ASSUME NEW x \in HeardBy(server') PROVE x \in HeardBy(server) \cup {h}
    <2>1. PICK id \in DOMAIN server' :
            \E f \in server'[id].heard : x = [port |-> server'[id].port, flow |-> f]
      BY HeardShape
    <2> PICK f \in server'[id].heard : x = [port |-> server'[id].port, flow |-> f]
      BY <2>1
    <2>2. CASE id # d.id \/ f # d.flow
      <3>1. id \in DOMAIN server /\ f \in server[id].heard /\ server[id].port = server'[id].port
        BY <2>1, <2>2
      <3> QED
        BY <2>1, <3>1, HeardShape
    <2>3. CASE id = d.id /\ f = d.flow
      BY <2>1, <2>3
    <2> QED
      BY <2>2, <2>3
  <1>3. HeardBy(server') = HeardBy(server) \cup {h}
    BY <1>1, <1>2
  <1>4. FlowsOf(toServe') \in {FlowsOf(toServe), FlowsOf(toServe) \ {d.flow}}
    BY FlowsWithout
  <1>5. d.flow \in FlowsOf(toServe)
    BY DEF FlowsOf
  <1> QED
    BY <1>3, <1>4, <1>5 DEF Service!Hear, FlowsOf, HeardBy

LEMMA DeliverStep ==
  ASSUME NEW d \in toClient, NEW a, a.flow = d.flow, a.to = d.flow.src, handed' = {a},
         toClient' = toClient \ {d}, UNCHANGED <<toServe, server>>
  PROVE  Service!Deliver(a)
  <1>1. FlowsOf(toClient') \in {FlowsOf(toClient), FlowsOf(toClient) \ {d.flow}}
    BY FlowsWithout
  <1>2. d.flow \in FlowsOf(toClient)
    BY DEF FlowsOf
  <1> QED
    BY <1>1, <1>2 DEF Service!Deliver, FlowsOf

(***************************************************************************)
(* Every step of the tunnel is a step of the relay, or a stutter.          *)
(***************************************************************************)
LEMMA OneGeneration == ASSUME MaxGen = 1 PROVE Gens = {1}
  BY DEF Gens

(* The invariant of UdpProofs, where every datagram is of one generation. *)
LEMMA SessionsMeanTheirPort ==
  ASSUME MaxGen = 1, Inv, NEW id \in DOMAIN server
  PROVE  /\ server[id] \in Session /\ id \in MintedIds
         /\ \A f \in server[id].heard : f \in Flow /\ f.remote = server[id].port
  <1>1. server[id] \in Session /\ id \in MintedIds
    BY ServerEntry DEF Inv, TypeOK
  <1>2. \A f \in server[id].heard : f \in Flow /\ f.gen = server[id].gen
    BY <1>1, OneGeneration DEF Session, Flow
  <1> QED
    BY <1>1, <1>2, InvPayloads DEF PayloadsReachTheirPort

LEMMA DatagramsMeanTheirPort ==
  ASSUME MaxGen = 1, Inv, NEW d \in toServe
  PROVE  /\ d.flow \in Flow /\ d.port = d.flow.remote /\ d.port \in Remotes
         /\ d.id \in DOMAIN server => server[d.id].port = d.flow.remote
  <1>1. d.flow \in Flow /\ d.id \in MintedIds /\ d.port \in Remotes /\ d.port = d.flow.remote
    BY DEF Inv, TypeOK, Datagram, IdsMeanOneFlow
  <1>2. d.flow.gen = 1 /\ d.flow.remote \in Remotes
    BY <1>1, OneGeneration DEF Flow
  <1>3. PortClaimed(d.id, 1, d.flow.remote)
    BY <1>1, <1>2 DEF PortClaimed, Claimed
  <1>4. ASSUME d.id \in DOMAIN server PROVE server[d.id].port = d.flow.remote
    <2>1. server[d.id].gen = 1 /\ server[d.id].port \in Remotes
      BY <1>4, SessionsMeanTheirPort, OneGeneration DEF Session
    <2>2. PortClaimed(d.id, 1, server[d.id].port)
      BY <1>4, <2>1 DEF PortClaimed
    <2> QED
      BY <1>1, <1>2, <1>3, <2>1, <2>2, OneGeneration DEF Inv, IdsMeanOneFlow
  <1> QED
    BY <1>1, <1>4

LEMMA ForwardRefines ==
  ASSUME Inv, NEW g \in Gens, NEW s \in Sources, NEW l \in Locals, ForwardOut(g, s, l)
  PROVE  Service!Next
  <1> DEFINE port == maps[g][l]
             flow == [src |-> s, local |-> l, remote |-> port, gen |-> g]
             sent == [id |-> IdFor(tables[g], SessionKey(s, port)), port |-> port, flow |-> flow]
  <1> PICK d : d = sent
    OBVIOUS
  <1>1. port \in Remotes
    BY BoundsShape DEF ForwardOut, Inv, TypeOK
  <1>2. flow \in Flow /\ d.flow = flow
    BY <1>1 DEF Flow
  <1>3. toServe' = toServe \cup {d} /\ UNCHANGED <<toClient, server>> /\ handed' = {}
    BY DEF ForwardOut
  <1> HIDE DEF flow, sent
  <1>4. Service!Ask(d.flow)
    BY <1>3, AskStep
  <1> QED
    BY <1>2, <1>4 DEF Service!Next

LEMMA DeliverBackRefines ==
  ASSUME MaxGen = 1, Inv, NEW g \in Gens, NEW d \in toClient, DeliverBack(g, d)
  PROVE  Service!Next
  <1>1. /\ toClient' = toClient \ {d} /\ UNCHANGED <<toServe, server>>
        /\ g \in running /\ g = 1
    BY OneGeneration DEF DeliverBack
  <1>2. d.id \in MintedIds /\ d.flow \in Flow /\ d.flow.gen = 1
    BY OneGeneration DEF Inv, TypeOK, Datagram, Flow
  <1>3. CASE d.id \in DOMAIN tables[g].by_id
    <2> DEFINE r == tables[g].by_id[d.id]
               answer == [to |-> r.src, local |-> r.sock, flow |-> d.flow]
    <2> PICK a : a = answer
      OBVIOUS
    <2>1. r.src = d.flow.src
      BY <1>1, <1>2, <1>3, InvRoutes DEF RepliesFindTheirSource
    <2>2. r \in Route1
      <3>1. tables[g].by_id \in RouteTable
        BY DEF Inv, TypeOK, Tables
      <3> QED
        BY <1>3, <3>1, RouteShape
    <2>3. a \in Delivery
      BY <1>2, <2>2 DEF Route1, Delivery
    <2>4. handed' = {a} /\ a.flow = d.flow /\ a.to = d.flow.src
      BY <1>3, <2>1 DEF DeliverBack, Route
    <2> HIDE DEF r, answer
    <2>5. Service!Deliver(a)
      BY <1>1, <2>4, DeliverStep
    <2> QED
      BY <2>3, <2>5 DEF Service!Next
  <1>4. CASE d.id \notin DOMAIN tables[g].by_id
    <2>1. handed' = {}
      BY <1>4 DEF DeliverBack, Route
    <2> QED
      BY <1>1, <2>1, QuietStep DEF Service!Next
  <1> QED
    BY <1>3, <1>4

LEMMA DeliverOutRefines ==
  ASSUME MaxGen = 1, Inv, NEW d \in toServe, DeliverOut(d)
  PROVE  Service!Next
  <1> DEFINE s == SessionOf(d)
             e == Sent(s, d.flow)
  <1>1. /\ d.flow \in Flow /\ d.port = d.flow.remote /\ d.port \in Remotes
        /\ d.id \in DOMAIN server => server[d.id].port = d.flow.remote
    BY DatagramsMeanTheirPort
  <1>2. /\ s \in Session /\ s.port = d.flow.remote
        /\ d.id \notin DOMAIN server => s.heard = {}
        /\ d.id \in DOMAIN server => s = server[d.id]
    <2>1. Opened(d) \in Session /\ Opened(d).port = d.port /\ Opened(d).heard = {}
      BY <1>1 DEF Opened, Session, Flow
    <2> QED
      BY <1>1, <2>1, SessionsMeanTheirPort DEF SessionOf
  <1>3. e.port = s.port /\ e.heard \in {s.heard, s.heard \cup {d.flow}}
    BY <1>2 DEF Sent, Session
  <1>4. /\ DOMAIN server' = DOMAIN server \cup {d.id} /\ server'[d.id] = e
        /\ \A id \in DOMAIN server : id # d.id => server'[id] = server[id]
        /\ toServe' = toServe \ {d} /\ toClient' = toClient /\ handed' = {}
    BY DEF DeliverOut, With
  <1> HIDE DEF s, e
  <1>5. CASE e.heard = s.heard \cup {d.flow}
    <2>1. Service!Hear(d.flow)
      BY <1>2, <1>3, <1>4, <1>5, HearStep
    <2> QED
      BY <1>1, <2>1 DEF Service!Next
  <1>6. CASE e.heard = s.heard /\ d.id \in DOMAIN server
    BY <1>2, <1>3, <1>4, <1>6, QuietStep DEF Service!Next
  <1>7. CASE e.heard = s.heard /\ d.id \notin DOMAIN server
    <2>1. HeardBy(server') \subseteq HeardBy(server)
      <3> SUFFICES ASSUME NEW h \in HeardBy(server') PROVE h \in HeardBy(server)
        OBVIOUS
      <3>1. PICK id \in DOMAIN server' :
              \E f \in server'[id].heard : h = [port |-> server'[id].port, flow |-> f]
        BY HeardShape
      <3>2. id \in DOMAIN server /\ server'[id] = server[id]
        BY <1>2, <1>4, <1>7, <3>1
      <3> QED
        BY <3>1, <3>2, HeardShape
    <2>2. FlowsOf(toServe') \subseteq FlowsOf(toServe)
      BY <1>4, FewerFlows
    <2> QED
      BY <1>4, <2>1, <2>2 DEF Service!Next, Service!LoseAndForget, FlowsOf, HeardBy
  <1> QED
    BY <1>3, <1>5, <1>6, <1>7

LEMMA ReplyBackRefines ==
  ASSUME MaxGen = 1, Inv, NEW id \in DOMAIN server, NEW f \in server[id].heard,
         ReplyBack(id, f)
  PROVE  Service!Next
  <1> DEFINE reply == [id |-> id, port |-> server[id].port, flow |-> f]
  <1> PICK d : d = reply
    OBVIOUS
  <1>1. f \in Flow /\ f.remote = server[id].port /\ d.flow = f
    BY SessionsMeanTheirPort
  <1>2. toClient' = toClient \cup {d} /\ toServe' = toServe /\ handed' = {}
    BY DEF ReplyBack, ReplyOn
  <1>3. server' = [server EXCEPT ![id] = [server[id] EXCEPT !.idle = FALSE]]
    BY DEF ReplyBack, ReplyOn, Touch
  <1>4. /\ DOMAIN server' = DOMAIN server
        /\ \A i \in DOMAIN server : /\ server'[i].port = server[i].port
                                    /\ server'[i].heard = server[i].heard
    <2>1. server \in [DOMAIN server -> Session]
      BY DEF Inv, TypeOK
    <2> QED
      BY <1>3, <2>1 DEF Session
  <1> HIDE DEF reply
  <1>5. Service!Answer(d.flow)
    BY <1>1, <1>2, <1>4, AnswerStep
  <1> QED
    BY <1>1, <1>5 DEF Service!Next

(* Nothing but those steps lets the relay do more than lose and forget. *)
LEMMA QuietRefines ==
  ASSUME Inv,
         \/ \E b \in LaterBounds : Respawn(b)
         \/ \E g \in Gens : Cancelled(g) \/ ClientReap(g)
         \/ \E g \in Gens, id \in Ids : ClientSilence(g, id)
         \/ \E d \in toServe : OpenFails(d)
         \/ \E id \in Ids : ReplyTaskEnds(id) \/ ServerSilence(id)
         \/ ServerReap
         \/ OutsideNext
  PROVE  Service!Next
  <1>1. toServe' \subseteq toServe /\ toClient' \subseteq toClient /\ handed' = {}
    BY DEF Respawn, Cancelled, ClientReap, ClientSilence, OpenFails, ReplyTaskEnds,
           ServerSilence, ServerReap, OutsideNext, Lose, ServiceStops, ServiceStarts
  <1>2. server \in [DOMAIN server -> Session]
    BY DEF Inv, TypeOK
  <1>3. \A id \in DOMAIN server' : /\ id \in DOMAIN server
                                   /\ server'[id].port = server[id].port
                                   /\ server'[id].heard \subseteq server[id].heard
    <2> DEFINE Fewer == \A i \in DOMAIN server' : /\ i \in DOMAIN server
                                                 /\ server'[i].port = server[i].port
                                                 /\ server'[i].heard \subseteq server[i].heard
    <2>1. CASE server' = server
      BY <2>1
    <2>2. ASSUME NEW id \in Ids, ReplyTaskEnds(id) PROVE Fewer
      BY <1>2, <2>2 DEF ReplyTaskEnds, Session
    <2>3. ASSUME NEW id \in Ids, ServerSilence(id) PROVE Fewer
      BY <1>2, <2>3 DEF ServerSilence, Silence, Session
    <2>4. CASE ServerReap
      BY <2>4 DEF ServerReap, ReapIdle, Retain, Restrict
    <2>5. ASSUME NEW p \in MayStop, ServiceStops(p) PROVE Fewer
      BY <1>2, <2>5 DEF ServiceStops, Session
    <2> QED
      BY <2>1, <2>2, <2>3, <2>4, <2>5
         DEF Respawn, Cancelled, ClientReap, ClientSilence, OpenFails, OutsideNext, Lose,
             ServiceStarts
  <1> QED
    BY <1>1, <1>3, QuietStep DEF Service!Next

LEMMA StepRefines ==
  ASSUME MaxGen = 1
  PROVE  Inv /\ [Next]_vars => [Service!Next]_Service!vars
  <1> SUFFICES ASSUME Inv, [Next]_vars
               PROVE  Service!Next \/ UNCHANGED Service!vars
    OBVIOUS
  <1>1. CASE UNCHANGED vars
    BY <1>1 DEF vars, Service!vars
  <1>2. CASE ClientNext
    BY <1>2, ForwardRefines, DeliverBackRefines, QuietRefines DEF ClientNext
  <1>3. CASE ServerNext
    BY <1>3, DeliverOutRefines, ReplyBackRefines, QuietRefines DEF ServerNext
  <1>4. CASE OutsideNext
    BY <1>4, QuietRefines
  <1> QED
    BY <1>1, <1>2, <1>3, <1>4 DEF Next

(* With one generation of forwarders, tables, ids and reaping amount to a relay
   that brings a request to its service only and an answer to who asked only. *)
THEOREM ImplementsRelay ==
  ASSUME MaxGen = 1
  PROVE  Spec => ServesAsPromised
  <1>1. Init => Service!Init
    BY DEF Init, Service!Init, NoEntries
  <1> QED
    BY <1>1, InvInit, InvNext, StepRefines, PTL DEF Spec, ServesAsPromised, Service!Spec
=============================================================================
