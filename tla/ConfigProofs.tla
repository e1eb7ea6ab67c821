---------------------------- MODULE ConfigProofs ----------------------------
(***************************************************************************)
(* Theorems about Config, for configurations of any size: what the flags   *)
(* and the admin API's edits do to the lists of a valid configuration, and *)
(* to what each peer may reach.                                            *)
(***************************************************************************)
EXTENDS Config, WellFoundedInduction, TLAPS

(***************************************************************************)
(* Induction.  It is stated for a set, which a prover can instantiate with *)
(* the numbers that have some property.                                    *)
(***************************************************************************)
LEMMA LeastNumber ==
  ASSUME NEW T, T \subseteq Nat, T # {}
  PROVE  \E m \in T : \A k \in T : m <= k
  <1> DEFINE R == OpToRel(<, Nat)
  <1>1. IsWellFoundedOn(R, Nat)
    BY NatLessThanWellFounded
  <1>2. \A x, y \in Nat : x < y => <<x, y>> \in R
    BY DEF OpToRel
  <1> HIDE DEF R
  <1>3. PICK x \in T : \A y \in T : <<y, x>> \notin R
    BY <1>1, WFMin
  <1>4. ASSUME NEW k \in T PROVE x <= k
    <2>1. x \in Nat /\ k \in Nat /\ ~(k < x)
      BY <1>2, <1>3
    <2> QED
      BY <2>1
  <1> QED
    BY <1>4

LEMMA Induction ==
  ASSUME NEW S, 0 \in S, \A n \in Nat : n \in S => n + 1 \in S
  PROVE  Nat \subseteq S
  <1> SUFFICES ASSUME Nat \ S # {} PROVE FALSE
    OBVIOUS
  <1>1. PICK m \in Nat \ S : \A k \in Nat \ S : m <= k
    BY LeastNumber
  <1>2. m # 0 /\ m - 1 \in Nat /\ m - 1 \in S
    BY <1>1
  <1> QED
    BY <1>1, <1>2

(* A function that is built step by step exists, and has the type its steps
   keep. *)
Iterates(f, n, c, step) == f[0] = c /\ \A i \in 1..n : f[i] = step[<<f[i-1], i>>]

LEMMA Iteration ==
  ASSUME NEW S, NEW c \in S, NEW n \in Nat, NEW step \in [S \X (1..n) -> S]
  PROVE  \E f \in [0..n -> S] : Iterates(f, n, c, step)
  <1> USE DEF Iterates
  <1> DEFINE Upto(m, f) == Iterates(f, m, c, step)
             T == {m \in Nat : m <= n => \E f \in [0..m -> S] : Upto(m, f)}
  <1>1. 0 \in T
    <2>1. [i \in 0..0 |-> c] \in [0..0 -> S] /\ Upto(0, [i \in 0..0 |-> c])
      OBVIOUS
    <2> QED
      BY <2>1
  <1>2. ASSUME NEW m \in Nat, m \in T PROVE m + 1 \in T
    <2> SUFFICES ASSUME m + 1 <= n PROVE \E g \in [0..(m+1) -> S] : Upto(m + 1, g)
      OBVIOUS
    <2>1. PICK f \in [0..m -> S] : Upto(m, f)
      BY <1>2
    <2> DEFINE next == step[<<f[m], m + 1>>]
               g == [i \in 0..(m+1) |-> IF i <= m THEN f[i] ELSE next]
    <2>2. next \in S
      OBVIOUS
    <2>3. g \in [0..(m+1) -> S]
      BY <2>2
    <2>4. \A i \in 0..m : g[i] = f[i]
      OBVIOUS
    <2>5. g[m+1] = next
      OBVIOUS
    <2> HIDE DEF g
    <2>6. ASSUME NEW i \in 1..(m+1) PROVE g[i] = step[<<g[i-1], i>>]
      <3>1. CASE i \in 1..m
        BY <2>1, <2>4, <3>1
      <3>2. CASE i = m + 1
        BY <2>4, <2>5, <3>2
      <3> QED
        BY <3>1, <3>2
    <2> QED
      BY <2>1, <2>3, <2>4, <2>6
  <1> HIDE DEF T
  <1>3. n \in T
    BY <1>1, <1>2, Induction
  <1> QED
    BY <1>3 DEF T

(***************************************************************************)
(* Lists                                                                   *)
(***************************************************************************)
LEMMA AppendEntries ==
  ASSUME NEW E, NEW list \in Seq(E), NEW e \in E
  PROVE  /\ Append(list, e) \in Seq(E) /\ Len(Append(list, e)) = Len(list) + 1
         /\ DOMAIN list = 1..Len(list) /\ Append(list, e)[Len(list) + 1] = e
         /\ \A i \in 1..Len(list) : Append(list, e)[i] = list[i]
         /\ Entries(Append(list, e)) = Entries(list) \cup {e}
  <1>1. Append(list, e) \in Seq(E) /\ Len(Append(list, e)) = Len(list) + 1
    OBVIOUS
  <1>2. /\ DOMAIN Append(list, e) = 1..(Len(list) + 1) /\ DOMAIN list = 1..Len(list)
        /\ \A i \in 1..Len(list) : Append(list, e)[i] = list[i]
        /\ Append(list, e)[Len(list) + 1] = e
    OBVIOUS
  <1>3. \A i \in 1..(Len(list) + 1) : i \in 1..Len(list) \/ i = Len(list) + 1
    OBVIOUS
  <1>4. 1..Len(list) \subseteq 1..(Len(list) + 1) /\ Len(list) + 1 \in 1..(Len(list) + 1)
    OBVIOUS
  <1>5. Entries(Append(list, e)) \subseteq Entries(list) \cup {e}
    BY <1>2, <1>3 DEF Entries
  <1>6. Entries(list) \cup {e} \subseteq Entries(Append(list, e))
    BY <1>2, <1>4 DEF Entries
  <1> QED
    BY <1>1, <1>2, <1>5, <1>6

LEMMA ConcatEntries ==
  ASSUME NEW E, NEW s \in Seq(E), NEW t \in Seq(E)
  PROVE  s \o t \in Seq(E) /\ Entries(s \o t) = Entries(s) \cup Entries(t)
  <1>1. /\ s \o t \in Seq(E) /\ DOMAIN (s \o t) = 1..(Len(s) + Len(t))
        /\ Len(s) \in Nat /\ Len(t) \in Nat
        /\ DOMAIN s = 1..Len(s) /\ DOMAIN t = 1..Len(t)
    OBVIOUS
  <1>2. \A i \in 1..(Len(s) + Len(t)) :
           (s \o t)[i] = IF i <= Len(s) THEN s[i] ELSE t[i - Len(s)]
    OBVIOUS
  <1>3. Entries(s \o t) \subseteq Entries(s) \cup Entries(t)
    <2> SUFFICES ASSUME NEW i \in 1..(Len(s) + Len(t))
                 PROVE  (s \o t)[i] \in Entries(s) \cup Entries(t)
      BY <1>1 DEF Entries
    <2>1. i <= Len(s) => i \in DOMAIN s
      BY <1>1
    <2>2. ~(i <= Len(s)) => i - Len(s) \in DOMAIN t
      BY <1>1
    <2> QED
      BY <1>2, <2>1, <2>2 DEF Entries
  <1>4. \A i \in DOMAIN s : i \in 1..(Len(s) + Len(t)) /\ i <= Len(s)
    BY <1>1
  <1>5. \A i \in DOMAIN t : /\ i + Len(s) \in 1..(Len(s) + Len(t)) /\ ~(i + Len(s) <= Len(s))
                            /\ (i + Len(s)) - Len(s) = i
    BY <1>1
  <1>6. \A i \in DOMAIN t : (s \o t)[i + Len(s)] = t[i]
    BY <1>2, <1>5
  <1>7. Entries(s) \subseteq Entries(s \o t)
    BY <1>1, <1>2, <1>4 DEF Entries
  <1>8. Entries(t) \subseteq Entries(s \o t)
    BY <1>1, <1>5, <1>6 DEF Entries
  <1> QED
    BY <1>1, <1>3, <1>7, <1>8

Picks(f, list, positions) ==
    /\ f[0] = <<>>
    /\ \A i \in 1..Len(list) :
          f[i] = IF i \in positions THEN Append(f[i-1], list[i]) ELSE f[i-1]

LEMMA PickSteps ==
  ASSUME NEW E, NEW list \in Seq(E), NEW positions
  PROVE  \E f \in [0..Len(list) -> Seq(E)] :
            Picks(f, list, positions) /\ Pick(list, positions) = f[Len(list)]
  <1> USE DEF Picks
  <1> DEFINE n == Len(list)
             step == [x \in Seq(E) \X (1..n) |->
                        IF x[2] \in positions THEN Append(x[1], list[x[2]]) ELSE x[1]]
             Steps(f) == [i \in 0..n |->
                            IF i = 0 THEN <<>>
                            ELSE IF i \in positions THEN Append(f[i-1], list[i]) ELSE f[i-1]]
  <1>1. n \in Nat /\ \A i \in 1..n : list[i] \in E
    OBVIOUS
  <1>2. step \in [Seq(E) \X (1..n) -> Seq(E)]
    BY <1>1
  <1>3. PICK f \in [0..n -> Seq(E)] :
           f[0] = <<>> /\ \A i \in 1..n : f[i] = step[<<f[i-1], i>>]
    <2>1. <<>> \in Seq(E)
      OBVIOUS
    <2> HIDE DEF step, n, Steps
    <2>2. PICK m \in Nat : m = n
      BY <1>1
    <2>3. PICK h \in [Seq(E) \X (1..m) -> Seq(E)] : h = step
      BY <1>2, <2>2
    <2>4. PICK f \in [0..m -> Seq(E)] : Iterates(f, m, <<>>, h)
      BY <2>1, Iteration
    <2> QED
      BY <2>2, <2>3, <2>4 DEF Iterates
  <1>4. ASSUME NEW i \in 1..n
        PROVE  f[i] = IF i \in positions THEN Append(f[i-1], list[i]) ELSE f[i-1]
    <2>1. i - 1 \in 0..n
      BY <1>1
    <2>2. f[i] = step[<<f[i-1], i>>] /\ <<f[i-1], i>> \in Seq(E) \X (1..n)
      BY <1>3, <2>1
    <2> QED
      BY <2>2
  <1>5. f = Steps(f)
    <2>1. \A i \in 0..n : i = 0 \/ i \in 1..n
      BY <1>1
    <2>2. \A i \in 0..n : f[i] = IF i = 0 THEN <<>>
                                 ELSE IF i \in positions THEN Append(f[i-1], list[i]) ELSE f[i-1]
      BY <1>3, <1>4, <2>1
    <2>3. \A i \in 0..n : f[i] = Steps(f)[i]
      BY <2>2
    <2> QED
      BY <1>3, <2>3
  <1> DEFINE g == CHOOSE h : h = Steps(h)
  <1>6. g = Steps(g)
    <2> HIDE DEF Steps
    <2> QED
      BY <1>5
  <1>7. Pick(list, positions) = g[n]
    BY DEF Pick
  <1> HIDE DEF g
  <1> DEFINE T == {i \in Nat : i <= n => g[i] = f[i]}
  <1>8. 0 \in T
    BY <1>1, <1>3, <1>6
  <1>9. ASSUME NEW i \in Nat, i \in T PROVE i + 1 \in T
    <2> SUFFICES ASSUME i + 1 <= n PROVE g[i+1] = f[i+1]
      OBVIOUS
    <2>1. i + 1 \in 1..n /\ i + 1 # 0 /\ (i + 1) - 1 = i /\ g[i] = f[i]
      BY <1>1, <1>9
    <2>2. g[i+1] = Steps(g)[i+1]
      <3> HIDE DEF Steps
      <3> QED
        BY <1>6
    <2>3. i + 1 \in 0..n
      BY <1>1, <2>1
    <2>4. g[i+1] = IF i + 1 \in positions THEN Append(g[(i+1)-1], list[i+1]) ELSE g[(i+1)-1]
      BY <2>1, <2>2, <2>3
    <2> QED
      BY <1>4, <2>1, <2>4
  <1> HIDE DEF T
  <1>10. n \in T
    BY <1>1, <1>8, <1>9, Induction
  <1>11. g[n] = f[n]
    BY <1>1, <1>10 DEF T
  <1> QED
    BY <1>3, <1>4, <1>7, <1>11

(* A list that holds the entries of another at some positions, in its order. *)
PickOf(s, list, positions) ==
    /\ Entries(s) = {list[j] : j \in positions}
    /\ \A k, l \in DOMAIN s :
          k < l => \E a, b \in positions : a < b /\ s[k] = list[a] /\ s[l] = list[b]

LEMMA PickOneMore ==
  ASSUME NEW E, NEW list, NEW s \in Seq(E), NEW positions, PickOf(s, list, positions),
         NEW i, list[i] \in E, \A a \in positions : a < i
  PROVE  PickOf(Append(s, list[i]), list, positions \cup {i})
  <1> DEFINE t == Append(s, list[i])
  <1>1. /\ DOMAIN s = 1..Len(s) /\ DOMAIN t = 1..(Len(s) + 1) /\ Len(s) \in Nat
        /\ t[Len(s) + 1] = list[i] /\ \A k \in DOMAIN s : t[k] = s[k]
        /\ Entries(t) = Entries(s) \cup {list[i]}
    BY AppendEntries
  <1> HIDE DEF t
  <1>2. Entries(t) = {list[j] : j \in positions \cup {i}}
    BY <1>1 DEF PickOf
  <1>3. ASSUME NEW k \in DOMAIN t, NEW l \in DOMAIN t, k < l
        PROVE  \E a, b \in positions \cup {i} : a < b /\ t[k] = list[a] /\ t[l] = list[b]
    <2>1. k \in DOMAIN s
      BY <1>1, <1>3
    <2>2. CASE l \in DOMAIN s
      BY <1>1, <1>3, <2>1, <2>2 DEF PickOf
    <2>3. CASE l \notin DOMAIN s
      <3>1. l = Len(s) + 1
        BY <1>1, <2>3
      <3>2. s[k] \in Entries(s)
        BY <2>1 DEF Entries
      <3>3. PICK a \in positions : s[k] = list[a]
        BY <3>2 DEF PickOf
      <3> QED
        BY <1>1, <2>1, <3>1, <3>3
    <2> QED
      BY <2>2, <2>3
  <1> QED
    BY <1>2, <1>3 DEF PickOf, t

(* retain and the pushes of seed_from_flags: what is picked is what stood at
   the positions, in order, so no key that occurred once occurs twice. *)
LEMMA PickFacts ==
  ASSUME NEW E, NEW list \in Seq(E), NEW positions
  PROVE  /\ Pick(list, positions) \in Seq(E)
         /\ PickOf(Pick(list, positions), list, positions \cap DOMAIN list)
  <1>1. PICK f \in [0..Len(list) -> Seq(E)] :
           Picks(f, list, positions) /\ Pick(list, positions) = f[Len(list)]
    BY PickSteps
  <1> USE DEF Picks
  <1>2. Len(list) \in Nat /\ DOMAIN list = 1..Len(list) /\ \A i \in 1..Len(list) : list[i] \in E
    OBVIOUS
  <1> DEFINE upto(i) == positions \cap 1..i
             T == {i \in Nat : i <= Len(list) => PickOf(f[i], list, upto(i))}
  <1>3. 0 \in T
    <2>1. upto(0) = {} /\ Entries(<<>>) = {} /\ DOMAIN <<>> = {}
      BY DEF Entries
    <2>2. PickOf(<<>>, list, upto(0))
      BY <2>1 DEF PickOf
    <2> QED
      BY <1>1, <2>2
  <1>4. ASSUME NEW i \in Nat, i \in T PROVE i + 1 \in T
    <2> SUFFICES ASSUME i + 1 <= Len(list) PROVE PickOf(f[i+1], list, upto(i+1))
      OBVIOUS
    <2>1. /\ i + 1 \in 1..Len(list) /\ (i + 1) - 1 = i /\ i \in 0..Len(list)
          /\ 1..(i+1) = 1..i \cup {i + 1} /\ \A a \in 1..i : a < i + 1
      BY <1>2
    <2>2. PickOf(f[i], list, upto(i)) /\ f[i] \in Seq(E)
      BY <1>2, <1>4, <2>1
    <2>3. CASE i + 1 \in positions
      <3>1. upto(i+1) = upto(i) \cup {i + 1} /\ \A a \in upto(i) : a < i + 1
        BY <2>1, <2>3
      <3>2. f[i+1] = Append(f[i], list[i+1]) /\ list[i+1] \in E
        BY <1>1, <1>2, <2>1, <2>3
      <3> HIDE DEF upto, T
      <3>3. PICK P, k : P = upto(i) /\ k = i + 1
        OBVIOUS
      <3>4. PickOf(Append(f[i], list[k]), list, P \cup {k})
        BY <2>2, <3>1, <3>2, <3>3, PickOneMore
      <3> QED
        BY <3>1, <3>2, <3>3, <3>4
    <2>4. CASE i + 1 \notin positions
      <3>1. upto(i+1) = upto(i) /\ f[i+1] = f[i]
        BY <1>1, <2>1, <2>4
      <3> QED
        BY <2>2, <3>1
    <2> QED
      BY <2>3, <2>4
  <1> HIDE DEF T
  <1>5. Len(list) \in T
    BY <1>2, <1>3, <1>4, Induction
  <1>6. PickOf(f[Len(list)], list, upto(Len(list))) /\ f[Len(list)] \in Seq(E)
    BY <1>1, <1>2, <1>5 DEF T
  <1> QED
    BY <1>1, <1>2, <1>6

(* One entry is rewritten in place. *)
LEMMA ReplaceEntries ==
  ASSUME NEW E, NEW list \in Seq(E), NEW i \in DOMAIN list, NEW e \in E,
         \A j \in DOMAIN list : list[j] = list[i] => j = i
  PROVE  /\ [list EXCEPT ![i] = e] \in Seq(E)
         /\ Entries([list EXCEPT ![i] = e]) = (Entries(list) \ {list[i]}) \cup {e}
  <1>1. [list EXCEPT ![i] = e] \in Seq(E)
    OBVIOUS
  <1>2. /\ DOMAIN [list EXCEPT ![i] = e] = DOMAIN list /\ [list EXCEPT ![i] = e][i] = e
        /\ \A j \in DOMAIN list : j # i => [list EXCEPT ![i] = e][j] = list[j]
    OBVIOUS
  <1> QED
    BY <1>1, <1>2 DEF Entries

(***************************************************************************)
(* Configurations.  A port is a u16, the names of peers are of any set.    *)
(***************************************************************************)
Proto == {"tcp", "udp"}
Port == 0..65535
Offer == [proto : Proto, port : Port, enabled : BOOLEAN]
Peer(ids) == [id : ids, enabled : BOOLEAN, offers : Seq(Offer)]
Binding == [proto : Proto, local : Port, remote : Port, enabled : BOOLEAN]

ConfigType(ids) ==
    [shared : Seq(Offer), peers : Seq(Peer(ids)), bindings : Seq(Binding)]
ValidConfigs(ids) == {c \in ConfigType(ids) : Validate(c)}

(* The entries of a peer: one or none in a valid configuration. *)
Named(c, id) == {p \in Entries(c.peers) : p.id = id}

LEMMA ConfigShape ==
  ASSUME NEW ids, NEW c \in ConfigType(ids)
  PROVE  /\ c.shared \in Seq(Offer) /\ Entries(c.shared) \subseteq Offer
         /\ c.peers \in Seq(Peer(ids)) /\ Entries(c.peers) \subseteq Peer(ids)
         /\ c.bindings \in Seq(Binding) /\ Entries(c.bindings) \subseteq Binding
         /\ \A p \in Entries(c.peers) :
               p.id \in ids /\ p.offers \in Seq(Offer) /\ Entries(p.offers) \subseteq Offer
  <1>1. c.shared \in Seq(Offer) /\ c.peers \in Seq(Peer(ids)) /\ c.bindings \in Seq(Binding)
    BY DEF ConfigType
  <1>2. ASSUME NEW E, NEW list \in Seq(E) PROVE Entries(list) \subseteq E
    BY <1>2 DEF Entries
  <1>3. \A p \in Peer(ids) : p.id \in ids /\ p.offers \in Seq(Offer)
    BY DEF Peer
  <1> QED
    BY <1>1, <1>2, <1>3

(* What the queries need of a valid configuration. *)
DistinctPeers(ids) == {c \in ConfigType(ids) : NoRepeat(c.peers, PeerKey)}

LEMMA ValidIsDistinct == \A ids : ValidConfigs(ids) \subseteq DistinctPeers(ids)
  BY DEF ValidConfigs, DistinctPeers, Validate

(* Config::peer: the first entry under a name is the only one. *)
LEMMA FirstIsOnlyOf ==
  ASSUME NEW ids, NEW c \in DistinctPeers(ids), NEW id
  PROVE  /\ \A i \in PeerAt(c, id) : i \in DOMAIN c.peers /\ Named(c, id) = {c.peers[i]}
         /\ \A p \in Named(c, id) : \E i \in PeerAt(c, id) : c.peers[i] = p
         /\ \A i \in PeerAt(c, id), j \in DOMAIN c.peers : c.peers[j] = c.peers[i] => j = i
  <1>1. NoRepeat(c.peers, PeerKey) /\ c.peers \in Seq(Peer(ids))
    BY ConfigShape DEF DistinctPeers
  <1>2. \A i, j \in DOMAIN c.peers : c.peers[i].id = c.peers[j].id => i = j
    BY <1>1 DEF NoRepeat, PeerKey
  <1>3. PeerAt(c, id) = {i \in DOMAIN c.peers : c.peers[i].id = id}
    <2>1. \A i \in DOMAIN c.peers : \A k \in 1..(i-1) : k \in DOMAIN c.peers /\ k # i
      BY <1>1
    <2> QED
      BY <1>2, <2>1 DEF PeerAt, FirstAt, PeerKey
  <1> QED
    BY <1>2, <1>3 DEF Named, Entries

LEMMA FirstIsOnly ==
  ASSUME NEW ids, NEW c \in ValidConfigs(ids), NEW id
  PROVE  /\ \A i \in PeerAt(c, id) : i \in DOMAIN c.peers /\ Named(c, id) = {c.peers[i]}
         /\ \A p \in Named(c, id) : \E i \in PeerAt(c, id) : c.peers[i] = p
         /\ \A i \in PeerAt(c, id), j \in DOMAIN c.peers : c.peers[j] = c.peers[i] => j = i
  BY FirstIsOnlyOf, ValidIsDistinct

(* Config::granted and Peer::granted, when no peer is listed twice: a port is
   granted by an enabled entry and an enabled offer, shared or the entry's. *)
Grants(shared, p, proto, port) ==
    /\ p.enabled
    /\ \E o \in Entries(shared) \cup Entries(p.offers) :
          o.enabled /\ o.proto = proto /\ o.port = port

LEMMA GrantedIn ==
  ASSUME NEW ids, NEW c \in DistinctPeers(ids), NEW id, NEW proto, NEW port
  PROVE  port \in Granted(c, id, proto) <=>
            \E p \in Named(c, id) : Grants(c.shared, p, proto, port)
  <1>1. ASSUME port \in Granted(c, id, proto)
        PROVE  \E p \in Named(c, id) : Grants(c.shared, p, proto, port)
    <2>1. PICK i \in PeerAt(c, id) : c.peers[i].enabled
      BY <1>1 DEF Granted, Admits
    <2>2. PICK o \in Entries(c.shared) \cup OwnOffers(c, id) :
             o.enabled /\ o.proto = proto /\ o.port = port
      BY <1>1 DEF Granted
    <2>3. Named(c, id) = {c.peers[i]}
      BY <2>1, FirstIsOnlyOf
    <2>4. \A j \in PeerAt(c, id) : c.peers[j] = c.peers[i]
      BY <2>3, FirstIsOnlyOf
    <2>5. o \in Entries(c.shared) \cup Entries(c.peers[i].offers)
      BY <2>2, <2>4 DEF OwnOffers
    <2> QED
      BY <2>1, <2>2, <2>3, <2>5 DEF Grants
  <1>2. ASSUME NEW p \in Named(c, id), Grants(c.shared, p, proto, port)
        PROVE  port \in Granted(c, id, proto)
    <2>1. PICK i \in PeerAt(c, id) : c.peers[i] = p
      BY FirstIsOnlyOf
    <2>2. Admits(c, id) /\ Entries(p.offers) \subseteq OwnOffers(c, id)
      BY <1>2, <2>1 DEF Grants, Admits, OwnOffers
    <2>3. PICK o \in Entries(c.shared) \cup Entries(p.offers) :
             o.enabled /\ o.proto = proto /\ o.port = port
      BY <1>2 DEF Grants
    <2>4. o \in {x \in Entries(c.shared) \cup OwnOffers(c, id) : x.enabled /\ x.proto = proto}
      BY <2>2, <2>3
    <2> QED
      BY <2>2, <2>3, <2>4 DEF Granted
  <1> QED
    BY <1>1, <1>2

LEMMA GrantedMeans ==
  ASSUME NEW ids, NEW c \in ValidConfigs(ids), NEW id, NEW proto, NEW port
  PROVE  port \in Granted(c, id, proto) <=>
            \E p \in Named(c, id) : Grants(c.shared, p, proto, port)
  BY GrantedIn, ValidIsDistinct

LEMMA AdmitsIn ==
  ASSUME NEW ids, NEW c \in DistinctPeers(ids), NEW id
  PROVE  /\ Admits(c, id) <=> \E p \in Named(c, id) : p.enabled
         /\ Listed(c, id) <=> Named(c, id) # {}
  <1>1. \A i \in PeerAt(c, id) : Named(c, id) = {c.peers[i]}
    BY FirstIsOnlyOf
  <1>2. \A p \in Named(c, id) : \E i \in PeerAt(c, id) : c.peers[i] = p
    BY FirstIsOnlyOf
  <1> QED
    BY <1>1, <1>2 DEF Admits, Listed

LEMMA AdmitsMeans ==
  ASSUME NEW ids, NEW c \in ValidConfigs(ids), NEW id
  PROVE  /\ Admits(c, id) <=> \E p \in Named(c, id) : p.enabled
         /\ Listed(c, id) <=> Named(c, id) # {}
  BY AdmitsIn, ValidIsDistinct

LEMMA SameGrants ==
  ASSUME NEW ids, NEW c \in ValidConfigs(ids), NEW d \in ValidConfigs(ids), NEW id,
         d.shared = c.shared, Named(d, id) = Named(c, id)
  PROVE  \A proto : Granted(d, id, proto) = Granted(c, id, proto)
  <1> TAKE proto
  <1>1. \A port : port \in Granted(d, id, proto) <=>
                    \E p \in Named(c, id) : Grants(c.shared, p, proto, port)
    BY GrantedMeans
  <1>2. \A port : port \in Granted(d, id, proto) <=> port \in Granted(c, id, proto)
    BY <1>1, GrantedMeans
  <1> QED
    BY <1>2, Zenon

(***************************************************************************)
(* What the edits of the admin API do to the entries                       *)
(***************************************************************************)
LEMMA AcceptedIsValid ==
  ASSUME NEW ids, NEW c \in ConfigType(ids), NEW d \in Accepted(c)
  PROVE  d = c /\ d \in ValidConfigs(ids)
  BY DEF Accepted, ValidConfigs

LEMMA WithPeersIsValid ==
  ASSUME NEW ids, NEW c \in ConfigType(ids), NEW lists \in SUBSET Seq(Peer(ids)),
         NEW d \in WithPeers(c, lists)
  PROVE  /\ d \in ValidConfigs(ids) /\ d.peers \in lists
         /\ d.shared = c.shared /\ d.bindings = c.bindings
  <1>1. PICK l \in lists : d \in Accepted([c EXCEPT !.peers = l])
    BY DEF WithPeers
  <1>2. [c EXCEPT !.peers = l] \in ConfigType(ids)
    BY DEF ConfigType
  <1>3. d = [c EXCEPT !.peers = l] /\ d \in ValidConfigs(ids)
    BY <1>1, <1>2, AcceptedIsValid
  <1> QED
    BY <1>3 DEF ConfigType

LEMMA AddPeerDoes ==
  ASSUME NEW ids, NEW c \in ValidConfigs(ids), NEW id \in ids, NEW d \in AddPeer(c, id)
  PROVE  /\ d \in ValidConfigs(ids) /\ d.shared = c.shared
         /\ Named(c, id) = {} /\ Entries(d.peers) = Entries(c.peers) \cup {NewPeer(id)}
  <1>1. c \in ConfigType(ids) /\ c.peers \in Seq(Peer(ids)) /\ NewPeer(id) \in Peer(ids)
    BY ConfigShape DEF ValidConfigs, NewPeer, Peer
  <1> DEFINE l == Append(c.peers, NewPeer(id))
  <1>2. Added(c.peers, NewPeer(id), PeerKey) \subseteq {l} /\ l \in Seq(Peer(ids))
    BY <1>1 DEF Added
  <1>3. d \in WithPeers(c, Added(c.peers, NewPeer(id), PeerKey))
    BY DEF AddPeer
  <1>4. Added(c.peers, NewPeer(id), PeerKey) \in SUBSET Seq(Peer(ids))
    BY <1>2
  <1>5. d \in ValidConfigs(ids) /\ d.shared = c.shared /\ d.peers \in Added(c.peers, NewPeer(id), PeerKey)
    BY <1>1, <1>3, <1>4, WithPeersIsValid
  <1>6. ~\E x \in Entries(c.peers) : PeerKey(x) = PeerKey(NewPeer(id))
    BY <1>5 DEF Added
  <1>7. Named(c, id) = {}
    BY <1>6 DEF Named, PeerKey, NewPeer
  <1>8. Entries(d.peers) = Entries(c.peers) \cup {NewPeer(id)}
    <2>1. Entries(l) = Entries(c.peers) \cup {NewPeer(id)}
      BY <1>1, AppendEntries
    <2> QED
      BY <1>2, <1>5, <2>1
  <1> QED
    BY <1>5, <1>7, <1>8

LEMMA DelPeerDoes ==
  ASSUME NEW ids, NEW c \in ValidConfigs(ids), NEW id, NEW d \in DelPeer(c, id)
  PROVE  /\ d \in ValidConfigs(ids) /\ d.shared = c.shared
         /\ Entries(d.peers) = {p \in Entries(c.peers) : p.id # id}
  <1>1. c \in ConfigType(ids) /\ c.peers \in Seq(Peer(ids))
    BY ConfigShape DEF ValidConfigs
  <1> DEFINE positions == {i \in DOMAIN c.peers : PeerKey(c.peers[i]) # id}
             l == Pick(c.peers, positions)
  <1>2. l \in Seq(Peer(ids)) /\ Entries(l) = {c.peers[i] : i \in positions \cap DOMAIN c.peers}
    BY <1>1, PickFacts DEF PickOf
  <1> HIDE DEF l
  <1>3. Entries(l) = {p \in Entries(c.peers) : p.id # id}
    BY <1>2 DEF Entries, PeerKey
  <1>4. Deleted(c.peers, id, PeerKey) \subseteq {l}
    BY DEF Deleted, l
  <1>5. d \in WithPeers(c, Deleted(c.peers, id, PeerKey))
    BY DEF DelPeer
  <1>6. Deleted(c.peers, id, PeerKey) \in SUBSET Seq(Peer(ids))
    BY <1>2, <1>4
  <1>7. d \in ValidConfigs(ids) /\ d.shared = c.shared /\ d.peers \in Deleted(c.peers, id, PeerKey)
    BY <1>1, <1>5, <1>6, WithPeersIsValid
  <1> QED
    BY <1>3, <1>4, <1>7

LEMMA RewritePeer ==
  ASSUME NEW ids, NEW c \in ValidConfigs(ids), NEW id, NEW i \in PeerAt(c, id), NEW e \in Peer(ids)
  PROVE  /\ i \in DOMAIN c.peers /\ Named(c, id) = {c.peers[i]}
         /\ [c.peers EXCEPT ![i] = e] \in Seq(Peer(ids))
         /\ Entries([c.peers EXCEPT ![i] = e]) = (Entries(c.peers) \ {c.peers[i]}) \cup {e}
  <1>1. c.peers \in Seq(Peer(ids))
    BY ConfigShape DEF ValidConfigs
  <1>2. /\ i \in DOMAIN c.peers /\ Named(c, id) = {c.peers[i]}
        /\ \A j \in DOMAIN c.peers : c.peers[j] = c.peers[i] => j = i
    BY FirstIsOnly
  <1> QED
    BY <1>1, <1>2, ReplaceEntries

LEMMA PatchPeerDoes ==
  ASSUME NEW ids, NEW c \in ValidConfigs(ids), NEW id, NEW on \in BOOLEAN,
         NEW d \in PatchPeer(c, id, on)
  PROVE  /\ d \in ValidConfigs(ids) /\ d.shared = c.shared
         /\ \E p \in Peer(ids) :
               /\ Named(c, id) = {p}
               /\ Entries(d.peers) = (Entries(c.peers) \ {p}) \cup {[p EXCEPT !.enabled = on]}
  <1> DEFINE New(p) == [p EXCEPT !.enabled = on]
             lists == Patched(c.peers, id, PeerKey, New)
  <1>1. c \in ConfigType(ids) /\ Entries(c.peers) \subseteq Peer(ids)
    BY ConfigShape DEF ValidConfigs
  <1>2. \A p \in Peer(ids) : New(p) \in Peer(ids)
    BY DEF Peer
  <1> HIDE DEF New
  <1>3. ASSUME NEW l \in lists
        PROVE  /\ l \in Seq(Peer(ids))
               /\ \E p \in Peer(ids) : /\ Named(c, id) = {p}
                                        /\ Entries(l) = (Entries(c.peers) \ {p}) \cup {New(p)}
    <2>1. PICK i \in PeerAt(c, id) : l = [c.peers EXCEPT ![i] = New(c.peers[i])]
      BY DEF Patched, PeerAt
    <2>2. c.peers[i] \in Peer(ids)
      BY <1>1, FirstIsOnly DEF Entries
    <2>3. New(c.peers[i]) \in Peer(ids)
      BY <1>2, <2>2
    <2> QED
      BY <2>1, <2>2, <2>3, RewritePeer
  <1>4. d \in WithPeers(c, lists)
    BY DEF PatchPeer, New
  <1>5. lists \in SUBSET Seq(Peer(ids))
    BY <1>3
  <1>6. d \in ValidConfigs(ids) /\ d.shared = c.shared /\ d.peers \in lists
    BY <1>1, <1>4, <1>5, WithPeersIsValid
  <1> QED
    BY <1>3, <1>6 DEF New

LEMMA AddedOffer ==
  ASSUME NEW list \in Seq(Offer), NEW key \in Proto \X Port,
         NEW l \in Added(list, NewOffer(key), OfferKey)
  PROVE  l \in Seq(Offer) /\ Entries(l) = Entries(list) \cup {NewOffer(key)}
  <1>1. NewOffer(key) \in Offer
    BY DEF NewOffer, Offer
  <1>2. l = Append(list, NewOffer(key))
    BY DEF Added
  <1> QED
    BY <1>1, <1>2, AppendEntries

LEMMA DeletedOffer ==
  ASSUME NEW list \in Seq(Offer), NEW key, NEW l \in Deleted(list, key, OfferKey)
  PROVE  l \in Seq(Offer) /\ Entries(l) = {o \in Entries(list) : OfferKey(o) # key}
  <1> DEFINE positions == {i \in DOMAIN list : OfferKey(list[i]) # key}
             m == Pick(list, positions)
  <1>1. m \in Seq(Offer) /\ Entries(m) = {list[i] : i \in positions \cap DOMAIN list}
    BY PickFacts DEF PickOf
  <1>2. l = m
    BY DEF Deleted
  <1> HIDE DEF m
  <1>3. Entries(m) = {o \in Entries(list) : OfferKey(o) # key}
    BY <1>1 DEF Entries
  <1> QED
    BY <1>1, <1>2, <1>3

Switched(o, on) == [o EXCEPT !.enabled = on]

SwitchedLists(list, key, on) ==
    {[list EXCEPT ![i] = Switched(list[i], on)] : i \in FirstAt(list, key, OfferKey)}

SwitchesOne(old, new, key, on) ==
    \E o \in Entries(old) : /\ OfferKey(o) = key
                            /\ Entries(new) = (Entries(old) \ {o}) \cup {Switched(o, on)}

LEMMA PatchedOffer ==
  ASSUME NEW list \in Seq(Offer), NEW key, NEW on \in BOOLEAN, NEW l \in SwitchedLists(list, key, on)
  PROVE  /\ l \in Seq(Offer)
         /\ NoRepeat(list, OfferKey) => SwitchesOne(list, l, key, on)
  <1>1. PICK i \in FirstAt(list, key, OfferKey) : l = [list EXCEPT ![i] = Switched(list[i], on)]
    BY DEF SwitchedLists
  <1>2. i \in DOMAIN list /\ OfferKey(list[i]) = key
    BY DEF FirstAt
  <1>3. list[i] \in Offer
    BY <1>2
  <1>4. Switched(list[i], on) \in Offer
    BY <1>3 DEF Offer, Switched
  <1>5. l \in Seq(Offer)
    BY <1>1, <1>2, <1>4
  <1>6. ASSUME NoRepeat(list, OfferKey)
        PROVE  Entries(l) = (Entries(list) \ {list[i]}) \cup {Switched(list[i], on)}
    <2>1. \A j \in DOMAIN list : list[j] = list[i] => j = i
      BY <1>2, <1>6 DEF NoRepeat
    <2>2. PICK e \in Offer : e = Switched(list[i], on)
      BY <1>4
    <2>3. Entries([list EXCEPT ![i] = e]) = (Entries(list) \ {list[i]}) \cup {e}
      BY <1>2, <2>1, ReplaceEntries
    <2> QED
      BY <1>1, <2>2, <2>3
  <1>7. list[i] \in Entries(list)
    BY <1>2 DEF Entries
  <1> QED
    BY <1>2, <1>5, <1>6, <1>7 DEF SwitchesOne

(* admin.rs: an edit of the offers changes one list, and it is the shared one
   or the one of the peer it names. *)
OffersRevised(ids, c, d, scope, old, new) ==
    IF scope = SharedScope
    THEN d.peers = c.peers /\ old = c.shared /\ new = d.shared
    ELSE /\ d.shared = c.shared
         /\ \E p \in Peer(ids) :
               /\ Named(c, scope) = {p} /\ old = p.offers
               /\ Entries(d.peers) = (Entries(c.peers) \ {p}) \cup {[p EXCEPT !.offers = new]}

(* edit_offers, with the edit of the list as a function: a lemma can be about
   every function, not about every operator. *)
WithShared(c, l) == Accepted([c EXCEPT !.shared = l])
WithOwn(c, i, l) == Accepted([c EXCEPT !.peers[i].offers = l])

Edited(c, scope, edit) ==
    IF scope = SharedScope
    THEN UNION {WithShared(c, l) : l \in edit[c.shared]}
    ELSE UNION {UNION {WithOwn(c, i, l) : l \in edit[c.peers[i].offers]} : i \in PeerAt(c, scope)}

LEMMA OffersTyped ==
  ASSUME NEW ids, NEW c \in ValidConfigs(ids), NEW scope
  PROVE  /\ c.shared \in Seq(Offer) /\ NoRepeat(c.shared, OfferKey)
         /\ \A i \in PeerAt(c, scope) :
               /\ c.peers[i] \in Peer(ids) /\ c.peers[i].offers \in Seq(Offer)
               /\ NoRepeat(c.peers[i].offers, OfferKey)
  <1>1. /\ c.shared \in Seq(Offer) /\ Entries(c.peers) \subseteq Peer(ids)
        /\ \A p \in Entries(c.peers) : p.offers \in Seq(Offer)
    BY ConfigShape DEF ValidConfigs
  <1>2. /\ NoRepeat(c.shared, OfferKey)
        /\ \A p \in Entries(c.peers) : NoRepeat(p.offers, OfferKey)
    BY DEF ValidConfigs, Validate, ValidOffers
  <1>3. \A i \in PeerAt(c, scope) : c.peers[i] \in Entries(c.peers)
    BY FirstIsOnly DEF Entries
  <1> QED
    BY <1>1, <1>2, <1>3

LEMMA EditedDoes ==
  ASSUME NEW ids, NEW c \in ValidConfigs(ids), NEW scope,
         NEW edit \in [Seq(Offer) -> SUBSET Seq(Offer)], NEW d \in Edited(c, scope, edit)
  PROVE  /\ d \in ValidConfigs(ids)
         /\ \E old \in Seq(Offer) : \E new \in edit[old] :
               NoRepeat(old, OfferKey) /\ OffersRevised(ids, c, d, scope, old, new)
  <1>1. c \in ConfigType(ids) /\ c.peers \in Seq(Peer(ids))
    BY ConfigShape DEF ValidConfigs
  <1>2. CASE scope = SharedScope
    <2>1. PICK l \in edit[c.shared] : d \in WithShared(c, l)
      BY <1>2 DEF Edited
    <2>2. [c EXCEPT !.shared = l] \in ConfigType(ids)
      BY <1>1, <2>1, OffersTyped DEF ConfigType
    <2>3. d = [c EXCEPT !.shared = l] /\ d \in ValidConfigs(ids)
      BY <2>1, <2>2, AcceptedIsValid DEF WithShared
    <2>4. d.shared = l /\ d.peers = c.peers
      BY <1>1, <2>3 DEF ConfigType
    <2> QED
      BY <1>2, <2>3, <2>4, OffersTyped DEF OffersRevised
  <1>3. CASE scope # SharedScope
    <2>1. PICK i \in PeerAt(c, scope) : \E l \in edit[c.peers[i].offers] : d \in WithOwn(c, i, l)
      BY <1>3 DEF Edited
    <2>2. PICK l \in edit[c.peers[i].offers] : d \in WithOwn(c, i, l)
      BY <2>1
    <2>3. PICK e : e = [c.peers[i] EXCEPT !.offers = l]
      OBVIOUS
    <2>4. ASSUME NEW x \in Peer(ids)
          PROVE  /\ Named(c, scope) = {c.peers[i]} /\ [c.peers EXCEPT ![i] = x] \in Seq(Peer(ids))
                 /\ Entries([c.peers EXCEPT ![i] = x]) = (Entries(c.peers) \ {c.peers[i]}) \cup {x}
      BY RewritePeer
    <2>5. /\ c.peers[i] \in Peer(ids) /\ c.peers[i].offers \in Seq(Offer)
          /\ NoRepeat(c.peers[i].offers, OfferKey)
      BY OffersTyped
    <2>6. l \in Seq(Offer)
      BY <2>5
    <2>7. e \in Peer(ids)
      BY <2>3, <2>5, <2>6 DEF Peer
    <2>8. [c EXCEPT !.peers[i].offers = l] = [c EXCEPT !.peers = [c.peers EXCEPT ![i] = e]]
      BY <1>1, <2>3 DEF ConfigType
    <2>9. [c EXCEPT !.peers[i].offers = l] \in ConfigType(ids)
      BY <1>1, <2>4, <2>7, <2>8 DEF ConfigType
    <2>10. d = [c EXCEPT !.peers[i].offers = l] /\ d \in ValidConfigs(ids)
      BY <2>2, <2>9, AcceptedIsValid DEF WithOwn
    <2>11. d.shared = c.shared /\ d.peers = [c.peers EXCEPT ![i] = e]
      BY <1>1, <2>8, <2>10 DEF ConfigType
    <2>12. OffersRevised(ids, c, d, scope, c.peers[i].offers, l)
      BY <1>3, <2>3, <2>4, <2>5, <2>7, <2>11 DEF OffersRevised
    <2> QED
      BY <2>2, <2>5, <2>10, <2>12
  <1> QED
    BY <1>2, <1>3

LEMMA AddOfferDoes ==
  ASSUME NEW ids, NEW c \in ValidConfigs(ids), NEW scope, NEW key \in Proto \X Port,
         NEW d \in AddOffer(c, scope, key)
  PROVE  /\ d \in ValidConfigs(ids)
         /\ \E old \in Seq(Offer), new \in Seq(Offer) :
               /\ OffersRevised(ids, c, d, scope, old, new)
               /\ Entries(new) = Entries(old) \cup {NewOffer(key)}
  <1> DEFINE edit == [l \in Seq(Offer) |-> Added(l, NewOffer(key), OfferKey)]
  <1>1. edit \in [Seq(Offer) -> SUBSET Seq(Offer)]
    BY AddedOffer
  <1>2. /\ edit[c.shared] = Added(c.shared, NewOffer(key), OfferKey)
        /\ \A i \in PeerAt(c, scope) :
              edit[c.peers[i].offers] = Added(c.peers[i].offers, NewOffer(key), OfferKey)
    BY OffersTyped
  <1>3. ASSUME NEW old \in Seq(Offer), NEW new \in edit[old]
        PROVE  /\ new \in Seq(Offer)
               /\ Entries(new) = Entries(old) \cup {NewOffer(key)}
    BY AddedOffer
  <1> HIDE DEF edit
  <1>4. d \in Edited(c, scope, edit)
    BY <1>2 DEF AddOffer, EditOffers, Edited, WithShared, WithOwn
  <1>5. /\ d \in ValidConfigs(ids)
        /\ \E old \in Seq(Offer) : \E new \in edit[old] :
              NoRepeat(old, OfferKey) /\ OffersRevised(ids, c, d, scope, old, new)
    BY <1>1, <1>4, EditedDoes
  <1> QED
    BY <1>3, <1>5

LEMMA PatchOfferDoes ==
  ASSUME NEW ids, NEW c \in ValidConfigs(ids), NEW scope, NEW key, NEW on \in BOOLEAN,
         NEW d \in PatchOffer(c, scope, key, on)
  PROVE  /\ d \in ValidConfigs(ids)
         /\ \E old \in Seq(Offer), new \in Seq(Offer) :
               /\ OffersRevised(ids, c, d, scope, old, new)
               /\ NoRepeat(old, OfferKey) /\ SwitchesOne(old, new, key, on)
  <1> DEFINE edit == [l \in Seq(Offer) |-> SwitchedLists(l, key, on)]
  <1>1. edit \in [Seq(Offer) -> SUBSET Seq(Offer)]
    BY PatchedOffer
  <1>2. /\ edit[c.shared] = SwitchedLists(c.shared, key, on)
        /\ \A i \in PeerAt(c, scope) :
              edit[c.peers[i].offers] = SwitchedLists(c.peers[i].offers, key, on)
    BY OffersTyped
  <1>3. ASSUME NEW old \in Seq(Offer), NEW new \in edit[old], NoRepeat(old, OfferKey)
        PROVE  /\ new \in Seq(Offer)
               /\ SwitchesOne(old, new, key, on)
    <2>1. new \in SwitchedLists(old, key, on)
      OBVIOUS
    <2> QED
      BY <1>3, <2>1, PatchedOffer
  <1> HIDE DEF edit
  <1>4. d \in Edited(c, scope, edit)
    <2>1. CASE scope = SharedScope
      <3>1. d \in UNION {WithShared(c, l) : l \in SwitchedLists(c.shared, key, on)}
        BY <2>1 DEF PatchOffer, EditOffers, WithShared, Patched, SwitchedLists, Switched
      <3> QED
        BY <1>2, <2>1, <3>1 DEF Edited
    <2>2. CASE scope # SharedScope
      <3>1. d \in UNION {UNION {WithOwn(c, i, l) : l \in SwitchedLists(c.peers[i].offers, key, on)} :
                        i \in PeerAt(c, scope)}
        BY <2>2 DEF PatchOffer, EditOffers, WithOwn, Patched, SwitchedLists, Switched
      <3> QED
        BY <1>2, <2>2, <3>1 DEF Edited
    <2> QED
      BY <2>1, <2>2
  <1>5. /\ d \in ValidConfigs(ids)
        /\ \E old \in Seq(Offer) : \E new \in edit[old] :
              NoRepeat(old, OfferKey) /\ OffersRevised(ids, c, d, scope, old, new)
    BY <1>1, <1>4, EditedDoes
  <1> QED
    BY <1>3, <1>5

LEMMA DelOfferDoes ==
  ASSUME NEW ids, NEW c \in ValidConfigs(ids), NEW scope, NEW key,
         NEW d \in DelOffer(c, scope, key)
  PROVE  /\ d \in ValidConfigs(ids)
         /\ \E old \in Seq(Offer), new \in Seq(Offer) :
               /\ OffersRevised(ids, c, d, scope, old, new)
               /\ Entries(new) = {o \in Entries(old) : OfferKey(o) # key}
  <1> DEFINE edit == [l \in Seq(Offer) |-> Deleted(l, key, OfferKey)]
  <1>1. edit \in [Seq(Offer) -> SUBSET Seq(Offer)]
    BY DeletedOffer
  <1>2. /\ edit[c.shared] = Deleted(c.shared, key, OfferKey)
        /\ \A i \in PeerAt(c, scope) :
              edit[c.peers[i].offers] = Deleted(c.peers[i].offers, key, OfferKey)
    BY OffersTyped
  <1>3. ASSUME NEW old \in Seq(Offer), NEW new \in edit[old]
        PROVE  /\ new \in Seq(Offer)
               /\ Entries(new) = {o \in Entries(old) : OfferKey(o) # key}
    BY DeletedOffer
  <1> HIDE DEF edit
  <1>4. d \in Edited(c, scope, edit)
    BY <1>2 DEF DelOffer, EditOffers, Edited, WithShared, WithOwn
  <1>5. /\ d \in ValidConfigs(ids)
        /\ \E old \in Seq(Offer) : \E new \in edit[old] :
              NoRepeat(old, OfferKey) /\ OffersRevised(ids, c, d, scope, old, new)
    BY <1>1, <1>4, EditedDoes
  <1> QED
    BY <1>3, <1>5

(***************************************************************************)
(* What the edits do to the grants                                         *)
(***************************************************************************)
LEMMA RewrittenNames ==
  ASSUME NEW ids, NEW c \in ValidConfigs(ids), NEW d \in ValidConfigs(ids), NEW id,
         NEW p \in Peer(ids), NEW e \in Peer(ids), e.id = p.id, Named(c, id) = {p},
         Entries(d.peers) = (Entries(c.peers) \ {p}) \cup {e}
  PROVE  Named(d, id) = {e} /\ \A other : other # id => Named(d, other) = Named(c, other)
  BY DEF Named

LEMMA RevisedNames ==
  ASSUME NEW ids, NEW c \in ValidConfigs(ids), NEW d \in ValidConfigs(ids), NEW scope,
         NEW old, NEW new \in Seq(Offer), scope # SharedScope,
         OffersRevised(ids, c, d, scope, old, new)
  PROVE  /\ d.shared = c.shared /\ \A other : other # scope => Named(d, other) = Named(c, other)
         /\ \E p, e \in Peer(ids) :
               /\ Named(c, scope) = {p} /\ p.offers = old
               /\ Named(d, scope) = {e} /\ e.offers = new /\ e.enabled = p.enabled
  <1>1. PICK p \in Peer(ids) :
           /\ Named(c, scope) = {p} /\ old = p.offers
           /\ Entries(d.peers) = (Entries(c.peers) \ {p}) \cup {[p EXCEPT !.offers = new]}
    BY DEF OffersRevised
  <1>2. PICK e : e = [p EXCEPT !.offers = new]
    OBVIOUS
  <1>3. e \in Peer(ids) /\ e.id = p.id /\ e.offers = new /\ e.enabled = p.enabled
    BY <1>2 DEF Peer
  <1>4. Entries(d.peers) = (Entries(c.peers) \ {p}) \cup {e}
    BY <1>1, <1>2
  <1>5. Named(d, scope) = {e} /\ \A other : other # scope => Named(d, other) = Named(c, other)
    BY <1>1, <1>3, <1>4, RewrittenNames
  <1> QED
    BY <1>1, <1>3, <1>5 DEF OffersRevised

PeerSwitched(ids, c, d, id, on) ==
    /\ d \in ValidConfigs(ids) /\ d.shared = c.shared
    /\ \A other : other # id => Named(d, other) = Named(c, other)
    /\ \E p, e \in Peer(ids) :
          /\ Named(c, id) = {p} /\ Named(d, id) = {e}
          /\ e.enabled = on /\ e.offers = p.offers

LEMMA PatchedNames ==
  ASSUME NEW ids, NEW c \in ValidConfigs(ids), NEW id, NEW on \in BOOLEAN,
         NEW d \in PatchPeer(c, id, on)
  PROVE  PeerSwitched(ids, c, d, id, on)
  <1>1. d \in ValidConfigs(ids) /\ d.shared = c.shared
    BY PatchPeerDoes
  <1>2. PICK p \in Peer(ids) :
           /\ Named(c, id) = {p}
           /\ Entries(d.peers) = (Entries(c.peers) \ {p}) \cup {[p EXCEPT !.enabled = on]}
    BY PatchPeerDoes
  <1>3. PICK e : e = [p EXCEPT !.enabled = on]
    OBVIOUS
  <1>4. e \in Peer(ids) /\ e.id = p.id /\ e.offers = p.offers /\ e.enabled = on
    BY <1>3 DEF Peer
  <1>5. Entries(d.peers) = (Entries(c.peers) \ {p}) \cup {e}
    BY <1>2, <1>3
  <1>6. Named(d, id) = {e} /\ \A other : other # id => Named(d, other) = Named(c, other)
    BY <1>1, <1>2, <1>4, <1>5, RewrittenNames
  <1> QED
    BY <1>1, <1>2, <1>4, <1>6 DEF PeerSwitched

(* The edits that name one peer. *)
PeerEdits(c, id, keys) ==
    UNION ({AddPeer(c, id), DelPeer(c, id)}
           \cup {PatchPeer(c, id, on) : on \in BOOLEAN}
           \cup {AddOffer(c, id, k) \cup DelOffer(c, id, k) : k \in keys}
           \cup {PatchOffer(c, id, k, on) : k \in keys, on \in BOOLEAN})

(* admin.rs, Config::granted: an edit that names one peer changes what no
   other peer may reach, wherever their entries stand in the list. *)
THEOREM EditsTouchOnePeer ==
  ASSUME NEW ids, NEW c \in ValidConfigs(ids), NEW id \in ids, id # SharedScope,
         NEW keys \in SUBSET (Proto \X Port), NEW d \in PeerEdits(c, id, keys),
         NEW other, other # id
  PROVE  \A proto : Granted(d, other, proto) = Granted(c, other, proto)
  <1> DEFINE Same == d \in ValidConfigs(ids) /\ d.shared = c.shared /\ Named(d, other) = Named(c, other)
  <1>1. CASE d \in AddPeer(c, id)
    <2>1. NewPeer(id).id = id
      BY DEF NewPeer
    <2>2. Same
      BY <1>1, <2>1, AddPeerDoes DEF Named
    <2> QED
      BY <2>2, SameGrants
  <1>2. CASE d \in DelPeer(c, id)
    <2>1. Same
      BY <1>2, DelPeerDoes DEF Named
    <2> QED
      BY <2>1, SameGrants
  <1>3. ASSUME NEW on \in BOOLEAN, d \in PatchPeer(c, id, on)
        PROVE  \A proto : Granted(d, other, proto) = Granted(c, other, proto)
    <2>1. Same
      BY <1>3, PatchedNames DEF PeerSwitched
    <2> QED
      BY <2>1, SameGrants
  <1>4. ASSUME NEW old \in Seq(Offer), NEW new \in Seq(Offer), d \in ValidConfigs(ids),
               OffersRevised(ids, c, d, id, old, new)
        PROVE  \A proto : Granted(d, other, proto) = Granted(c, other, proto)
    <2>1. Same
      BY <1>4, RevisedNames
    <2> QED
      BY <2>1, SameGrants
  <1>5. ASSUME NEW k \in keys, d \in AddOffer(c, id, k)
        PROVE  \A proto : Granted(d, other, proto) = Granted(c, other, proto)
    BY <1>4, <1>5, AddOfferDoes
  <1>6. ASSUME NEW k \in keys, d \in DelOffer(c, id, k)
        PROVE  \A proto : Granted(d, other, proto) = Granted(c, other, proto)
    BY <1>4, <1>6, DelOfferDoes
  <1>7. ASSUME NEW k \in keys, NEW on \in BOOLEAN, d \in PatchOffer(c, id, k, on)
        PROVE  \A proto : Granted(d, other, proto) = Granted(c, other, proto)
    BY <1>4, <1>7, PatchOfferDoes
  <1> QED
    BY <1>1, <1>2, <1>3, <1>5, <1>6, <1>7 DEF PeerEdits

(* admin.rs: an entry that is deleted or parked reaches nothing. *)
THEOREM ParkingRevokes ==
  ASSUME NEW ids, NEW c \in ValidConfigs(ids), NEW id,
         NEW d \in DelPeer(c, id) \cup PatchPeer(c, id, FALSE)
  PROVE  \A proto : Granted(d, id, proto) = {}
  <1> TAKE proto
  <1>1. CASE d \in DelPeer(c, id)
    <2>1. d \in ValidConfigs(ids) /\ Named(d, id) = {}
      BY <1>1, DelPeerDoes DEF Named
    <2>2. \A port : port \notin Granted(d, id, proto)
      BY <2>1, GrantedMeans
    <2> QED
      BY <2>2
  <1>2. CASE d \in PatchPeer(c, id, FALSE)
    <2>1. PICK off \in BOOLEAN : off = FALSE
      OBVIOUS
    <2>2. PeerSwitched(ids, c, d, id, off)
      BY <1>2, <2>1, PatchedNames
    <2>3. d \in ValidConfigs(ids) /\ \A e \in Named(d, id) : ~e.enabled
      BY <2>1, <2>2 DEF PeerSwitched
    <2>4. \A port : port \notin Granted(d, id, proto)
      BY <2>3, GrantedMeans DEF Grants
    <2> QED
      BY <2>4
  <1> QED
    BY <1>1, <1>2

(* admin.rs: parking an entry loses nothing (config.rs, Offer: "how the UI
   parks a grant without losing its name"); once it is enabled again, it grants what it
   granted before. *)
THEOREM ParkingLosesNothing ==
  ASSUME NEW ids, NEW c \in ValidConfigs(ids), NEW id, Admits(c, id),
         NEW parked \in PatchPeer(c, id, FALSE), NEW d \in PatchPeer(parked, id, TRUE)
  PROVE  \A other, proto : Granted(d, other, proto) = Granted(c, other, proto)
  <1>1. PICK off, on \in BOOLEAN : off = FALSE /\ on = TRUE
    OBVIOUS
  <1>2. PeerSwitched(ids, c, parked, id, off)
    BY <1>1, PatchedNames
  <1>3. parked \in ValidConfigs(ids) /\ PeerSwitched(ids, parked, d, id, on)
    <2>1. parked \in ValidConfigs(ids)
      BY <1>2 DEF PeerSwitched
    <2> QED
      BY <1>1, <2>1, PatchedNames
  <1>4. /\ d \in ValidConfigs(ids) /\ d.shared = c.shared
        /\ \A other : other # id => Named(d, other) = Named(c, other)
    BY <1>2, <1>3 DEF PeerSwitched
  <1>5. PICK p, f \in Peer(ids) :
           /\ Named(c, id) = {p} /\ Named(d, id) = {f}
           /\ f.offers = p.offers /\ f.enabled = TRUE
    BY <1>1, <1>2, <1>3 DEF PeerSwitched
  <1>6. p.enabled = TRUE
    <2>1. PICK i \in PeerAt(c, id) : c.peers[i].enabled
      BY DEF Admits
    <2>2. c.peers[i] = p
      BY <1>5, FirstIsOnly
    <2> QED
      BY <2>1, <2>2 DEF Peer
  <1> TAKE other, proto
  <1>7. CASE other # id
    BY <1>4, <1>7, SameGrants
  <1>8. CASE other = id
    <2>1. \A port : Grants(d.shared, f, proto, port) <=> Grants(c.shared, p, proto, port)
      BY <1>4, <1>5, <1>6 DEF Grants
    <2>2. \A port : port \in Granted(d, id, proto) <=> Grants(d.shared, f, proto, port)
      BY <1>4, <1>5, GrantedMeans
    <2>3. \A port : port \in Granted(c, id, proto) <=> Grants(c.shared, p, proto, port)
      BY <1>5, GrantedMeans
    <2>4. \A port : port \in Granted(d, id, proto) <=> port \in Granted(c, id, proto)
      BY <2>1, <2>2, <2>3
    <2>5. Granted(d, id, proto) = Granted(c, id, proto)
      BY <2>4, Zenon
    <2> QED
      BY <1>8, <2>5
  <1> QED
    BY <1>7, <1>8

(* After one entry of a list was withdrawn: what is left of it. *)
Withdraws(old, new, key) ==
    /\ \A o \in Entries(new) : o.enabled => o \in Entries(old) /\ OfferKey(o) # key
    /\ \A o \in Entries(old) : o.enabled /\ OfferKey(o) # key => o \in Entries(new)

LEMMA WithdrawnOffer ==
  ASSUME NEW ids, NEW c \in ValidConfigs(ids), NEW scope, NEW key,
         NEW d \in DelOffer(c, scope, key) \cup PatchOffer(c, scope, key, FALSE)
  PROVE  /\ d \in ValidConfigs(ids)
         /\ \E old \in Seq(Offer), new \in Seq(Offer) :
               OffersRevised(ids, c, d, scope, old, new) /\ Withdraws(old, new, key)
  <1>1. ASSUME NEW old \in Seq(Offer), NEW new \in Seq(Offer), NoRepeat(old, OfferKey),
               SwitchesOne(old, new, key, FALSE)
        PROVE  Withdraws(old, new, key)
    <2>1. PICK o \in Entries(old) :
             /\ OfferKey(o) = key
             /\ Entries(new) = (Entries(old) \ {o}) \cup {Switched(o, FALSE)}
      BY <1>1 DEF SwitchesOne
    <2>2. \A x \in Entries(old) : OfferKey(x) = OfferKey(o) => x = o
      BY <1>1 DEF NoRepeat, Entries
    <2>3. o \in Offer
      BY DEF Entries
    <2>4. Switched(o, FALSE).enabled = FALSE
      BY <2>3 DEF Switched, Offer
    <2> QED
      BY <2>1, <2>2, <2>4 DEF Withdraws
  <1>2. CASE d \in DelOffer(c, scope, key)
    <2>1. d \in ValidConfigs(ids)
      BY <1>2, DelOfferDoes
    <2>2. PICK old, new \in Seq(Offer) : /\ OffersRevised(ids, c, d, scope, old, new)
                                         /\ Entries(new) = {o \in Entries(old) : OfferKey(o) # key}
      BY <1>2, DelOfferDoes
    <2>3. Withdraws(old, new, key)
      BY <2>2 DEF Withdraws
    <2> QED
      BY <2>1, <2>2, <2>3
  <1>3. CASE d \in PatchOffer(c, scope, key, FALSE)
    BY <1>1, <1>3, PatchOfferDoes
  <1> QED
    BY <1>2, <1>3

(* "Kept separate from per-peer offers so revoking one peer's extra grant cannot
   silently revoke the common ones" (ServeConfig::shared): when an offer of one
   peer is deleted or parked, that port is still granted if and only if the
   shared list grants it, and every other port is granted as before. *)
THEOREM OwnRevocationKeepsShared ==
  ASSUME NEW ids, NEW c \in ValidConfigs(ids), NEW id, id # SharedScope, NEW key,
         NEW d \in DelOffer(c, id, key) \cup PatchOffer(c, id, key, FALSE)
  PROVE  \A proto, port :
           port \in Granted(d, id, proto) <=>
             /\ port \in Granted(c, id, proto)
             /\ <<proto, port>> = key => \E o \in Entries(c.shared) : o.enabled /\ OfferKey(o) = key
  <1>1. d \in ValidConfigs(ids)
    BY WithdrawnOffer
  <1>2. PICK old, new \in Seq(Offer) :
           OffersRevised(ids, c, d, id, old, new) /\ Withdraws(old, new, key)
    BY WithdrawnOffer
  <1>3. PICK p, e \in Peer(ids) :
           /\ Named(c, id) = {p} /\ p.offers = old /\ Named(d, id) = {e} /\ e.offers = new
           /\ e.enabled = p.enabled /\ d.shared = c.shared
    BY <1>1, <1>2, RevisedNames
  <1> TAKE proto, port
  <1> DEFINE By(list) == \E o \in Entries(list) : o.enabled /\ o.proto = proto /\ o.port = port
  <1>4. Grants(c.shared, p, proto, port) <=> p.enabled /\ (By(c.shared) \/ By(old))
    BY <1>3 DEF Grants
  <1>5. Grants(c.shared, e, proto, port) <=> p.enabled /\ (By(c.shared) \/ By(new))
    BY <1>3 DEF Grants
  <1>6. \A o : o.proto = proto /\ o.port = port => OfferKey(o) = <<proto, port>>
    BY DEF OfferKey
  <1>7. \A o : OfferKey(o) = <<proto, port>> => o.proto = proto /\ o.port = port
    BY DEF OfferKey
  <1>8. By(new) <=> By(old) /\ <<proto, port>> # key
    BY <1>2, <1>6, <1>7 DEF Withdraws
  <1>9. (\E o \in Entries(c.shared) : o.enabled /\ OfferKey(o) = <<proto, port>>) <=> By(c.shared)
    BY <1>6, <1>7
  <1> HIDE DEF By
  <1>10. port \in Granted(c, id, proto) <=> Grants(c.shared, p, proto, port)
    <2>1. port \in Granted(c, id, proto) <=> \E q \in Named(c, id) : Grants(c.shared, q, proto, port)
      BY GrantedMeans
    <2> QED
      BY <1>3, <2>1
  <1>11. port \in Granted(d, id, proto) <=> Grants(c.shared, e, proto, port)
    <2>1. port \in Granted(d, id, proto) <=> \E q \in Named(d, id) : Grants(d.shared, q, proto, port)
      BY <1>1, GrantedMeans
    <2> QED
      BY <1>3, <2>1
  <1>12. CASE <<proto, port>> # key
    BY <1>4, <1>5, <1>8, <1>10, <1>11, <1>12
  <1>13. CASE <<proto, port>> = key
    <2>1. port \in Granted(d, id, proto) <=> p.enabled /\ By(c.shared)
      BY <1>5, <1>8, <1>11, <1>13
    <2>2. (\E o \in Entries(c.shared) : o.enabled /\ OfferKey(o) = key) <=> By(c.shared)
      BY <1>9, <1>13
    <2> QED
      BY <1>4, <1>10, <1>13, <2>1, <2>2
  <1> QED
    BY <1>12, <1>13

(* The edits that take something away. *)
PeerWithdrawn(c, id) == DelPeer(c, id) \cup PatchPeer(c, id, FALSE)
OfferWithdrawn(c, scope, key) == DelOffer(c, scope, key) \cup PatchOffer(c, scope, key, FALSE)

Withdrawals(c, ids, scopes, keys) ==
    UNION ({PeerWithdrawn(c, id) : id \in ids}
           \cup {OfferWithdrawn(c, s, k) : s \in scopes, k \in keys})

(* admin.rs: to delete or to park an entry or an offer, of a peer or shared,
   grants nothing to anyone. *)
THEOREM WithdrawingNeverGrants ==
  ASSUME NEW ids, NEW c \in ValidConfigs(ids), NEW names, NEW scopes, NEW keys,
         NEW d \in Withdrawals(c, names, scopes, keys)
  PROVE  \A id, proto : Granted(d, id, proto) \subseteq Granted(c, id, proto)
  <1> TAKE id, proto
  <1> SUFFICES ASSUME NEW port, port \in Granted(d, id, proto)
               PROVE  port \in Granted(c, id, proto)
    OBVIOUS
  <1>1. ASSUME NEW n \in names, d \in DelPeer(c, n) PROVE port \in Granted(c, id, proto)
    <2>1. d \in ValidConfigs(ids) /\ d.shared = c.shared /\ Named(d, id) \subseteq Named(c, id)
      BY <1>1, DelPeerDoes DEF Named
    <2> QED
      BY <2>1, GrantedMeans
  <1>2. ASSUME NEW n \in names, d \in PatchPeer(c, n, FALSE) PROVE port \in Granted(c, id, proto)
    <2>1. PICK off \in BOOLEAN : off = FALSE
      OBVIOUS
    <2>2. PeerSwitched(ids, c, d, n, off)
      BY <1>2, <2>1, PatchedNames
    <2>3. CASE id = n
      BY <1>2, <2>3, ParkingRevokes
    <2>4. CASE id # n
      BY <2>2, <2>4, SameGrants DEF PeerSwitched
    <2> QED
      BY <2>3, <2>4
  <1>3. ASSUME NEW s \in scopes, NEW k \in keys, d \in OfferWithdrawn(c, s, k)
        PROVE  port \in Granted(c, id, proto)
    <2> USE <1>3 DEF OfferWithdrawn
    <2>1. d \in ValidConfigs(ids)
      BY <1>3, WithdrawnOffer
    <2>2. PICK old, new \in Seq(Offer) :
             OffersRevised(ids, c, d, s, old, new) /\ Withdraws(old, new, k)
      BY <1>3, WithdrawnOffer
    <2>3. CASE s = SharedScope
      <3>1. old = c.shared /\ new = d.shared /\ Named(d, id) = Named(c, id)
        BY <2>2, <2>3 DEF OffersRevised, Named
      <3>2. \A p : Grants(new, p, proto, port) => Grants(old, p, proto, port)
        BY <2>2 DEF Grants, Withdraws
      <3> QED
        BY <2>1, <3>1, <3>2, GrantedMeans
    <2>4. CASE s # SharedScope /\ id = s
      BY <1>3, <2>4, OwnRevocationKeepsShared
    <2>5. CASE s # SharedScope /\ id # s
      BY <2>1, <2>2, <2>5, RevisedNames, SameGrants
    <2> QED
      BY <2>3, <2>4, <2>5
  <1>4. \/ \E n \in names : d \in PeerWithdrawn(c, n)
        \/ \E s \in scopes, k \in keys : d \in OfferWithdrawn(c, s, k)
    BY DEF Withdrawals
  <1>5. ASSUME NEW n \in names, d \in PeerWithdrawn(c, n) PROVE port \in Granted(c, id, proto)
    BY <1>1, <1>2, <1>5 DEF PeerWithdrawn
  <1> QED
    BY <1>3, <1>4, <1>5

(***************************************************************************)
(* What the command-line flags do                                          *)
(***************************************************************************)
Unique(list, key) == \A i, j \in DOMAIN list : key[list[i]] = key[list[j]] => i = j

(* The positions of `new` that AppendMissing appends. *)
MissingAt(list, new, key) ==
    {i \in DOMAIN new : /\ \A x \in Entries(list) : key[x] # key[new[i]]
                        /\ \A j \in 1..(i-1) : key[new[j]] # key[new[i]]}

LEMMA UniqueConcat ==
  ASSUME NEW E, NEW s \in Seq(E), NEW t \in Seq(E), NEW key, Unique(s, key), Unique(t, key),
         \A x \in Entries(s), y \in Entries(t) : key[x] # key[y]
  PROVE  Unique(s \o t, key)
  <1>1. /\ DOMAIN (s \o t) = 1..(Len(s) + Len(t)) /\ Len(s) \in Nat /\ Len(t) \in Nat
        /\ DOMAIN s = 1..Len(s) /\ DOMAIN t = 1..Len(t)
    OBVIOUS
  <1>2. \A i \in 1..(Len(s) + Len(t)) :
           (s \o t)[i] = IF i <= Len(s) THEN s[i] ELSE t[i - Len(s)]
    OBVIOUS
  <1> SUFFICES ASSUME NEW i \in 1..(Len(s) + Len(t)), NEW j \in 1..(Len(s) + Len(t)),
                      key[(s \o t)[i]] = key[(s \o t)[j]]
               PROVE  i = j
    BY <1>1 DEF Unique
  <1>3. \A k \in 1..(Len(s) + Len(t)) :
           \/ k <= Len(s) /\ k \in DOMAIN s /\ (s \o t)[k] = s[k] /\ s[k] \in Entries(s)
           \/ /\ ~(k <= Len(s)) /\ k - Len(s) \in DOMAIN t
              /\ (s \o t)[k] = t[k - Len(s)] /\ t[k - Len(s)] \in Entries(t)
    <2> TAKE k \in 1..(Len(s) + Len(t))
    <2>1. CASE k <= Len(s)
      <3>1. k \in DOMAIN s /\ (s \o t)[k] = s[k]
        BY <1>1, <1>2, <2>1
      <3> QED
        BY <2>1, <3>1 DEF Entries
    <2>2. CASE ~(k <= Len(s))
      <3>1. k - Len(s) \in DOMAIN t /\ (s \o t)[k] = t[k - Len(s)]
        BY <1>1, <1>2, <2>2
      <3> QED
        BY <2>2, <3>1 DEF Entries
    <2> QED
      BY <2>1, <2>2
  <1>4. CASE i <= Len(s) /\ j <= Len(s)
    BY <1>3, <1>4 DEF Unique
  <1>5. CASE i <= Len(s) /\ ~(j <= Len(s))
    BY <1>3, <1>5
  <1>6. CASE ~(i <= Len(s)) /\ j <= Len(s)
    BY <1>3, <1>6
  <1>7. CASE ~(i <= Len(s)) /\ ~(j <= Len(s))
    <2>1. i - Len(s) = j - Len(s)
      BY <1>3, <1>7 DEF Unique
    <2> QED
      BY <1>1, <2>1
  <1> QED
    BY <1>4, <1>5, <1>6, <1>7

(* What is appended are entries of `new`, under keys that were free, one for
   each that `new` names. *)
Appends(all, list, new, key) ==
    \E added \in SUBSET Entries(new) :
       /\ Entries(all) = Entries(list) \cup added
       /\ \A x \in Entries(list), y \in added : key[x] # key[y]
       /\ \A y \in Entries(new) : \E x \in Entries(list) \cup added : key[x] = key[y]

LEMMA MissingAppended ==
  ASSUME NEW E, NEW list \in Seq(E), NEW new \in Seq(E), NEW key
  PROVE  LET all == list \o Pick(new, MissingAt(list, new, key))
         IN  /\ all \in Seq(E) /\ Appends(all, list, new, key)
             /\ Unique(list, key) => Unique(all, key)
  <1> DEFINE at == MissingAt(list, new, key)
             added == {new[i] : i \in at}
             picked == Pick(new, at)
  <1>1. at \cap DOMAIN new = at /\ DOMAIN new = 1..Len(new) /\ Len(new) \in Nat
    BY DEF MissingAt
  <1>2. picked \in Seq(E) /\ PickOf(picked, new, at)
    BY <1>1, PickFacts
  <1>3. /\ \A i \in at : i \in 1..Len(new) /\ \A x \in Entries(list) : key[x] # key[new[i]]
        /\ \A i \in at : \A j \in 1..(i-1) : key[new[j]] # key[new[i]]
    BY <1>1 DEF MissingAt
  <1> HIDE DEF at, picked
  <1>4. list \o picked \in Seq(E) /\ Entries(list \o picked) = Entries(list) \cup added
    BY <1>2, ConcatEntries DEF PickOf
  <1>5. added \subseteq Entries(new)
    BY <1>1, <1>3 DEF Entries
  <1>6. \A x \in Entries(list), y \in added : key[x] # key[y]
    BY <1>3
  <1>7. Unique(picked, key)
    <2>1. ASSUME NEW k \in DOMAIN picked, NEW l \in DOMAIN picked, k < l
          PROVE  key[picked[k]] # key[picked[l]]
      <3>1. PICK a, b \in at : a < b /\ picked[k] = new[a] /\ picked[l] = new[b]
        BY <1>2, <2>1 DEF PickOf
      <3>2. a \in 1..(b-1)
        BY <1>1, <1>3, <3>1
      <3> QED
        BY <1>3, <3>1, <3>2
    <2>2. \A k \in DOMAIN picked : k \in Nat
      BY <1>2
    <2>3. \A k, l \in Nat : k < l \/ l < k \/ k = l
      OBVIOUS
    <2> QED
      BY <2>1, <2>2, <2>3 DEF Unique
  <1>8. Unique(list, key) => Unique(list \o picked, key)
    BY <1>2, <1>6, <1>7, UniqueConcat DEF PickOf
  <1>9. ASSUME NEW y \in Entries(new), \A x \in Entries(list) : key[x] # key[y]
        PROVE  \E x \in added : key[x] = key[y]
    <2> DEFINE same == {i \in DOMAIN new : key[new[i]] = key[y]}
    <2>1. same \subseteq Nat /\ same # {}
      BY <1>1 DEF Entries
    <2>2. PICK m \in same : \A k \in same : m <= k
      BY <2>1, LeastNumber
    <2>3. \A j \in 1..(m-1) : j \in DOMAIN new /\ j < m
      BY <1>1, <2>2
    <2>4. \A j \in 1..(m-1) : key[new[j]] # key[new[m]]
      BY <1>1, <2>2, <2>3
    <2>5. m \in at
      BY <1>9, <2>2, <2>4 DEF at, MissingAt
    <2> QED
      BY <2>2, <2>5
  <1>10. \A y \in Entries(new) : \E x \in Entries(list) \cup added : key[x] = key[y]
    <2> TAKE y \in Entries(new)
    <2>1. CASE \A x \in Entries(list) : key[x] # key[y]
      BY <1>9, <2>1
    <2>2. CASE \E x \in Entries(list) : key[x] = key[y]
      BY <2>2
    <2> QED
      BY <2>1, <2>2
  <1> HIDE DEF added
  <1>11. Appends(list \o picked, list, new, key)
    BY <1>4, <1>5, <1>6, <1>10 DEF Appends
  <1> QED
    BY <1>4, <1>8, <1>11 DEF at, picked

OfferKeys == [o \in Offer |-> OfferKey(o)]
PeerKeys(ids) == [p \in Peer(ids) |-> PeerKey(p)]
BindingKeys == [b \in Binding |-> BindingKey(b)]

LEMMA OffersAppended ==
  ASSUME NEW list \in Seq(Offer), NEW new \in Seq(Offer)
  PROVE  LET all == AppendMissing(list, new, OfferKey)
         IN  /\ all \in Seq(Offer) /\ Appends(all, list, new, OfferKeys)
             /\ NoRepeat(list, OfferKey) => NoRepeat(all, OfferKey)
  <1> DEFINE all == AppendMissing(list, new, OfferKey)
  <1>1. \A l \in Seq(Offer) : \A i \in DOMAIN l : l[i] \in Offer
    OBVIOUS
  <1>2. \A x \in Offer : OfferKeys[x] = OfferKey(x)
    BY DEF OfferKeys
  <1>3. \A l \in Seq(Offer) : NoRepeat(l, OfferKey) <=> Unique(l, OfferKeys)
    BY <1>1, <1>2 DEF NoRepeat, Unique
  <1>4. all = list \o Pick(new, MissingAt(list, new, OfferKeys))
    <2>1. \A i \in DOMAIN new : \A j \in 1..(i-1) : new[j] \in Offer
      OBVIOUS
    <2>2. \A i \in DOMAIN new : OfferKeys[new[i]] = OfferKey(new[i])
      BY <1>1, <1>2
    <2>3. \A x \in Entries(list) : OfferKeys[x] = OfferKey(x)
      BY <1>1, <1>2 DEF Entries
    <2>4. \A i \in DOMAIN new : \A j \in 1..(i-1) : OfferKeys[new[j]] = OfferKey(new[j])
      BY <1>2, <2>1
    <2>5. MissingAt(list, new, OfferKeys) =
            {i \in DOMAIN new : /\ \A x \in Entries(list) : OfferKey(x) # OfferKey(new[i])
                                /\ \A j \in 1..(i-1) : OfferKey(new[j]) # OfferKey(new[i])}
      BY <2>2, <2>3, <2>4 DEF MissingAt
    <2> QED
      BY <2>5 DEF AppendMissing
  <1> HIDE DEF all
  <1>5. all \in Seq(Offer) /\ Appends(all, list, new, OfferKeys)
    BY <1>4, MissingAppended
  <1>6. Unique(list, OfferKeys) => Unique(all, OfferKeys)
    BY <1>4, MissingAppended
  <1> QED
    BY <1>3, <1>5, <1>6 DEF all

LEMMA PeersAppended ==
  ASSUME NEW ids, NEW list \in Seq(Peer(ids)), NEW new \in Seq(Peer(ids))
  PROVE  LET all == AppendMissing(list, new, PeerKey)
         IN  /\ all \in Seq(Peer(ids)) /\ Appends(all, list, new, PeerKeys(ids))
             /\ NoRepeat(list, PeerKey) => NoRepeat(all, PeerKey)
  <1> DEFINE all == AppendMissing(list, new, PeerKey)
  <1>1. \A l \in Seq(Peer(ids)) : \A i \in DOMAIN l : l[i] \in Peer(ids)
    OBVIOUS
  <1>2. \A x \in Peer(ids) : PeerKeys(ids)[x] = PeerKey(x)
    BY DEF PeerKeys
  <1>3. \A l \in Seq(Peer(ids)) : NoRepeat(l, PeerKey) <=> Unique(l, PeerKeys(ids))
    BY <1>1, <1>2 DEF NoRepeat, Unique
  <1>4. all = list \o Pick(new, MissingAt(list, new, PeerKeys(ids)))
    <2>1. \A i \in DOMAIN new : \A j \in 1..(i-1) : new[j] \in Peer(ids)
      OBVIOUS
    <2>2. \A i \in DOMAIN new : PeerKeys(ids)[new[i]] = PeerKey(new[i])
      BY <1>1, <1>2
    <2>3. \A x \in Entries(list) : PeerKeys(ids)[x] = PeerKey(x)
      BY <1>1, <1>2 DEF Entries
    <2>4. \A i \in DOMAIN new : \A j \in 1..(i-1) : PeerKeys(ids)[new[j]] = PeerKey(new[j])
      BY <1>2, <2>1
    <2>5. MissingAt(list, new, PeerKeys(ids)) =
            {i \in DOMAIN new : /\ \A x \in Entries(list) : PeerKey(x) # PeerKey(new[i])
                                /\ \A j \in 1..(i-1) : PeerKey(new[j]) # PeerKey(new[i])}
      BY <2>2, <2>3, <2>4 DEF MissingAt
    <2> QED
      BY <2>5 DEF AppendMissing
  <1> HIDE DEF all
  <1>5. all \in Seq(Peer(ids)) /\ Appends(all, list, new, PeerKeys(ids))
    BY <1>4, MissingAppended
  <1>6. Unique(list, PeerKeys(ids)) => Unique(all, PeerKeys(ids))
    BY <1>4, MissingAppended
  <1> QED
    BY <1>3, <1>5, <1>6 DEF all

LEMMA BindingsAppended ==
  ASSUME NEW list \in Seq(Binding), NEW new \in Seq(Binding)
  PROVE  LET all == AppendMissing(list, new, BindingKey)
         IN  /\ all \in Seq(Binding) /\ Appends(all, list, new, BindingKeys)
             /\ NoRepeat(list, BindingKey) => NoRepeat(all, BindingKey)
  <1> DEFINE all == AppendMissing(list, new, BindingKey)
  <1>1. \A l \in Seq(Binding) : \A i \in DOMAIN l : l[i] \in Binding
    OBVIOUS
  <1>2. \A x \in Binding : BindingKeys[x] = BindingKey(x)
    BY DEF BindingKeys
  <1>3. \A l \in Seq(Binding) : NoRepeat(l, BindingKey) <=> Unique(l, BindingKeys)
    BY <1>1, <1>2 DEF NoRepeat, Unique
  <1>4. all = list \o Pick(new, MissingAt(list, new, BindingKeys))
    <2>1. \A i \in DOMAIN new : \A j \in 1..(i-1) : new[j] \in Binding
      OBVIOUS
    <2>2. \A i \in DOMAIN new : BindingKeys[new[i]] = BindingKey(new[i])
      BY <1>1, <1>2
    <2>3. \A x \in Entries(list) : BindingKeys[x] = BindingKey(x)
      BY <1>1, <1>2 DEF Entries
    <2>4. \A i \in DOMAIN new : \A j \in 1..(i-1) : BindingKeys[new[j]] = BindingKey(new[j])
      BY <1>2, <2>1
    <2>5. MissingAt(list, new, BindingKeys) =
            {i \in DOMAIN new : /\ \A x \in Entries(list) : BindingKey(x) # BindingKey(new[i])
                                /\ \A j \in 1..(i-1) : BindingKey(new[j]) # BindingKey(new[i])}
      BY <2>2, <2>3, <2>4 DEF MissingAt
    <2> QED
      BY <2>5 DEF AppendMissing
  <1> HIDE DEF all
  <1>5. all \in Seq(Binding) /\ Appends(all, list, new, BindingKeys)
    BY <1>4, MissingAppended
  <1>6. Unique(list, BindingKeys) => Unique(all, BindingKeys)
    BY <1>4, MissingAppended
  <1> QED
    BY <1>3, <1>5, <1>6 DEF all

(* What `rtun serve --allow ID --tcp P --udp P` and `rtun connect` can ask for.
   A port of `serve` is any u16; the parser of LOCAL:REMOTE rejects port 0. *)
Usable == Port \ {0}
FlagOffers == {NewOffer(k) : k \in Proto \X Port}
FlagPeers(ids) == {NewPeer(id) : id \in ids}
FlagBindings == {NewBinding(k, r) : k \in Proto \X Usable, r \in Usable}

LEMMA FlagTypes ==
  /\ FlagOffers \subseteq Offer
  /\ \A ids : \A p \in FlagPeers(ids) :
        p \in Peer(ids) /\ p.id \in ids /\ p.enabled = TRUE /\ Entries(p.offers) = {} /\ ValidOffers(p.offers)
  /\ \A b \in FlagBindings : b \in Binding /\ CheckPort(b.local) /\ CheckPort(b.remote)
  <1> Usable \subseteq Port /\ \A port \in Usable : CheckPort(port)
    BY DEF Usable, CheckPort
  <1>1. ASSUME NEW o \in FlagOffers PROVE o \in Offer
    <2>1. PICK k \in Proto \X Port : o = NewOffer(k)
      BY DEF FlagOffers
    <2>2. PICK proto \in Proto, port \in Port : proto = k[1] /\ port = k[2]
      BY <2>1
    <2>3. o = [proto |-> proto, port |-> port, enabled |-> TRUE]
      BY <2>1, <2>2 DEF NewOffer
    <2> QED
      BY <2>3 DEF Offer
  <1>2. <<>> \in Seq(Offer) /\ DOMAIN <<>> = {}
    OBVIOUS
  <1>3. Entries(<<>>) = {} /\ ValidOffers(<<>>)
    BY <1>2 DEF Entries, ValidOffers, NoRepeat
  <1>4. ASSUME NEW ids, NEW p \in FlagPeers(ids)
        PROVE  p \in Peer(ids) /\ p.id \in ids /\ p.enabled = TRUE /\ p.offers = <<>>
    <2>1. PICK id \in ids : p = NewPeer(id)
      BY DEF FlagPeers
    <2>2. p.enabled = TRUE /\ p.id = id /\ p.offers = <<>>
      BY <2>1 DEF NewPeer
    <2>3. p \in Peer(ids)
      BY <1>2, <2>1 DEF NewPeer, Peer
    <2> QED
      BY <2>2, <2>3
  <1>5. ASSUME NEW b \in FlagBindings
        PROVE  b \in Binding /\ CheckPort(b.local) /\ CheckPort(b.remote)
    <2>1. PICK k \in Proto \X Usable, r \in Usable : b = NewBinding(k, r)
      BY DEF FlagBindings
    <2>2. PICK proto \in Proto, local \in Usable : proto = k[1] /\ local = k[2]
      BY <2>1
    <2>3. b = [proto |-> proto, local |-> local, remote |-> r, enabled |-> TRUE]
      BY <2>1, <2>2 DEF NewBinding
    <2>4. b \in Binding
      BY <2>3 DEF Binding
    <2>5. b.local = local /\ b.remote = r
      BY <2>3
    <2> QED
      BY <2>4, <2>5
  <1> QED
    BY <1>1, <1>3, <1>4, <1>5

LEMMA SeedFromFlagsDoes ==
  ASSUME NEW ids, NEW c \in ValidConfigs(ids),
         NEW allow \in Seq(FlagPeers(ids)), NEW offers \in Seq(FlagOffers)
  PROVE  LET s == SeedFromFlags(c, allow, offers)
         IN  /\ s \in DistinctPeers(ids) /\ s.bindings = c.bindings
             /\ Appends(s.shared, c.shared, offers, OfferKeys)
             /\ Appends(s.peers, c.peers, allow, PeerKeys(ids))
             /\ s \in ValidConfigs(ids) <=> \A o \in Entries(offers) : o.port # 0
  <1> DEFINE sh == AppendMissing(c.shared, offers, OfferKey)
             pe == AppendMissing(c.peers, allow, PeerKey)
             s == SeedFromFlags(c, allow, offers)
  <1>1. offers \in Seq(Offer) /\ allow \in Seq(Peer(ids))
    BY FlagTypes
  <1>2. /\ Entries(offers) \subseteq FlagOffers /\ Entries(allow) \subseteq FlagPeers(ids)
    BY DEF Entries
  <1>3. /\ c \in ConfigType(ids) /\ c.shared \in Seq(Offer) /\ c.peers \in Seq(Peer(ids))
        /\ Validate(c)
    BY ConfigShape DEF ValidConfigs
  <1>4. /\ sh \in Seq(Offer) /\ Appends(sh, c.shared, offers, OfferKeys)
        /\ NoRepeat(c.shared, OfferKey) => NoRepeat(sh, OfferKey)
    BY <1>1, <1>3, OffersAppended
  <1>5. /\ pe \in Seq(Peer(ids)) /\ Appends(pe, c.peers, allow, PeerKeys(ids))
        /\ NoRepeat(c.peers, PeerKey) => NoRepeat(pe, PeerKey)
    BY <1>1, <1>3, PeersAppended
  <1>6. s = [c EXCEPT !.shared = sh, !.peers = pe]
    BY DEF SeedFromFlags
  <1> HIDE DEF sh, pe, s
  <1>7. s \in ConfigType(ids) /\ s.shared = sh /\ s.peers = pe /\ s.bindings = c.bindings
    BY <1>3, <1>4, <1>5, <1>6 DEF ConfigType
  <1>8. (\A o \in Entries(sh) : CheckPort(o.port)) <=> \A o \in Entries(offers) : o.port # 0
    <2>1. PICK added \in SUBSET Entries(offers) :
             /\ Entries(sh) = Entries(c.shared) \cup added
             /\ \A y \in Entries(offers) :
                  \E x \in Entries(c.shared) \cup added : OfferKeys[x] = OfferKeys[y]
      BY <1>4 DEF Appends
    <2>2. \A o \in Entries(c.shared) : CheckPort(o.port)
      BY <1>3 DEF Validate, ValidOffers
    <2>3. Entries(sh) \subseteq Offer /\ Entries(offers) \subseteq Offer
      BY <1>2, <1>4, FlagTypes DEF Entries
    <2>4. \A x \in Entries(sh), y \in Entries(offers) : OfferKeys[x] = OfferKeys[y] => x.port = y.port
      BY <2>3 DEF OfferKeys, OfferKey
    <2>5. \A y \in Entries(offers) : \E x \in Entries(sh) : x.port = y.port
      BY <2>1, <2>4
    <2> QED
      BY <2>1, <2>2, <2>5 DEF CheckPort
  <1>9. \A p \in Entries(pe) : ValidOffers(p.offers)
    BY <1>2, <1>3, <1>5, FlagTypes DEF Appends, Validate
  <1>10. Validate(s) <=> \A o \in Entries(offers) : o.port # 0
    BY <1>3, <1>4, <1>5, <1>7, <1>8, <1>9 DEF Validate, ValidOffers
  <1>11. s \in DistinctPeers(ids)
    BY <1>3, <1>5, <1>7 DEF DistinctPeers, Validate
  <1> QED
    BY <1>4, <1>5, <1>7, <1>10, <1>11 DEF ValidConfigs, s

LEMMA SeedBindingsDoes ==
  ASSUME NEW ids, NEW c \in ValidConfigs(ids), NEW bindings \in Seq(FlagBindings)
  PROVE  LET s == SeedBindings(c, bindings)
         IN  /\ s \in ValidConfigs(ids) /\ s.shared = c.shared /\ s.peers = c.peers
             /\ Appends(s.bindings, c.bindings, bindings, BindingKeys)
  <1> DEFINE bs == AppendMissing(c.bindings, bindings, BindingKey)
             s == SeedBindings(c, bindings)
  <1>1. bindings \in Seq(Binding)
    BY FlagTypes
  <1>2. Entries(bindings) \subseteq FlagBindings
    BY DEF Entries
  <1>3. c \in ConfigType(ids) /\ c.bindings \in Seq(Binding) /\ Validate(c)
    BY ConfigShape DEF ValidConfigs
  <1>4. /\ bs \in Seq(Binding) /\ Appends(bs, c.bindings, bindings, BindingKeys)
        /\ NoRepeat(c.bindings, BindingKey) => NoRepeat(bs, BindingKey)
    BY <1>1, <1>3, BindingsAppended
  <1>5. s = [c EXCEPT !.bindings = bs]
    BY DEF SeedBindings
  <1> HIDE DEF bs, s
  <1>6. s \in ConfigType(ids) /\ s.shared = c.shared /\ s.peers = c.peers /\ s.bindings = bs
    BY <1>3, <1>4, <1>5 DEF ConfigType
  <1>7. \A b \in Entries(bs) : CheckPort(b.local) /\ CheckPort(b.remote)
    BY <1>2, <1>3, <1>4, FlagTypes DEF Appends, Validate
  <1>8. Validate(s)
    BY <1>3, <1>4, <1>6, <1>7 DEF Validate, ValidOffers
  <1> QED
    BY <1>4, <1>6, <1>8 DEF ValidConfigs, s

(* Config::seed_from_flags and seed_bindings, main: whatever the flags are, given
   twice, naming what the file already lists or not, they make an invalid
   configuration of a valid one in one case only: `rtun serve` is given port 0,
   which its parser accepts and `save` refuses, so the start ends.  The flags of
   `rtun connect` never do. *)
THEOREM FlagsKeepValid ==
  ASSUME NEW ids, NEW c \in ValidConfigs(ids)
  PROVE  /\ \A allow \in Seq(FlagPeers(ids)), offers \in Seq(FlagOffers) :
               SeedFromFlags(c, allow, offers) \in ValidConfigs(ids)
                  <=> \A o \in Entries(offers) : o.port # 0
         /\ \A bindings \in Seq(FlagBindings) : SeedBindings(c, bindings) \in ValidConfigs(ids)
  BY SeedFromFlagsDoes, SeedBindingsDoes

(* "An existing config is never silently rewritten" by the flags
   (Config::seed_from_flags): they take no grant away; an entry that was parked
   stays parked though --allow names it, and a port that the file lists as
   shared but parked is opened for no listed peer though --tcp names it. *)
THEOREM FlagsUnparkNothing ==
  ASSUME NEW ids, NEW c \in ValidConfigs(ids), NEW id,
         NEW allow \in Seq(FlagPeers(ids)), NEW offers \in Seq(FlagOffers)
  PROVE  LET s == SeedFromFlags(c, allow, offers)
         IN  /\ \A proto : Granted(c, id, proto) \subseteq Granted(s, id, proto)
             /\ Listed(c, id) => (Admits(s, id) <=> Admits(c, id))
             /\ Listed(c, id) =>
                  \A proto : \A port \in Granted(s, id, proto) \ Granted(c, id, proto) :
                     \A o \in Entries(c.shared) : OfferKey(o) # <<proto, port>>
  <1> PICK s : s = SeedFromFlags(c, allow, offers)
    OBVIOUS
  <1>1. s \in DistinctPeers(ids)
    BY SeedFromFlagsDoes
  <1>2. /\ Appends(s.shared, c.shared, offers, OfferKeys)
        /\ Appends(s.peers, c.peers, allow, PeerKeys(ids))
    BY SeedFromFlagsDoes
  <1>3. /\ Entries(offers) \subseteq Offer /\ Entries(allow) \subseteq Peer(ids)
        /\ Entries(c.shared) \subseteq Offer /\ Entries(c.peers) \subseteq Peer(ids)
    <2>1. \A i \in DOMAIN offers : offers[i] \in FlagOffers
      OBVIOUS
    <2>2. \A i \in DOMAIN allow : allow[i] \in FlagPeers(ids)
      OBVIOUS
    <2> QED
      BY <2>1, <2>2, FlagTypes, ConfigShape DEF Entries, ValidConfigs
  <1>4. ASSUME Named(c, id) # {} PROVE Named(s, id) = Named(c, id)
    <2>1. PICK added \in SUBSET Entries(allow) :
             /\ Entries(s.peers) = Entries(c.peers) \cup added
             /\ \A x \in Entries(c.peers), y \in added : PeerKeys(ids)[x] # PeerKeys(ids)[y]
      BY <1>2 DEF Appends
    <2>2. \A x \in Entries(c.peers), y \in added : x.id # y.id
      BY <1>3, <2>1 DEF PeerKeys, PeerKey
    <2> QED
      BY <1>4, <2>1, <2>2 DEF Named
  <1>5. PICK added \in SUBSET Entries(offers) :
           /\ Entries(s.shared) = Entries(c.shared) \cup added
           /\ \A x \in Entries(c.shared), y \in added : OfferKeys[x] # OfferKeys[y]
    BY <1>2 DEF Appends
  <1>6. \A x \in Entries(c.shared), y \in added : OfferKey(x) # OfferKey(y)
    BY <1>3, <1>5 DEF OfferKeys
  <1>7. ASSUME NEW proto, NEW port \in Granted(c, id, proto) PROVE port \in Granted(s, id, proto)
    <2>1. PICK p \in Named(c, id) : Grants(c.shared, p, proto, port)
      BY GrantedMeans
    <2>2. Grants(s.shared, p, proto, port)
      BY <1>5, <2>1 DEF Grants
    <2>3. p \in Named(s, id)
      BY <1>4
    <2> QED
      BY <1>1, <2>2, <2>3, GrantedIn
  <1>8. ASSUME Listed(c, id) PROVE Admits(s, id) <=> Admits(c, id)
    <2>1. Named(s, id) = Named(c, id)
      BY <1>4, <1>8, AdmitsMeans
    <2> QED
      BY <1>1, <2>1, AdmitsIn, AdmitsMeans
  <1>9. ASSUME Listed(c, id), NEW proto, NEW port \in Granted(s, id, proto) \ Granted(c, id, proto),
               NEW o \in Entries(c.shared)
        PROVE  OfferKey(o) # <<proto, port>>
    <2>1. Named(s, id) = Named(c, id)
      BY <1>4, <1>9, AdmitsMeans
    <2>2. PICK p \in Named(c, id) : Grants(s.shared, p, proto, port)
      BY <1>1, <2>1, GrantedIn
    <2>3. ~Grants(c.shared, p, proto, port)
      BY GrantedMeans
    <2>4. PICK x \in added : x.proto = proto /\ x.port = port
      BY <1>5, <2>2, <2>3 DEF Grants
    <2>5. OfferKey(x) = <<proto, port>>
      BY <2>4 DEF OfferKey
    <2> QED
      BY <1>6, <2>5
  <1> QED
    BY <1>7, <1>8, <1>9

(***************************************************************************)
(* Every edit leads from a valid configuration to a valid one.             *)
(***************************************************************************)
LEMMA WithBindingsIsValid ==
  ASSUME NEW ids, NEW c \in ConfigType(ids), NEW lists \in SUBSET Seq(Binding),
         NEW d \in WithBindings(c, lists)
  PROVE  d \in ValidConfigs(ids) /\ d.shared = c.shared /\ d.peers = c.peers /\ d.bindings \in lists
  <1>1. PICK l \in lists : d \in Accepted([c EXCEPT !.bindings = l])
    BY DEF WithBindings
  <1>2. [c EXCEPT !.bindings = l] \in ConfigType(ids)
    BY DEF ConfigType
  <1>3. d = [c EXCEPT !.bindings = l] /\ d \in ValidConfigs(ids)
    BY <1>1, <1>2, AcceptedIsValid
  <1> QED
    BY <1>3 DEF ConfigType

LEMMA ConnectEditsDo ==
  ASSUME NEW ids, NEW c \in ValidConfigs(ids), NEW keys \in SUBSET (Proto \X Port),
         NEW remotes \in SUBSET Port, NEW d \in ConnectEdits(c, keys, remotes)
  PROVE  d \in ValidConfigs(ids) /\ d.shared = c.shared /\ d.peers = c.peers
  <1>1. c \in ConfigType(ids) /\ c.bindings \in Seq(Binding)
    BY ConfigShape DEF ValidConfigs
  <1>2. ASSUME NEW k \in keys, d \in DelBinding(c, k)
        PROVE  d \in ValidConfigs(ids) /\ d.shared = c.shared /\ d.peers = c.peers
    <2>1. Deleted(c.bindings, k, BindingKey) \in SUBSET Seq(Binding)
      BY <1>1, PickFacts DEF Deleted
    <2> QED
      BY <1>1, <1>2, <2>1, WithBindingsIsValid DEF DelBinding
  <1>3. ASSUME NEW k \in keys, NEW r \in remotes, d \in AddBinding(c, k, r)
        PROVE  d \in ValidConfigs(ids) /\ d.shared = c.shared /\ d.peers = c.peers
    <2>1. NewBinding(k, r) \in Binding
      BY DEF NewBinding, Binding
    <2>2. Added(c.bindings, NewBinding(k, r), BindingKey) \in SUBSET Seq(Binding)
      BY <1>1, <2>1 DEF Added
    <2> QED
      BY <1>1, <1>3, <2>2, WithBindingsIsValid DEF AddBinding
  <1>4. ASSUME NEW k \in keys, NEW r \in remotes, NEW on \in BOOLEAN, d \in PatchBinding(c, k, r, on)
        PROVE  d \in ValidConfigs(ids) /\ d.shared = c.shared /\ d.peers = c.peers
    <2> DEFINE New(b) == [b EXCEPT !.remote = r, !.enabled = on]
    <2>1. \A b \in Binding : New(b) \in Binding
      BY DEF Binding
    <2> HIDE DEF New
    <2>2. Patched(c.bindings, k, BindingKey, New) \in SUBSET Seq(Binding)
      <3> SUFFICES ASSUME NEW l \in Patched(c.bindings, k, BindingKey, New) PROVE l \in Seq(Binding)
        OBVIOUS
      <3>1. PICK i \in FirstAt(c.bindings, k, BindingKey) :
               l = [c.bindings EXCEPT ![i] = New(c.bindings[i])]
        BY DEF Patched
      <3>2. i \in DOMAIN c.bindings
        BY DEF FirstAt
      <3> QED
        BY <1>1, <2>1, <3>1, <3>2
    <2>3. d \in WithBindings(c, Patched(c.bindings, k, BindingKey, New))
      BY <1>4 DEF PatchBinding, New
    <2> QED
      BY <1>1, <2>2, <2>3, WithBindingsIsValid
  <1> QED
    BY <1>2, <1>3, <1>4 DEF ConnectEdits

LEMMA ServeEditsDo ==
  ASSUME NEW ids, NEW c \in ValidConfigs(ids), NEW peers \in SUBSET ids,
         NEW keys \in SUBSET (Proto \X Port), NEW d \in ServeEdits(c, peers, keys)
  PROVE  d \in ValidConfigs(ids)
  <1>1. ASSUME NEW id \in peers, d \in AddPeer(c, id) \cup DelPeer(c, id)
        PROVE  d \in ValidConfigs(ids)
    BY <1>1, AddPeerDoes, DelPeerDoes
  <1>2. ASSUME NEW id \in peers, NEW on \in BOOLEAN, d \in PatchPeer(c, id, on)
        PROVE  d \in ValidConfigs(ids)
    BY <1>2, PatchPeerDoes
  <1> DEFINE scopes == {SharedScope} \cup peers
  <1>3. ASSUME NEW s \in scopes, NEW k \in keys, d \in AddOffer(c, s, k) \cup DelOffer(c, s, k)
        PROVE  d \in ValidConfigs(ids)
    BY <1>3, AddOfferDoes, DelOfferDoes
  <1>4. ASSUME NEW s \in scopes, NEW k \in keys, NEW on \in BOOLEAN, d \in PatchOffer(c, s, k, on)
        PROVE  d \in ValidConfigs(ids)
    BY <1>4, PatchOfferDoes
  <1> QED
    BY <1>1, <1>2, <1>3, <1>4 DEF ServeEdits

(* What a missing file stands for is valid. *)
LEMMA EmptyIsValid == \A ids : EmptyConfig \in ValidConfigs(ids)
  <1> TAKE ids
  <1>1. <<>> \in Seq(Offer) /\ <<>> \in Seq(Peer(ids)) /\ <<>> \in Seq(Binding) /\ DOMAIN <<>> = {}
    OBVIOUS
  <1>2. EmptyConfig \in ConfigType(ids)
    BY <1>1 DEF EmptyConfig, ConfigType
  <1>3. Entries(<<>>) = {} /\ NoRepeat(<<>>, OfferKey) /\ NoRepeat(<<>>, PeerKey) /\ NoRepeat(<<>>, BindingKey)
    BY <1>1 DEF Entries, NoRepeat
  <1>4. Validate(EmptyConfig)
    BY <1>3 DEF EmptyConfig, Validate, ValidOffers
  <1> QED
    BY <1>2, <1>4 DEF ValidConfigs

(***************************************************************************)
(* The edits of the bindings                                               *)
(***************************************************************************)
(* Two configurations have the same bindings, but for those under one key. *)
OthersKept(c, d, key) ==
    /\ \A b \in Entries(c.bindings) : BindingKey(b) # key => b \in Entries(d.bindings)
    /\ \A b \in Entries(d.bindings) : BindingKey(b) # key => b \in Entries(c.bindings)

LEMMA AddBindingDoes ==
  ASSUME NEW ids, NEW c \in ValidConfigs(ids), NEW key \in Proto \X Port, NEW remote \in Port,
         NEW d \in AddBinding(c, key, remote)
  PROVE  /\ d \in ValidConfigs(ids) /\ OthersKept(c, d, key)
         /\ \A b \in Entries(c.bindings) : BindingKey(b) # key
         /\ Entries(d.bindings) = Entries(c.bindings) \cup {NewBinding(key, remote)}
  <1>1. c \in ConfigType(ids) /\ c.bindings \in Seq(Binding)
    BY ConfigShape DEF ValidConfigs
  <1> PICK n \in Binding : n = NewBinding(key, remote) /\ BindingKey(n) = key
    <2>1. PICK proto \in Proto, local \in Port : key = <<proto, local>>
      OBVIOUS
    <2>2. NewBinding(key, remote) \in Binding
      BY <2>1 DEF NewBinding, Binding
    <2>3. BindingKey(NewBinding(key, remote)) = key
      BY <2>1 DEF NewBinding, BindingKey
    <2> QED
      BY <2>2, <2>3
  <1>2. Added(c.bindings, n, BindingKey) \in SUBSET Seq(Binding)
    BY <1>1 DEF Added
  <1>3. d \in WithBindings(c, Added(c.bindings, n, BindingKey))
    BY DEF AddBinding
  <1>4. d \in ValidConfigs(ids) /\ d.bindings \in Added(c.bindings, n, BindingKey)
    BY <1>1, <1>2, <1>3, WithBindingsIsValid
  <1>5. d.bindings = Append(c.bindings, n) /\ \A b \in Entries(c.bindings) : BindingKey(b) # key
    BY <1>4 DEF Added
  <1>6. Entries(d.bindings) = Entries(c.bindings) \cup {n}
    BY <1>1, <1>5, AppendEntries
  <1> QED
    BY <1>4, <1>5, <1>6 DEF OthersKept

LEMMA DelBindingDoes ==
  ASSUME NEW ids, NEW c \in ValidConfigs(ids), NEW key, NEW d \in DelBinding(c, key)
  PROVE  /\ d \in ValidConfigs(ids) /\ OthersKept(c, d, key)
         /\ Entries(d.bindings) = {b \in Entries(c.bindings) : BindingKey(b) # key}
  <1> DEFINE positions == {i \in DOMAIN c.bindings : BindingKey(c.bindings[i]) # key}
             m == Pick(c.bindings, positions)
  <1>1. c \in ConfigType(ids) /\ c.bindings \in Seq(Binding)
    BY ConfigShape DEF ValidConfigs
  <1>2. m \in Seq(Binding) /\ Entries(m) = {c.bindings[i] : i \in positions \cap DOMAIN c.bindings}
    BY <1>1, PickFacts DEF PickOf
  <1>3. Deleted(c.bindings, key, BindingKey) \subseteq {m}
    BY DEF Deleted
  <1> HIDE DEF m
  <1>4. d \in ValidConfigs(ids) /\ d.bindings = m
    <2>1. Deleted(c.bindings, key, BindingKey) \in SUBSET Seq(Binding)
      BY <1>2, <1>3
    <2>2. d \in ValidConfigs(ids) /\ d.bindings \in Deleted(c.bindings, key, BindingKey)
      BY <1>1, <2>1, WithBindingsIsValid DEF DelBinding
    <2> QED
      BY <1>3, <2>2
  <1>5. Entries(m) = {b \in Entries(c.bindings) : BindingKey(b) # key}
    BY <1>2 DEF Entries
  <1> QED
    BY <1>4, <1>5 DEF OthersKept

(* One binding is retargeted, parked or resumed. *)
Revised(b, remote, on) == [b EXCEPT !.remote = remote, !.enabled = on]

RevisesOne(c, d, key, remote, on) ==
    \E b \in Entries(c.bindings) :
       /\ BindingKey(b) = key
       /\ Entries(d.bindings) = (Entries(c.bindings) \ {b}) \cup {Revised(b, remote, on)}

LEMMA PatchBindingDoes ==
  ASSUME NEW ids, NEW c \in ValidConfigs(ids), NEW key, NEW remote \in Port, NEW on \in BOOLEAN,
         NEW d \in PatchBinding(c, key, remote, on)
  PROVE  /\ d \in ValidConfigs(ids) /\ OthersKept(c, d, key)
         /\ RevisesOne(c, d, key, remote, on)
  <1>1. c \in ConfigType(ids) /\ c.bindings \in Seq(Binding) /\ NoRepeat(c.bindings, BindingKey)
    BY ConfigShape DEF ValidConfigs, Validate
  <1> DEFINE lists == {[c.bindings EXCEPT ![i] = Revised(c.bindings[i], remote, on)] :
                          i \in FirstAt(c.bindings, key, BindingKey)}
  <1>2. d \in WithBindings(c, lists)
    BY DEF PatchBinding, Patched, Revised
  <1>3. \A b \in Binding : /\ Revised(b, remote, on) \in Binding
                           /\ BindingKey(Revised(b, remote, on)) = BindingKey(b)
    BY DEF Binding, Revised, BindingKey
  <1>4. \A i \in FirstAt(c.bindings, key, BindingKey) :
           /\ i \in DOMAIN c.bindings /\ BindingKey(c.bindings[i]) = key
           /\ c.bindings[i] \in Binding /\ c.bindings[i] \in Entries(c.bindings)
    BY <1>1 DEF FirstAt, Entries
  <1>5. lists \in SUBSET Seq(Binding)
    <2> SUFFICES ASSUME NEW i \in FirstAt(c.bindings, key, BindingKey)
                 PROVE  [c.bindings EXCEPT ![i] = Revised(c.bindings[i], remote, on)] \in Seq(Binding)
      OBVIOUS
    <2>1. PICK n \in Binding : n = Revised(c.bindings[i], remote, on)
      BY <1>3, <1>4
    <2>2. i \in DOMAIN c.bindings
      BY <1>4
    <2>3. [c.bindings EXCEPT ![i] = n] \in Seq(Binding)
      BY <1>1, <2>2
    <2> QED
      BY <2>1, <2>3
  <1>6. d \in ValidConfigs(ids) /\ d.bindings \in lists
    <2> HIDE DEF lists
    <2> QED
      BY <1>1, <1>2, <1>5, WithBindingsIsValid
  <1>7. PICK i \in FirstAt(c.bindings, key, BindingKey) :
           d.bindings = [c.bindings EXCEPT ![i] = Revised(c.bindings[i], remote, on)]
    BY <1>6
  <1>8. PICK b, n \in Binding : b = c.bindings[i] /\ n = Revised(b, remote, on) /\ BindingKey(b) = key
                                /\ BindingKey(n) = key /\ b \in Entries(c.bindings)
    BY <1>3, <1>4
  <1>9. \A j \in DOMAIN c.bindings : c.bindings[j] = c.bindings[i] => j = i
    BY <1>1, <1>4 DEF NoRepeat
  <1>10. Entries(d.bindings) = (Entries(c.bindings) \ {b}) \cup {n}
    <2>1. i \in DOMAIN c.bindings
      BY <1>4
    <2>2. Entries([c.bindings EXCEPT ![i] = n]) = (Entries(c.bindings) \ {c.bindings[i]}) \cup {n}
      BY <1>1, <1>9, <2>1, ReplaceEntries
    <2> QED
      BY <1>7, <1>8, <2>2
  <1> QED
    BY <1>6, <1>8, <1>10 DEF OthersKept, RevisesOne

LEMMA BindingEditsKeepOthers ==
  ASSUME NEW ids, NEW c \in ValidConfigs(ids), NEW key \in Proto \X Port,
         NEW remote \in Port, NEW on \in BOOLEAN,
         NEW d \in DelBinding(c, key) \cup AddBinding(c, key, remote)
                     \cup PatchBinding(c, key, remote, on)
  PROVE  /\ d \in ValidConfigs(ids)
         /\ \A b : BindingKey(b) # key => (b \in ActiveBindings(d) <=> b \in ActiveBindings(c))
  <1>1. d \in ValidConfigs(ids) /\ OthersKept(c, d, key)
    BY AddBindingDoes, DelBindingDoes, PatchBindingDoes
  <1> QED
    BY <1>1 DEF OthersKept, ActiveBindings

(* admin.rs, Shared::mutate: the valid configurations are closed under every
   edit that is accepted, and hold the one a missing file stands for; with
   FlagsKeepValid and the check in `save`, no other is ever run or saved. *)
THEOREM EditsKeepValid ==
  ASSUME NEW ids
  PROVE  /\ EmptyConfig \in ValidConfigs(ids)
         /\ \A c \in ValidConfigs(ids), keys \in SUBSET (Proto \X Port) :
               /\ \A peers \in SUBSET ids : ServeEdits(c, peers, keys) \subseteq ValidConfigs(ids)
               /\ \A remotes \in SUBSET Port :
                     ConnectEdits(c, keys, remotes) \subseteq ValidConfigs(ids)
  BY EmptyIsValid, ServeEditsDo, ConnectEditsDo
=============================================================================
