--------------------------- MODULE SecretsProofs ---------------------------
(***************************************************************************)
(* Theorems about Secrets, for any processes and any number of stops.      *)
(***************************************************************************)
EXTENDS Secrets, TLAPS

(***************************************************************************)
(* The inductive invariant.                                                *)
(***************************************************************************)

(* Every key in use is the one in the file. *)
OneKey == IF keyFile.is = "whole" THEN identities \subseteq {keyFile.secret}
                                  ELSE identities = {}

(* Only one process makes the key, in a file nobody has read a key from. *)
KeySound ==
    /\ \A p \in Procs :
         /\ at[p] \in {"creating_key", "writing_key"} => key[p] \in 1..minted
         /\ at[p] = "writing_key" => keyFile = Empty
    /\ OneKey

NoRival(p) == \A q \in Procs \ {p} : ~MakingToken(q)

(* Who makes the token without a rival, or has one that it got without a rival,
   has no rival now. *)
TokenSound ==
    /\ \A p \in Procs : MakingToken(p) => token[p] \in 1..minted
    /\ \A p \in Procs \ raced : MakingToken(p) => NoRival(p) /\ tokenFile.is # "whole"
    /\ \A p \in WithAdmin \ raced :
          at[p] = "up" => NoRival(p) /\ tokenFile = Holding(token[p])

Sound == TypeOK /\ KeySound /\ TokenSound

LEMMA FileCases ==
  ASSUME NEW f \in Files
  PROVE  \/ f = Missing /\ f.is = "missing" /\ f # Empty
         \/ f = Empty /\ f.is = "empty" /\ f # Missing
         \/ /\ f.is = "whole" /\ f # Missing /\ f # Empty
            /\ f.secret \in 1..minted /\ f = Holding(f.secret)
  BY DEF Files, Missing, Empty, Holding

LEMMA Distinct ==
  /\ Missing # Empty /\ Missing.is = "missing" /\ Empty.is = "empty"
  /\ \A s : Holding(s).is = "whole" /\ Holding(s).secret = s
  BY DEF Missing, Empty, Holding

LEMMA FilesGrow ==
  ASSUME minted \in Nat, minted' = minted \/ minted' = minted + 1
  PROVE  Files \subseteq Files' /\ 1..minted \subseteq 1..minted'
         /\ 0..minted \subseteq 0..minted' /\ minted' \in Nat
  BY DEF Files

LEMMA FilesHold == ASSUME NEW k \in 1..minted PROVE Holding(k) \in Files
  BY DEF Files

LEMMA EndFiles == Missing \in Files /\ Empty \in Files
  BY DEF Files

(***************************************************************************)
(* Steps.  Moved says what a step does to the processes: p goes there, with *)
(* k and t for its key and its token.                                      *)
(***************************************************************************)
Places == {"down", "reading_key", "creating_key", "writing_key",
           "reading_token", "creating_token", "writing_token", "up"}

Moved(p, there, k, t) ==
    /\ at' = [at EXCEPT ![p] = there]
    /\ key' = [key EXCEPT ![p] = k]
    /\ token' = [token EXCEPT ![p] = t]

Arrays == at \in [Procs -> Places] /\ key \in [Procs -> 0..minted]
            /\ token \in [Procs -> 0..minted]

LEMMA MovedArrays ==
  ASSUME Arrays, NEW p \in Procs, NEW there \in Places, NEW k, NEW t, Moved(p, there, k, t)
  PROVE  /\ at'[p] = there /\ key'[p] = k /\ token'[p] = t
         /\ \A q \in Procs \ {p} : at'[q] = at[q] /\ key'[q] = key[q] /\ token'[q] = token[q]
  BY DEF Arrays, Moved

(* What each action is, as a move of one process. *)
LEMMA MoveOf ==
  ASSUME Arrays, NEW p \in Procs
  PROVE  /\ Start(p) => Moved(p, "reading_key", key[p], token[p])
         /\ Down(p) => Moved(p, "down", 0, 0)
         /\ \A k : HasKey(p, k) /\ UNCHANGED token =>
                      Moved(p, IF p \in WithAdmin THEN "reading_token" ELSE "up", k, token[p])
         /\ \A there : Goes(p, there) /\ UNCHANGED <<key, token>> =>
                      Moved(p, there, key[p], token[p])
         /\ \A there, k : Goes(p, there) /\ key' = [key EXCEPT ![p] = k] /\ UNCHANGED token =>
                      Moved(p, there, k, token[p])
         /\ \A there, t : Goes(p, there) /\ token' = [token EXCEPT ![p] = t] /\ UNCHANGED key =>
                      Moved(p, there, key[p], t)
  BY DEF Arrays, Moved, Start, Down, HasKey, Goes, None

(* A move keeps the key sound if it does not start to make one. *)
LEMMA KeyCalm ==
  ASSUME Arrays, KeySound, NEW p \in Procs, NEW there \in Places \ {"creating_key", "writing_key"},
         NEW k, NEW t, Moved(p, there, k, t), UNCHANGED <<keyFile, identities>>,
         1..minted \subseteq 1..minted'
  PROVE  KeySound'
  <1>1. ASSUME NEW q \in Procs
        PROVE  /\ at'[q] \in {"creating_key", "writing_key"} => key'[q] \in 1..minted'
               /\ at'[q] = "writing_key" => keyFile' = Empty
    BY MovedArrays DEF KeySound
  <1>2. OneKey'
    BY DEF KeySound, OneKey
  <1> QED
    BY <1>1, <1>2 DEF KeySound

(* A move keeps the token sound if it neither starts to make one nor arrives
   with one. *)
LEMMA TokenCalm ==
  ASSUME Arrays, TokenSound, NEW p \in Procs,
         NEW there \in Places \ {"creating_token", "writing_token"},
         NEW k, NEW t, Moved(p, there, k, t), tokenFile' = tokenFile, raced \ {p} \subseteq raced',
         there = "up" => \/ p \notin WithAdmin \/ p \in raced'
                         \/ NoRival(p) /\ tokenFile = Holding(t),
         1..minted \subseteq 1..minted'
  PROVE  TokenSound'
  <1>1. \A q \in Procs : MakingToken(q)' => q # p /\ MakingToken(q) /\ token'[q] = token[q]
    BY MovedArrays DEF MakingToken
  <1>2. \A q \in Procs : NoRival(q) => NoRival(q)'
    BY <1>1 DEF NoRival
  <1>3. \A q \in Procs : MakingToken(q)' => token'[q] \in 1..minted'
    BY <1>1 DEF TokenSound
  <1>4. ASSUME NEW q \in Procs \ raced', MakingToken(q)'
        PROVE  NoRival(q)' /\ tokenFile'.is # "whole"
    BY <1>1, <1>2, <1>4 DEF TokenSound
  <1>5. ASSUME NEW q \in WithAdmin \ raced', at'[q] = "up"
        PROVE  NoRival(q)' /\ tokenFile' = Holding(token'[q])
    <2>1. CASE q = p
      BY <1>2, <1>5, <2>1, MovedArrays
    <2>2. CASE q # p
      <3>1. q \in Procs \ {p} /\ q \in WithAdmin \ raced
        BY <1>5, <2>2, SecretsAssumption
      <3>2. at[q] = "up" /\ token'[q] = token[q]
        BY <1>5, <3>1, MovedArrays
      <3> QED
        BY <1>2, <3>1, <3>2 DEF TokenSound
    <2> QED
      BY <2>1, <2>2
  <1> QED
    BY <1>3, <1>4, <1>5 DEF TokenSound

(* Every part of TypeOK but the last, which follows from KeySound's parts. *)
LEMMA ArraysOf == TypeOK => Arrays /\ minted \in Nat
  BY DEF TypeOK, Arrays, Places

LEMMA MovedType ==
  ASSUME TypeOK, NEW p \in Procs, NEW there \in Places, NEW k, NEW t, Moved(p, there, k, t),
         minted' \in Nat, 0..minted \subseteq 0..minted', k \in 0..minted', t \in 0..minted',
         keyFile' \in Files', tokenFile' \in Files', faults' \in 0..MaxFaults,
         identities' \subseteq 1..minted', raced' \subseteq Procs,
         there = "writing_key" => \A q \in Procs : at[q] # "writing_key"
  PROVE  TypeOK'
  <1>1. at' \in [Procs -> Places] /\ key' \in [Procs -> 0..minted']
         /\ token' \in [Procs -> 0..minted']
    BY ArraysOf DEF Arrays, Moved
  <1>2. \A q, r \in Procs : at'[q] = "writing_key" /\ at'[r] = "writing_key" => q = r
    <2>1. \A q, r \in Procs : at[q] = "writing_key" /\ at[r] = "writing_key" => q = r
      BY DEF TypeOK
    <2> QED
      BY <2>1, ArraysOf, MovedArrays
  <1> QED
    BY <1>1, <1>2 DEF TypeOK, Places

LEMMA SoundInit == Init => Sound
  <1> SUFFICES ASSUME Init PROVE Sound
    OBVIOUS
  <1>1. TypeOK
    BY SecretsAssumption, EndFiles DEF Init, TypeOK, None
  <1>2. KeySound
    BY Distinct DEF Init, KeySound, OneKey
  <1>3. TokenSound
    BY SecretsAssumption DEF Init, TokenSound, MakingToken
  <1> QED
    BY <1>1, <1>2, <1>3 DEF Sound

(* The facts every step starts from. *)
LEMMA Widths ==
  ASSUME Sound, minted' = minted \/ minted' = minted + 1
  PROVE  /\ Arrays /\ minted' \in Nat
         /\ 1..minted \subseteq 1..minted' /\ 0..minted \subseteq 0..minted' /\ 0 \in 0..minted'
         /\ Files \subseteq Files' /\ keyFile \in Files /\ tokenFile \in Files
         /\ faults \in 0..MaxFaults /\ identities \subseteq 1..minted' /\ raced \subseteq Procs
         /\ \A p \in Procs : key[p] \in 0..minted' /\ token[p] \in 0..minted'
  <1>1. Arrays /\ minted \in Nat
    BY ArraysOf DEF Sound
  <1>2. 1..minted \subseteq 1..minted' /\ 0..minted \subseteq 0..minted' /\ 0 \in 0..minted'
        /\ minted' \in Nat
    BY <1>1
  <1>3. Files \subseteq Files'
    BY <1>1, FilesGrow
  <1> QED
    BY <1>1, <1>2, <1>3 DEF Sound, TypeOK, Arrays

(* A step that changes neither file, makes nothing and arrives nowhere. *)
LEMMA Calm ==
  ASSUME Sound, NEW p \in Procs, NEW there \in {"down", "reading_key", "reading_token", "up"},
         NEW k \in 0..minted, NEW t \in 0..minted, Moved(p, there, k, t),
         there = "up" => \/ p \notin WithAdmin \/ p \in raced'
                         \/ NoRival(p) /\ tokenFile = Holding(t),
         UNCHANGED <<fileVars, minted, identities>>, faults' \in 0..MaxFaults,
         raced \ {p} \subseteq raced', raced' \subseteq Procs
  PROVE  Sound'
  <1>1. /\ UNCHANGED <<keyFile, tokenFile, minted, identities>>
        /\ there \in Places /\ there \notin {"creating_key", "writing_key"}
        /\ there \notin {"creating_token", "writing_token"} /\ there # "writing_key"
    BY DEF fileVars, Places
  <1>2. TypeOK'
    BY <1>1, Widths, MovedType DEF Sound
  <1>3. KeySound'
    BY <1>1, Widths, KeyCalm DEF Sound
  <1>4. TokenSound'
    BY <1>1, Widths, TokenCalm DEF Sound
  <1> QED
    BY <1>2, <1>3, <1>4 DEF Sound

LEMMA DownStep ==
  ASSUME Sound, NEW p \in Procs, Down(p), UNCHANGED <<fileVars, minted, identities>>,
         faults' \in 0..MaxFaults
  PROVE  Sound'
  <1>1. Arrays /\ 0 \in 0..minted /\ raced' = raced \ {p} /\ raced' \subseteq Procs
    BY ArraysOf DEF Sound, Down, TypeOK
  <1>2. Moved(p, "down", 0, 0)
    BY <1>1, MoveOf
  <1> QED
    BY <1>1, <1>2, Calm

LEMMA StartStep ==
  ASSUME Sound, NEW p \in Procs, Start(p)
  PROVE  Sound'
  <1>1. /\ Arrays /\ UNCHANGED <<fileVars, minted, faults, identities, raced>>
        /\ faults \in 0..MaxFaults /\ raced \subseteq Procs
    BY ArraysOf DEF Sound, Start, TypeOK, history
  <1>2. Moved(p, "reading_key", key[p], token[p])
    BY <1>1, MoveOf
  <1>3. key[p] \in 0..minted /\ token[p] \in 0..minted
    BY <1>1 DEF Arrays
  <1> QED
    BY <1>1, <1>2, <1>3, Calm

LEMMA StopStep ==
  ASSUME Sound, NEW p \in Procs, Stop(p)
  PROVE  Sound'
  <1>1. faults' \in 0..MaxFaults
    <2>1. MaxFaults \in Nat /\ faults \in 0..MaxFaults
      BY SecretsAssumption DEF Sound, TypeOK
    <2>2. faults < MaxFaults /\ faults' = faults + 1
      BY DEF Stop
    <2> QED
      BY <2>1, <2>2
  <1> QED
    BY <1>1, DownStep DEF Stop

(* What a step of p may do to the key file while p goes there. *)
WritesKey(p, there) ==
    /\ there = "writing_key" => /\ keyFile' = Empty
                                /\ \A q \in Procs : at[q] # "writing_key"
    /\ keyFile' = keyFile \/ \A q \in Procs \ {p} : at[q] # "writing_key"

(* A step of the key's that arrives with it, or starts to make it. *)
LEMMA KeyStep ==
  ASSUME Sound, NEW p \in Procs, NEW there \in Places \ {"creating_token", "writing_token"},
         NEW k \in Nat, NEW t, t = token[p], Moved(p, there, k, t), k \in 1..minted',
         there = "up" => p \notin WithAdmin, WritesKey(p, there),
         minted' = minted \/ minted' = minted + 1,
         keyFile' \in Files', tokenFile' = tokenFile, faults' = faults, raced' = raced,
         identities' \subseteq 1..minted', OneKey'
  PROVE  Sound'
  <1>0. /\ TypeOK /\ Arrays /\ minted' \in Nat
        /\ 1..minted \subseteq 1..minted' /\ 0..minted \subseteq 0..minted'
        /\ tokenFile' \in Files' /\ faults' \in 0..MaxFaults /\ raced' \subseteq Procs
        /\ t \in 0..minted'
    BY Widths DEF Sound
  <1>1. TypeOK'
    <2>1. k \in 0..minted'
      <3>1. k \in Nat /\ k \in 1..minted' /\ minted' \in Nat
        BY <1>0
      <3> QED
        BY ONLY <3>1
    <2>2. there = "writing_key" => \A q \in Procs : at[q] # "writing_key"
      BY DEF WritesKey
    <2>3. there \in Places
      OBVIOUS
    <2> QED
      BY <1>0, <2>1, <2>2, <2>3, MovedType
  <1>2. KeySound'
    <2>1. ASSUME NEW q \in Procs
          PROVE  /\ at'[q] \in {"creating_key", "writing_key"} => key'[q] \in 1..minted'
                 /\ at'[q] = "writing_key" => keyFile' = Empty
      <3>1. CASE q = p
        <4>1. at'[p] = there /\ key'[p] = k
          <5>1. Arrays /\ p \in Procs /\ there \in Places /\ Moved(p, there, k, t)
            BY <1>0
          <5> QED
            BY ONLY <5>1, MovedArrays
        <4> QED
          BY <3>1, <4>1 DEF WritesKey
      <3>2. CASE q # p
        <4>1. at'[q] = at[q] /\ key'[q] = key[q]
          BY <1>0, <3>2, MovedArrays
        <4> QED
          BY <1>0, <3>2, <4>1 DEF Sound, KeySound, WritesKey
      <3> QED
        BY <3>1, <3>2
    <2> QED
      BY <2>1 DEF KeySound
  <1>3. TokenSound'
    BY <1>0, TokenCalm DEF Sound
  <1> QED
    BY <1>1, <1>2, <1>3 DEF Sound

LEMMA ReadKeyStep ==
  ASSUME Sound, NEW p \in Procs, ReadKey(p)
  PROVE  Sound'
  <1>1. UNCHANGED <<keyFile, tokenFile, faults>> /\ faults' \in 0..MaxFaults
    BY DEF Sound, ReadKey, TypeOK, fileVars
  <1>2. CASE keyFile.is = "whole" /\ HasKey(p, keyFile.secret)
             /\ UNCHANGED <<token, minted, raced>>
    <2> DEFINE there == IF p \in WithAdmin THEN "reading_token" ELSE "up"
    <2>1. keyFile.secret \in 1..minted /\ keyFile.secret \in Nat /\ Files' = Files
      <3>1. keyFile.secret \in 1..minted /\ minted \in Nat
        BY <1>2, FileCases, Distinct DEF Sound, TypeOK
      <3>2. Files' = Files
        BY <1>2 DEF Files
      <3> QED
        BY <3>1, <3>2
    <2>2. Moved(p, there, keyFile.secret, token[p])
      BY <1>2, Widths, MoveOf
    <2>3. OneKey' /\ identities' \subseteq 1..minted'
      BY <1>1, <1>2, <2>1 DEF HasKey, Sound, KeySound, OneKey, TypeOK
    <2>4. /\ there \in Places \ {"creating_token", "writing_token"}
          /\ there = "up" => p \notin WithAdmin
          /\ WritesKey(p, there)
      BY <1>1 DEF Places, WritesKey
    <2> HIDE DEF there
    <2>5. keyFile' \in Files' /\ minted' = minted /\ keyFile.secret \in 1..minted'
          /\ keyFile.secret \in Nat
      BY <1>1, <1>2, <2>1 DEF Sound, TypeOK
    <2> QED
      BY <1>1, <1>2, <2>2, <2>3, <2>4, <2>5, KeyStep
  <1>3. CASE keyFile = Empty /\ Down(p) /\ UNCHANGED <<minted, identities>>
    BY <1>1, <1>3, DownStep DEF fileVars
  <1>4. CASE /\ keyFile = Missing /\ Goes(p, "creating_key") /\ minted' = minted + 1
             /\ key' = [key EXCEPT ![p] = minted'] /\ UNCHANGED <<token, identities, raced>>
    <2>1. Moved(p, "creating_key", minted', token[p])
      BY <1>4, Widths, MoveOf
    <2>2. minted' \in Nat /\ minted' \in 1..minted' /\ keyFile' \in Files'
      <3>1. minted \in Nat
        BY DEF Sound, TypeOK
      <3>2. minted' = minted + 1
        BY <1>4
      <3>3. minted' \in 1..minted'
        BY <3>1, <3>2
      <3> QED
        BY <1>1, <3>2, <3>3, <3>1, Widths
    <2>3. "creating_key" \in Places \ {"creating_token", "writing_token"}
          /\ WritesKey(p, "creating_key")
      BY <1>1 DEF Places, WritesKey
    <2>4. OneKey' /\ identities' \subseteq 1..minted'
      BY <1>1, <1>4, Distinct DEF Sound, KeySound, OneKey
    <2> QED
      BY <1>1, <1>4, <2>1, <2>2, <2>3, <2>4, KeyStep
  <1> QED
    BY <1>2, <1>3, <1>4 DEF ReadKey

LEMMA CreateKeyStep ==
  ASSUME Sound, NEW p \in Procs, CreateKey(p)
  PROVE  Sound'
  <1>1. /\ at[p] = "creating_key" /\ UNCHANGED <<tokenFile, minted, faults, identities>>
        /\ faults' \in 0..MaxFaults
    BY DEF Sound, CreateKey, TypeOK
  <1>2. CASE keyFile # Missing /\ Down(p) /\ UNCHANGED keyFile
    BY <1>1, <1>2, DownStep DEF fileVars
  <1>3. CASE keyFile = Missing /\ keyFile' = Empty /\ Goes(p, "writing_key")
             /\ UNCHANGED <<key, token, raced>>
    <2>1. Moved(p, "writing_key", key[p], token[p])
      BY <1>3, Widths, <1>1, MoveOf
    <2>2. key[p] \in Nat /\ key[p] \in 1..minted' /\ keyFile' \in Files'
      <3>1. key[p] \in 1..minted /\ minted \in Nat /\ minted' = minted
        BY <1>1 DEF Sound, KeySound, TypeOK
      <3>2. keyFile' \in Files'
        BY <1>1, <1>3, EndFiles, Widths
      <3> QED
        BY <3>1, <3>2
    <2>3. WritesKey(p, "writing_key")
      <3>1. \A q \in Procs : at[q] # "writing_key"
        BY <1>3, Distinct DEF Sound, KeySound
      <3> QED
        BY <1>3, <3>1 DEF WritesKey
    <2>4. OneKey' /\ identities' \subseteq 1..minted'
      BY <1>1, <1>3, Distinct DEF Sound, KeySound, OneKey
    <2>5. "writing_key" \in Places \ {"creating_token", "writing_token"}
      BY DEF Places
    <2> QED
      BY <1>1, <1>3, <2>1, <2>2, <2>3, <2>4, <2>5, KeyStep
  <1> QED
    BY <1>1, <1>2, <1>3 DEF CreateKey

LEMMA WriteKeyStep ==
  ASSUME Sound, NEW p \in Procs, WriteKey(p)
  PROVE  Sound'
  <1> DEFINE there == IF p \in WithAdmin THEN "reading_token" ELSE "up"
  <1>1. /\ at[p] = "writing_key" /\ keyFile' = Holding(key[p]) /\ HasKey(p, key[p])
        /\ UNCHANGED <<tokenFile, token, minted, faults, raced>>
    BY DEF WriteKey
  <1>2. key[p] \in Nat /\ key[p] \in 1..minted' /\ keyFile' \in Files'
    <2>1. key[p] \in 1..minted /\ minted \in Nat
      BY <1>1 DEF Sound, KeySound, TypeOK
    <2>2. Holding(key[p]) \in Files /\ Files' = Files
      BY <1>1, <2>1, FilesHold DEF Files
    <2> QED
      BY <1>1, <2>1, <2>2
  <1>3. Moved(p, there, key[p], token[p])
    BY <1>1, Widths, MoveOf
  <1>4. identities = {} /\ \A q \in Procs \ {p} : at[q] # "writing_key"
    BY <1>1, Distinct DEF Sound, KeySound, OneKey, TypeOK
  <1>5. OneKey' /\ identities' \subseteq 1..minted'
    BY <1>1, <1>2, <1>4, Distinct DEF OneKey, HasKey
  <1>6. /\ there \in Places \ {"creating_token", "writing_token"}
        /\ there = "up" => p \notin WithAdmin
        /\ WritesKey(p, there)
    BY <1>4 DEF Places, WritesKey
  <1> HIDE DEF there
  <1> QED
    BY <1>1, <1>2, <1>3, <1>5, <1>6, KeyStep

LEMMA DeleteKeyStep ==
  ASSUME Sound, DeleteKey
  PROVE  Sound'
  <1>1. /\ keyFile = Empty /\ keyFile' = Missing
        /\ \A q \in Procs : at[q] # "writing_key"
        /\ UNCHANGED <<tokenFile, at, key, token, minted, faults, identities, raced>>
    BY DEF DeleteKey, procVars, history
  <1>2. Missing \in Files
    BY EndFiles
  <1>3. TypeOK'
    BY <1>1, <1>2 DEF Sound, TypeOK, Files
  <1>4. KeySound'
    BY <1>1, Distinct DEF Sound, KeySound, OneKey
  <1>5. TokenSound'
    BY <1>1 DEF Sound, TokenSound, MakingToken, NoRival
  <1> QED
    BY <1>3, <1>4, <1>5 DEF Sound

LEMMA ReadTokenStep ==
  ASSUME Sound, NEW p \in Procs, ReadToken(p)
  PROVE  Sound'
  <1>1. /\ at[p] = "reading_token" /\ faults' \in 0..MaxFaults
        /\ UNCHANGED <<keyFile, tokenFile, key, faults, identities>>
        /\ raced' = IF Rivals(p) = {} THEN raced ELSE raced \cup Rivals(p) \cup {p}
    BY DEF Sound, ReadToken, TokenRead, TypeOK, fileVars
  <1>2. /\ raced \subseteq raced' /\ raced' \subseteq Procs
        /\ p \in raced' \/ NoRival(p)
        /\ \A q \in Procs \ {p} : MakingToken(q) => q \in raced'
    BY <1>1 DEF Sound, TypeOK, Rivals, NoRival
  <1>3. CASE /\ tokenFile.is = "whole" /\ Goes(p, "up")
             /\ token' = [token EXCEPT ![p] = tokenFile.secret] /\ UNCHANGED minted
    <2>1. tokenFile.secret \in 0..minted /\ tokenFile = Holding(tokenFile.secret)
      <3>1. tokenFile.secret \in 1..minted /\ tokenFile = Holding(tokenFile.secret)
            /\ minted \in Nat
        BY <1>3, FileCases DEF Sound, TypeOK
      <3> QED
        BY <3>1
    <2>2. Moved(p, "up", key[p], tokenFile.secret)
      BY <1>1, <1>3, Widths, MoveOf
    <2>3. key[p] \in 0..minted
      BY <1>3, Widths
    <2> QED
      BY <1>1, <1>2, <1>3, <2>1, <2>2, <2>3, Calm DEF fileVars
  <1>4. CASE /\ tokenFile.is # "whole" /\ Goes(p, "creating_token") /\ minted' = minted + 1
             /\ token' = [token EXCEPT ![p] = minted']
    <2>1. /\ Arrays /\ minted' \in 1..minted' /\ minted' \in 0..minted'
          /\ key[p] \in 0..minted' /\ Moved(p, "creating_token", key[p], minted')
      <3>1. Arrays /\ minted \in Nat /\ key[p] \in 0..minted'
        BY <1>4, Widths, ArraysOf DEF Sound
      <3>2. Moved(p, "creating_token", key[p], minted')
        BY <1>1, <1>4, <3>1, MoveOf
      <3> QED
        BY <1>4, <3>1, <3>2
    <2>2. "creating_token" \in Places
      BY DEF Places
    <2>3. TypeOK'
      BY <1>1, <1>2, <1>4, <2>1, <2>2, Widths, MovedType DEF Sound
    <2>4. KeySound'
      BY <1>1, <1>4, <2>1, <2>2, Widths, KeyCalm DEF Sound
    <2>5. \A q \in Procs : MakingToken(q)' => token'[q] \in 1..minted'
      BY <1>4, <2>1, <2>2, Widths, MovedArrays DEF Sound, TokenSound, MakingToken
    <2>6. \A q \in Procs \ {p} : MakingToken(q)' <=> MakingToken(q)
      BY <2>1, <2>2, MovedArrays DEF MakingToken
    <2>7. ASSUME NEW q \in Procs \ raced', MakingToken(q)'
          PROVE  NoRival(q)' /\ tokenFile'.is # "whole"
      <3>1. q = p
        BY <1>2, <2>6, <2>7
      <3> QED
        BY <1>1, <1>2, <1>4, <2>6, <2>7, <3>1 DEF NoRival
    <2>8. ASSUME NEW q \in WithAdmin \ raced'
          PROVE  at'[q] # "up"
      <3>1. q \in Procs /\ q \in WithAdmin \ raced
        BY <1>2, SecretsAssumption
      <3>2. at[q] # "up"
        BY <1>4, <3>1, Distinct DEF Sound, TokenSound
      <3> QED
        BY <2>1, <2>2, <3>1, <3>2, MovedArrays
    <2> QED
      BY <2>3, <2>4, <2>5, <2>7, <2>8 DEF Sound, TokenSound
  <1> QED
    BY <1>3, <1>4 DEF ReadToken, TokenRead

(* A step of the token's after it was made. *)
LEMMA TokenStep ==
  ASSUME Sound, NEW p \in Procs, MakingToken(p), NEW there \in {"writing_token", "up"},
         Moved(p, there, key[p], token[p]),
         tokenFile' = IF there = "up" THEN Holding(token[p]) ELSE Empty,
         UNCHANGED <<keyFile, minted, faults, identities, raced>>
  PROVE  Sound'
  <1>1. /\ there \in Places /\ there # "writing_key"
        /\ there \notin {"creating_key", "writing_key"}
    BY DEF Places
  <1>2. token[p] \in 1..minted
    BY DEF Sound, TokenSound
  <1>3. tokenFile' \in Files'
    BY <1>2, FilesHold, EndFiles, Widths
  <1>4. TypeOK'
    BY <1>1, <1>3, Widths, MovedType DEF Sound
  <1>5. KeySound'
    BY <1>1, Widths, KeyCalm DEF Sound
  <1>6. \A q \in Procs : MakingToken(q)' => MakingToken(q) /\ token'[q] = token[q]
    BY <1>1, Widths, MovedArrays DEF MakingToken
  <1>7. \A q \in Procs : NoRival(q) => NoRival(q)'
    BY <1>6 DEF NoRival
  (* Nobody else makes one, or has one, without p for a rival. *)
  <1>8. \A q \in Procs \ {p} : ~NoRival(q)
    BY DEF NoRival
  <1>9. ASSUME NEW q \in Procs \ raced', MakingToken(q)'
        PROVE  NoRival(q)' /\ tokenFile'.is # "whole"
    <2>1. NoRival(q)
      BY <1>6, <1>9 DEF Sound, TokenSound
    <2>2. q = p /\ there = "writing_token"
      BY <1>1, <1>8, <1>9, <2>1, Widths, MovedArrays DEF MakingToken
    <2> QED
      BY <1>7, <2>1, <2>2, Distinct
  <1>10. ASSUME NEW q \in WithAdmin \ raced', at'[q] = "up"
         PROVE  NoRival(q)' /\ tokenFile' = Holding(token'[q])
    <2>1. CASE q = p
      <3>1. there = "up" /\ token'[p] = token[p] /\ p \in Procs \ raced
        BY <1>1, <1>10, <2>1, Widths, MovedArrays
      <3> QED
        BY <1>7, <2>1, <3>1 DEF Sound, TokenSound
    <2>2. CASE q # p
      <3>1. q \in Procs /\ q \in WithAdmin \ raced /\ at[q] = "up"
        BY <1>1, <1>10, <2>2, Widths, MovedArrays, SecretsAssumption
      <3> QED
        BY <1>8, <2>2, <3>1 DEF Sound, TokenSound
    <2> QED
      BY <2>1, <2>2
  <1>11. \A q \in Procs : MakingToken(q)' => token'[q] \in 1..minted'
    BY <1>6 DEF Sound, TokenSound
  <1> QED
    BY <1>4, <1>5, <1>9, <1>10, <1>11 DEF Sound, TokenSound

LEMMA MakeTokenStep ==
  ASSUME Sound, NEW p \in Procs, CreateToken(p) \/ WriteToken(p)
  PROVE  Sound'
  <1>1. Arrays
    BY ArraysOf DEF Sound
  <1>2. MakingToken(p) /\ UNCHANGED <<keyFile, key, token, minted, faults, identities, raced>>
    BY DEF CreateToken, WriteToken, MakingToken, history
  <1>3. CASE CreateToken(p)
    <2>1. Moved(p, "writing_token", key[p], token[p]) /\ tokenFile' = Empty
      BY <1>1, <1>2, <1>3, MoveOf DEF CreateToken
    <2> QED
      BY <1>2, <2>1, TokenStep
  <1>4. CASE WriteToken(p)
    <2>1. Moved(p, "up", key[p], token[p]) /\ tokenFile' = Holding(token[p])
      BY <1>1, <1>2, <1>4, MoveOf DEF WriteToken
    <2> QED
      BY <1>2, <2>1, TokenStep
  <1> QED
    BY <1>3, <1>4

LEMMA SoundNext == Sound /\ [Next]_vars => Sound'
  <1> SUFFICES ASSUME Sound, [Next]_vars PROVE Sound'
    OBVIOUS
  <1>1. CASE UNCHANGED vars
    <2>1. UNCHANGED <<keyFile, tokenFile, at, key, token, minted, faults, identities, raced>>
      BY <1>1 DEF vars, fileVars, procVars, history
    <2> QED
      BY <2>1 DEF Sound, TypeOK, Files, KeySound, OneKey, TokenSound, MakingToken, NoRival
  <1>2. CASE DeleteKey
    BY <1>2, DeleteKeyStep
  <1>3. ASSUME NEW p \in Procs, Runs(p)
        PROVE  Sound'
    BY <1>3, StartStep, ReadKeyStep, CreateKeyStep, WriteKeyStep, ReadTokenStep, MakeTokenStep
       DEF Runs
  <1>4. ASSUME NEW p \in Procs, Stop(p)
        PROVE  Sound'
    BY <1>4, StopStep
  <1> QED
    BY <1>1, <1>2, <1>3, <1>4 DEF Next

(***************************************************************************)
(* Theorems.                                                               *)
(***************************************************************************)
(* Every reachable state is well typed, and one process at most has a key to
   write. *)
THEOREM TypeCorrect == Spec => []TypeOK
  <1>1. Sound => TypeOK
    BY DEF Sound
  <1> QED
    BY <1>1, SoundInit, SoundNext, PTL DEF Spec

(* All keys any process ever runs with are one key. *)
THEOREM IdentityKept == Spec => []OneIdentity
  <1>1. Sound => OneIdentity
    BY DEF Sound, KeySound, OneKey, OneIdentity
  <1> QED
    BY <1>1, SoundInit, SoundNext, PTL DEF Spec

(* load_or_create_token: each process that runs accepts the token that is in the
   file, unless it got its own while another process made one. *)
THEOREM TokenKept == Spec => []TokenOpensTheUi
  <1>1. Sound => TokenOpensTheUi
    BY DEF Sound, TokenSound, TokenOpensTheUi
  <1> QED
    BY <1>1, SoundInit, SoundNext, PTL DEF Spec
=============================================================================
