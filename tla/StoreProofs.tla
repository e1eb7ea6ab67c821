---------------------------- MODULE StoreProofs ----------------------------
(***************************************************************************)
(* Theorems about Store, for any configurations, edits, flags, workers and *)
(* bound on the faults.  TypeCorrect holds for any processes; the others   *)
(* are about a file that one process uses.                                 *)
(***************************************************************************)
EXTENDS Store, ConfigProofs, TLAPS

(***************************************************************************)
(* Types                                                                   *)
(***************************************************************************)

(* What one worker's step makes of the table of calls. *)
LEMMA CallSet ==
  ASSUME call \in [Procs -> [Workers -> Call]],
         NEW p \in Procs, NEW w \in Workers, NEW c \in Call, To(p, w, c)
  PROVE  /\ call' \in [Procs -> [Workers -> Call]]
         /\ call'[p][w] = c
         /\ \A q \in Procs, v \in Workers : q # p \/ v # w => call'[q][v] = call[q][v]
  BY DEF To

LEMMA SavingCalls ==
  /\ Resting \in Call
  /\ \A c \in Configs : Saving(c) \in Call
  BY StoreAssumption DEF Resting, Saving, Call

LEMMA CallChanges ==
  ASSUME NEW c \in Call
  PROVE  /\ [c EXCEPT !.pc = "opened", !.at = "tmp"] \in Call
         /\ [c EXCEPT !.pc = "written", !.at = "none"] \in Call
         /\ [c EXCEPT !.pc = "renamed"] \in Call
         /\ [c EXCEPT !.at = Moved(@)] \in Call
  BY DEF Call, Moved

LEMMA Files ==
  /\ Torn \in File /\ Missing \in File
  /\ \A c \in Configs : Whole(c) \in File
  /\ \A f \in File : Loaded(f) \in Configs
  /\ \A f \in File, c \in Configs : Over(f, c) \subseteq File
  BY StoreAssumption DEF Torn, Missing, Whole, Loaded, Over, File

LEMMA TypeInit == Init => TypeOK
  <1> SUFFICES ASSUME Init PROVE TypeOK
    OBVIOUS
  <1>1. EmptyConfig \in Configs /\ 0 \in 0..MaxFaults
    BY StoreAssumption
  <1>2. call \in [Procs -> [Workers -> Call]]
    BY SavingCalls DEF Init
  <1> QED
    BY <1>1, <1>2, Files DEF Init, TypeOK

LEMMA TypeNext == TypeOK /\ [Next]_vars => TypeOK'
  <1> SUFFICES ASSUME TypeOK, [Next]_vars PROVE TypeOK'
    OBVIOUS
  <1> USE DEF TypeOK
  <1>1. ASSUME NEW p \in Procs, Boot(p)
        PROVE  TypeOK'
    BY <1>1, Files DEF Boot
  <1>2. ASSUME NEW p \in Procs, BootSeeds(p)
        PROVE  TypeOK'
    <2>1. Saving(Seeded(p, Loaded(disk))) \in Call /\ Main \in Workers
      BY <1>2, StoreAssumption, Files, SavingCalls DEF BootSeeds
    <2>2. call' \in [Procs -> [Workers -> Call]]
      BY <1>2, <2>1, CallSet DEF BootSeeds
    <2> QED
      BY <1>2, <2>2 DEF BootSeeds
  <1>3. ASSUME NEW p \in Procs, NEW w \in Workers, Begin(p, w)
        PROVE  TypeOK'
    <2>1. PICK c \in Edits(p, running[p]) : To(p, w, Saving(c))
      BY <1>3 DEF Begin
    <2>2. c \in Configs
      BY StoreAssumption
    <2>3. call' \in [Procs -> [Workers -> Call]]
      BY <2>1, <2>2, SavingCalls, CallSet
    <2> QED
      BY <1>3, <2>3 DEF Begin
  <1>4. ASSUME NEW p \in Procs, NEW w \in Workers, CreateTmp(p, w)
        PROVE  TypeOK'
    <2>1. [call[p][w] EXCEPT !.pc = "opened", !.at = "tmp"] \in Call
      BY CallChanges
    <2>2. call' \in [Procs -> [Workers -> Call]]
      BY <1>4, <2>1, CallSet DEF CreateTmp
    <2> QED
      BY <1>4, <2>2, Files DEF CreateTmp
  <1>5. ASSUME NEW p \in Procs, NEW w \in Workers, WriteTmp(p, w)
        PROVE  TypeOK'
    <2>1. [call[p][w] EXCEPT !.pc = "written", !.at = "none"] \in Call
      BY CallChanges
    <2>2. call' \in [Procs -> [Workers -> Call]]
      BY <1>5, <2>1, CallSet DEF WriteTmp
    <2>3. call[p][w].next \in Configs
      BY DEF Call
    <2>4. tmp' \in File /\ disk' \in File
      BY <1>5, <2>3, Files DEF WriteTmp
    <2> QED
      BY <1>5, <2>2, <2>4 DEF WriteTmp
  <1>6. ASSUME NEW p \in Procs, NEW w \in Workers, Rename(p, w)
        PROVE  TypeOK'
    <2>1. ASSUME NEW q \in Procs, NEW v \in Workers
          PROVE  /\ [call[q][v] EXCEPT !.pc = "renamed"] \in Call
                 /\ [call[q][v] EXCEPT !.at = Moved(@)] \in Call
      BY CallChanges
    <2>2. call' \in [Procs -> [Workers -> Call]]
      BY <1>6, <2>1 DEF Rename
    <2> QED
      BY <1>6, <2>2, Files DEF Rename
  <1>7. ASSUME NEW p \in Procs, NEW w \in Workers, Publish(p, w)
        PROVE  TypeOK'
    <2>1. call[p][w].next \in Configs
      BY DEF Call
    <2>2. call' \in [Procs -> [Workers -> Call]]
      BY <1>7, SavingCalls, CallSet DEF Publish
    <2>3. lock' \in [Procs -> {{}} \cup {{v} : v \in Workers}]
      BY <1>7 DEF Publish
    <2> QED
      BY <1>7, <2>1, <2>2, <2>3 DEF Publish
  <1>8. ASSUME NEW p \in Procs, NEW w \in Workers, SaveFails(p, w)
        PROVE  TypeOK'
    <2>1. faults' \in 0..MaxFaults
      BY <1>8, StoreAssumption DEF SaveFails
    <2>2. call' \in [Procs -> [Workers -> Call]]
      BY <1>8, SavingCalls, CallSet DEF SaveFails
    <2>3. lock' \in [Procs -> {{}} \cup {{v} : v \in Workers}]
      BY <1>8 DEF SaveFails
    <2>4. stage' \in [Procs -> {"down", "starting", "up"}]
      BY <1>8 DEF SaveFails
    <2> QED
      BY <1>8, <2>1, <2>2, <2>3, <2>4 DEF SaveFails
  <1>9. ASSUME NEW p \in Procs, Stop(p)
        PROVE  TypeOK'
    <2>1. faults' \in 0..MaxFaults
      BY <1>9, StoreAssumption DEF Stop
    <2>2. call' \in [Procs -> [Workers -> Call]]
      BY <1>9, SavingCalls DEF Stop
    <2> QED
      BY <1>9, <2>1, <2>2 DEF Stop
  <1>10. CASE UNCHANGED vars
    BY <1>10 DEF vars
  <1> QED
    BY <1>1, <1>2, <1>3, <1>4, <1>5, <1>6, <1>7, <1>8, <1>9, <1>10 DEF Next, SaveStep

(***************************************************************************)
(* Store: every reachable state is well typed; in particular one worker at *)
(* most holds a process's write lock.                                      *)
(***************************************************************************)
THEOREM TypeCorrect == Spec => []TypeOK
  BY TypeInit, TypeNext, PTL DEF Spec

(***************************************************************************)
(* One process.  The inductive invariant: only the worker that holds the   *)
(* lock (or Main, while the process starts) is in a save; the temporary    *)
(* file is as far as that save is; what it saves was made from what the    *)
(* file still holds; and the process runs what the file holds until the    *)
(* rename.                                                                 *)
(***************************************************************************)
Unsaved == {"ready", "opened", "written"}

SaveSound(p, w) ==
    LET k == call[p][w]
    IN  /\ k.pc # "rest" => \/ stage[p] = "up" /\ lock[p] = {w}
                            \/ stage[p] = "starting" /\ w = Main /\ lock[p] = {}
        /\ k.at = IF k.pc = "opened" THEN "tmp" ELSE "none"
        /\ k.pc = "opened" => tmp = Torn
        /\ k.pc = "written" => tmp = Whole(k.next)
        /\ k.pc = "renamed" => Loaded(disk) = k.next
        /\ k.pc \in Unsaved /\ stage[p] = "up" => k.next \in Edits(p, running[p])
        /\ k.pc \in Unsaved /\ stage[p] = "starting" =>
              k.next = Seeded(p, Loaded(disk))

DiskSound(p) ==
    /\ disk # Torn
    /\ stage[p] = "down" => lock[p] = {}
    /\ stage[p] = "up" /\ (\A w \in Workers : call[p][w].pc # "renamed") =>
          running[p] = Loaded(disk)

Sound(p) == DiskSound(p) /\ \A w \in Workers : SaveSound(p, w)

LEMMA SoundInit ==
  ASSUME NEW p, Procs = {p}, Init
  PROVE  Sound(p)
  BY DEF Init, Sound, SaveSound, DiskSound, Resting, Missing, Torn, Unsaved

(* While one worker is in a save, the others rest. *)
LEMMA OthersRest ==
  ASSUME NEW p \in Procs, Sound(p), NEW w \in Workers, call[p][w].pc # "rest",
         NEW v \in Workers, v # w
  PROVE  call[p][v].pc = "rest" /\ call[p][v].at = "none"
  <1>1. call[p][v].pc = "rest"
    BY DEF Sound, SaveSound
  <1> QED
    BY <1>1 DEF Sound, SaveSound

LEMMA SoundNext ==
  ASSUME NEW p, Procs = {p}, TypeOK, Sound(p), [Next]_vars
  PROVE  Sound(p)'
  <1> USE DEF TypeOK
  <1>0. p \in Procs
    OBVIOUS
  <1>1. ASSUME Boot(p)
        PROVE  Sound(p)'
    BY <1>0, <1>1 DEF Boot, Sound, SaveSound, DiskSound, Unsaved
  <1>2. ASSUME BootSeeds(p)
        PROVE  Sound(p)'
    <2>1. Saving(Seeded(p, Loaded(disk))) \in Call /\ Main \in Workers
      BY <1>0, <1>2, StoreAssumption, Files, SavingCalls DEF BootSeeds
    <2>2. /\ call'[p][Main] = Saving(Seeded(p, Loaded(disk)))
          /\ \A v \in Workers : v # Main => call'[p][v] = call[p][v]
      BY <1>0, <1>2, <2>1, CallSet DEF BootSeeds
    <2>3. \A v \in Workers : call[p][v].pc = "rest"
      BY <1>2 DEF BootSeeds, Sound, SaveSound
    <2>4. stage'[p] = "starting" /\ lock[p] = {} /\ UNCHANGED <<disk, tmp, lock>>
      BY <1>0, <1>2 DEF BootSeeds, Sound, DiskSound
    <2>5. DiskSound(p)'
      BY <2>4 DEF DiskSound, Sound
    <2>6. \A w \in Workers : SaveSound(p, w)'
      BY <2>2, <2>3, <2>4 DEF SaveSound, Sound, Saving, Unsaved
    <2> QED
      BY <2>5, <2>6 DEF Sound
  <1>3. ASSUME NEW w \in Workers, Begin(p, w)
        PROVE  Sound(p)'
    <2>1. PICK c \in Edits(p, running[p]) : To(p, w, Saving(c))
      BY <1>3 DEF Begin
    <2>2. c \in Configs
      BY <1>0, StoreAssumption
    <2>3. /\ call'[p][w] = Saving(c)
          /\ \A v \in Workers : v # w => call'[p][v] = call[p][v]
      BY <1>0, <2>1, <2>2, SavingCalls, CallSet
    <2>4. \A v \in Workers : call[p][v].pc = "rest"
      BY <1>3 DEF Begin, Sound, SaveSound
    <2>5. /\ stage[p] = "up" /\ lock'[p] = {w}
          /\ UNCHANGED <<disk, tmp, stage, running>>
      BY <1>0, <1>3 DEF Begin
    <2>6. DiskSound(p)'
      BY <2>4, <2>5 DEF DiskSound, Sound
    <2>7. \A v \in Workers : SaveSound(p, v)'
      BY <2>3, <2>4, <2>5 DEF SaveSound, Sound, Saving, Unsaved
    <2> QED
      BY <2>6, <2>7 DEF Sound
  <1>4. ASSUME NEW w \in Workers, CreateTmp(p, w)
        PROVE  Sound(p)'
    <2> DEFINE k == [call[p][w] EXCEPT !.pc = "opened", !.at = "tmp"]
    <2>1. call[p][w] \in Call /\ k \in Call
      BY <1>0, CallChanges
    <2>2. /\ call'[p][w] = k
          /\ \A v \in Workers : v # w => call'[p][v] = call[p][v]
      BY <1>0, <1>4, <2>1, CallSet DEF CreateTmp
    <2>3. \A v \in Workers : v # w => call[p][v].pc = "rest" /\ call[p][v].at = "none"
      BY <1>0, <1>4, OthersRest DEF CreateTmp
    <2>4. /\ call[p][w].pc = "ready" /\ tmp' = Torn
          /\ UNCHANGED <<disk, stage, running, lock>>
      BY <1>4 DEF CreateTmp
    <2>5. k.pc = "opened" /\ k.at = "tmp" /\ k.next = call[p][w].next
      BY <2>1 DEF Call
    <2>6. DiskSound(p)'
      BY <2>2, <2>3, <2>4, <2>5 DEF DiskSound, Sound
    <2> HIDE DEF k
    <2>7. \A v \in Workers : SaveSound(p, v)'
      BY <2>2, <2>3, <2>4, <2>5 DEF SaveSound, Sound, Unsaved
    <2> QED
      BY <2>6, <2>7 DEF Sound
  <1>5. ASSUME NEW w \in Workers, WriteTmp(p, w)
        PROVE  Sound(p)'
    <2> DEFINE k == [call[p][w] EXCEPT !.pc = "written", !.at = "none"]
    <2>1. call[p][w] \in Call /\ k \in Call
      BY <1>0, CallChanges
    <2>2. /\ call'[p][w] = k
          /\ \A v \in Workers : v # w => call'[p][v] = call[p][v]
      BY <1>0, <1>5, <2>1, CallSet DEF WriteTmp
    <2>3. \A v \in Workers : v # w => call[p][v].pc = "rest" /\ call[p][v].at = "none"
      BY <1>0, <1>5, OthersRest DEF WriteTmp
    <2>4. call[p][w].pc = "opened" /\ call[p][w].at = "tmp" /\ tmp = Torn
      BY <1>5 DEF WriteTmp, Sound, SaveSound
    <2>5. tmp' = Whole(call[p][w].next) /\ UNCHANGED <<disk, stage, running, lock>>
      BY <1>5, <2>4 DEF WriteTmp, Over, Torn
    <2>6. k.pc = "written" /\ k.at = "none" /\ k.next = call[p][w].next
      BY <2>1 DEF Call
    <2>7. DiskSound(p)'
      BY <2>2, <2>3, <2>4, <2>5, <2>6 DEF DiskSound, Sound
    <2> HIDE DEF k
    <2>8. \A v \in Workers : SaveSound(p, v)'
      BY <2>2, <2>3, <2>4, <2>5, <2>6 DEF SaveSound, Sound, Unsaved
    <2> QED
      BY <2>7, <2>8 DEF Sound
  <1>6. ASSUME NEW w \in Workers, Rename(p, w)
        PROVE  Sound(p)'
    <2>1. call[p][w] \in Call
      BY <1>0
    <2>2. \A v \in Workers : v # w => call[p][v].pc = "rest" /\ call[p][v].at = "none"
      BY <1>0, <1>6, OthersRest DEF Rename
    <2>3. /\ call[p][w].pc = "written" /\ call[p][w].at = "none"
          /\ tmp = Whole(call[p][w].next)
      BY <1>6 DEF Rename, Sound, SaveSound
    <2>4. /\ call'[p][w] = [call[p][w] EXCEPT !.pc = "renamed"]
          /\ \A v \in Workers : v # w =>
                call'[p][v] = [call[p][v] EXCEPT !.at = Moved(call[p][v].at)]
      BY <1>0, <1>6 DEF Rename
    <2>5. /\ call'[p][w].pc = "renamed" /\ call'[p][w].at = "none"
          /\ call'[p][w].next = call[p][w].next
      BY <2>1, <2>3, <2>4 DEF Call
    <2>6. \A v \in Workers : v # w => call'[p][v].pc = "rest" /\ call'[p][v].at = "none"
      BY <1>0, <2>2, <2>4 DEF Call, Moved
    <2>7. disk' = Whole(call[p][w].next) /\ UNCHANGED <<stage, running, lock>>
      BY <1>6, <2>3 DEF Rename
    <2>8. DiskSound(p)'
      BY <2>5, <2>7 DEF DiskSound, Sound, Whole, Torn
    <2>9. \A v \in Workers : SaveSound(p, v)'
      BY <2>3, <2>5, <2>6, <2>7 DEF SaveSound, Sound, Unsaved, Loaded, Whole
    <2> QED
      BY <2>8, <2>9 DEF Sound
  <1>7. ASSUME NEW w \in Workers, Publish(p, w)
        PROVE  Sound(p)'
    <2>1. /\ call'[p][w] = Resting
          /\ \A v \in Workers : v # w => call'[p][v] = call[p][v]
      BY <1>0, <1>7, SavingCalls, CallSet DEF Publish
    <2>2. \A v \in Workers : v # w => call[p][v].pc = "rest" /\ call[p][v].at = "none"
      BY <1>0, <1>7, OthersRest DEF Publish
    <2>3. /\ running'[p] = Loaded(disk) /\ stage'[p] = "up"
          /\ UNCHANGED <<disk, tmp>>
      BY <1>0, <1>7 DEF Publish, Sound, SaveSound
    <2>4. DiskSound(p)'
      BY <2>3 DEF DiskSound, Sound, Loaded
    <2>5. \A v \in Workers : SaveSound(p, v)'
      BY <2>1, <2>2 DEF SaveSound, Sound, Resting, Unsaved
    <2> QED
      BY <2>4, <2>5 DEF Sound
  <1>8. ASSUME NEW w \in Workers, SaveFails(p, w)
        PROVE  Sound(p)'
    <2>1. /\ call'[p][w] = Resting
          /\ \A v \in Workers : v # w => call'[p][v] = call[p][v]
      BY <1>0, <1>8, SavingCalls, CallSet DEF SaveFails
    <2>2. /\ call[p][w].pc \in Unsaved
          /\ \A v \in Workers : v # w => call[p][v].pc = "rest" /\ call[p][v].at = "none"
      BY <1>0, <1>8, OthersRest DEF SaveFails, Unsaved
    <2>3. /\ stage'[p] = (IF stage[p] = "starting" THEN "down" ELSE stage[p])
          /\ lock'[p] = lock[p] \ {w} /\ UNCHANGED <<disk, tmp, running>>
      BY <1>0, <1>8 DEF SaveFails
    <2>4. \A v \in Workers : call[p][v].pc # "renamed" 
      BY <2>2 DEF Unsaved
    <2>5. DiskSound(p)'
      BY <2>2, <2>3, <2>4 DEF DiskSound, Sound, SaveSound, Loaded, Unsaved
    <2>6. \A v \in Workers : SaveSound(p, v)'
      BY <2>1, <2>2 DEF SaveSound, Sound, Resting, Unsaved
    <2> QED
      BY <2>5, <2>6 DEF Sound
  <1>9. ASSUME Stop(p)
        PROVE  Sound(p)'
    <2>1. /\ stage'[p] = "down" /\ lock'[p] = {} /\ UNCHANGED <<disk, tmp, running>>
          /\ \A v \in Workers : call'[p][v] = Resting
      BY <1>0, <1>9 DEF Stop
    <2> QED
      BY <2>1 DEF Sound, SaveSound, DiskSound, Resting, Unsaved
  <1>10. CASE UNCHANGED vars
    BY <1>10 DEF vars, Sound, SaveSound, DiskSound, Loaded
  <1> QED
    BY <1>1, <1>2, <1>3, <1>4, <1>5, <1>6, <1>7, <1>8, <1>9, <1>10 DEF Next, SaveStep

LEMMA AlwaysSound ==
  ASSUME NEW CONSTANT p, Procs = {p}
  PROVE  Spec => [](TypeOK /\ Sound(p))
  <1>1. Init => TypeOK /\ Sound(p)
    BY TypeInit, SoundInit
  <1>2. TypeOK /\ Sound(p) /\ [Next]_vars => TypeOK' /\ Sound(p)'
    BY TypeNext, SoundNext
  <1> QED
    BY <1>1, <1>2, PTL DEF Spec

(***************************************************************************)
(* save: with one process, config.toml is never torn, wherever the process *)
(* is stopped and whichever step of a save fails.                          *)
(***************************************************************************)
THEOREM NeverTorn ==
  ASSUME NEW CONSTANT p, Procs = {p}
  PROVE  Spec => []DiskIsWhole
  <1>1. Sound(p) => DiskIsWhole
    BY DEF Sound, DiskSound, DiskIsWhole
  <1> QED
    BY <1>1, AlwaysSound, PTL

(***************************************************************************)
(* mutate: with one process, "what is running is always what is on disk"   *)
(* whenever no edit is under way.                                          *)
(***************************************************************************)
THEOREM RunsWhatIsStored ==
  ASSUME NEW CONSTANT p, Procs = {p}
  PROVE  Spec => []RunningIsOnDisk
  <1>1. Sound(p) => RunningIsOnDisk
    <2> SUFFICES ASSUME Sound(p), stage[p] = "up", lock[p] = {}
                 PROVE  running[p] = Loaded(disk)
      BY DEF RunningIsOnDisk
    <2>1. \A w \in Workers : call[p][w].pc = "rest"
      BY DEF Sound, SaveSound
    <2> QED
      BY <2>1 DEF Sound, DiskSound
  <1> QED
    BY <1>1, AlwaysSound, PTL

(***************************************************************************)
(* mutate and save: with one process, the file is a register that whole    *)
(* edits replace, each made from what it held: no edit is lost.            *)
(***************************************************************************)
THEOREM ImplementsRegister ==
  ASSUME NEW CONSTANT p, Procs = {p}
  PROVE  Spec => EditsAreAtomic
  <1>1. Init => Register!Init
    BY DEF Init, Register!Init, Missing, Loaded
  <1>2. TypeOK /\ Sound(p) /\ [Next]_vars => [Register!Next]_(Loaded(disk))
    <2> SUFFICES ASSUME TypeOK, Sound(p), [Next]_vars, Loaded(disk)' # Loaded(disk)
                 PROVE  Register!Next
      OBVIOUS
    <2>1. p \in Procs
      OBVIOUS
    <2>2. PICK w \in Workers : WriteTmp(p, w) \/ Rename(p, w)
      BY DEF Next, SaveStep, vars, Boot, BootSeeds, Begin, CreateTmp, Publish, SaveFails,
             Stop, Loaded
    <2>3. CASE WriteTmp(p, w)
      BY <2>3 DEF WriteTmp, Sound, SaveSound, Loaded
    <2>4. CASE Rename(p, w)
      <3> DEFINE c == call[p][w].next
      <3>1. call[p][w].pc = "written" /\ Loaded(disk)' = c
        BY <2>4 DEF Rename, Sound, SaveSound, Loaded, Whole
      <3>2. \A v \in Workers : call[p][v].pc # "renamed"
        BY <2>1, <3>1, OthersRest
      <3>3. \/ stage[p] = "up" /\ c \in Edits(p, running[p])
            \/ stage[p] = "starting" /\ c = Seeded(p, Loaded(disk))
        BY <3>1 DEF Sound, SaveSound, Unsaved
      <3>4. \/ c \in Edits(p, Loaded(disk))
            \/ c = Seeded(p, Loaded(disk))
        BY <3>2, <3>3 DEF Sound, DiskSound
      <3> QED
        BY <2>1, <3>1, <3>4 DEF Register!Next, Register!Edit, Register!Seed
    <2> QED
      BY <2>2, <2>3, <2>4
  <1> QED
    BY <1>1, <1>2, AlwaysSound, PTL DEF Spec, EditsAreAtomic, Register!Spec

(* While the process starts, Main is in the save of what it starts with. *)
Seeds(p) == stage[p] = "starting" => call[p][Main].pc # "rest"

LEMMA SeedsNext ==
  ASSUME NEW p, Procs = {p}, TypeOK, Sound(p), Seeds(p), [Next]_vars
  PROVE  Seeds(p)'
  <1> USE DEF TypeOK, Seeds
  <1>0. p \in Procs /\ Main \in Workers
    BY StoreAssumption
  <1>1. CASE Boot(p)
    BY <1>0, <1>1 DEF Boot
  <1>2. CASE BootSeeds(p)
    BY <1>0, <1>2 DEF BootSeeds, To, Saving
  <1>3. ASSUME NEW w \in Workers, Begin(p, w) PROVE Seeds(p)'
    BY <1>0, <1>3 DEF Begin
  <1>4. ASSUME NEW w \in Workers, CreateTmp(p, w) PROVE Seeds(p)'
    BY <1>0, <1>4 DEF CreateTmp, To, Call
  <1>5. ASSUME NEW w \in Workers, WriteTmp(p, w) PROVE Seeds(p)'
    BY <1>0, <1>5 DEF WriteTmp, To, Call
  <1>6. ASSUME NEW w \in Workers, Rename(p, w) PROVE Seeds(p)'
    BY <1>0, <1>6 DEF Rename, Call
  <1>7. ASSUME NEW w \in Workers, Publish(p, w) PROVE Seeds(p)'
    BY <1>0, <1>7 DEF Publish
  <1>8. ASSUME NEW w \in Workers, SaveFails(p, w) PROVE Seeds(p)'
    BY <1>0, <1>8 DEF SaveFails
  <1>9. CASE Stop(p)
    BY <1>0, <1>9 DEF Stop
  <1>10. CASE UNCHANGED vars
    BY <1>10 DEF vars
  <1> QED
    BY <1>1, <1>2, <1>3, <1>4, <1>5, <1>6, <1>7, <1>8, <1>9, <1>10 DEF Next, SaveStep

LEMMA StartSaves ==
  ASSUME NEW p, Procs = {p}, TypeOK, Sound(p), Seeds(p), stage[p] = "starting"
  PROVE  /\ Loaded(disk) \in Configs
         /\ \/ call[p][Main].next = Seeded(p, Loaded(disk))
            \/ call[p][Main].next = Loaded(disk)
  <1> DEFINE k == call[p][Main]
  <1>1. k \in Call /\ k.pc # "rest" /\ SaveSound(p, Main) /\ Loaded(disk) \in Configs
    BY StoreAssumption, Files DEF Seeds, Sound, TypeOK
  <1>2. CASE k.pc \in Unsaved
    BY <1>1, <1>2 DEF SaveSound
  <1>3. CASE k.pc = "renamed"
    BY <1>1, <1>3 DEF SaveSound
  <1> QED
    BY <1>1, <1>2, <1>3 DEF Call, Unsaved

(***************************************************************************)
(* The configurations and the flags of the code: seed_from_flags when the  *)
(* process serves, seed_bindings when it connects.                         *)
(***************************************************************************)
ServeFlags(p, ids) ==
    \E allow \in Seq(FlagPeers(ids)), offers \in Seq(FlagOffers) :
       \A c \in Configs : Seeded(p, c) = SeedFromFlags(c, allow, offers)

ConnectFlags(p) ==
    \E bindings \in Seq(FlagBindings) : \A c \in Configs : Seeded(p, c) = SeedBindings(c, bindings)

LEMMA SeedingKeeps ==
  ASSUME NEW p, NEW ids, Configs \subseteq ValidConfigs(ids), ServeFlags(p, ids) \/ ConnectFlags(p),
         NEW c \in Configs
  PROVE  Keeps(c, Seeded(p, c))
  <1>1. CASE ServeFlags(p, ids)
    <2>1. PICK allow \in Seq(FlagPeers(ids)), offers \in Seq(FlagOffers) :
             \A x \in Configs : Seeded(p, x) = SeedFromFlags(x, allow, offers)
      BY <1>1 DEF ServeFlags
    <2> PICK s : s = SeedFromFlags(c, allow, offers)
      OBVIOUS
    <2>2. /\ s.bindings = c.bindings /\ Appends(s.shared, c.shared, offers, OfferKeys)
          /\ Appends(s.peers, c.peers, allow, PeerKeys(ids))
      BY SeedFromFlagsDoes
    <2>3. Keeps(c, s)
      BY <2>2 DEF Keeps, Appends
    <2> QED
      BY <2>1, <2>3
  <1>2. CASE ConnectFlags(p)
    <2>1. PICK bindings \in Seq(FlagBindings) :
             \A x \in Configs : Seeded(p, x) = SeedBindings(x, bindings)
      BY <1>2 DEF ConnectFlags
    <2> PICK s : s = SeedBindings(c, bindings)
      OBVIOUS
    <2>2. /\ s.shared = c.shared /\ s.peers = c.peers
          /\ Appends(s.bindings, c.bindings, bindings, BindingKeys)
      BY SeedBindingsDoes
    <2>3. Keeps(c, s)
      BY <2>2 DEF Keeps, Appends
    <2> QED
      BY <2>1, <2>3
  <1> QED
    BY <1>1, <1>2

(* seed_from_flags, seed_bindings: a start of the one process saves no
   configuration that loses or alters an entry of the file, whatever was
   stopped or failed before. *)
THEOREM FlagsKeepEntries ==
  ASSUME NEW CONSTANT p, Procs = {p}, NEW CONSTANT ids, Configs \subseteq ValidConfigs(ids),
         ServeFlags(p, ids) \/ ConnectFlags(p)
  PROVE  Spec => []FlagsOnlyAdd
  <1>1. Init => Seeds(p)
    BY DEF Init, Seeds
  <1>2. TypeOK /\ Sound(p) /\ Seeds(p) /\ [Next]_vars => Seeds(p)'
    BY SeedsNext
  <1>3. \A c \in Configs : Keeps(c, Seeded(p, c)) /\ Keeps(c, c)
    BY SeedingKeeps DEF Keeps
  <1>4. TypeOK /\ Sound(p) /\ Seeds(p) => FlagsOnlyAdd
    BY <1>3, StartSaves DEF FlagsOnlyAdd
  <1> QED
    BY <1>1, <1>2, <1>4, AlwaysSound, PTL DEF Spec

(* A start of the serving process takes no grant away and admits nobody the
   file lists as parked. *)
StartsKeepGrants ==
    \A q \in Procs : stage[q] = "starting" =>
       LET file == Loaded(disk)
           next == call[q][Main].next
       IN  \A id : /\ Listed(file, id) => (Admits(next, id) <=> Admits(file, id))
                   /\ \A proto : Granted(file, id, proto) \subseteq Granted(next, id, proto)

(* main, seed_from_flags: the flags of `rtun serve` only ever add grants to
   those of the file, for every flags and every file, whatever was stopped or
   failed before. *)
THEOREM FlagsOnlyGrant ==
  ASSUME NEW CONSTANT p, Procs = {p}, NEW CONSTANT ids, Configs \subseteq ValidConfigs(ids),
         ServeFlags(p, ids)
  PROVE  Spec => []StartsKeepGrants
  <1>1. Init => Seeds(p)
    BY DEF Init, Seeds
  <1>2. TypeOK /\ Sound(p) /\ Seeds(p) /\ [Next]_vars => Seeds(p)'
    BY SeedsNext
  <1>3. PICK allow \in Seq(FlagPeers(ids)), offers \in Seq(FlagOffers) :
           \A c \in Configs : Seeded(p, c) = SeedFromFlags(c, allow, offers)
    BY DEF ServeFlags
  <1>4. ASSUME NEW c \in Configs, NEW id
        PROVE  /\ Listed(c, id) => (Admits(Seeded(p, c), id) <=> Admits(c, id))
               /\ \A proto : Granted(c, id, proto) \subseteq Granted(Seeded(p, c), id, proto)
    <2> PICK s : s = SeedFromFlags(c, allow, offers)
      OBVIOUS
    <2>1. c \in ValidConfigs(ids)
      OBVIOUS
    <2>2. /\ \A proto : Granted(c, id, proto) \subseteq Granted(s, id, proto)
          /\ Listed(c, id) => (Admits(s, id) <=> Admits(c, id))
      BY ONLY <2>1, FlagsUnparkNothing, s = SeedFromFlags(c, allow, offers),
              allow \in Seq(FlagPeers(ids)), offers \in Seq(FlagOffers)
    <2>3. Seeded(p, c) = s
      BY <1>3
    <2> QED
      BY <2>2, <2>3
  <1>5. TypeOK /\ Sound(p) /\ Seeds(p) => StartsKeepGrants
    BY <1>4, StartSaves DEF StartsKeepGrants
  <1> QED
    BY <1>1, <1>2, <1>5, AlwaysSound, PTL DEF Spec
=============================================================================
