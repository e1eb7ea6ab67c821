------------------------------- MODULE Store -------------------------------
(***************************************************************************)
(* How a configuration reaches the disk and the data plane:                *)
(* `Shared::mutate` (src/src/state.rs), `load` and `save`                  *)
(* (src/src/config.rs) and the start of a process (src/src/main.rs).       *)
(*                                                                         *)
(* A process has several workers: API calls that run side by side.  Every  *)
(* edit copies the published configuration under the write lock, changes   *)
(* and validates the copy, saves it (create `config.toml.tmp`, write it,   *)
(* rename it over `config.toml`) and publishes it.  A process may stop     *)
(* between any two of these steps, and any step of a save may fail.  One   *)
(* or two processes use the same directory: a machine may serve and        *)
(* connect.  An edit that is rejected changes nothing and is no step, and  *)
(* neither is a start that ends at once, over flags that do not validate.  *)
(* What is not modelled: a power failure, which may undo writes that were  *)
(* not synced.                                                             *)
(***************************************************************************)
EXTENDS Config

CONSTANTS
    Procs,          \* the roles that run on this machine
    Workers,        \* threads that handle API calls
    Main,           \* the worker that starts the process
    Configs,        \* the valid configurations
    Edits(_, _),    \* what an accepted edit of a process can make of one
    Seeded(_, _),   \* what its command-line flags make of one
    MaxFaults       \* bound: stops and failed saves

ASSUME StoreAssumption ==
    /\ Procs \subseteq {"serve", "connect"} /\ Main \in Workers /\ MaxFaults \in Nat
    /\ EmptyConfig \in Configs
    /\ \A p \in Procs, c \in Configs :
          /\ Edits(p, c) \subseteq Configs
          /\ Validate(Seeded(p, c)) => Seeded(p, c) \in Configs

VARIABLES
    disk, tmp,      \* config.toml and config.toml.tmp
    stage,          \* of each process: "down", "starting" or "up"
    running,        \* the published snapshot of each process
    lock,           \* the workers that hold its write lock
    call,           \* what each worker is doing
    faults

vars == <<disk, tmp, stage, running, lock, call, faults>>

-----------------------------------------------------------------------------
(* Files.  A torn file was truncated by its open, or written in part. *)
Whole(c) == [kind |-> "whole", cfg |-> c]
Missing  == [kind |-> "missing", cfg |-> EmptyConfig]
Torn     == [kind |-> "torn", cfg |-> EmptyConfig]

(* load: a missing file is the default, and so is one that was emptied. *)
Loaded(f) == f.cfg

(* Bytes written over what another writer put in the file since it was
   opened may leave the end of the longer text. *)
Over(f, c) == IF f.kind = "torn" THEN {Whole(c)} ELSE {Whole(c), Torn}

(* at: the name under which the file the worker has open is to be found. *)
Resting == [pc |-> "rest", next |-> EmptyConfig, at |-> "none"]
Saving(c) == [pc |-> "ready", next |-> c, at |-> "none"]

(* An open file keeps its bytes when its name changes: rename moves the new
   file to config.toml and leaves the old one without a name. *)
Moved(at) ==
    CASE at = "tmp"  -> "disk"
      [] at = "disk" -> "gone"
      [] OTHER       -> at

To(p, w, c) == call' = [call EXCEPT ![p] = [@ EXCEPT ![w] = c]]

Init ==
    /\ disk = Missing /\ tmp = Missing
    /\ stage = [p \in Procs |-> "down"]
    /\ running = [p \in Procs |-> EmptyConfig]
    /\ lock = [p \in Procs |-> {}]
    /\ call = [p \in Procs |-> [w \in Workers |-> Resting]]
    /\ faults = 0

-----------------------------------------------------------------------------
(* main loads the file; if the flags add nothing, it runs with what it read. *)
Boot(p) ==
    /\ stage[p] = "down" /\ Seeded(p, Loaded(disk)) = Loaded(disk)
    /\ running' = [running EXCEPT ![p] = Loaded(disk)]
    /\ stage' = [stage EXCEPT ![p] = "up"]
    /\ UNCHANGED <<disk, tmp, lock, call, faults>>

(* Otherwise it saves the seeded configuration first, if that is valid. *)
BootSeeds(p) ==
    /\ stage[p] = "down" /\ Seeded(p, Loaded(disk)) # Loaded(disk)
    /\ Validate(Seeded(p, Loaded(disk)))
    /\ To(p, Main, Saving(Seeded(p, Loaded(disk))))
    /\ stage' = [stage EXCEPT ![p] = "starting"]
    /\ UNCHANGED <<disk, tmp, running, lock, faults>>

(* mutate takes the lock, copies the snapshot and applies the edit to it. *)
Begin_Unlocked(p, w) ==
    /\ stage[p] = "up" /\ call[p][w].pc = "rest"
    /\ \E c \in Edits(p, running[p]) : To(p, w, Saving(c))
    /\ lock' = [lock EXCEPT ![p] = @ \cup {w}]
    /\ UNCHANGED <<disk, tmp, stage, running, faults>>

Begin(p, w) ==
    /\ stage[p] = "up" /\ lock[p] = {} /\ call[p][w].pc = "rest"
    /\ \E c \in Edits(p, running[p]) : To(p, w, Saving(c))
    /\ lock' = [lock EXCEPT ![p] = {w}]
    /\ UNCHANGED <<disk, tmp, stage, running, faults>>

(* fs::write opens the temporary file, which truncates it... *)
CreateTmp_InPlace(p, w) ==
    /\ call[p][w].pc = "ready"
    /\ disk' = Torn
    /\ To(p, w, [call[p][w] EXCEPT !.pc = "opened", !.at = "disk"])
    /\ UNCHANGED <<tmp, stage, running, lock, faults>>

CreateTmp_New(p, w) ==
    /\ call[p][w].pc = "ready"
    /\ IF tmp = Missing
       THEN /\ tmp' = Torn /\ UNCHANGED <<stage, lock>>
            /\ To(p, w, [call[p][w] EXCEPT !.pc = "opened", !.at = "tmp"])
       ELSE /\ tmp' = tmp /\ lock' = [lock EXCEPT ![p] = {}] /\ To(p, w, Resting)
            /\ stage' = [stage EXCEPT ![p] = IF @ = "starting" THEN "down" ELSE @]
    /\ UNCHANGED <<disk, running, faults>>

CreateTmp(p, w) ==
    /\ call[p][w].pc = "ready"
    /\ tmp' = Torn
    /\ To(p, w, [call[p][w] EXCEPT !.pc = "opened", !.at = "tmp"])
    /\ UNCHANGED <<disk, stage, running, lock, faults>>

(* ...and then writes the text, wherever the file is by now. *)
WriteTmp(p, w) ==
    /\ call[p][w].pc = "opened"
    /\ LET c == call[p][w].next
           at == call[p][w].at
       IN  /\ tmp' \in (IF at = "tmp" THEN Over(tmp, c) ELSE {tmp})
           /\ disk' \in (IF at = "disk" THEN Over(disk, c) ELSE {disk})
    /\ To(p, w, [call[p][w] EXCEPT !.pc = "written", !.at = "none"])
    /\ UNCHANGED <<stage, running, lock, faults>>

Rename(p, w) ==
    /\ call[p][w].pc = "written" /\ tmp # Missing
    /\ disk' = tmp /\ tmp' = Missing
    /\ call' = [q \in Procs |-> [v \in Workers |->
                  IF q = p /\ v = w THEN [call[p][w] EXCEPT !.pc = "renamed"]
                  ELSE [call[q][v] EXCEPT !.at = Moved(@)]]]
    /\ UNCHANGED <<stage, running, lock, faults>>

(* The saved configuration becomes the one that runs: send_replace in mutate,
   Shared::new at the start. *)
Publish(p, w) ==
    /\ call[p][w].pc = "renamed"
    /\ running' = [running EXCEPT ![p] = call[p][w].next]
    /\ stage' = [stage EXCEPT ![p] = "up"]
    /\ lock' = [lock EXCEPT ![p] = @ \ {w}]
    /\ To(p, w, Resting)
    /\ UNCHANGED <<disk, tmp, faults>>

(* A step of the save failed (the rename for certain when another process
   has taken the file): the edit is answered with an error, a start ends. *)
SaveFails_Runs(p, w) ==
    /\ call[p][w].pc \in {"ready", "opened", "written"} /\ faults < MaxFaults
    /\ running' = [running EXCEPT ![p] = call[p][w].next]
    /\ stage' = [stage EXCEPT ![p] = IF @ = "starting" THEN "down" ELSE @]
    /\ lock' = [lock EXCEPT ![p] = @ \ {w}]
    /\ To(p, w, Resting)
    /\ faults' = faults + 1
    /\ UNCHANGED <<disk, tmp>>

SaveFails(p, w) ==
    LET renamed_away == call[p][w].pc = "written" /\ tmp = Missing
    IN  /\ call[p][w].pc \in {"ready", "opened", "written"}
        /\ renamed_away \/ faults < MaxFaults
        /\ faults' = IF renamed_away THEN faults ELSE faults + 1
        /\ stage' = [stage EXCEPT ![p] = IF @ = "starting" THEN "down" ELSE @]
        /\ lock' = [lock EXCEPT ![p] = @ \ {w}]
        /\ To(p, w, Resting)
        /\ UNCHANGED <<disk, tmp, running>>

(* The process is stopped or dies: what it had in memory is gone. *)
Stop(p) ==
    /\ stage[p] # "down" /\ faults < MaxFaults
    /\ stage' = [stage EXCEPT ![p] = "down"]
    /\ lock' = [lock EXCEPT ![p] = {}]
    /\ call' = [call EXCEPT ![p] = [w \in Workers |-> Resting]]
    /\ faults' = faults + 1
    /\ UNCHANGED <<disk, tmp, running>>

SaveStep(p, w) ==
    CreateTmp(p, w) \/ WriteTmp(p, w) \/ Rename(p, w) \/ Publish(p, w)

Next ==
    \E p \in Procs :
       \/ Boot(p) \/ BootSeeds(p) \/ Stop(p)
       \/ \E w \in Workers : Begin(p, w) \/ SaveStep(p, w) \/ SaveFails(p, w)

Spec == Init /\ [][Next]_vars

(* A process that went down is started again, and nothing in a save waits. *)
Fairness ==
    \A p \in Procs : /\ WF_vars(Boot(p) \/ BootSeeds(p))
                     /\ \A w \in Workers : WF_vars(SaveStep(p, w))

FairSpec == Spec /\ Fairness

-----------------------------------------------------------------------------
(* Properties *)

File == [kind : {"whole", "missing", "torn"}, cfg : Configs]
Call == [pc : {"rest", "ready", "opened", "written", "renamed"},
         next : Configs, at : {"none", "tmp", "disk", "gone"}]

(* Types; the write lock of mutate is held by one worker at most. *)
TypeOK ==
    /\ disk \in File /\ tmp \in File
    /\ stage \in [Procs -> {"down", "starting", "up"}]
    /\ running \in [Procs -> Configs]
    /\ lock \in [Procs -> {{}} \cup {{w} : w \in Workers}]
    /\ call \in [Procs -> [Workers -> Call]]
    /\ faults \in 0..MaxFaults

(* save: whichever step of a save is the last one to happen, config.toml is
   never truncated ("a crash mid-write cannot leave a truncated allowlist"). *)
DiskIsWhole == disk # Torn

(* mutate: whenever no edit is under way, a process runs what is on disk,
   whatever failed before; so an edit that was answered survives a restart
   and one that failed does not come back. *)
RunningIsOnDisk ==
    \A p \in Procs : stage[p] = "up" /\ lock[p] = {} => running[p] = Loaded(disk)

(* Every entry of the one is an entry of the other, as it was. *)
Keeps(old, new) ==
    /\ Entries(old.shared) \subseteq Entries(new.shared)
    /\ Entries(old.peers) \subseteq Entries(new.peers)
    /\ Entries(old.bindings) \subseteq Entries(new.bindings)

(* seed_from_flags, seed_bindings: a start saves no configuration in which an
   entry of the file is missing or altered; one that was parked stays parked. *)
FlagsOnlyAdd ==
    \A p \in Procs :
        stage[p] = "starting" => Keeps(Loaded(disk), call[p][Main].next)

(* mutate and save: seen as a register, the file is replaced by whole edits,
   each made from what it held, so no edit is lost (Shared.write: "two
   concurrent API calls cannot lose one another's edit"). *)
Register == INSTANCE ConfigFile WITH file <- Loaded(disk), Empty <- EmptyConfig
EditsAreAtomic == Register!Spec

(* main, save: whatever a process that stopped left behind, in particular a
   torn config.toml.tmp, once the faults are over it starts and stays up (if its
   flags validate). *)
ComesUpAgain == <>[](\A p \in Procs : stage[p] = "up")

(* mutate: when all processes are up and none edits, each runs what is on
   disk, at least in the section of the file that it alone edits. *)
Section(p, c) == IF p = "serve" THEN <<c.shared, c.peers>> ELSE <<c.bindings>>

OwnEditsStay ==
    (\A p \in Procs : stage[p] = "up" /\ lock[p] = {}) =>
        \A p \in Procs : Section(p, running[p]) = Section(p, Loaded(disk))
=============================================================================
