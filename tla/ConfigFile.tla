----------------------------- MODULE ConfigFile -----------------------------
(***************************************************************************)
(* What `config.toml` promises (src/src/state.rs, src/src/config.rs): a    *)
(* register that every accepted edit and every start with command-line     *)
(* flags replaces in one step, computed from what it held.  Store.tla is   *)
(* checked and, for one process, proved to implement it.                   *)
(***************************************************************************)
CONSTANTS Procs, Empty, Edits(_, _), Seeded(_, _)
VARIABLE file

Init == file = Empty

(* An edit accepted by the process p. *)
Edit(p) == file' \in Edits(p, file)

(* The process p starts. *)
Seed(p) == file' = Seeded(p, file)

Next == \E p \in Procs : Edit(p) \/ Seed(p)

Spec == Init /\ [][Next]_file
=============================================================================
