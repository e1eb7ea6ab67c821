---------------------------- MODULE UdpSessions ----------------------------
(***************************************************************************)
(* The two UDP session tables: the connecting side's `Sessions`            *)
(* (src/src/connect.rs) and the serving side's `Sessions`                  *)
(* (src/src/serve.rs), as records and functions.                           *)
(*                                                                         *)
(* Time is reduced to what the reapers test: an entry is idle once 60 s    *)
(* (UDP_IDLE) have passed since `last`, and every use makes it busy again. *)
(***************************************************************************)
EXTENDS Naturals, Functions

CONSTANT IdSpace      \* number of session ids, 2^32 in the code

ASSUME IdSpaceAssumption == IdSpace \in Nat \ {0}

Ids == 0..(IdSpace - 1)

NoEntries == [x \in {} |-> x]

(* HashMap::insert *)
With(table, k, entry) ==
    [x \in DOMAIN table \cup {k} |-> IF x = k THEN entry ELSE table[x]]

(* HashMap::retain *)
Retain(table, Keep(_)) == Restrict(table, {x \in DOMAIN table : Keep(table[x])})

(* Refresh the idle timer of id, if there is such a session. *)
Touch(table, id) ==
    IF id \in DOMAIN table THEN [table EXCEPT ![id].idle = FALSE] ELSE table

(* 60 s of silence have passed on id. *)
Silence(table, id) == [table EXCEPT ![id].idle = TRUE]

ReapIdle(table) == Retain(table, LAMBDA s : ~s.idle)

-----------------------------------------------------------------------------
(* Serving side: id -> [port, idle] *)

(* Mutant: the sessions are left to the idle timer. *)
DropUngranted_None(table, granted) == table

DropUngranted(table, granted) == Retain(table, LAMBDA s : s.port \in granted)

-----------------------------------------------------------------------------
(* Connecting side: by_key maps (source, target port) to an id, by_id maps an
   id to the source and the listener its replies go back through. *)

NewSessions == [by_key |-> NoEntries, by_id |-> NoEntries, next_id |-> 0]

Known(t, key) == key \in DOMAIN t.by_key

(* Mutant: the id is read before the increment. *)
NextId_PostIncrement(t) == t.next_id

(* Mutant: the first id that is free. *)
NextId_Reused(t) == CHOOSE id \in Ids \ {0} :
    /\ id \notin DOMAIN t.by_id
    /\ \A i \in 1..(id - 1) : i \in DOMAIN t.by_id

(* The increment wraps in a release build. *)
NextId(t) == (t.next_id + 1) % IdSpace

(* The id that id_for answers. *)
IdFor(t, key) ==
    IF Known(t, key) THEN t.by_key[key] ELSE NextId(t)

(* The table after id_for.  A known key finds its by_id entry with unwrap. *)
AfterIdFor(t, key, sock) ==
    IF Known(t, key)
    THEN [t EXCEPT !.by_id[t.by_key[key]].idle = FALSE]
    ELSE LET id == IdFor(t, key)
         IN  [by_key  |-> With(t.by_key, key, id),
              by_id   |-> With(t.by_id, id, [src |-> key[1], sock |-> sock,
                                             idle |-> FALSE]),
              next_id |-> id]

(* Mutant: the keys of reaped ids stay. *)
ReapBoth_KeepsKeys(t) == [t EXCEPT !.by_id = ReapIdle(@)]

ReapBoth(t) ==
    LET left == ReapIdle(t.by_id)
        kept == {k \in DOMAIN t.by_key : t.by_key[k] \in DOMAIN left}
    IN  [t EXCEPT !.by_id = left, !.by_key = Restrict(@, kept)]
=============================================================================
