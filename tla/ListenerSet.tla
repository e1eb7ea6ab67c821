---------------------------- MODULE ListenerSet ----------------------------
(***************************************************************************)
(* What the connecting role promises of its local listeners                *)
(* (src/src/connect.rs): they follow the configuration, and following it   *)
(* never closes a listener that is still wanted, whatever the link does.   *)
(* Connect.tla is checked and proved to implement it.                      *)
(***************************************************************************)
VARIABLES
    wanted,      \* the configuration: local key -> remote port
    offered,     \* the listeners: local key -> remote port
    over         \* the process has ended

vars == <<wanted, offered, over>>

Nothing == [k \in {} |-> k]

Init == offered = Nothing /\ over = FALSE

(* The configuration is edited to whatever it is edited to. *)
Edit == UNCHANGED <<offered, over>>

(* The listeners catch up with it, except where a port cannot be bound. *)
Follow ==
    /\ ~over
    /\ \E D \in SUBSET DOMAIN wanted :
          /\ DOMAIN offered \cap DOMAIN wanted \subseteq D
          /\ offered' = [k \in D |-> wanted[k]]
    /\ UNCHANGED <<wanted, over>>

End ==
    /\ over' = TRUE /\ offered' = Nothing
    /\ UNCHANGED wanted

Next == Edit \/ Follow \/ End

Spec == Init /\ [][Next]_vars
=============================================================================
