----------------------------- MODULE UdpService -----------------------------
(***************************************************************************)
(* What the UDP half of a tunnel promises, without sessions or ids: a      *)
(* lossy, duplicating relay.  A request reaches only the service it is     *)
(* for, and an answer reaches only the program that asked, after the       *)
(* service heard the request.  A service may forget whom it heard.         *)
(***************************************************************************)
CONSTANTS Flows,       \* who asks, through which local port, for which service
          Deliveries   \* the answers a client program may be handed

VARIABLES requests, heard, answers, handed

vars == <<requests, heard, answers, handed>>

Init == requests = {} /\ heard = {} /\ answers = {} /\ handed = {}

Ask(f) ==
    /\ requests' = requests \cup {f}
    /\ UNCHANGED <<heard, answers>> /\ handed' = {}

(* The request reaches its service, and no other. *)
Hear(f) ==
    /\ f \in requests
    /\ requests' \in {requests, requests \ {f}}
    /\ heard' = heard \cup {[port |-> f.remote, flow |-> f]}
    /\ UNCHANGED answers /\ handed' = {}

Answer(f) ==
    /\ [port |-> f.remote, flow |-> f] \in heard
    /\ answers' = answers \cup {f}
    /\ UNCHANGED <<requests, heard>> /\ handed' = {}

(* The answer is handed to the program that asked. *)
Deliver(d) ==
    /\ d.flow \in answers /\ d.to = d.flow.src
    /\ answers' \in {answers, answers \ {d.flow}}
    /\ handed' = {d}
    /\ UNCHANGED <<requests, heard>>

LoseAndForget ==
    /\ requests' \subseteq requests
    /\ heard' \subseteq heard
    /\ answers' \subseteq answers
    /\ handed' = {}

Next ==
    \/ \E f \in Flows : Ask(f) \/ Hear(f) \/ Answer(f)
    \/ \E d \in Deliveries : Deliver(d)
    \/ LoseAndForget

Spec == Init /\ [][Next]_vars
=============================================================================
