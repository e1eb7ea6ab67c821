------------------------------- MODULE MCLink -------------------------------
(* Instances of Link for TLC. *)
EXTENDS Link

CONSTANT p1

MCPeerOf == [c \in 1..MaxConn |-> p1]
MCFirst == [EmptyConfig EXCEPT !.peers = <<NewPeer(p1)>>]
=============================================================================
