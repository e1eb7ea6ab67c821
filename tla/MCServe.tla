------------------------------ MODULE MCServe ------------------------------
(* Instances of Serve for TLC. *)
EXTENDS Serve, TLC

CONSTANTS p1, c1, s1

OneConn == c1 :> p1

MCKeys == {<<"tcp", 1>>, <<"udp", 1>>, <<"udp", 2>>}
NoKeys == {}

(* p1 is admitted and may reach UDP port 1, through its own offers. *)
MCFirst ==
    [EmptyConfig EXCEPT !.peers = <<[NewPeer(p1) EXCEPT !.offers =
                                        <<NewOffer(<<"udp", 1>>)>>]>>]
=============================================================================
