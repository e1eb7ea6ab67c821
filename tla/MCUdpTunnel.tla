---------------------------- MODULE MCUdpTunnel ----------------------------
(* Instances of UdpTunnel for TLC. *)
EXTENDS UdpTunnel, TLC

CONSTANTS s1, s2

OneListener == 1 :> 11
TwoListeners == 1 :> 11 @@ 2 :> 12
Retargeted == 1 :> 12

OneLater == {OneListener}
RetargetedLater == {Retargeted}

AllUses == Sources \X Locals
SplitUses == {<<s1, 1>>, <<s2, 2>>}
MixedUses == {<<s1, 1>>, <<s1, 2>>, <<s2, 1>>}
=============================================================================
