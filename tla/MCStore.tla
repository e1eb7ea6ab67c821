------------------------------ MODULE MCStore ------------------------------
(***************************************************************************)
(* Constants for checking Store: one peer, one offered port, one binding.  *)
(***************************************************************************)
EXTENDS Store

CONSTANTS p1, w1, w2

Key == <<"tcp", 22>>
Remote == 22

AtMostOne(S) == {<<>>} \cup {<<x>> : x \in S}

OfferLists == AtMostOne({[NewOffer(Key) EXCEPT !.enabled = on] : on \in BOOLEAN})

(* Only a role that runs here has entries in its section. *)
MCConfigs ==
    {c \in [shared : OfferLists,
            peers : AtMostOne([id : {p1}, enabled : BOOLEAN, offers : OfferLists]),
            bindings : AtMostOne({[NewBinding(Key, Remote) EXCEPT !.enabled = on] :
                                      on \in BOOLEAN})] :
        /\ "serve" \in Procs \/ c.shared \o c.peers = <<>>
        /\ "connect" \in Procs \/ c.bindings = <<>>}

MCEdits(p, c) ==
    IF p = "serve" THEN ServeEdits(c, {p1}, {Key}) ELSE ConnectEdits(c, {Key}, {Remote})

(* rtun serve --allow p1 --tcp 22, and rtun connect --tcp 22:22 *)
MCSeeded(p, c) ==
    IF p = "serve" THEN SeedFromFlags(c, <<NewPeer(p1)>>, <<NewOffer(Key)>>)
    ELSE SeedBindings(c, <<NewBinding(Key, Remote)>>)
=============================================================================
