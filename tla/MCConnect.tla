----------------------------- MODULE MCConnect -----------------------------
(* Instances of Connect for TLC. *)
EXTENDS Connect

CONSTANT x1

SSH == <<"tcp", 1>>
DNS == <<"udp", 1>>
MCKeys == {SSH, DNS}
Ssh == {SSH}
Dns == {DNS}

(* Only the first binding is retargeted. *)
MCConfigs ==
    LET entries == {[NewBinding(k[1], k[2]) EXCEPT !.enabled = on] :
                      k \in {<<SSH, 11>>, <<SSH, 12>>, <<DNS, 11>>}, on \in BOOLEAN}
        lists == {<<>>} \cup {<<a>> : a \in entries}
                    \cup {<<a, b>> : a \in entries, b \in entries}
    IN  {[EmptyConfig EXCEPT !.bindings = l] :
            l \in {x \in lists : NoRepeat(x, BindingKey)}}

(* One binding is active, the other is parked. *)
MCFirst ==
    [EmptyConfig EXCEPT !.bindings = <<NewBinding(SSH, 11),
                                      [NewBinding(DNS, 11) EXCEPT !.enabled = FALSE]>>]

MCEdits(c) == ConnectEdits(c, {SSH}, {11, 12}) \cup ConnectEdits(c, {DNS}, {11})
=============================================================================
