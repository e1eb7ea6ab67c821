------------------------------- MODULE Config -------------------------------
(***************************************************************************)
(* The configuration that both roles read live (src/src/config.rs), and    *)
(* the edits the admin API makes to it (src/src/admin.rs).                 *)
(*                                                                         *)
(* Lists stay lists, as in the file: a lookup takes the first match, an    *)
(* insertion appends and Validate is what rules duplicates out.  Display   *)
(* names are left out: nothing reads one.  An edit that the code rejects,  *)
(* in its closure or in `validate`, has no result.                         *)
(***************************************************************************)
EXTENDS Naturals, Sequences

Entries(list) == {list[i] : i \in DOMAIN list}

(* The entries at some positions of a list, in order. *)
Pick(list, positions) ==
    LET pick[i \in 0..Len(list)] ==
          IF i = 0 THEN <<>>
          ELSE IF i \in positions THEN Append(pick[i-1], list[i]) ELSE pick[i-1]
    IN  pick[Len(list)]

(* Where a list has its first entry under a key, if it has one. *)
FirstAt(list, key, Key(_)) ==
    {i \in DOMAIN list : /\ Key(list[i]) = key
                         /\ \A k \in 1..(i-1) : Key(list[k]) # key}

(* Every key occurs once in the list. *)
NoRepeat(list, Key(_)) ==
    \A i, j \in DOMAIN list : Key(list[i]) = Key(list[j]) => i = j

OfferKey(o) == <<o.proto, o.port>>
PeerKey(p) == p.id
BindingKey(b) == <<b.proto, b.local>>

NewOffer(key) == [proto |-> key[1], port |-> key[2], enabled |-> TRUE]
NewPeer(id) == [id |-> id, enabled |-> TRUE, offers |-> <<>>]
NewBinding(key, remote) ==
    [proto |-> key[1], local |-> key[2], remote |-> remote, enabled |-> TRUE]

(* What a missing file stands for. *)
EmptyConfig == [shared |-> <<>>, peers |-> <<>>, bindings |-> <<>>]

-----------------------------------------------------------------------------
(* Validation *)

CheckPort(port) == port # 0

ValidOffers(offers) ==
    /\ \A o \in Entries(offers) : CheckPort(o.port)
    /\ NoRepeat(offers, OfferKey)

Validate(c) ==
    /\ ValidOffers(c.shared)
    /\ \A p \in Entries(c.peers) : ValidOffers(p.offers)
    /\ NoRepeat(c.peers, PeerKey)
    /\ \A b \in Entries(c.bindings) : CheckPort(b.local) /\ CheckPort(b.remote)
    /\ NoRepeat(c.bindings, BindingKey)

-----------------------------------------------------------------------------
(* Queries *)

PeerAt(c, id) == FirstAt(c.peers, id, PeerKey)

Listed(c, id) == PeerAt(c, id) # {}

(* A parked entry is a remembered name, not a grant. *)
Admits(c, id) == \E i \in PeerAt(c, id) : c.peers[i].enabled

OwnOffers(c, id) == UNION {Entries(c.peers[i].offers) : i \in PeerAt(c, id)}

(* Ports peer id may reach.  Both callers turn the "unknown or parked" answer
   into the empty set. *)
Granted(c, id, proto) ==
    IF Admits(c, id)
    THEN {o.port : o \in {x \in Entries(c.shared) \cup OwnOffers(c, id) :
                            x.enabled /\ x.proto = proto}}
    ELSE {}

(* Their order is lost: nothing depends on it, no two share a key. *)
ActiveBindings(c) == {b \in Entries(c.bindings) : b.enabled}

-----------------------------------------------------------------------------
(* Command-line flags: entries under new keys are appended in turn, so a flag
   given twice adds one entry; an entry that exists is left alone. *)

AppendMissing(list, new, Key(_)) ==
    LET missing == {i \in DOMAIN new :
                      /\ \A x \in Entries(list) : Key(x) # Key(new[i])
                      /\ \A j \in 1..(i-1) : Key(new[j]) # Key(new[i])}
    IN  list \o Pick(new, missing)

SeedFromFlags_Rewrites(c, allow, offers) ==
    [c EXCEPT !.shared = offers, !.peers = allow]

(* offers: the entries of the --tcp flags, then those of the --udp flags *)
SeedFromFlags(c, allow, offers) ==
    [c EXCEPT !.shared = AppendMissing(@, offers, OfferKey),
              !.peers  = AppendMissing(@, allow, PeerKey)]

SeedBindings(c, bindings) ==
    [c EXCEPT !.bindings = AppendMissing(@, bindings, BindingKey)]

-----------------------------------------------------------------------------
(* The admin API's edits.  Each is the set of its possible results: one
   configuration, or none when the code answers with an error. *)

Accepted(c) == IF Validate(c) THEN {c} ELSE {}

(* An entry under a new key is appended; a key that is taken is an error. *)
Added(list, new, Key(_)) ==
    IF \E x \in Entries(list) : Key(x) = Key(new) THEN {} ELSE {Append(list, new)}

(* The first entry under key is rewritten; a key that is missing is an error. *)
Patched(list, key, Key(_), New(_)) ==
    {[list EXCEPT ![i] = New(list[i])] : i \in FirstAt(list, key, Key)}

(* Every entry under key is dropped; a key that is missing is an error. *)
Deleted(list, key, Key(_)) ==
    IF \E x \in Entries(list) : Key(x) = key
    THEN {Pick(list, {i \in DOMAIN list : Key(list[i]) # key})}
    ELSE {}

WithPeers(c, lists) == UNION {Accepted([c EXCEPT !.peers = l]) : l \in lists}

AddPeer(c, id) == WithPeers(c, Added(c.peers, NewPeer(id), PeerKey))

PatchPeer(c, id, on) ==
    WithPeers(c, Patched(c.peers, id, PeerKey, LAMBDA p : [p EXCEPT !.enabled = on]))

DelPeer(c, id) == WithPeers(c, Deleted(c.peers, id, PeerKey))

(* scope: the shared list, or the list of one peer.  EditList maps a list to
   the set of its possible new values. *)
SharedScope == "shared"

EditOffers(c, scope, EditList(_)) ==
    IF scope = SharedScope
    THEN UNION {Accepted([c EXCEPT !.shared = l]) : l \in EditList(c.shared)}
    ELSE UNION {UNION {Accepted([c EXCEPT !.peers[i].offers = l]) :
                          l \in EditList(c.peers[i].offers)} :
                i \in PeerAt(c, scope)}

AddOffer(c, scope, key) ==
    EditOffers(c, scope, LAMBDA l : Added(l, NewOffer(key), OfferKey))

PatchOffer(c, scope, key, on) ==
    EditOffers(c, scope,
        LAMBDA l : Patched(l, key, OfferKey, LAMBDA o : [o EXCEPT !.enabled = on]))

DelOffer(c, scope, key) ==
    EditOffers(c, scope, LAMBDA l : Deleted(l, key, OfferKey))

WithBindings(c, lists) == UNION {Accepted([c EXCEPT !.bindings = l]) : l \in lists}

AddBinding(c, key, remote) ==
    WithBindings(c, Added(c.bindings, NewBinding(key, remote), BindingKey))

PatchBinding(c, key, remote, on) ==
    WithBindings(c, Patched(c.bindings, key, BindingKey,
                            LAMBDA b : [b EXCEPT !.remote = remote, !.enabled = on]))

DelBinding(c, key) == WithBindings(c, Deleted(c.bindings, key, BindingKey))

-----------------------------------------------------------------------------
(* Every configuration one accepted edit can lead to, over the given names. *)

ServeEdits(c, peers, keys) ==
    LET ofPeers == {AddPeer(c, id) \cup DelPeer(c, id) : id \in peers}
                     \cup {PatchPeer(c, id, on) : id \in peers, on \in BOOLEAN}
        scopes == {SharedScope} \cup peers
        ofOffers == {AddOffer(c, s, k) \cup DelOffer(c, s, k) : s \in scopes, k \in keys}
                      \cup {PatchOffer(c, s, k, on) : s \in scopes, k \in keys, on \in BOOLEAN}
    IN  UNION (ofPeers \cup ofOffers)

ConnectEdits(c, keys, remotes) ==
    UNION ({DelBinding(c, k) : k \in keys}
           \cup {AddBinding(c, k, r) : k \in keys, r \in remotes}
           \cup {PatchBinding(c, k, r, on) : k \in keys, r \in remotes, on \in BOOLEAN})
=============================================================================
