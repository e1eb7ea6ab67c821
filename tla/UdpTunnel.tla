----------------------------- MODULE UdpTunnel -----------------------------
(***************************************************************************)
(* UDP end to end over one connection: the forwarders of the connecting    *)
(* side (src/src/connect.rs) with their session table, the datagrams in    *)
(* flight, the serving side's sessions with their reply tasks              *)
(* (src/src/serve.rs), and the local services.                             *)
(*                                                                         *)
(* A config edit that changes any listener, TCP or UDP, respawns the       *)
(* forwarders with a new, empty table: a generation.  The tasks of the     *)
(* old one go on until their abort takes effect.  Every port is granted    *)
(* here; module Serve is about grants.                                     *)
(***************************************************************************)
EXTENDS UdpSessions, FiniteSets

CONSTANTS
    Sources,       \* local sockets of client programs
    Locals,        \* local UDP ports that may be bound
    Uses,          \* which source sends to which local port
    Remotes,       \* UDP ports of services on the serving machine
    FirstBound,    \* the listeners bound at first, local port to remote port
    LaterBounds,   \* the listeners edits may lead to
    MaxGen,        \* bound on the generations of forwarders
    MaxOpened,     \* bound on the ids one generation mints
    MaxInFlight,   \* bound on the datagrams in flight, each way
    MayFallSilent, \* the sides on which 60 s may pass without a use of a session
    MayStop        \* the services that may stop and start again

ASSUME UdpTunnelAssumption ==
    /\ MaxGen \in Nat \ {0}
    /\ MaxOpened \in Nat /\ MaxOpened < IdSpace
    /\ MaxInFlight \in Nat
    /\ MayFallSilent \subseteq {"client", "server"}
    /\ Uses \subseteq Sources \X Locals
    /\ MayStop \subseteq Remotes
    /\ {FirstBound} \cup LaterBounds \subseteq UNION {[L -> Remotes] : L \in SUBSET Locals}

Gens == 1..MaxGen
MintedIds == 1..MaxOpened
Bounds == UNION {[L -> Remotes] : L \in SUBSET Locals}

VARIABLES
    gen,         \* the current generation
    maps,        \* per generation, the PortMaps its pumps were spawned with
    running,     \* generations with tasks that are not cancelled yet
    tables,      \* per generation, the connecting side's Sessions
    toServe,     \* datagrams on their way to the serving side
    toClient,    \* datagrams on their way back
    server,      \* the serving side's sessions, by id
    up,          \* per service, whether it is running
    handed       \* the answers the last step handed to client programs

clientVars == <<gen, maps, running, tables>>
vars == <<clientVars, toServe, toClient, server, up, handed>>

(* What a datagram carries, as the client program means it: who asks, through
   which local port, for which service.  gen is the generation that sent it. *)
Flow == [src : Sources, local : Locals, remote : Remotes, gen : Gens]
Datagram == [id : MintedIds, port : Remotes, flow : Flow]

(* An answer handed to a client program: to whom, from which local port. *)
Delivery == [to : Sources, local : Locals, flow : Flow]

Forwarders(b, g) == IF DOMAIN b = {} THEN {} ELSE {g}

Init ==
    /\ gen = 1
    /\ maps = [g \in Gens |-> IF g = 1 THEN FirstBound ELSE NoEntries]
    /\ running = Forwarders(FirstBound, 1)
    /\ tables = [g \in Gens |-> NewSessions]
    /\ toServe = {} /\ toClient = {}
    /\ server = NoEntries
    /\ up = [p \in Remotes |-> TRUE]
    /\ handed = {}

-----------------------------------------------------------------------------
(* The connecting side *)

(* Mutant: one session per source, whatever it talks to. *)
SessionKey_SourceOnly(src, port) == <<src, CHOOSE p \in Remotes : TRUE>>

(* Mutant: one session per port, whoever sends. *)
SessionKey_PortOnly(src, port) == <<CHOOSE s \in Sources : TRUE, port>>

SessionKey(src, port) == <<src, port>>

(* pump_udp_out: a client program's datagram is read, given its id and sent. *)
ForwardOut(g, src, local) ==
    /\ g \in running /\ local \in DOMAIN maps[g] /\ <<src, local>> \in Uses
    /\ LET port == maps[g][local]
           key == SessionKey(src, port)
           flow == [src |-> src, local |-> local, remote |-> port, gen |-> g]
       IN  /\ Known(tables[g], key) \/ tables[g].next_id < MaxOpened
           /\ toServe' = toServe \cup
                 {[id |-> IdFor(tables[g], key), port |-> port, flow |-> flow]}
           /\ tables' = [tables EXCEPT ![g] = AfterIdFor(@, key, local)]
    /\ Cardinality(toServe') <= MaxInFlight
    /\ UNCHANGED <<gen, maps, running, toClient, server, up>> /\ handed' = {}

(* reply_route: the sessions a reply with this id goes to, one or none. *)
Route(table, id) == IF id \in DOMAIN table THEN {table[id]} ELSE {}

(* pump_udp_in of whichever generation reads it: routed by id alone, dropped
   when the id is not in the table. *)
DeliverBack(g, d) ==
    /\ g \in running /\ d \in toClient
    /\ toClient' = toClient \ {d}
    /\ tables' = [tables EXCEPT ![g].by_id = Touch(@, d.id)]
    /\ handed' = {[to |-> s.src, local |-> s.sock, flow |-> d.flow] :
                     s \in Route(tables[g].by_id, d.id)}
    /\ UNCHANGED <<gen, maps, running, toServe, server, up>>

(* run: reconcile reports a change, the forwarders are aborted and respawned.
   Edits to several bindings may have been coalesced, and an edit to a TCP one
   leaves the UDP listeners as they were. *)
Respawn(b) ==
    /\ gen < MaxGen
    /\ gen' = gen + 1
    /\ maps' = [maps EXCEPT ![gen + 1] = b]
    /\ running' = running \cup Forwarders(b, gen + 1)
    /\ UNCHANGED <<tables, toServe, toClient, server, up>> /\ handed' = {}

(* The abort of an old generation's tasks takes effect; with the last of them
   goes their table. *)
Cancelled(g) ==
    /\ g \in running /\ g < gen
    /\ running' = running \ {g}
    /\ tables' = [tables EXCEPT ![g] = NewSessions]
    /\ UNCHANGED <<gen, maps, toServe, toClient, server, up>> /\ handed' = {}

ClientReap(g) ==
    /\ g \in running
    /\ tables' = [tables EXCEPT ![g] = ReapBoth(@)]
    /\ UNCHANGED <<gen, maps, running, toServe, toClient, server, up>> /\ handed' = {}

ClientSilence(g, id) ==
    /\ "client" \in MayFallSilent /\ id \in DOMAIN tables[g].by_id
    /\ tables' = [tables EXCEPT ![g].by_id = Silence(@, id)]
    /\ UNCHANGED <<gen, maps, running, toServe, toClient, server, up>> /\ handed' = {}

-----------------------------------------------------------------------------
(* The serving side *)

(* pump: the reply task lives.  err: the kernel holds a "port unreachable"
   for the next call on the socket.  heard: the flows whose datagrams the
   service has received on this session's socket.  gen: who opened it. *)
Opened(d) == [port |-> d.port, idle |-> FALSE, pump |-> TRUE, err |-> FALSE,
              heard |-> {}, gen |-> d.flow.gen]

(* sock.send on a connected socket: it reports a pending error instead of
   sending; to a stopped service it succeeds and the error comes back. *)
Sent(s, flow) ==
    CASE s.err -> [s EXCEPT !.idle = FALSE, !.err = FALSE]
      [] ~s.err /\ up[s.port] -> [s EXCEPT !.idle = FALSE, !.heard = @ \cup {flow}]
      [] ~s.err /\ ~up[s.port] -> [s EXCEPT !.idle = FALSE, !.err = TRUE]

SessionOf(d) == IF d.id \in DOMAIN server THEN server[d.id] ELSE Opened(d)

(* pump_udp: a known id goes to its session, whatever port the datagram
   names; an unknown one opens a session on that port. *)
DeliverOut(d) ==
    /\ d \in toServe
    /\ toServe' = toServe \ {d}
    /\ server' = With(server, d.id, Sent(SessionOf(d), d.flow))
    /\ UNCHANGED <<clientVars, toClient, up>> /\ handed' = {}

(* open_session fails: the datagram is dropped. *)
OpenFails(d) ==
    /\ d \in toServe /\ d.id \notin DOMAIN server
    /\ toServe' = toServe \ {d}
    /\ UNCHANGED <<clientVars, toClient, server, up>> /\ handed' = {}

(* pump_replies: the service answers a flow it has heard on this socket; after
   is what that leaves of the sessions. *)
ReplyOn(id, flow, after) ==
    /\ id \in DOMAIN server
    /\ server[id].pump /\ flow \in server[id].heard
    /\ toClient' = toClient \cup {[id |-> id, port |-> server[id].port, flow |-> flow]}
    /\ Cardinality(toClient') <= MaxInFlight
    /\ server' = after
    /\ UNCHANGED <<clientVars, toServe, up>> /\ handed' = {}

(* Mutant: the task serves one reply and returns. *)
ReplyBack_Once(id, flow) ==
    ReplyOn(id, flow, [server EXCEPT ![id].pump = FALSE, ![id].idle = FALSE])

ReplyBack(id, flow) == ReplyOn(id, flow, Touch(server, id))

(* pump_replies: recv reports the pending error and the task returns; the
   session stays in the table.  Whether the error alone wakes the task is the
   platform's choice, so this may happen and need not. *)
ReplyTaskEnds(id) ==
    /\ id \in DOMAIN server
    /\ server[id].pump /\ server[id].err
    /\ server' = [server EXCEPT ![id] = [@ EXCEPT !.pump = FALSE, !.err = FALSE]]
    /\ UNCHANGED <<clientVars, toServe, toClient, up>> /\ handed' = {}

ServerReap ==
    /\ server' = ReapIdle(server)
    /\ UNCHANGED <<clientVars, toServe, toClient, up>> /\ handed' = {}

ServerSilence(id) ==
    /\ "server" \in MayFallSilent /\ id \in DOMAIN server
    /\ server' = Silence(server, id)
    /\ UNCHANGED <<clientVars, toServe, toClient, up>> /\ handed' = {}

-----------------------------------------------------------------------------
(* The network and the services *)

Lose(d) ==
    /\ \/ d \in toServe /\ toServe' = toServe \ {d} /\ UNCHANGED toClient
       \/ d \in toClient /\ toClient' = toClient \ {d} /\ UNCHANGED toServe
    /\ UNCHANGED <<clientVars, server, up>> /\ handed' = {}

(* A service that stops forgets whom it has heard. *)
ServiceStops(p) ==
    /\ up[p]
    /\ up' = [up EXCEPT ![p] = FALSE]
    /\ server' = [id \in DOMAIN server |->
                    IF server[id].port = p THEN [server[id] EXCEPT !.heard = {}]
                                           ELSE server[id]]
    /\ UNCHANGED <<clientVars, toServe, toClient>> /\ handed' = {}

ServiceStarts(p) ==
    /\ ~up[p]
    /\ up' = [up EXCEPT ![p] = TRUE]
    /\ UNCHANGED <<clientVars, toServe, toClient, server>> /\ handed' = {}

-----------------------------------------------------------------------------
ClientNext ==
    \/ \E g \in Gens, s \in Sources, l \in Locals : ForwardOut(g, s, l)
    \/ \E g \in Gens, d \in toClient : DeliverBack(g, d)
    \/ \E b \in LaterBounds : Respawn(b)
    \/ \E g \in Gens : Cancelled(g) \/ ClientReap(g)
    \/ \E g \in Gens, id \in Ids : ClientSilence(g, id)

ServerNext ==
    \/ \E d \in toServe : DeliverOut(d) \/ OpenFails(d)
    \/ \E id \in DOMAIN server : \E f \in server[id].heard : ReplyBack(id, f)
    \/ \E id \in Ids : ReplyTaskEnds(id) \/ ServerSilence(id)
    \/ ServerReap

OutsideNext ==
    \/ \E d \in toServe \cup toClient : Lose(d)
    \/ \E p \in MayStop : ServiceStops(p) \/ ServiceStarts(p)

Next == ClientNext \/ ServerNext \/ OutsideNext

Spec == Init /\ [][Next]_vars

(* What the programs send through the first generation's listeners. *)
FirstFlows ==
    {[src |-> u[1], local |-> u[2], remote |-> FirstBound[u[2]], gen |-> 1] :
        u \in {v \in Uses : v[2] \in DOMAIN FirstBound}}

(* The network loses datagrams, not all of them; tasks that can run do; client
   programs go on asking; services that are up answer, and not always more
   than 60 s late. *)
Fairness ==
    \A f \in FirstFlows :
        /\ WF_vars(ForwardOut(1, f.src, f.local))
        /\ SF_vars(\E d \in toServe : d.flow = f /\ DeliverOut(d))
        /\ SF_vars(\E d \in toClient : d.flow = f /\ DeliverBack(1, d))
        /\ SF_vars(\E id \in DOMAIN server : ReplyBack(id, f))

FairSpec == Spec /\ Fairness

-----------------------------------------------------------------------------
(* Properties *)

KeyTable == UNION {[D -> MintedIds] : D \in SUBSET (Sources \X Remotes)}
RouteTable == UNION {[D -> [src : Sources, sock : Locals, idle : BOOLEAN]] :
                       D \in SUBSET MintedIds}
Tables == [by_key : KeyTable, by_id : RouteTable, next_id : 0..MaxOpened]
Session == [port : Remotes, idle : BOOLEAN, pump : BOOLEAN, err : BOOLEAN,
            heard : SUBSET Flow, gen : Gens]

(* Types; ids are minted within their bound, from 1 on. *)
TypeOK ==
    /\ gen \in Gens /\ running \subseteq 1..gen
    /\ maps \in [Gens -> Bounds]
    /\ tables \in [Gens -> Tables]
    /\ toServe \subseteq Datagram /\ toClient \subseteq Datagram
    /\ DOMAIN server \subseteq MintedIds /\ server \in [DOMAIN server -> Session]
    /\ up \in [Remotes -> BOOLEAN]
    /\ handed \subseteq Delivery

(* Sessions: by_key and by_id stay two views of one relation across minting
   and reaping, so the unwrap in id_for finds its entry and no two sessions
   share an id. *)
TablesAgree ==
    \A g \in Gens :
        LET t == tables[g]
        IN  /\ Range(t.by_key) = DOMAIN t.by_id
            /\ \A k \in DOMAIN t.by_key : t.by_id[t.by_key[k]].src = k[1]
            /\ \A k1, k2 \in DOMAIN t.by_key : t.by_key[k1] = t.by_key[k2] => k1 = k2

(* Within one generation of forwarders a reply can only be routed to the local
   program that asked, whatever was reaped on either side in the meantime and
   however late the reply is. *)
RepliesFindTheirSource ==
    \A d \in toClient :
        LET g == d.flow.gen
        IN  g \in running /\ d.id \in DOMAIN tables[g].by_id
                => /\ tables[g].by_id[d.id].src = d.flow.src
                   /\ maps[g][tables[g].by_id[d.id].sock] = d.flow.remote

(* A session delivers the payloads of the generation that opened it to the
   port they are for, although pump_udp never compares the port a datagram
   names with the port of the session its id selects. *)
PayloadsReachTheirPort ==
    \A id \in DOMAIN server : \A f \in server[id].heard :
        f.gen = server[id].gen => f.remote = server[id].port

(* "The u32 id is what lets a reply find its way back to the right local
   process." *)
EveryAnswerReachesItsAsker == \A a \in handed : a.to = a.flow.src

(* Source s has just been handed an answer to what it sent through port l. *)
Answered(s, l) == \E a \in handed : a.to = s /\ a.flow.src = s /\ a.flow.local = l

(* A client program that goes on asking a service that is up is answered again
   and again, over a link that loses datagrams and through sessions that the
   serving side reaps. *)
RetriesAreAnswered ==
    \A s \in Sources, l \in DOMAIN FirstBound :
        <<s, l>> \in Uses /\ FirstBound[l] \notin MayStop => []<>Answered(s, l)

(* "Retried because the far listener may still be coming up": once the service
   is up for good, who goes on asking is answered. *)
RestartedServiceAnswers ==
    \A s \in Sources, l \in DOMAIN FirstBound : <<s, l>> \in Uses =>
        (<>[]up[FirstBound[l]] => []<>Answered(s, l))

(* With one generation of forwarders the tables and ids amount to the relay of
   UdpService. *)
Service == INSTANCE UdpService WITH
    Flows      <- Flow,
    Deliveries <- Delivery,
    requests   <- {d.flow : d \in toServe},
    heard      <- UNION {{[port |-> server[id].port, flow |-> f] : f \in server[id].heard} :
                           id \in DOMAIN server},
    answers    <- {d.flow : d \in toClient},
    handed     <- handed

ServesAsPromised == Service!Spec
=============================================================================
