-------------------------------- MODULE Link --------------------------------
(***************************************************************************)
(* The two roles and the connections between them: one machine that        *)
(* connects (Connect, without listeners) and one that serves (Serve).      *)
(*                                                                         *)
(* Each side has its own view of a connection.  A side that closes it      *)
(* tells the other, unless the network fails first; then the other side    *)
(* finds out by its timeout, and meanwhile the connecting side may dial    *)
(* again while the serving side still serves the old connection.  The      *)
(* serving process may also be stopped and started again.  What is opened  *)
(* on a connection is Serve's alone and does not move here.                *)
(***************************************************************************)
EXTENDS Serve

CONSTANTS
    Me,              \* the endpoint id of the connecting machine
    MaxConn          \* bound on the number of connections

VARIABLES
    phase, conn,     \* Connect: where `run` is, its newest connection
    near,            \* Connect: what it knows of each connection
    overlapped       \* history: connections that were being served when
                     \* another one of the same peer was torn down

nearVars == <<phase, conn, near>>
allVars == <<vars, nearVars, overlapped>>

NoEdits(c) == {}

(* cfg is EmptyConfig, in a form of which TLC can evaluate UNCHANGED. *)
Near == INSTANCE Connect WITH
    Keys <- {}, Remotes <- {}, Configs <- {EmptyConfig}, FirstConfig <- EmptyConfig,
    Edits <- NoEdits, MaxVersion <- 0, BackoffMax <- 1,
    Clients <- {}, Contested <- {}, MayFail <- {},
    cfg <- [EmptyConfig EXCEPT !.bindings = <<>>], ver <- 0, seen <- 0,
    bound <- <<>>, binds <- <<>>, foreign <- {}, delay <- 1,
    link <- near, tasks <- {}, client <- <<>>

ASSUME LinkAssumption ==
    MaxConn \in Nat /\ Me \in Peers /\ Conns = 1..MaxConn /\ \A c \in Conns : PeerOf[c] = Me

LinkInit == Init /\ Near!Init /\ overlapped = {}

-----------------------------------------------------------------------------
(* The connecting side on its own *)
NearRuns ==
    /\ Near!Subscribe \/ Near!Start \/ Near!DialFails \/ Near!Closed \/ Near!Retry
    /\ UNCHANGED <<vars, overlapped>>

(* Bound: the last connection is not lost, so that the model does not run out
   of connections. *)
MayBeLost(c) == c < MaxConn

(* It learns that the other side closed the connection... *)
NearIsTold(c) ==
    /\ link[c] \in {"refused", "revoked"}
    /\ Near!LinkEnds(c, "closed")
    /\ UNCHANGED <<vars, overlapped>>

(* ...or hears nothing any more. *)
NearTimesOut(c) ==
    /\ MayBeLost(c)
    /\ Near!LinkEnds(c, "lost")
    /\ UNCHANGED <<vars, overlapped>>

-----------------------------------------------------------------------------
(* Both: the handshake *)
Dial ==
    /\ Near!Dialed /\ Handshake(conn + 1)
    /\ UNCHANGED overlapped

-----------------------------------------------------------------------------
(* The serving side *)
FarTimesOut(c) ==
    /\ MayBeLost(c)
    /\ Lost(c)
    /\ UNCHANGED <<nearVars, overlapped>>

FarEnds(c) ==
    /\ Teardown(c)
    /\ overlapped' = overlapped \cup
         {d \in Conns \ {c} : task[d] = "serving" /\ PeerOf[d] = PeerOf[c]}
    /\ UNCHANGED nearVars

FarRuns ==
    /\ \/ Mutate
       \/ \E c \in Conns : Admit(c) \/ Register(c) \/ EvictNext(c)
    /\ UNCHANGED <<nearVars, overlapped>>

(* The serving process is stopped and started again. *)
FarRestarts ==
    /\ conn \in Conns /\ MayBeLost(conn) /\ link[conn] = "open"
    /\ Restart
    /\ UNCHANGED <<nearVars, overlapped>>

LinkNext ==
    \/ NearRuns \/ Dial \/ FarRuns \/ FarRestarts
    \/ \E c \in Conns : NearIsTold(c) \/ NearTimesOut(c) \/ FarTimesOut(c) \/ FarEnds(c)

LinkSpec == LinkInit /\ [][LinkNext]_allVars

(* Serve's fairness; the connecting side is polled; a side whose other side is
   gone finds out; a dial to a machine that is there succeeds some time. *)
LinkFairness ==
    /\ \A c \in Conns :
         /\ WF_allVars(Admit(c) /\ UNCHANGED <<nearVars, overlapped>>)
         /\ WF_allVars(Register(c) /\ UNCHANGED <<nearVars, overlapped>>)
         /\ WF_allVars(FarEnds(c))
         /\ WF_allVars((EvictSubscribe(c) \/ EvictWake(c))
                          /\ UNCHANGED <<nearVars, overlapped>>)
         /\ WF_allVars(near[c] # "open" /\ FarTimesOut(c))
         /\ WF_allVars(NearIsTold(c) \/ (link[c] # "open" /\ NearTimesOut(c)))
    /\ \A s \in Streams :
         WF_allVars((StreamConnected(s) \/ StreamFails(s))
                       /\ UNCHANGED <<nearVars, overlapped>>)
    /\ WF_allVars(NearRuns) /\ SF_allVars(Dial)

FairLinkSpec == LinkSpec /\ LinkFairness

-----------------------------------------------------------------------------
(* Properties *)

(* connect.rs, serve.rs: the connecting process gives up only when the serving
   side refused or revoked it; no lost link, restart or timeout does that. *)
OnlyRefusalEndsNear ==
    phase = "exited" => link[conn] \in {"refused", "revoked"}

(* peer_connected, peer_disconnected: exactly the peers that are served are shown
   as connected, but for those of which each connection that is served was
   there when another one ended. *)
ShownUnlessOverlapped ==
    live = {PeerOf[c] : c \in {d \in Conns : task[d] = "serving" /\ d \notin overlapped}}

(* Whatever is lost or restarted, a machine that is admitted for good ends up
   served over its newest connection, unless it gave up when it was not. *)
AdmittedPeerIsServed ==
    <>[](Admits(cfg, Me)) =>
        \/ <>(phase = "exited")
        \/ <>[](phase = "up" /\ task[conn] = "serving")

(* A machine that is not admitted any more gives up in the end, unless the
   revocation came between an admission and its watcher's subscription. *)
RevokedPeerGivesUp ==
    <>[](~Admits(cfg, Me)) /\ [](\A c \in Conns : ~gap[c]) => <>(phase = "exited")
=============================================================================
