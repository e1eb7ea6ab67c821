# rtun: a TLA+ specification

`rtun` forwards TCP and UDP ports between two machines over one QUIC
connection. This directory holds TLA+ modules of its code (`src/src/*.rs`), TLC
configurations that check them on small instances, and TLAPS proofs.

## Inventory

| Component | Source | State it keeps | Operations |
| --- | --- | --- | --- |
| Configuration | `config.rs` | shared offers, peers with their offers, bindings | validate, admits, granted, active bindings, seeding from flags, load, save |
| Shared state | `state.rs` | the published snapshot (a `watch` channel), the write lock, live peers and their path, bind states | `mutate`, subscribe, peer connected / disconnected / path, set / clear bind |
| Admin API | `admin.rs`, `admin/index.html` | none of its own (token, listener) | nine edit handlers over `mutate`, `get_state` |
| Serving role | `serve.rs` | per connection: the accept task, the eviction watcher, `pump_udp`, the reaper, the session table, the streams | admit or refuse, evict, serve a stream, open / touch / reap / drop a session, tear down |
| Connecting role | `connect.rs` | bound listeners, the connection, the retry delay, the forwarders and their session table | reconcile, dial, retry, forward, id_for / reply_route / reap |
| Wire format | `proto.rs` | none | port header of a stream, (id, port) header of a datagram |
| Start-up and path report | `main.rs` | secret key, token | load, seed, save, start; report the selected path |

The parts interact through the `watch` channel (every config change wakes the
connect loop, and per connection the eviction watcher and `pump_udp`), through
the runtime tables of `Shared` (written by both roles, read by the admin API),
through the file `config.toml` (read at start, replaced by every edit), and
through the QUIC connection: reliable streams for TCP, lossy and unordered
datagrams for UDP.

What is hard in this code, and listed line by line under "hazards" in
`PROJECT.json`: tasks that subscribe after they should have looked; grants read
before an await and used after it; aborts that do not wait, so that old
forwarders keep a port or take a client; two session tables, one on each side,
that forget independently; ids that start again; two views of one connection,
of which either may be lost first; files written by steps, possibly by two
processes.

For each component, what makes it correct:

- **Serving role**: a peer that is not admitted holds nothing; a grant that is
  withdrawn closes what was opened under it; everything spawned for a connection
  ends with it; the live table shows who is served.
- **UDP data path**: a payload reaches the port it is for and an answer the
  program that asked, whatever is lost, late or reaped; who goes on asking is
  answered.
- **Shared state and persistence**: no accepted edit is lost, no crash or failed
  write damages the file, and what runs is what is on disk.
- **Connecting role**: the listeners follow the configuration without disturbing
  each other, a lost link is retried, only a refusal ends the process, the UI
  tells what is bound, and who connects to a listener is served once a link stays.
- **Both roles together**: an admitted machine ends up served whatever is lost
  or restarted, a revoked one gives up.
- **Path report**: the path shown settles on that of the connection that stays.
- **Key and token**: one identity for good; the stored token is the one in use.
- **Configuration**: every reachable configuration validates; flags only add.

## Modules

| Module | What it is | Source |
| --- | --- | --- |
| `Config` | the configuration as data: validation, lookups, grants, flags and the nine admin edits as operators on configurations | `config.rs`, `admin.rs` |
| `UdpSessions` | the two session tables as pure operators, shared by the next two | `connect.rs`, `serve.rs` |
| `Serve` | the serving role: admission, watcher, streams, `pump_udp`, reaper, teardown, live table, config edits, restarts of the process | `serve.rs`, `state.rs` |
| `UdpService` | abstract: a lossy relay that answers only who asked | |
| `UdpTunnel` | UDP end to end over one connection: forwarders and table of the near side, datagrams in flight, sessions and reply tasks of the far side, services | `connect.rs`, `serve.rs` |
| `ConfigFile` | abstract: a register replaced by whole edits | |
| `Store` | `mutate`, `save`, `load` and start-up of one or two processes, step by step, with stops and failures | `state.rs`, `config.rs`, `main.rs` |
| `ListenerSet` | abstract: listeners that follow the configuration | |
| `Connect` | the connecting role: `run`, `reconcile`, bind states, forwarders and their aborts, retries, the local TCP programs and the ports that others hold | `connect.rs`, `state.rs` |
| `Link` | `Serve` and `Connect` over the connections between them: two views of each, lost links, restarts of the serving process | `serve.rs`, `connect.rs` |
| `PathReport` | `report_path` and its task against `peer_connected` and `peer_disconnected` of overlapping connections | `main.rs`, `state.rs` |
| `Secrets` | the key and the token of several processes that start together | `main.rs`, `config.rs` |
| `MCServe`, `MCUdpTunnel`, `MCStore`, `MCConnect`, `MCLink` | constants for TLC | |
| `ConfigProofs`, `ServeProofs`, `UdpProofs`, `StoreProofs`, `ConnectProofs`, `LinkProofs`, `PathProofs`, `SecretsProofs` | theorems | |

How state corresponds to the code. A tokio task is a program counter, and an action
runs from one await that can block to the next: in `Serve`, `task` is where `run` and
`serve_conn` are for a connection, `evict` where `evict_when_revoked` is, `pump`
where `pump_udp` is, `stream` where each `serve_stream` is. A `watch` receiver is the
version it has seen (`seenE`, `seenP`) against the channel's (`ver`); it wakes when
they differ, reads the newest snapshot and marks it seen, so edits coalesce.
`Mutex`-guarded tables change in one step, because no code awaits while it holds one.
Time is left out: a session that was used is not idle, 60 s of silence may set `idle`
at any moment, and the sweep (`Reap`, `ClientReap`, `ServerReap`) drops idle entries.
`buffered` is what a connection has received and `pump_udp` has not read:
`read_datagram` hands that out after the connection closed too, and only then the
error, as `accept_bi` does with streams. In `UdpTunnel` a generation is one call of
`spawn_forwarders`: its `PortMap`s, its table and its tasks, of which the old ones
may run on until their abort takes effect (`Cancelled`). In `Store`, `fs::write` is
two steps (the open truncates, then the bytes go where the opened file is by now),
and `rename` and `send_replace` are one each. Flags that do not validate (`rtun serve
--tcp 0`) end a start before anything is written, so they are no step.

In `Connect`, `phase` is where `run` is; `bound` is `Listeners.bound` and `binds`
`Runtime.binds`. `reconcile` is one step, as no await in it can block. A
forwarder is a member of `tasks` with the connection and the remote port it was
given; `abort` only marks it, and it holds its socket (and may accept) until
`Cancelled`, although `connect.rs:65` says that "dropping the Arc closes the
socket". A port is free when neither a listener, nor such a forwarder, nor another
program (`foreign`) has it. `Link` takes the actions of both roles: `link` is the
serving side's view of a connection and `near` the connecting side's; a close
reaches the other side (`NearIsTold`) or the network fails first
(`NearTimesOut`). No code handles a signal or closes the endpoint, so a serving
process that stops (`Restart` in `Serve`, `FarRestarts` in `Link`) is noticed by
timeout only; it is started again without flags (what flags do is in `Store`), and
the versions, which nobody who saw one survives, go on counting. What is opened on
a connection (`PumpNext`, `StreamNext`) does not move in `Link`. In `PathReport`
the two roles differ in the order of two calls (`serve.rs:66-67`,
`connect.rs:155-156`) and in whether connections overlap. In `Secrets` a file is
missing, empty (created, not yet written) or whole; the Unix `write_key` is modelled,
and `CreateKey_Truncates` is what `fs::write` (`main.rs:170`) does in other builds.

An operator named after
another with a suffix (`Begin_Unlocked`, `NextId_Reused`, ...) is a faulty variant of
it, kept to confirm that a property can fail; no specification uses one.

## Checked by TLC

| Run | Instance | Shows |
| --- | --- | --- |
| `serve_grants` | one peer, one connection, one stream, two UDP ports, two ids, two edits, one datagram received ahead, restarts | a subscribed watcher cannot miss a revocation, and the peer then loses its connection and streams; after a grant is withdrawn `pump_udp` always has the change still to apply and closes the session, also one that `open_session` inserts after the withdrawal; what a teardown leaves behind is bounded by what had been received |
| `udp_generations` | two programs, of which one uses two listeners, two services, two generations of two ids | the two views of a table agree; within a generation replies and payloads are never mixed up, over reaping, loss and respawn |
| `udp_service` | two programs with a service each, one of which stops and starts, one generation | tables, ids and reaping implement `UdpService`; who goes on asking the other service is answered |
| `store_restart` | one serving process, two API calls at a time, two faults | the file is never torn, no edit is lost (`Store` implements `ConfigFile`), what runs is what is stored, flags alter no entry, and the process comes up again |
| `connect_edits` | a TCP and a UDP binding, two remote ports, two edits, two connections, one local program | what is enabled is bound or reported as failed, nothing else is; what is reported is true; live forwarders match the listeners; a listener that is wanted is never closed (`Connect` implements `ListenerSet`); an edit is applied though dials do not listen; a lost link is redialed; a program that queued is taken once a link stays |
| `link` | one machine, three connections, two edits, restarts of the serving process | only a refusal ends the connecting process; an admitted machine ends up served, a revoked one gives up; the live table shows who is served, unless connections overlapped, and nobody else |
| `path_settles` | two connections of one peer, either role, two paths, one unread event | the path shown settles on that of the connection that stays, whatever events were missed or reporters linger; no reporter revives an entry |
| `secrets` | `serve` and `connect` with an admin UI, `id` beside them, two stops | one identity; the stored token is the one a process accepts, unless it got its own while another made one; every process comes up |

Four runs reproduce disagreements between the code and what it says of itself
(`findings` in `PROJECT.json` quotes both):

| Run | What the code does |
| --- | --- |
| `serve_missed_revocation` | `evict_when_revoked` subscribes in a task of its own after the admission check. A revocation in between is already "seen", so the connection stays open until another edit. |
| `udp_crossed_replies` | An edit to any listener respawns the forwarders with ids that start at 1 again, but the far side keeps its sessions: an answer can reach the wrong program. |
| `udp_service_restart` | When a service is down, the error on the connected socket ends the reply task; the retries keep its session alive, and nothing reads the socket when the service is back. Which platforms report the error to `recv` varies; the model lets either happen. |
| `store_two_roles` | `serve` and `connect` in one state directory save whole copies of what each read: one's edits disappear from the file. |

Some properties state what the code does where it falls short of what one may
expect; the exception is part of the property, so that it shows exactly how
far it goes:

- `LeftoversAreFew`: `serve.rs:97-98` promises that a teardown leaves nothing, but
  `abort` does not wait: a `pump_udp` that still runs inserts sessions after the table
  was cleared (`serve.rs:135`), and their sockets and reply tasks outlive the
  connection. How many is bounded: one for each datagram received before the close
  and not read yet, and the one that `open_session` was making. How many datagrams
  iroh keeps is `MaxBuffered`; the theorem holds for any number.
- `ShownUnlessOverlapped`: `Runtime.peers` has one entry per peer, and the end of an
  old connection removes it while a newer one is served (`state.rs:152`). The property
  is an equality: a served peer is hidden exactly then, until it connects again.
- `RevokedPeerIsCutOff`, `RevokedPeerGivesUp`: except after the gap of
  `serve_missed_revocation`.
- `TokenOpensTheUi`: except for a process that read or made its token while another
  made one. Two that start together on a new machine run with different tokens, of
  which the file keeps one; the exception ends with a restart of the process.
- `ClientsAreServed`: except on a listener whose accept failed; `accept_tcp` then
  returns (`connect.rs:254`) while the UI still says "listening".
- `ListenersFollowConfig`, `ReportedAsListening`: nothing is said of the bind state of
  a binding that is not enabled, or not tried since it was. One that failed to bind
  and is then parked goes on being shown with its failure (`connect.rs:66`).
- `ComesUpAgain`: with flags that validate, which those of `store_restart` do.
- `FlagsOnlyAdd`: a deleted entry comes back with the flags (`config.rs:253-255`).

Bounds. `MaxVersion`, `MaxConn`, `MaxGen`, `MaxOpened`, `MaxInFlight`, `MaxBuffered`,
`MaxEvents`, `MaxChanges` and `MaxFaults` bound edits, connections, generations, ids
per generation, datagrams each way, datagrams received and not read, path events kept
for a reader, selections per connection, and stops and failed saves; the connections
of `Serve` and `PathReport` are opened once each. Every hazard needs few: a
revocation and a re-admission that are coalesced are two edits, and so are a binding
that is deleted and added again while an old forwarder has its port; one connection
that ends badly and one that stays are two, and `link` has three, so that a
connection is served while an older one lingers and a third is still to come; its
last connection is not lost (`MayBeLost`), or the model would run out of them.
`BackoffMax` is 3, not a power of two, so that the ceiling cuts the doubling as 30 s
does. One unread event (`MaxEvents`) makes the next one dropped. Two stops leave an
empty key and stop the process that meets it. One datagram received ahead
(`MaxBuffered`) is read after the close while another session is being opened; `link`
and `serve_missed_revocation`, where nothing is opened, have none. An id clash needs
two generations and two programs; a leftover of a crash met by a second one needs two
faults. `Uses` says which program sends through which listener and `LaterBounds`
which listeners an edit leads to; `udp_generations` mixes them so that a program
shares a service with another and uses two, and a listener is retargeted. It has one
datagram in flight each way (what is late is also kept by the services, `heard`) and
lets only the near side fall silent, as ids that are reused by mistake take a reaping
there; in `udp_service` two are in flight (with one, a program could fill the link
for good) and the far side falls silent. The proofs cover both sides at once. The
proofs have no bounds but those the constants name. Where a configuration allows the
model to stop (all edits made, all connections ended, all ids used) its file says so
and deadlock is not checked; elsewhere it is.

Fairness. Weak fairness on the tasks of `Serve`: the runtime polls a task that can
run. Strong fairness on the config branch of `pump_udp`, because `select!` picks
among ready branches at random, so datagrams cannot starve it. None on datagrams,
edits, connections or silence. `UdpTunnel` assumes that the network loses datagrams
but not every one, that programs go on asking, and that a service that is up answers
before its session is always reaped: strong fairness per flow. `Store` assumes that
a save does not block and that a process that went down is started again, with a
bounded number of faults. `Connect` polls `run` and the forwarders; a dial ends one
way or the other (QUIC's handshake times out), but nothing makes it succeed; the
wait looks at an edit before its timer, of a second at least, fires (strong fairness
on `ApplyWaiting`, which a wait that ends and starts again would otherwise evade);
an aborted task is dropped some day. `Link` adds that a side whose other side is
gone finds out, and that a dial to a machine that is there succeeds in the end
(strong fairness on `Dial`); its two liveness properties suppose that the edits
settle. `PathReport` polls the reporters and lets their heartbeat tick. `Secrets`
starts a process that went down again, and its operator deletes an empty key file as
the error message asks.

## Proved by TLAPS

For every value of the constants that satisfies the stated assumptions
(`IdSpaceAssumption`, `ServeAssumption`, `UdpTunnelAssumption`, `StoreAssumption`,
`ConnectAssumption`, `ConfigsAssumption`, `LinkAssumption`, `PathAssumption`,
`SecretsAssumption`; TLC evaluates each of them in a run):

- `ConfigProofs`, about `Config`'s operators on the configurations the code can hold
  (`ValidConfigs(ids)`: lists of any length, ports `0..65535`, any set of peer ids,
  valid). `EditsTouchOnePeer`: an edit that names one peer changes no other's grants.
  `ParkingRevokes`, `ParkingLosesNothing`: a parked peer reaches nothing, and all it
  did once it is enabled again. `OwnRevocationKeepsShared`: what withdrawing a
  peer's own offer takes away is that port, unless the shared list grants it.
  `WithdrawingNeverGrants`: no deletion or parking widens anybody's grants.
  `FlagsKeepValid`: flags given any number of times keep a configuration valid, with
  one exception, and it is exact: a port 0 that `rtun serve` is given, which its
  parser accepts (`main.rs:39-43`) and `save` then refuses. `FlagsUnparkNothing`: any
  flags, that port included, take no grant away and admit no listed peer that is parked.
  `EditsKeepValid`: the set is closed under the edits, so the hypotheses below that
  configurations are in it are what the code establishes. These are statements about
  recursion over lists (`Pick`, and through it `AppendMissing` and `Deleted`). The
  library's induction theorem takes an operator; here the induction is over a set of
  numbers (`Induction`, from the least number principle of a well-founded order), which
  an SMT solver can instantiate, and `Iteration` gives the recursive function its
  values. `PickFacts` then says what a filtered list holds and in which order, and
  `GrantedMeans` what is granted, without positions: a port is granted by an enabled
  entry of the peer and an enabled offer, its own or shared.
- `ServeProofs`: `TypeCorrect`, `GhostFree`, `RevocationNoticed`,
  `SessionsFollowGrants`, `TornDown`. The last needs `Torn`: a connection that was
  torn down is closed, so nothing arrives on it any more, and no step of an aborted
  `pump_udp` raises the number of its sessions, of the datagrams it has still to read
  and of the session it is opening together (`Left`), since each session takes a
  datagram. The other three safety properties need
  `Stages`: nothing is spawned for a connection before it is served and its table
  is empty until the pump runs; otherwise a watcher might be woken, or a session
  exist, in a state that has no version to compare. All hold over restarts. The
  operators of `Config` stay opaque.
- `UdpProofs`: `TypeCorrect`, `ViewsAgree`, `RepliesRouted`, `PayloadsRouted`.
  The inductive invariant is `TypeOK`, `TablesSound` (the two views of each table
  are inverse, ids were minted in order, an entry's socket forwards to its key's
  port) and `IdsMeanOneFlow`: whatever claims an id (a datagram or an answer in
  flight, what a service heard, a session) agrees with the others and with
  the table that minted it, if that still runs and still has it. `next_id` never
  goes back within a generation, which is why an entry that was reaped is never
  mistaken for a newer one.
  `ImplementsRelay` is the refinement of `UdpService` for `MaxGen = 1`. Each step of the tunnel is a step of the relay or a stutter, given
  two facts from that invariant: a session's port is that of every
  datagram that claims its id, so what a service hears was for it; and a reply's id
  still means the program that asked, so `Deliver` hands it to no other. Losing,
  reaping, a failed `open_session`, a reply task's end and a service's stop are all
  `LoseAndForget`. With a second generation the theorem is false:
  `udp_crossed_replies`.
- `StoreProofs`: `TypeCorrect` for any processes; for one process `NeverTorn`,
  `RunsWhatIsStored` and `ImplementsRegister`, the refinement of `ConfigFile`.
  The invariant `Sound` says that only the holder of the lock (or `Main` at the
  start) is in a save, that the temporary file is as far as that save is, that
  what is saved was made from what the file still holds, and that the process runs
  what the file holds until the rename. `store_two_roles` shows why one process is
  assumed. `FlagsKeepEntries` and `FlagsOnlyGrant` add `Seeds` (a starting process is
  in a save, of what the flags make of the file) and use `ConfigProofs` for any valid
  configurations and any flags (`ServeFlags`, `ConnectFlags`; those that do not
  validate save nothing): no start loses or alters an entry, takes a grant away or
  admits who is parked.
- `ConnectProofs`: `TypeCorrect`, `ReportsAreTrue`, `ListenersFollow`,
  `ForwardersKeepUp`, `ImplementsListenerSet`. `TypeOK` is inductive only together
  with `ReportedAsListening`: `Reported` keeps the state of a binding that was
  bound, which is there because it is reported. `ListenersFollowConfig` and
  `ForwardersFollow` are inductive given these: an edit makes `seen` and `ver`
  differ, and every step that makes them equal again reconciles. For the valid
  configurations of the code, `EveryBindingIsServed` says the same of the bindings
  themselves (no two have one key, so the order that `ActiveBindings` forgets and the
  choice in `Wanted` are harmless), `EditsMoveOneListener` that an edit of one binding
  changes what is wanted under its own key only, and `WantedIsPortMap` that
  `ConfigsAssumption` asks no more than the code gives.
- `LinkProofs`: `ShownWhileServed` (an equality, with `Overlaps`: what is registered
  now was not overlapped before), `NoGhosts`, `OnlyRefusalEnds`, for any edits and any
  number of connections. `Fresh`: what was never opened has no task. `Told`: the
  connecting side believes a connection closed only if the serving side refused
  or revoked it, which is final, and has exited only on one that it believes closed.
- `PathProofs`: `TypeCorrect`, `NoGhosts`, by `ConnsOK`, `EntryOK` and `Reads`, the
  parts of the type: only `peer_connected` makes an entry, and it is removed by
  whichever connection of the peer ends.
- `SecretsProofs`: `TypeCorrect`, `IdentityKept`, `TokenKept`. `KeySound`: while a
  process writes the key the file is empty and nobody runs, and what anybody
  ever ran with is in the file. `TokenSound`: a process that makes
  the token without a rival, or got its own without one, has no rival until it is
  restarted, so the file holds what it uses.

Only model-checked: liveness, which needs fairness (`WithdrawnSessionCloses`,
`RevokedPeerIsCutOff`, `RetriesAreAnswered`, `ComesUpAgain`, `EditsAreApplied`,
`LostLinkIsRedialed`, `ClientsAreServed`, `AdmittedPeerIsServed`,
`RevokedPeerGivesUp`, `PathSettles`, `EveryProcessComesUp`). No
safety property that a run checks is left without a theorem, except those the four
runs above refute.

## Not modelled

- The bytes of TCP streams and datagrams, the QUIC handshake and flow control,
  relays and hole punching: `iroh` and `tokio`.
- Names of entries, TOML, JSON, HTTP routing, the token comparison, the command
  line: parsing and straight-line code without shared state. With them, commands
  that end at once because nothing was configured or the port of the admin UI
  is taken (`main.rs:277`, `main.rs:297`, `main.rs:323`).
- Power failures (`save` does not sync the file), edits of the files by hand, and
  a key or token of which only a part was written.
- Wrapping of the `u32` session id: `MaxOpened < IdSpace`.
- The limit on open streams (`open_bi` waits for it): QUIC's flow control.
- `get_state` (`admin.rs:200`): it reads three tables one after the other, for a
  page that polls.

## Plan

Written, in this order: `Config`, `Serve`, `UdpTunnel` with `UdpService`, `Store` with
`ConfigFile`, `Connect` with `ListenerSet`, `Link`, `PathReport`, `Secrets`, and their
proofs. Left, most important first:

1. `UdpTunnel` over two connections, with the sessions of the old one outliving it
   until the far side's timeout.
2. `ConfigLife`: `Store` with `Config`'s own edits and flags in one specification, so
   that what the admin parked stays parked, and what was deleted comes back, over
   edits and restarts in any order; the steps of it are proved (`ConfigProofs`,
   `FlagsOnlyGrant`).
