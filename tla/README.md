# QUICMIX in TLA+

QUICMIX runs QUIC over anonymity networks (mixnets, onion routing): a local
proxy forwards HTTP requests over pre-warmed QUIC circuits, whose datagrams are
carried by a *substrate* (Nym, Tor, Katzenpost, HOPR, or a plain UDP path) to a
gateway that opens the connection to the target. This directory holds TLA+
models of the parts of the Rust code whose correctness depends on order, time,
concurrency and failure, TLC configurations that check them on small instances,
and TLAPS proofs of the most important properties for every instance.

Paths below are relative to the repository. `Q` stands for
`crates/quicmix/src`, `E` for `crates/quicmix-eval/src`.

## 1. Inventory

| Part | Code | State | Operations | What makes it hard |
|---|---|---|---|---|
| Warm pool | `E/proxy.rs` | slots, leases, in-flight counts, cursors, counters, the maintainer's position | pick, lease drop, maintain (retire, sample, reap), refill (count, build, push) | count under a lock, build outside it; drain deadlines against requests that never end; connections that die anywhere |
| Ingress proxy | `Q/ingress.rs` | what serves each request | accept, tunnel, forward, every way out | which future owns the lease, and until when |
| Substrate boundary | `Q/substrate.rs` | two bounded queues, two pumps, metrics, the published oracle | send, send_timeout, try_send, lossy send, recv, update_oracle, both pumps, drop | backpressure, pacing against a slot that changes, errors behind datagrams, drop with a full queue |
| UDP front | `Q/front.rs` | socket buffer, learned peer, two tasks, three handles | both tasks, teardown | backpressure up to the socket, replies before requests, who keeps whom alive |
| Stream framing, stream bridge | `Q/tor.rs`, `Q/stream_bridge.rs` | partial writes and reads of both directions | try_send, try_recv, both halves of `handle` | concurrent writers, partial frames, a peer that stops reading, one half ending |
| Node autopilot, directory | `Q/autopilot.rs`, `Q/directory.rs` | directory entries with age, refresh task, ingress task | announce, live, sample, fetch, dial, serve | serial fetches with timeouts against a ttl; crashes and restarts with a new certificate |
| Local relay, striping, emulator | `Q/relay.rs`, `E/striped.rs`, `E/emulator.rs` | client address, two boundaries, delayed and paced paths | forward, deliver, stripe, merge, drop | a client that moves, reordering and loss over several paths |
| Circuit rotation | `Q/rotation.rs`, `nym_rotate.rs` | pre-warmed circuits, the server's record of sessions | connect, prewarm, take, session_send | a circuit that goes silent, an acknowledgment ahead of its record |
| Oracle, congestion control | `Q/oracle.rs`, `Q/client.rs`, `Q/lib.rs`, `Q/sched.rs` | sample window, two mutexes | record, percentiles, jitter, window, transport | window limits and zero; locks taken one inside the other; readings that age |
| Gateway node, measurement websocket | `Q/node.rs`, `Q/metrics_ws.rs` | one session, its streams, the gateway's task for each | fetch, redirects, chunked decoding, splice, measure, probe | half-closed streams, buffered bytes, caps, silence, a browser that stops reading or leaves |
| Front choice, sidecars, Tor daemon | `Q/front.rs`, `Q/tor.rs`, `tor_sidecar.rs`, `nym_sidecar.rs` | child processes and their pipes | resolve, spawn, announce, bootstrap, SOCKS5, drop | timeouts against late answers, full pipes, processes left behind |
| HOPR substrate | `substrates/quicmix-hopr` | a session on a node | connect | an answer that is lost or unfit after the session was opened |
| Nym substrate | `substrates/quicmix-nym` | sockets and reply legs per client | gateway loop, reply legs, bridge | clients interleaved, replies that hang |
| Katzenpost substrate | `substrates/quicmix-katzenpost` | a connection with two locks, a token counter | handshake, request_reply, try_send, try_recv | frames in two writes, tokens in two draws, events between replies |
| Metrics exporter | `E/metrics.rs` | none of its own | render | — |

## 2. Modules

Modelled now; each module's header says which code it is and what it abstracts.

* `Vec` — the two `Vec` operations the pool is built on: `retain`, and the n-th
  of the indices that pass a filter. No recursion, so that proofs can use it.
* `WarmPool` — one action per critical section of the slots mutex. Requests
  (`Pick`, `PickNone`, `Release`), the maintainer (`Maintain`, then `RefillCount`,
  `BuildOk`/`BuildErr`, `Push` for refill, whose builds happen outside the lock),
  the network (`Close`) and the clock (`Time`). Instants are relative and stop
  where no comparison of the code can tell more, so rotation goes on forever in
  a finite state space.
* `PoolPromise` — the abstract specification of the pool: circuits ready or
  draining, leases, and the rule for when a live circuit may leave.
  `PoolRefinement` reads its state off the slots of `WarmPool` (the mapping
  `Promise`) and states that `WarmPool` implements it (property `KeepsPromise`).
* `PoolProxy` — extends `WarmPool` with the proxy: `stage` says which future
  serves a request, and each way out of it is an action that drops the lease
  where the code drops it (`End`, and `Headers` for a cleartext request, which
  gives it back when the response headers are passed on).
* `Substrate` — both pumps, all send variants, the oracle's watch channel, the
  consumer and the drop of the boundary. A datagram is the number of its
  acceptance. `SendNow`/`SendBlock`/`SendLossy`/`SendExpires` are the outcomes of
  the send functions, `PumpTake`/`PumpDone` one round of the send pump,
  `InnerOk`/`InnerErr`/`Forward`/`ForwardFails` those of the receive pump.
* `FrontBridge` — extends `Substrate` with the socket and the two tasks of
  `spawn_substrate_front`, which the client bridge of Nym repeats.
* `StreamBridge` — the client's `StreamDatagram` and the gateway's `handle` at the
  two ends of one byte stream that takes and yields any part of a frame.
* `NymGateway` — the gateway's loop (`Skip`, `PassOn`, `Bind`, `OpenFails`,
  `StreamEnds`) and, for every sender tag, its reply leg: the task that reads the
  socket (`Read`, `ReadFails`, `Queue`) and the pump of its boundary (`Take`, then
  `Ship` or `Hang`), which takes an answer off the queue before it calls
  `send_reply`. The mix reorders and loses (`Deliver`, `Lose`).
* `Autopilot` — the directory, the refresh task and the ingress task of a node,
  among gateways that crash and come back. A certificate is either the one its
  gateway presents now or another.
* `Katzenpost` — connections to the thin client daemon: the handshake read by
  read, `resolve_service` over a document wrapped in layers, `request_reply` with
  its limit (`SendRequest`, `ReadReply`, `Expire`), and the substrate, whose
  `try_send` takes the write lock for the two writes of a frame (`BuildSend`,
  `WriteHalf`, `Unlock`). `instance_token` draws its halves one at a time from a
  counter that wraps (`DrawHalf`). The daemon reads, answers late, in any order
  or never, sends events nobody asked for and hangs up.
* `Fronts` — the ingress task that resolves a front (`Resolve`, `ReadLine`,
  `SidecarGone`, `Timeout`, `OpenSession`, `Dial`), the sidecar's main
  (`LaunchTor`, `ReadBoot`, `BootFails`, `Circuit`, `AnnounceFront`) and its tor, with
  bounded pipes and the tasks that drain them. Each environment is an initial
  state. The sidecar is the one of Tor; that of Nym takes the same steps without
  a tor.
* `MeasuredCc` — the estimator and the transport it leads to as operators, and
  `MeasuredCc::transport` one lock at a time (`Call`, `Lock`, `Unlock`, `LockLast`,
  `Samples`, `Remember`, `Build`) next to `observe`. Times are milliseconds, ratios
  thousandths. A percentile is the sample with so many below it (`Nth`), which says
  what the code gets by sorting.
* `Rotation` — `nym_rotate`: cold circuits, a pool, one session over two circuits,
  with its server.
* `Relay` — the four tasks of the relay around two boundaries (whose pacing is
  `Substrate`), over a striped transport of emulated paths. A datagram is read
  (`FromClient`), its address is written behind a lock (`LearnAddr`), and only then
  is it sent on (`Enqueue`): replies may leave between any two of these steps.
* `Measure` — one session of the measurement websocket and `gateway_stream`.
  Streams are fixed sequences of tokens, so positions say what was written,
  copied and read; pages are short sequences whose chunks may contain a line end.
  A frame to the browser may fill the socket, and the next one then waits until the
  browser reads or leaves (`ws`).
* `MCWarmPool`, `MCPoolProxy`, `MCAutopilot`, `MCKatzenpost`, `MCFronts`, `MCMeasure`
  — instances for TLC. `MCClient` runs `MeasuredCc`, `Rotation`, `Relay` and `Fronts`,
  and `MCBridges` runs `FrontBridge` and `StreamBridge`. The parts of one such run
  share no state: an initial state chooses one, the others stand still.
* `WarmPoolSteps`, `WarmPoolProofs`, `PoolProxyProofs` (the pool, each extending the
  one before), `BoundaryProofs` (`Substrate`, `FrontBridge`, `Fronts`),
  `StreamBridgeProofs`, `NymProofs` (`NymGateway`, `Rotation`), `FreshnessProofs`
  (`Autopilot`, `MeasuredCc`), `RelayProofs` — theorems and their lemmas.

External behaviour is modelled from its use: tokio's mpsc (a free place goes to
those who wait first; a sender that waits on a timeout either has its place or
gives up), quinn (a connection closes at any time, or for want of handles), UDP
sockets that drop when full, TCP streams, pipes that block their writer, child
processes that end by themselves or by SIGKILL, the native tor, the Katzenpost
daemon, the HOPR node and the origin servers.

## 3. Runs

| Run | Bounds | Checks |
|---|---|---|
| `WarmPool` | 3 circuits, 2 requests, target 2, retirement by age 2, drain 1, every build may fail, counters mod 2, 2 uses | exact in-flight counts, drain time, no overfilling, counters, refinement of `PoolPromise` |
| `PoolProxy` | 4 circuits, 1 request, target 1, retirement after 1 use, one good front of two; fair | a circuit is busy exactly while it serves; it is kept while it serves; retired circuits leave; the pool heals |
| `PoolProxy_body` | 4 circuits, 2 requests | **violated**: a circuit is dropped while a response body still streams over it |
| `Substrate` | depth 1, 2 callers (one timed), slots 0 and 2, 4 offers, 3 arrivals, one error; fair | conservation and order both ways, pacing, `Closed` last, draining, no starved sender |
| `Bridges` | front: depth 1, socket of 2, 3 packets, 2 replies; stream: 2 senders, sizes 0, 2 and 3 with a maximum of 2, a stream of 2 units, 2 datagrams each way; fair | nothing lost behind the socket; while the circuit holds its front, packets are carried and replies never stuck; readers in step, only whole datagrams, the way up independent of the way down, bridge ends with its client |
| `FrontBridge_drop` | as the front of `Bridges` | **violated**: the front is not torn down with its circuit |
| `NymGateway` | 2 clients, at most 2 sockets, 3 datagrams, 4 answers, queue and socket buffer of 1; fair | one source per client, answers go back to their client and are accounted for, a reply that hangs holds up nobody else |
| `Autopilot` | 3 gateways, the node itself one of them, ttl 6, fetch up to 1; fair | steady gateways stay listed, crashed ones expire, the node gets to serve |
| `Katzenpost` | two requests over connections of their own, or 2 senders that share one; 4 documents and states of the daemon, 1 event unasked, a counter of few bits; fair | no answer goes to another request, frames are whole, messages reach a node with the service, requests end |
| `Fronts_direct` | a sidecar is configured, the substrate is direct or has no name; 1 attempt | **violated**: the sidecar does not win |
| `Client` | 2 builders, 3 samples, 4 records; 2 cold and 1 warm circuit; 2 paths, one paced with a buffer of 1, 3 requests, 1 reply; 8 environments (each choice, and the ways it can be wrong), 2 attempts, pipes of 1 line; fair | sample window, percentiles, jitter and window; consistent readings and no deadlock; rotation carries its session; the relay conserves, takes turns, answers no address the client has left, forwards; never direct with a substrate named, fronts announced when ready, no sidecar outlives its attempt, no endless wait, no blocked writer |
| `Measure` | 3 kinds of answer, pages around the cap, 2 probe sizes, flow control of 3 units; fair | requests and pages whole, cut pages a prefix, exact probes, frames in order, session and gateway end unless the browser stops reading for good |

A property of a run that states several related claims is the conjunction of
definitions that carry a comment each, the module's type invariant among them:
`LeasesMatchService` (`BusyIffServing`, `ServingKept`), `SendsGetThrough` (`Drained`,
`Admitted`), `CarriedBothWays` (`Carried`, `RepliesFlow`), `FramesKept` (`InStep`,
`OnlyWhole`), `OnceToOwner` (`RepliesToOwner`, `RepliesConserved`), `NobodyHeldUp`
(`NotHeldUp`, `LegsFlow`), `DaemonUnderstands` (`FramesWhole`, `RightService`),
`DialsTheSubstrate` (`NoSilentDirect`, `FrontReady`), `OwnersClean` (`SidecarOwned`,
`TorSupervised`), `NobodyWaitsForever` (`AnnounceEnds`, `NeverBlocked`), `EstimateSound`
(`RecentWindow`, `PercentilesAgree`, `SlowestTolerated`, `TransportSound`),
`SessionMoves` (`AckedIsRecorded`, `PoolSuffices`, `SessionCarried`), `InItsPlace`
(`Conserved`, `RoundRobin`), `SpliceWhole` (`RequestWhole`, `PagePrefix`, `PageWhole`),
`ToldRight` (`ProbeExact`, `FrameOrder`) and `BothEnd` (`SessionEnds`, `GatewayEnds`).
`PROJECT.json` has mutants for these claims. The type invariants of
`WarmPool`, `Substrate` and `Autopilot`, and the bounds of the queues
(`QueuesBounded`), are not run: they are proved.

Why the bounds are enough. Queues and streams are one or two places deep, so
full, empty and in-between all occur with few datagrams, and the offers exceed
what fits so that senders wait. In `NymGateway` three answers block a leg for
good (one hangs, one is queued, one is with the reader) and the fourth is for
the other client; three datagrams let one client send again after the other. In the pool a third circuit lets a full pool be
refilled while one drains, two requests share a circuit, an age limit longer
than a tick lets circuits survive a tick, and counters wrap (the cursors do in `PoolProxy`). In
`Autopilot` a round of fetches just fits into the ttl; one time unit less and
`StaysFresh` or `Joins` fails. In `Katzenpost` the counter is narrow enough to wrap, and its step is
odd as in the code, so that tokens repeat only after a full turn. `Fronts` has a
second attempt that may meet what the first left behind, and pipes that fill. In
`Client` the window of samples overflows, a path's buffer too, and both paths
hold a datagram while the boundary waits; a client with two addresses may change
them between any two of three requests, with a reply under way. In `Measure` the plain page is longer
than the cap, and one probe lies above and one below the gateway's limit.
Symmetry is used in the runs without liveness only. Names of bounds that the code does not have: `Offers`, `Arrivals`,
`UseBound`, `CounterMod`, `CursorMod`, `Msgs`, `Answers`, `MaxTries`, `Chatter`,
`MaxRecords`, `MaxBuilds`, `Requests`, `Replies`, `MaxSamples` of `Measure`.

Fairness. The spawned tasks of the code are loops that tokio polls again
whenever they can go on: weak fairness of pumps, tasks, the maintainer and the
clock. Nothing is assumed of requests, of the network or of callers, nor that a circuit
drops its front. It is
assumed that a dial of `build_one` and a send of an inner transport return (the
code has no timeout around either); in `NymGateway` a `send_reply` may also never
return, and `LegsFlow` excepts the leg whose own call hangs. `Autopilot` assumes strong fairness of a
fetch and of a dial that could succeed: tried forever, they do once. `Fronts`
assumes its timer and its drain tasks and nothing of the sidecar; `Katzenpost`
the time limit of a request; `Client` strong fairness of a builder, since a
mutex that is free again and again is obtained, and weak fairness of the relay's
tasks; `Measure` the session, the gateway's task and, in a
TLS handshake, the idle timeout of the link; `BothEnd` itself says what it needs of
the browser (`ReadsOn`), and nothing is assumed of it otherwise. Deadlock is checked
except where the system really stops: `NymGateway` (its loop may end), `Katzenpost`,
`Client` and `Fronts_direct` (calls, attempts and programs come to their end). In
`Bridges` a stream whose connection has ended stands still; the front does not.

## 4. What the code does not promise

Three runs show statements of the documentation that the code does not keep; the
findings in `PROJECT.json` quote both sides:

* `PoolProxy_body` — a circuit is dropped while a response body still streams over
  it.
* `FrontBridge_drop` — both tasks of a front own a clone of the boundary and of the
  socket, and wait for one or the other without end, so dropping a `Front` does not
  tear it down (`Q/front.rs:146`); likewise for the Nym bridge. `CarriedBothWays`
  therefore claims nothing of a front whose circuit is gone.
* `Fronts_direct` — with the name `direct`, or none, the sidecar variables are not
  read (`Q/front.rs:90` says that a configured sidecar wins). `NoSilentDirect` claims
  only that a named substrate is never replaced by the gateway's address, and
  `MCEnvs` has no environment about which code and comment disagree.

Further observations made while modelling, without a run:

* `max_uses` is compared on a tick only, so a burst between ticks goes past it.
* a slot interval published while the send pump sleeps applies from the next
  sleep on, not "immediately" (`Q/substrate.rs:199`).
* the queue depth gauge is refreshed when a datagram leaves the queue only.
* a promoted node's own directory entry expires: it is announced once and the
  refresh task skips it.
* with six or more bootstrap peers that hang, a refresh round takes longer than
  the ttl, and running gateways are dropped; `RoundFits` is the condition under
  which that cannot happen, and the assumption of theorem `DirectoryStaysFresh`.
* a socket that cannot be opened for one new client ends the Nym gateway's loop
  for all of them, and no socket is ever removed from its map; a reply task whose
  `recv` failed is not started again.
* the stream bridge ends a connection over an empty frame, which
  `StreamDatagram` would deliver.
* the task of a front's replies ends with the first receive error of its
  substrate. The other direction goes on (`Carried`), so the front stays up and is
  dead in one direction; nothing tells its circuit.
* once it serves, the ingress task waits for Ctrl-C: a node whose gateway died
  stays on the dead link ("Clients rotate across these", `Q/directory.rs:65`).
* a sidecar has 30 s to announce its front, a tor of its own 90 s to bootstrap. A
  sidecar that is killed, at that limit or with its front, runs no destructor, so its
  tor is left running: `OwnersClean` is about sidecars, and about the tor of a sidecar
  that ends by itself.
* a HOPR session is not closed when its answer is lost or does not parse, nor by
  the node later; an IPv6 address next to a port never parses.
* Katzenpost tokens start from the same constant in every process, and the
  handshake has no time limit.
* without samples the initial round trip of a measured transport is 0;
  `MeasuredCc::last`, which is only logged, may go back to an older estimate.
* an origin that resets in mid-answer looks to the session like one that closed:
  a cut page is shown as complete (`PageWhole` excepts it). A silent origin keeps
  the gateway's task after its client left: `gateway_stream` has no timeout.
* `send_json` has no time limit: a browser that keeps its websocket open and stops
  reading holds its session, the link and the gateway's stream. `BothEnd` is stated
  for browsers that read on or leave.
* a reply of the relay goes to the old address of a client that moved while the new
  one, just read, waits for the lock; from the moment that datagram goes on, it does
  not (`ToLatestAddress`).
* a first websocket message that is unfit ends the session without an error
  frame, and a browser that sends none is waited for without limit. A redirect
  loses its port, and its location is lowercased.

## 5. Proofs

All theorems hold for every value of the constants under the named assumptions
of the modules (`PoolAssumption`, `BoundaryAssumption`, `BridgeAssumption`,
`AutopilotAssumption`, `GatewayAssumption`, `StreamAssumption`, `FrontsAssumption`,
`CcAssumption`, `ReadingsAssumption`, `RotationAssumption`, `RelayAssumption`). They say that sizes
are natural numbers (some positive), that sets are disjoint and that `None` is
none of the things it stands beside. `BridgeAssumption` also says who calls the
boundary under a front: the front's outgoing task, without a deadline, which is
the code of `spawn_substrate_front`.

**Warm pool** (`WarmPoolSteps`, `WarmPoolProofs`)

* `RetainCorrect` — `Retain` keeps exactly the chosen elements in order: rank and
  n-th are inverse to each other.
* `PoolTypeSafe`, `ActiveCountExact`, `GracefulDrain`, `ReadyWithinTarget`. None of
  `ActiveExact`, `MinGrace` and `ReadyBounded` is inductive. The invariant `Sound`
  adds: no circuit is in the pool twice and the one in hand is in nobody else's
  (`OneSlotEach`, `HandNew`), so that a slot's count is the count of its leases; for
  a draining circuit, what is left of its deadline plus what each lease on it
  already had is at least the drain timeout (`GraceLeft`), so that a deadline that
  has come means grace was given; and the ready circuits plus the builds to do fit
  under the target (`Room`), which survives retirements and closures because they
  only lower the first summand.
* `RotationAddsUp` — `built` is the circuits in rotation and in hand plus `retired`
  plus `lost`, modulo the counters' width. `Accounted` adds that refill holds a
  circuit only just before its push. One lemma (`AccountedStep`) does the modular
  arithmetic for all actions; each action then shows by how much it changes the
  number of circuits in rotation.

**Promise and proxy** (`PoolProxyProofs`)

* `PoolKeepsPromise` — the refinement `Spec => KeepsPromise`. Initial states map to
  initial states; a build is the promise's connect, a push its admission, a tick
  of the maintainer its rotation, `Pick` and `Release` the lease and its return,
  and the rest of refill stutters. The rule for when a live circuit may leave
  follows from `MinGrace` in the state after the step, and that a leased circuit
  was in rotation from `Sound`.
* `LeasesFollowHandlers` — every step of `PoolProxy` is a step of `WarmPool` or leaves
  it alone (`ProxyStepOfPool`), so `Sound` carries over; `Matched` says that a request
  in a leasing stage holds a lease on the circuit it is served on and for as long,
  and that no other request holds one.

**Substrate boundary** (`BoundaryProofs`)

* `BoundaryTypeSafe`, `NothingLostOnSend`, `SendsArePaced`, `BackpressureBounds`,
  `NothingLostOnReceive`, `ClosedComesLast`. `SendSide` joins conservation with `Owed`
  (what the pump still sleeps plus the time since the last send is at least the
  slot it read); `RecvSide` adds where the error that ended the transport is on its
  way (`EndOnItsWay`), without which `Closed` could not be shown to come after it.

**UDP front** (`BoundaryProofs`)

* `FrontKeepsBoundary` — `BridgeSpec => Spec` of `Substrate`: each step of the two
  tasks is a call that some caller of the boundary may make, or leaves the
  boundary alone. The theorems about the boundary therefore hold behind a front.
* `NothingLostAtFront` — the count of `NothingLostBehindSocket` is inductive over the
  front's types (`Carrying`) once the types of the boundary are known, which
  `FrontKeepsBoundary` and `BoundaryTypeSafe` give.

**Front resolution** (`BoundaryProofs`)

* `NodeDialsTheSubstrate`, `OwnersEndChildren`. That a front is dialled only when its
  circuit stands is not inductive: the node knows of it by a line in a pipe.
  `ToldInTime` says that a pipe holds such a line only once the sidecar's main has come
  to its end, `DrainedInTime` that main gets there only with its tor drained, and
  `UnderWay` that the attempt under way is the latest to have started a process.

**Node autopilot** (`FreshnessProofs`)

* `NodeTypeSafe`, on `Typed` (the refresh task holds a certificate only while it is
  at a peer); and `DirectoryStaysFresh`: if a round fits into the ttl, a bootstrap
  gateway that keeps running stays listed. `Aged` bounds the age of each steady
  entry by the time since the refresh task last passed its peer: rounds are
  counted as the sleep plus one fetch timeout for every peer in between.

**Oracle and congestion control** (`FreshnessProofs`)

* `EstimatorIsSound` — the claims about ranks need no induction over data, since a
  percentile is defined by how many samples are below it: `Nth` exists for every
  rank, is a sample and grows with its rank, by facts about cardinalities. The
  window is the end of what was observed (`CcSound`).
* `TransportIsFresh` — `CcSound` says that what a builder holds is the window of a
  moment at which it had the lock, and stays that while others record and build.

**Nym gateway** (`NymProofs`)

* `SourcesAreDistinct`, `AnswersReachOwner`. `Keyed` says that the gateway's map from
  tags to sockets and the tags its reply legs were keyed with are inverse to each
  other; one direction alone is not inductive, since a new tag could be given a
  socket that is another's. The account of each leg (`Account`) is inductive once
  the legs are well typed.

**Rotation** (`NymProofs`)

* `RotationCarriesSession` — `RotationSound` reads off the step of the program how many
  circuits and sessions there are and that the pool is the stretch of circuits not
  yet taken (`HoldsOK`, `Progress`), that only the circuit it waits for has a message
  under way (`StreamsOK`), and what the server has recorded (`LogOK`, `Carried`).

**Relay** (`RelayProofs`)

* `NothingLostInTheRelay` — `RelaySound` gives each datagram one place (`Placed`), a path
  that is its number modulo the number of paths (`Striped`), and makes the boundary's
  queue the numbers that follow the last one striped (`InTurn`), without which round
  robin could not be shown. `Moves` shows once that a step that shifts one datagram
  from one place to another keeps the accounts.
* `RepliesReachTheClient` — `Known` says that the address on file is that of the
  datagram heard last or, while that one is in the hands of its task, of the one
  before. A datagram that reached the server is in no hands, since it has one place:
  so the address on file is at least as late as it.

**Stream framing** (`StreamBridgeProofs`)

* `FramesStayWhole` — the readers stay in step (`InStep`) and deliver whole frames
  only, in order (`OnlyWhole`, an action property). The invariant follows the units
  of one direction from the reader's hands through the stream to the writer: each
  is followed by its successor (`Chained`), and the writer's rest continues the
  stream up to the end of the frame begun last (`Joined`). The second part holds
  only while both ends and the wire are there; the first survives their loss,
  which is why a frame that was cut is never delivered. That no two writers of a
  direction hold a frame at the same time comes from the lock around a write.

Only model-checked:

* everything under fairness (`Drains`, `Heals`, `Drained`, `Admitted`, `Carried`,
  `RepliesFlow`, `NotHeldUp`, `LegsFlow`, `UpFlows`, `Closes`, `CrashedExpire`, `Joins`,
  `CallEnds`, `AnnounceEnds`, `NeverBlocked`, `BuildEnds`, `Forwarded`,
  `SessionEnds`, `GatewayEnds`), which is outside the prover's reach;
* the safety properties of `Katzenpost`, whose tokens use the bitwise operators the
  prover does not know;
* those of `Measure`: what `dechunk` computes for every page takes induction over
  data.

Leaves that took the SMT solver a good part of its default time are split or name
the prover that finds them at once (`Zenon`), and others carry an explicit limit
(`SMTT(30)`), so that a loaded machine proves them too. Proof modules extend no
more than they use, since the prover translates everything in scope for each leaf.

## 6. Not modelled

Text formatting, logging, HTTP header rewriting, TLS and QUIC themselves, the
bytes of datagrams, configuration parsing, and the probe, benchmark and example
programs, which run the library once and print what they measured. The
metrics exporter only renders counters. Of parts that are modelled these are left out: the datagram calls
and `close` of HOPR (single calls on one socket), the blended oracle of
`Striped` and the closing of the emulator's channels (nobody drops them there),
the `Stock` and `Timers` plans of `Congestion`, splitting of URLs, and the address gate
of the directory. Sizes
of chunks have one digit, so sums in `dechunk` near the width of a machine word do
not occur. `sched.rs` hands the window of a transport to quinn and has no state of
its own.
