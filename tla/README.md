# TLA+ models of the beacon

The beacon is the rendezvous and relay server of the pilot protocol. Daemons
register their observed endpoint with it (Discover), ask it to coordinate NAT
punches, and relay packets through it when punching fails. Beacons gossip the
ids of their nodes to each other. Daemons that cannot use UDP tunnel the same
frames over a websocket (WSS).

The modules here model the concurrent parts of that server. TLC checks them on
small instances, and TLAPS proves the main safety properties for all instances.

## The system and its parts

| Part | Code | State | Operations | Module |
|---|---|---|---|---|
| Node registry | `nodes_shard.go`, `server.go` | sharded node table, `dstNodes`, `nodePubKeys`, Discover limiter | `handleDiscover`, `NotifyNode`, `reapStaleNodes`, refresh by a punch | `NodeMap`, `RateLimit`, `Registration` |
| Relay pipeline | `server.go` | queues, one batch and timer per worker, counters | `dispatchRelay`, `relayWorkerLoop`, flush, panic recovery | `Relay`, `RelayFlow`, `FlowChannel` |
| Gossip mesh | `server.go` | peer set, `peerNodes`, `gossipSeen` | `sendGossip`, `handleSync`, `sweepStaleGossip`, `registryDiscover` | `Gossip` |
| WSS server | `wss/server.go` | peer map, generations, closed flags, `s.mu` | `handleUpgrade`, `peerReadLoop`, `dropPeer`, `WriteFrame`, `Close` | `WssServer` |
| Daemon transport | `wss/internal/daemonwss/wss.go` | `conn`, `recvCh`, closed flag | supervisor, `Send`, `Recv`, `Close` | `Transport` |
| Rate limits | `ratelimit_shard.go`, `server.go` | punch limiter, global punch stamp, relay windows | head of `handlePunchRequest`, `relayRL.allow`, sweeps | `RateLimit`, `Admission` |
| Punch coordination | `server.go` | node table, commands | `handlePunchRequest`, `SendPunchCommand` | `Punch` |
| Life cycle and readers | `server.go` | sockets, `readyCh`, `done`, `closeOnce` | `ListenAndServe`, `readLoop`, `Close` | `Lifecycle` |

The parts meet in shared tables. A relay worker reads the node table
(registry), `peerNodes` (gossip) and the WSS peer map, each with its own lock
or atomic and none held across two of them. In `Relay` these tables are changed
by `RouteChange`, the environment of the pipeline. It translates no particular
lines, so it has no entry in the map: the handlers behind it are the actions of
`Registration`, `Gossip` and `WssServer`.

## How the modules correspond to the code

A step of a model is one critical section, one atomic access or one channel
operation of the code. Where several accesses are one step, a comment says why.

* `NodeMap` and `RateLimit` are operators: a table goes in, the table after one
  critical section comes out.
* `Admission`: `task` is the position of each reader in the head of
  `handlePunchRequest`: read the clock, load and compare the global stamp, ask
  the limiter, store the stamp. The relay budget is asked with a time that may
  be older than the clock, since `dispatchRelay` reads it before the lock.
  `bySource`, `byReader` and `before` are history.
* `Punch`: `task` is the position in the rest of the handler, one look-up of the
  node table per step. `wire` is the command a step writes. Other handlers and
  the reaper change the table in between. `since` and `steady` are history.
* `Lifecycle`: `listen` is the position of `ListenAndServe`, `closer` that of
  each caller of `Close`, `reader` that of each `readLoop`, `loop` that of each
  background goroutine (at its select or at work, where it may panic). A caller that has not
  received from `Ready()` races with the appends to `s.conns` and may see any
  earlier length of it, which is how `main` calls it.
* `Registration`: a reader's `task` is the position inside `handleDiscover`
  (key, limiter, Upsert, reply). `reaper` is the position inside
  `reapStaleNodes`, which visits shard after shard and then id after id; `Has`
  and `Delete` are separate steps. `lastAllow`, `beat` and `joined` are history.
* `Relay`: `pc` is the position of each worker; `timer` and `timerActive` are
  separate, as in the code. `dispatchRelay` is one step, with the outcomes
  breaker open, no route, refused (by a limit of `Admission`), queued and queue
  full. `WorkerPanic` is the
  nil dereference after `CloseCompatWSS`, with its recovery. `fate` (the verdict
  on each packet), `written` (what a running flush has sent) and `sent` (what
  left for each destination, in order) are history.
* `FlowChannel` is the abstract promise, a lossy channel per destination that
  repeats nothing. An accepted packet waits; the oldest that waits is batched,
  or goes out directly if the destination may connect over WSS; the batch goes
  out oldest first. Only the direct way can pass packets in the batch.
  `RelayFlow` maps job in hand and queue to what waits, and the batches to what
  is batched; which worker holds a packet does not matter to the channel.
* `Gossip`: all beacons and the datagrams between them. A source is an endpoint
  (beacon, port), as `handleSync` compares it. A crash loses everything. Its
  specification is `MeshSpec`, so that one proof module can hold it next to
  `Lifecycle`.
* `WssServer`: `pc` is the position of each connection's handler. `mu` is the
  handler inside `handleUpgrade`'s critical section, which closes the replaced
  connection while it holds the lock. `lateFrames` is history.
* `Transport`: `sup` is the position of the supervisor, `closer` that of
  `Close`, `sender` that of each `Send`.

External code is modelled by how it is used: the websocket library (a closed
connection yields no frame, any call may fail, a failed read or write closes
the connection), UDP writes, the registry.

## Runs

Passing runs:

| Run | Properties | What it shows |
|---|---|---|
| `registration` | `TypeOK`, `LiveStaysRegistered`, `ShardWithinCap`, `DiscoverSpacing`, `OrphansAreDropped` | a daemon that keeps its heartbeat is never reaped, shards respect their cap, the sweep never lets a Discover through early, keys and flags of ids without a node are dropped |
| `relay` | `TypeOK`, `TimerGuardsBatch`, `PipelineOrdered`, `Accounting`, `FlowOrderPerTransport`, `QueuedIsResolved`, `RefinesFlowChannel` | no batch waits without a timer, order inside a worker, one verdict per packet, queued packets are resolved, all with `CloseCompatWSS` at any moment; the pipeline implements the channels of `FlowChannel` |
| `gossip_mesh` | `MeshTypeOK`, `RouteOwnerSeen`, `OnlyOwnerWithdraws`, `GhostRoutesVanish`, `PeersLearnRoutes` | routes go only with their owner's word or silence, ghosts vanish, peers learn routes |
| `wss` | `TypeOK`, `InstalledIsNewest`, `LiveIsReachable`, `AtMostOneLateFrame`, `HandlersEnd` | a reconnect never loses the live connection, one late frame at most, replaced handlers end |
| `transport` | `TypeOK`, `NoSendOnClosed`, `SendUsesDrained`, `LiveIsInstalled`, `Reconnects`, `CloseReturns` | no send on a closed channel, a sender writes only where the supervisor reads, no working connection is lost from `t.conn`, reconnects happen, `Close` returns while somebody calls `Recv` |
| `admission` | `TypeOK`, `SourceSpacing`, `ReaderSpacing`, `RelayBudget` | what the punch limits and the relay window bound when readers overlap and the reaper sweeps |
| `punch` | `TypeOK`, `ToldIsRecent`, `SteadyPunchPairs` | a punch tells recent endpoints only, and reaches both sides when nothing moves |
| `lifecycle` | `TypeOK`, `ServesUntilClosed`, `CloseIsComplete`, `FailureLeavesNothing`, `CloseStops` | readers and background loops survive errors and panics, a failed start leaves nothing, `Close` is complete for every caller and ends what it found |

Runs in which the code departs from what its comments say:

| Run | Property | Departure |
|---|---|---|
| `relay_order` | `FlowOrder` | a WSS write overtakes packets to the same destination in the UDP batch |
| `gossip_datagram` | `PeersLearnRoutes` | a sync larger than a UDP datagram is never sent |
| `transport_close` | `CloseReturns` | with `recvCh` full and no `Recv`, `Close` never returns |
| `transport_leak` | `CloseShutsDown` | a connection installed while `Close` runs stays open after it returned |

The two runs of `CloseReturns` belong together: it depends on a caller of
`Recv`. So do `transport_leak` and the theorem `CloseBound`: the connection left
open exists, and there is at most one.

Six more departures are in the models, each without a run of its own:

* The read loop of a replaced WSS connection can dispatch a frame after the
  replacement, since it checks the generation before `OnFrame` and not under the
  same lock. The comment at `wss/server.go:392` says that the generation makes it
  drop such frames. `AtMostOneLateFrame` is the bound that holds.
* `RelayDropped` is documented to count "capacity / errors" (`server.go:630`).
  It counts full queues; a packet whose UDP write fails is counted nowhere.
  `Accounting` says what each counter holds.
* The global punch cap (`server.go:184`, "global hard cap on punch commands per
  second") can be exceeded: readers that load the stamp together all pass, and a
  late store moves it back. `ReaderSpacing` is the bound that remains, one
  request per reader in `PunchGap` less the readers' lag.
* The relay budget per second lets nearly twice its number through around the
  end of a window. `RelayBudget` is the bound that holds.
* A registry list replaces the configured peers (`server.go:1839`), while the
  comment at `server.go:1474` calls the peer set the union of the two.
* A `Close` that comes before the last socket is bound closes only the sockets
  it sees. The others are served on, without background loops, and `closeOnce`
  makes later calls do nothing. `CloseStops` therefore speaks of the sockets
  found, and of all sockets only after `Ready()`.

### Bounds

* Registration: ids 0 and 2 share one of two shards with room for one node, so
  refusal happens; one keeps its heartbeat and sends DiscoverEx, the other comes
  and goes with a key. The intervals meet `Heartbeat + MinInterval <= NodeTTL + 1`
  with equality, the tightest case. `MaxClock` leaves time for a node to age out
  and be reaped, and is beyond twice `MinInterval`, so that the sweep does forget
  stamps and ids are admitted again after it. `MaxNotify` leaves time for a
  notify, one that is too early and one that is not. One reader runs next to the
  reaper; the proofs cover any number of readers.
* Relay: three packets and a batch of two, so both a full batch and one left to
  the timer occur; a queue of two. Both destinations are on one of two workers,
  one of them also on WSS, one known from gossip.
* Admission: two readers and two sources; the intervals meet the assumptions
  `PunchInterval <= PunchCleanup + 1` and `Second + MaxLag <= RelayCleanup + 1`
  with equality. `MaxLag` bounds how long a reader is suspended between reading
  the clock and using the time; with the code's five minutes
  of cleanup, a suspension of minutes is covered.
  `MaxClock` is longer than a window and a cleanup interval.
* Punch: three ids in a table with room for two, two endpoints, one reader.
  Discovers stand for the readers next to it; the proofs cover any number of
  punches at once. UDP writes are taken as done: an error is only logged.
* Lifecycle: three sockets, so a bind can fail in the middle; two loops, one of
  them a relay worker; two
  callers of `Close`, one of which waits for `Ready()`.
* Gossip: two beacons, one node, one beacon seen from two ports, two syncs in
  flight per sender (`MaxInFlight`; the network loses the rest). Ages stop
  counting beyond `GossipTTL`. Datagrams are not duplicated.
* WSS: one node with two connections and one writer, so one reconnect;
  `MaxPeers` 0, as `EnableCompatWSS` leaves it. An upgrade may always fail, so a
  limit only removes behaviours. The proofs cover any number of connections.
* Transport: three connection identities, used again when free; two senders;
  a channel of one item. So one sender can hold a connection that was replaced
  while the other uses the new one and a third is dialled. The two violations
  need no sender.

Deadlock is not checked for WSS, transport and lifecycle: after `Close` they
stop.

### Fairness

* Registration: the reaper's ticker fires for ever. A handler may stop anywhere.
* Relay: workers run and armed timers fire. Nothing is assumed of `select`
  beyond taking some ready case.
* Gossip: tickers fire and time passes. Strong fairness of delivery says that a
  beacon that keeps sending is heard again and again; the code relies on this,
  since it repeats syncs and never acknowledges them. Nothing forces a restart.
* Lifecycle: goroutines run on, handlers and the work of a loop end, and a read
  of a closed socket fails. A select chooses evenly among its ready cases, so a
  loop that meets `done` again and again takes it (strong fairness of
  `LoopDone`). Nobody must call `Close`, no packet must come and no bind must succeed.
* WSS: handlers, writers and a started `Close` run on; nobody must call `Close`.
* Transport: goroutines run on, and a dial succeeds in the end (strong fairness
  of `DialOK`), needed for `Reconnects`. A caller of `Recv` is assumed in
  `transport` and not in `transport_close`.

## Proofs

Each proof module shows an inductive invariant, with one step per action, and
derives its theorems from it. The only assumptions are the named `ASSUME`s on
constants, which TLC evaluates in the runs.

* `Registration_proofs`: `Typing`, `LiveNeverReaped`, `ShardCap`, `Spacing`.
  `LiveStaysRegistered` alone is not inductive. The invariant adds that, with no
  Upsert pending, the last handled Discover of a live id found an entry younger
  than `MinInterval`, at most `Heartbeat` ago. So the entry is younger than the
  TTL at every threshold of the reaper. This needs
  `Heartbeat + MinInterval <= NodeTTL + 1`; the code has 60 s, 30 s and 10 min.
  It also assumes that a Discover of a live id is handled within a clock tick.
  For the spacing, it adds that a stamp the sweep forgot is old.
* `Relay_proofs`: `Typing`, `BatchesAreTimed`, `WorkersKeepOrder`, and the
  lemmas on which the counters and the flows rest. For the timer, the invariant
  follows `timer` and `timerActive` through every position of the worker. For
  the order (`PacketInv`), it says that the numbers in batch, hand and queue of
  a worker are increasing, belong to destinations of that worker and are at most
  those that arrived. `Effects` then reduces every step of a worker to one of a
  few moves of packets, which the remaining proofs use instead of the actions.
* `RelayFlow_proofs`, in four parts:
  * `FlowsAreChannels`: the pipeline implements `FlowChannel`. Initial states
    map to initial states, and every step to a step of the channel or to none.
    The order of a worker makes the packet it takes the oldest that waits. That
    all packets to a destination are with one worker, the one `relayQueueFor`
    chooses, makes it the oldest among all workers.
  * `FlowsKeepOrder` and `UdpFlowsAreFifo` follow from the steps of the channel.
    The invariant (`Lane`) says that what left for a destination over one
    transport has a smaller number than what it still holds for that transport:
    for UDP what is batched and what waits, for WSS only what waits. A
    destination that is never on WSS therefore sees its whole flow in order.
  * `OvertakingIsBounded`: where a WSS write breaks the order (`relay_order`),
    each packet is sent ahead of fewer earlier ones than a batch holds. The
    packets it may still be ahead of are in the batch when it leaves, and the
    invariant (`RiskInv`) bounds them together with those it has passed.
  * `CountersAreExact`: the property `Accounting`. Every packet is in the hands
    of exactly one worker or has its verdict (`Custody`); each step moves
    packets as the counters say (`Books`); so what left is what `sent` records,
    without repetition (`Departed`), and each counter is the size of its set
    (`Tallied`), where what a running flush has sent is not yet counted.
* `WssServer_proofs`: `Typing`, `Newest`, `Reachable`, `OneLateFrame`. The
  invariant adds that the handler inside the critical section has flagged the
  connection it replaces, and that a connection which dispatched a late frame
  will not read again.
* `Transport_proofs`: `Typing`, `ChannelSafety`, `SendersFollow`,
  `NoneLeftBehind`, `CloseBound`. The invariant adds which goroutine answers for
  an installed and for an open connection, that a connection some goroutine is
  about to clear is closed already, and that `Close` waits for the supervisor.
* `Admission_proofs`: `Typing`, `SourcesSpaced`, `ReadersSpaced`, `Budget`. The
  spacing needs that a forgotten stamp is old, and that no stored stamp is
  more than `MaxLag` behind the last request a reader admitted. For the budget,
  the history of a source is cut where its window began: the window's count
  passed since then, and fewer than the budget in a window's length before.
* `Punch_proofs`: `Typing`, `RecentIsTold`, `SteadyPairs`. The invariant says
  for each position of the handler where the endpoints it holds come from, and
  that for an undisturbed punch they are those in the table.
* `Server_proofs`: of `Lifecycle`, `Typing`, `Serves`, `CloseCompletes`,
  `FailureIsClean`; of `Gossip`, `MeshTyping`, `RoutesHaveOwners`,
  `OwnersWithdraw`. The invariant of the life cycle says that nothing runs
  before it is started (`Started`), that nothing has ended or been closed while
  nobody has called `Close` (`Untouched`), and that the sockets found and still
  open are those that one caller is about to close (`Teardown`). Types and
  `RouteOwnerSeen` are inductive together for the mesh.

Every safety property that a passing run checks is proved for all instances.
`UdpFlowOrder`, `OvertakesFew` and `CloseLeaves` are proved and have no run of their own.

Only model-checked are the liveness properties: `OrphansAreDropped`,
`QueuedIsResolved`, `GhostRoutesVanish`, `PeersLearnRoutes`, `HandlersEnd`,
`Reconnects`, `CloseReturns` and `CloseStops`. They rest on fairness, about
which the prover cannot reason.

## Hazards without a property

`PROJECT.json` lists the hazards with the line where each bites. Those without a
property have a note: the count `WriteBatch` returns, the `MaxPeers` race, the
`Has`/`Delete` race of the reaper (reachable in `Registration`, repaired by the
next Discover), a notify gap lost on re-registration, and the configured peers
replaced by the registry's list.

## Not modelled

* The wire format: stateless encoding and decoding.
* The health endpoint: it answers a constant. `SetHealthy` is documented "for
  graceful drain on scale-down" (`server.go:1858`), and the flag it stores is
  not read anywhere.
* The verdicts of breakers, whitelist and punch grant: each is a question to a
  callback, a list or a signature that changes no state. A request may pass or
  not; the models take what passes.
* Socket options, flag parsing, logging, metrics counters other than the
  relay's, lengths of backoffs, `Start` of the WSS server.
* The relay worker composed with the WSS server. `RouteChange` in `Relay` lets a
  WSS route come and go at any step, which includes everything `WssServer` does
  to it; the write itself is in both modules.
