# go-stream in TLA+

A verification development for `src/go`, the stream hub with its transports: TLA+
modules for the concurrent parts, TLC runs on small instances, and TLAPS proofs
for every value of the constants. `PROJECT.json` lists the components, the runs,
the lines each definition models, the hazards, the theorems and, for each checked
property, a mutant of the code that breaks it (the operators named `Mut_...`,
which stand before the definition they change and are used by no specification).

    tlc -config HubPeers_registry.cfg MCHubPeers.tla     one run
    tlapm HubProofs.tla                                  one module of proofs

## 1. The system

| Component | State | Operations | Hard because |
|---|---|---|---|
| Hub, registry (`hub.go`) | `peers`, `channels`, each peer's `subscriptions`, `running`, `done`, queues `register` and `unregister` | `Run` and its deferred shutdown, `AddPeer`, `RemovePeer`, `SubscribePeer`, `UnsubscribePeer`, hooks `OnConnect` and `OnDisconnect` | callers work by queue or directly, depending on `running` and on room; sections of two mutexes; hooks run unlocked |
| Hub, delivery (`hub.go`, `stream.go`) | `publishQueue`, `broadcastQueue`, handlers, peers' send queues, `done` | `Publish`, `Broadcast`, their `FromPeer` and `FromBridge` variants, `Subscribe`, unsubscribe, `Peer.Send`, `Peer.Close` | a full queue spawns goroutines; handlers are copied and called later; `done` outlives a restart |
| Server connections (`adapter/tcp`, `ws`, `sse`) | a goroutine per connection, its write pump, its peer, its socket; the shared `listener` of tcp | `Listen`, `handleConn`, `Dial` with `pipePeer`, `serveHTTP`, `serve` | five parties may end a connection; the handlers differ in the order of set-up and deferred calls; two owners close a listener |
| tcp frames (`adapter/tcp`) | a byte stream in each direction | `encodeTCPFrame`, `writeAll`, `readTCPFrame`, `Send`, `writePump` | several writers, partial writes, deadlines, two size limits |
| Reconnecting clients (`adapter/tcp`, `ws`) | `conn`, `state`, `closed`, retry budget, backoff | `Connect`, `Send`, `Close` | `Close` and the context race the dial, the handshake and the read loop; ws writes under its mutex |
| Redis bridge (`adapter/redis`) | `running`, `cancel`, `client`, `pubsub`, two taps into the hub | `Start`, `Stop`, `PublishToChannel`, `PublishBroadcast` | set-up in two sections; two owners close the same things; echo and relay loops |
| ZeroMQ adapter (`adapter/zmq`) | `running`, `socket`, `cancel` | `Start`, `Stop`, `Publish` | overlapping calls share the fields |
| Pipe (`stream.go`) | subscriptions on a source | `Pipe`, stop | rings of pipes |
| Service (`service.go`) | a hub, `cancel`, a once | `OnStartup`, `OnShutdown`, actions | restart |
| Queries (`hub.go`, `stats.go`) | none of their own | `Stats`, `PeerCount`, `ChannelCount`, `AllPeers`, `AllChannels` | each merges the channels of peers and of handlers in its own way |
| Configuration, messages, authenticators, compatibility, errors | none | pure functions and wrappers | numeric edges |

How they interact: the adapters of tcp, ws and sse make a `Peer`, add and subscribe
it, drain its send queue in a pump goroutine, and those of tcp and ws pass what they
read to `PublishFromPeer` or `BroadcastFromPeer`; the ZeroMQ adapter has a peer whose
queue nobody drains, and calls `Publish` and `Broadcast`. The hub calls back through the peer's
close hook, which closes the socket and thereby wakes the adapter's read. The
Redis bridge and `Pipe` hang on the hub's `SubscribePublished` and
`SubscribeBroadcast`, which the hub's loop calls. The bridge injects frames with
`PublishFromBridge` and `BroadcastFromBridge`, which do not notify these taps; a pipe
uses `Publish` and `Broadcast` of its destination, which do. The service owns a hub and runs its loop.

What makes each component correct: the registry, the channel index and the
peers' own subscriptions agree, hooks match the registry, and a shutdown leaves
nobody behind; an accepted frame is delivered once, in order where the queue had
room, and no goroutine outlives the hub; a handler closes its socket and ends,
and its peer leaves with it; a client keeps one connection, counts its retries and
ends when told to; a bridge runs once, sends nothing in circles and leaves nothing
open; a reader of frames never starts in the middle of one; a ring of pipes drains
when it is cut and holds up no shutdown.

## 2. The modules

Granularity is the same everywhere: a section under a mutex is one step, a channel
operation is one step, and what happens outside of the mutex (a hook, a close, a
send) is a step of its own with the values read before it. A place variable
(`pc`) says where a goroutine is between two of them.

**HubPeers** (`MCHubPeers`, `HubProofs`). Agents are goroutines: callers of the
exported methods, and runners, each with one call of `Run`. `AddPeer` reads
`running` and goes to `QueueRegister`, to `RegisterFull` (the default case of the
select) or straight to `addPeer`; `RemovePeer` likewise. `removePeer` is the section
that takes the peer from `peers`, `channels` and `subscriptions`; `Close` and
`OnDisconnect` follow it as steps of the same agent. `StopLoop` is the locked part of
the deferred function (`running = false`, the list of peers), `DrainPeer` removes one
of the list, `FinishRun` closes `done`. The hooks count themselves in history
variables.

**PeerRegistry**, **HubPeersRefinement** (`HubProofs`). What the hub
promises about its peers, without queues, mutexes or places: a set of members, what
they follow, who was invited, who was asked to leave, and the duties (`onConnect`,
`close`, `onDisconnect`) of whoever changed the membership. The refinement maps
`hub.peers` to the members, `hub.channels` to what is followed and the places of the
agents to their duties. A registry that joined a peer uninvited, took it out without
its subscriptions, greeted it twice or reported it before it was closed would have a
step with no counterpart.

**HubQueries**. The three methods that count channels, as functions of the state of
HubPeers and of any set of channels with handlers. They only read, so that the
module adds no action; `MCHubPeers` extends it.

**HubConfig**. `normalizeHubConfig` over 64-bit durations that wrap around. It has
no state and no run; `HubProofs` has its theorems.

**HubDelivery** (`MCHubDelivery`, `HubDeliveryProofs`). Frames are numbered by the call that sent them, and
`call[f]` remembers which handlers were owed the frame and what became of the call.
`Publish` is the section that looks up peers, `SendToPeer` one send, `Enqueue` the queue,
`Spawn` the goroutine of a full queue, `SpawnedEnqueue` and `SpawnedExit` its two ends. The
loop takes an item and copies the handlers (`ServePublish`, `ServeBroadcast`) and calls
them one by one (`Invoke`) while others subscribe, unsubscribe and leave. `bounds`
chooses what a behaviour looks at, among the few combinations that `MCBounds` lists.

**DeliveryService**, **HubDeliveryRefinement** (`HubDeliveryProofs`). What the hub promises
about frames, without queues, goroutines or copies of handler maps: a call is refused or
taken in; a frame that was taken in has one turn, in which the handlers that want it and
are subscribed at its beginning are called once each, after its peers were served;
frames that went in promptly have their turns in the order of their sender's calls; no
turn is cut short by a shutdown; and only a frame that was put off may be given up, by a
hub that has stopped. The refinement maps the items in the two queues, with goroutines
or in callers' hands to what is waiting or being called with, prompt if the queue had
room; the loop's item and its groups of handlers to the turn; the peers that the loop
and the callers have not come to yet to what is owed; and what a peer's connection and
send queue took to what the peer got. `draining` and `done` are the two stages of a
shutdown, `halting` and `stopped`.

**Reconnect** (`MCReconnect`, `ReconnectProofs`). Both clients in one module, told apart by `transport`
in the three places where they differ. `Step` gathers what `Connect` does without
waiting; the server answers dials, takes or refuses the handshake, drops connections
or stays silent; `Close` and its `conn.Close()` are two steps; `context.AfterFunc` is the
pair `watched` and `firing`, because `stopClose` loses against a function that has
started. A read may fail on an open connection too, for an invalid frame. The float
multiplier is given by `growth`, a function on durations that says what
`time.Duration(float64(d) * multiplier)` is: the specification admits any function, and
`MCReconnect` gives TLC those of 1/2, 3/2 and 3 on durations that overflow above 6.

**RedisBridge** (`MCRedisBridge`, `RedisBridgeProofs`). Calls of `Start` are named and
owned by a bridge; `held` stands for the five fields that `Store` sets together. `Start`,
`Store`, `Cleanup` and `Stop` are the sections of the mutex, what they do afterwards are
steps that overlap. Redis is external: it gives each listening subscription each
message, in order, until the subscription closes. A hub is its publish queue and its
loop, which is enough for taps and delivery.

**Connections** (`ConnectionsProofs`). One connection of each handler kind with its own place, socket, pump
and peer, beside the hub's queues, loop and shutdown, the context and the client.
`CloseSocket`, `Remove` and `CloseOwnPeer` are the deferred calls, in the order in which
each handler defers them. The sse handler writes to its client in its own goroutine and
without a deadline (`Write` and `Flushed`, at the places `greet` and `write`), so that a
client that stops reading (`StopReading`) can keep it there. The dialling of `Dial` is in
Reconnect, the channel index in HubPeers.

**TcpListener** (`ConnectionsProofs`) extends Connections by the calls of `Listen`: a tcp connection takes its
first step when a call accepts it, and its context is that call's. The calls share
`adapter.listener`; the goroutine of the context (`CloseWithContext`) and the deferred
function (`Close`, `Forget`) both close it, and the second of them fails.

**TcpFrames** (`TcpFramesProofs`). One tcp connection between a client and a server,
with the pieces of frames that are on the wire. `client` tells the two clients apart: the
senders of a ReconnectingTCP write one at a time under `writeMutex` and without a deadline,
`Adapter.Dial` has a write pump like the server's. `Write` takes a whole frame or half of
one, `PumpFails` is a pump's deadline and may leave half a frame behind, and `FrameRead` is what the reader makes
of the bytes in front of it: the frame that was sent if they are all of the same
frame, and garbage otherwise.

**ZmqAdapter** (`ZmqAdapterProofs`). Calls of `Start` with a socket, a context and a peer
each; `held` stands for `adapter.socket` and `adapter.cancel`. `Store` is the section with
the running check, `Cleanup` and `Release` the two halves of the deferred function,
`Handshake` the goroutine in `recvWithTimeout`, or its own `Recv` when there is no timeout
(`timed`). A call at `unset` returned from `newSocket` with a socket that nobody has.
`Publish` keeps the read lock while it is
in `Send`, which is why `Store`, `Cleanup` and `Stop` have the guard `Lock`.

**Pipes** (`MCPipes`, `PipesProofs`). Hubs in any network of pipes, each with its service,
its two queues without their order, and a loop that is idle or has pipes to call with
the frame it took. `Arrive` is a whole call of `Publish` or `Broadcast`; HubDelivery has
its steps.

## 3. The runs

| Run | Instance | Distinct states | Shows |
|---|---|---|---|
| `hub_registry` | 2 peers, 2 callers, 1 runner, 2 channels, queues of 1, one add and one remove each | 1,303,760 | the index mirrors the subscriptions, the queries agree, hooks match the registry, added peers stay |
| `hub_restart` | 1 peer, 1 caller, 2 calls of `Run` | 26,118 | one loop, shutdowns close what they listed and end (liveness), the abstract registry is implemented |
| `hub_delivery` | 1 caller, queues of 1; five combinations of a peer, handlers of each kind, 1 to 3 frames, 1 or 2 runs | 116,406 | at most once, handlers in order, nothing lost, one late call at most, delivery and the end of blocked goroutines (liveness), the abstract service is implemented |
| `reconnect` | tcp and ws, handshake, budget 3, backoff from 2 to the cap 5, multipliers 1/2, 3/2 and 3, 3 connections | 12,870 | sockets, budget and backoff are accounted for; cancellation ends `Connect` (liveness) |
| `redis_cluster` | 2 hubs, 2 bridges, 1 frame, published or broadcast | 422,676 | at most once, nothing comes back, arrival (liveness) |
| `redis_restart` | 1 bridge, 2 calls of `Start`, 1 `Stop`, 1 frame | 355,560 | one start at a time, nothing left open, `Stop` ends what it finds (liveness) |
| `connections` | 1 connection of each of the 4 kinds, 2 calls of `Listen` | 133,026 | sockets and listeners are closed, handlers and calls of `Listen` end, peers leave (liveness) |
| `tcp_frames` | both clients: 2 senders and the dialler, or a pump; the server's pump; 2 frames each way of 3 sizes, 2 limits | 219,167 | frames stay whole and in order, a legal frame ends no connection, frames arrive (liveness) |
| `zmq` | 2 calls of `Start`, 1 `Stop`, 1 publisher, senders and receivers, handshakes with and without a timeout | 240,219 | the fields are the running call's, `Send` keeps its socket, nothing is left, ends (liveness) |
| `pipes` | 2 hubs in a ring, 2 published frames or a broadcast, queues of 1 | 17,045 | shutdowns end, a cut ring drains, frames get on (all liveness) |
| `hub_zombie`, `redis_stop` | the smallest instance that shows it | | a statement of a test or of the RFC that the code does not keep (section 6) |

Why these bounds are enough to be interesting. Queues of one are full after one step,
so the fallback of `AddPeer` and `RemovePeer` and the spawned goroutines are exercised;
with three frames a spawned goroutine can be overtaken. Two callers and a runner give
each pair of the registry's methods a chance to interleave, and two peers show that
work on one leaves the other alone. Two runners, two starts and two listens cover
overlapping and successive calls. A budget of three covers growth, cap and exhaustion, since a pause
of 2 reaches the cap of 5 at once with a multiplier of 3, whose next product overflows,
approaches it with 3/2, and vanishes with 1/2 at the third pause. Connections share only the hub's
flag, its shutdown and a listener, and a step concerns one connection, so one at a
time is looked at. Three sizes of frames lie below, between and above the two limits.
Two hubs make the shortest ring there is; two frames of one kind fill a queue of one
and leave a goroutine waiting. `MaxCalls`, `MaxFrames`, `Bounds`, `Batches`, `MaxConns`,
`MaxStarts`, `MaxStops` and `SentKinds` bound the environment, never a guard of the code.

Deadlock is checked where the model always has something to do; the other
configurations say `CHECK_DEADLOCK FALSE` because the system may really stop: all
calls are made, the hub has stopped, the handlers have returned.

## 4. Fairness

* A goroutine that can take a step takes it: weak fairness of the steps an operation
  has begun. Nobody has to call a method, send a frame, cancel a context or hang up.
* `select` picks uniformly among the ready cases, so a case that is ready again and
  again is picked: strong fairness of `ServeRegister`, `ServeUnregister`, `StopLoop`,
  `ServePublish`, `ServeBroadcast`, `Stop`, and of `RunEnds` in Pipes.
* A channel serves the senders blocked on it in order of arrival (`SpawnedEnqueue` and
  `Enqueue` of Pipes, strong), and a Go mutex does not starve a waiter (`Step` of Reconnect
  and `StartStep` of ZmqAdapter, strong).
* The select of the sse handler is ready again after each event, so that `Done`, whose
  case is one of several, is strong too.
* Timers fire and a dial ends. Servers and clients owe nothing: a read of an open
  connection and a write to it may last for ever. They end once the connection does. An
  sse client may stop reading, at any time and for good; while it reads, a write to it
  ends (`Flushed`).
* In Connections, the TCP handshake ends within `HandshakeTimeout`, and a ws read
  within `PongTimeout` once the pump, which sends the pings, has ended: a client
  answers pings and sends no pongs of its own accord. `Accept` returns on a closed
  listener.
* In TcpFrames both ends go on reading, and a write finds room for that reason.
* In ZmqAdapter `Send` may block as long as its socket and its context live, and no
  message has to come; both fail afterwards.

Four consequences are stated in the properties instead of being assumed away:
`CancelReturns` excuses a write that stalls for ever (the tcp handshake is not
watched by the context, and a ws `Send` writes under the mutex), `HandlerEnds` an sse handler
whose client has stopped reading without hanging up, for as long as it does, since
neither the close hook nor the context reaches a handler in a write (`sse.go:125-129`,
`180-184`), `FramesArrive` a direction whose write pump, the server's or that of `Adapter.Dial`,
has given up (`tcp.go:346-353`), and `Ended` a call that waits for the lock behind a
`Publish` on another call's socket.

## 5. What is proved

Every invariant that a run checks is a theorem, and so are the action property
`RemovalIsComplete` and the two refinements. Each is proved for every value of the constants
from the named assumption of its module (`HubPeersAssumption` and so on);
`FramesReachOnce` has one hypothesis more, which it states. Where an
invariant is not inductive, TLC has checked the strengthening named here first.

**HubProofs**, for any peers, channels, callers, runners and capacities:

* `TypeCorrect`. `TypeOK` is inductive as it stands; it includes the bond between an
  agent's place and the peer it holds, without which `removePeer` could be entered
  with none.
* `LoopIsSingle`. `OneEventLoop` is inductive: `Run` enters the loop only if `running`
  is false, and then no runner is in it.
* `IndexMirrorsPeers` and `IndexHasNoDeadEntry`, from `RegistryInv`, their conjunction,
  since the same three methods write both. `ChannelsWithoutSubscribers` says what taking a
  peer out of entries does to every subscriber and to the entries left empty.
* `AnswersAlwaysAgree`, for a finite set of channels: without dead entries the two loops
  of `ChannelCount` count disjoint sets whose union is what the others walk, which
  `AnswersAgree` shows with the theorems about cardinalities.
* `RemovalCompletes`, an action property: `PeersFrame` leaves `removePeer` as the only step
  that shrinks `peers`, and it walks every entry of the index.
* `ShutdownClosesAll`. `ShutdownCloses` speaks of a `Run` that has returned; `ShutdownInv`
  follows the deferred function's list: a listed peer is still to be drained, or gone
  from the registry and then closed or in the hands of the agent about to close it.
* `DisconnectAfterClose`. `ClosedInv` adds the agents between the close and the hook.
* `HooksAddUp`. The balance of `HookAccounting` counts agents at places; `HookInv` adds that
  those sets are finite, though the agents need not be, and `HooksFrame` that a step
  moves one agent to or from a hook, so that a cardinality changes by one.
* `AddedPeersAreKept`. `AddedPeersStay` speaks of a settled hub; `StayInv` says where an
  added peer is on the way there: in `peers`, in the queue, or in the hand of the agent
  that puts it into one of them. `HeldInv` (below) rules out that the step that takes a
  peer from `peers` has one that nobody asked for.
* `RegistryImplemented`, that HubPeers implements PeerRegistry. `RefinementInv` joins the
  invariants above with `HeldInv`: every request that an agent, a queue or a shutdown's
  list holds was made. The step simulation goes action by action: a step on `peers` is
  `Join` or `Leave`, a hook pays its duty, `StopLoop` is `Shut`, and what moves a request on is
  a stutter.
* `PongFollowsHeartbeat` and `NormalizeOnce`, of HubConfig, for heartbeats from zero to
  half the range of a duration; longer ones overflow in the doubling.

**HubDeliveryProofs**, for any callers, handlers, peers, frames and capacities:

* `TypeCorrect`, where a frame in a queue or a hand has a number that was given out.
* `DeliveredAtMostOnce`, from `DeliveryInv`: an item is in one place only, the hand of its
  caller, a queue, a spawned goroutine or the loop, and a handler that has the frame in
  its log has no claim left on any of them. `AtMostOnce` alone is not inductive, since it
  does not see that a waiting frame cannot have been delivered.
* `AcceptedNotLost` and `LateDeliveryIsBounded`, from `StepKinds`, which sorts the steps by what
  they do to accepted frames (taken in, given up, moved, served, called), so that each
  invariant is proved for six kinds of step and not for every action.
* `HandlersSeeOrder`: the frames of one caller that were queued directly stand in order in
  its queue, behind what the loop has in hand, and that behind each handler's log.
* `ServiceImplemented`, that HubDelivery implements DeliveryService. `ServiceInv` joins
  `TypeOK`, `DeliveryInv` and the order behind `HandlersSeeOrder`. `HeadInTurn` draws from it
  that the head of a queue is overtaken by none of its caller's prompt frames, which is
  what the abstract turn demands, `OneOwes` that nobody else owes the loop's or a caller's
  frame, and `FreeLoop` that a loop that selects has finished its turn. Then each kind of
  step has a lemma (`OfferServed`, `SendServed`, `AcceptServed`, `MoveServed`, `GiveUpServed`,
  `TakeServed`, `CallServed`, `PumpServed`, `HubServed`) that maps it to a step of the service or
  to a stutter, as when a goroutine gets its frame into the queue.

**ReconnectProofs**, for both clients and any budget, backoff and number of connections:

* `TypeCorrect`, from `TypeInv`: Connect has a connection at every place that uses one,
  and a backoff that starts within the caps stays there whatever the multiplier.
* `StateTellsConn`, from `SessionInv`: the connection that `Close`, `Send` and `State` see
  is the one that Connect reads from, and is there only while it does. Without it
  `clearConn`, which leaves a connection alone that is not its own, could not be followed by
  `setState`.
* `NoConnectionLeaks`: `NoSocketLeak` is inductive given the types. A dial comes when none
  is open.
* `RetriesWithinBudget`, from `BudgetInv`, which counts the attempts at each place: none
  while there is a connection, at most the budget before a dial, one more between a
  failure and its check.
* `PausesFollowSchedule`, from `ScheduleInv`: the pause in hand is the one due for the
  failure counted, or for the next one. That a pause is due (`Due`) means a chain of
  pauses from `InitialBackoff` to it, each the next one's, within the bounds that the
  property lists; `NextPause` makes the chain one longer. The function `growth` is arbitrary,
  so that the theorem covers multipliers of 1.5 and below 1, truncation and overflow, and
  the branch `next <= 0` is what keeps a pause positive.

**RedisBridgeProofs**, for any bridges, calls and frames:

* `BridgeRunsOnce`, from `Exclusive`: `running` is true exactly while one call of the
  bridge is active, and what the bridge holds is that call's. `Stop` clears no field, so
  that only the clean-up of the active call ends this.
* `TypeCorrect` has the bonds between subscriptions, taps and places in it.
* `ReturnLeavesNothing`, from `LeftInv`: a call takes its own fields back (`OwnFields`), a
  `Stop` is at work on a call that was stored (`OwnTarget`), and whichever of the two closes
  the subscription is the one that still owes the close of the client (`EndInv`).
* `FramesReachOnce`, under the hypothesis `StartedOnce` that no bridge is started twice, for
  then two subscriptions overlap and a frame comes twice (section 7). `CopyInv` says where
  the copies of a frame are: what waits for its tap is nowhere else, and an inbox and
  the hub behind it never both have a frame that is not an echo.

**ZmqAdapterProofs**, for any calls: `TypeCorrect`, and

* `StartOwnsFields`, which is inductive given the types as long as nobody has called
  `Stop`; after a `Stop` it does not hold, and section 6 says what does.
* `SendKeepsSocket` and `NothingIsLeft`, from `AdapterInv`: the fields name a call that is past
  `Store`, a `Stop` on its way has the socket of a call that is no longer in them, and a
  call keeps its socket open until one of them or its hook closes it.

**TcpFramesProofs**, for any senders, sizes and limits:

* `TypeCorrect`, by which `writeMutex` has one holder at most and a sender that writes is it.
* `OneWriterAtATime`: no two writers of a direction have a piece of a frame to write. The
  dialler writes before anybody else can, then the holder of `writeMutex` or, for
  `Adapter.Dial`, its pump. No run lists `OneWriter`; `FramesIntact` is what it is for.
* `FramesStayIntact` and `LegalFramesDoNoHarm`, from `WireInv`: the wire is a stream of the
  frames sent after the last one read, of which half a one may stand at the end, and then
  the only writer of that direction holds the other half, or nobody writes there again.

**ConnectionsProofs**, for any connections and calls of `Listen`; each theorem holds of
Connections and of TcpListener:

* `TypeCorrect` and `SocketsGetClosed`, from `ConnInv`, which says at which places a handler of
  each kind may be and, for ws, that before the handler has subscribed only a shutdown
  can have closed its peer.
* `ListenersHaveOwners`: `ListenInv` is inductive.

**PipesProofs**, for any network: `TypeCorrect`, and `LoopsGoOn`, that a loop has a frame
exactly while it has a pipe of its own hub to call with it, whatever pipes are joined
and stopped meanwhile.

Not proved, and checked by TLC alone: the liveness properties, because ENABLED and
fairness are out of the prover's reach. No theorem says that an accepted frame
arrives, that a call returns or that a goroutine ends.

## 6. Disagreements with the documents

Two are shown by a run:

* `hub_zombie`: `AddPeer` then `RemovePeer` of one goroutine may be served in the other
  order, since they are two queues of one select; the peer then stays registered.
  The test at `go/behaviour_test.go:227` waits for the registration first.
* `redis_stop`: `Stop` between `running = true` and the storing of `cancel` returns
  without having stopped anything.

Others are in the models without a run of their own, as behaviours that the
properties allow or name as their exceptions:

* `removePeer` returns for a peer that is not registered before it clears the channel
  index. A removal that overtakes the registration, or follows a shutdown that
  overtook it, leaves the subscriptions behind. (HubPeers)
* `Close` of a reconnecting client during a dial closes nothing, and `Connect` stores and
  serves the connection it then gets. (Reconnect)
* A shutdown between the ws handler's `AddPeer` and `SetCloseHook`, followed by a refused
  subscription, leaves the upgraded connection open: the exception in
  `HandlerClosesSocket`. (Connections)
* When the context has closed the listener first, the deferred function of `Listen`
  returns before it clears `adapter.listener`: the next `Listen` is given the closed
  listener and returns at once, though its context lives. `ListenersOwned` says that
  nothing else ends a `Listen` early. (TcpListener)
* After a `Stop` of the ZeroMQ adapter and a second `Start`, the deferred function of the
  first call clears the fields of the second: `Publish` fails and a further `Stop` finds
  nothing to stop. `FieldsAreOwned` therefore ends with the first `Stop`. (ZmqAdapter)
* When a subscriber's `SetOption` fails, `newSocket` returns without closing the socket it
  made: the exception in `NothingLeft`. (ZmqAdapter)
* A removal, a shutdown or the end of the context does not end an sse handler that is
  writing to a client which does not read: the exception in `HandlerEnds`. (Connections)
* A write pump that gives up leaves its connection open and mute, at either end: the
  exception in `FramesArrive`. (TcpFrames)
* A frame above the other end's `MaxFrameSize` is not refused by the encoder and ends the
  connection: the exception in `LegalFramesPass`. (TcpFrames)

## 7. What is not modelled

Panics of hooks and handlers (the loop recovers those of handlers), nil receivers
and empty names, which return before anything changes; the content of frames and
messages; real time: a timeout is a step that may happen; memory, sockets and the
network below `net.Conn`. User code inside a callback is not modelled, so that an
authoriser which calls the hub under its mutex, or a Redis publish that takes five
seconds inside the loop, are hazards without a property. The duplicates of two
overlapping starts of one bridge are not bounded by a property either, nor is the
index entry of an sse peer that was refused its second channel. Frames of 4 GiB, which
overflow the length field, are left out of TcpFrames. The sorting in `AllPeers`, the
fall-back of `Pipe` for a `Stream` that is no hub and the actions of the service that only
ask are left out.

Three components have no module because nothing in them changes a state: the
authenticators are look-ups whose answer the models choose freely, the compatibility
layers are aliases and wrappers of what is modelled, and the errors are values.

## 8. Plan

What is left, in this order:

1. The hubs of Pipes, whose `Arrive` is a whole call, as instances of DeliveryService.
2. The pings of the ws handler, and the channel index in Connections.
