---------------------------- MODULE RedisBridge ----------------------------
(***************************************************************************)
(* Redis bridges (src/go/adapter/redis/redis.go): hubs on several nodes,   *)
(* each with one Bridge to the same Redis; the calls of Start, one after   *)
(* the other or overlapping, that tap the hub's published and broadcast    *)
(* frames and receive what the other bridges send; Stop beside them; and   *)
(* the frames that travel between the hubs.                                *)
(*                                                                         *)
(* A hub is what HubDelivery shows of it: a queue, and a loop that calls   *)
(* the handlers it copied.  Every hub has a subscriber that is called with *)
(* every frame.  Redis is external: it hands a message to the connections  *)
(* that listen at that moment, in order, and may lose a connection.  A     *)
(* frame is the number of the call that sent it; an envelope's encoding    *)
(* and the key of a channel lose nothing and are left out, its kind says   *)
(* which of the two subscriptions it came by.                              *)
(***************************************************************************)
EXTENDS Naturals, Sequences, FiniteSets

CONSTANTS
  Bridges,    \* bridges, each on the hub of its own node
  Starts,     \* calls of Start
  Owner,      \* [Starts -> Bridges]
  None,       \* no call
  MaxFrames,  \* bound: frames sent
  SentKinds,  \* bound: the kinds of frames that are sent
  MaxStops    \* bound: [Bridges -> calls of Stop]

ASSUME RedisBridgeAssumption ==
  /\ Owner \in [Starts -> Bridges] /\ None \notin Starts
  /\ MaxFrames \in Nat /\ SentKinds \subseteq {"publish", "broadcast"}
  /\ MaxStops \in [Bridges -> Nat]

Kinds == {"publish", "broadcast"}
Frames == 1 .. MaxFrames

VARIABLES
  running,    \* bridge.running
  held,       \* the call whose cancel, client, pubsub and stops the bridge holds
  \* A call of Start.
  pc,         \* its place
  ctx,        \* its runContext is done
  pubsub,     \* its subscription: none, open or closed
  client,     \* its client: none, open or closed
  taps,       \* kinds of frames for which its handler is subscribed in the hub
  took,       \* the call whose stops its deferred function took
  \* Redis.
  listening,  \* calls whose subscription Redis has
  inbox,      \* messages on their way to a call
  \* A call of Stop, for each bridge.
  stopper,    \* its place
  target,     \* the call whose fields it read
  stops,      \* calls so far
  \* The hubs.
  hubRunning, \* hub.running
  queue,      \* deliveries queued for the loop
  work,       \* what the loop has left to do for the one it took
  \* History.
  frames,     \* what was sent, where and of which kind
  log,        \* frames the subscribers were called with
  lost,       \* frames that a failing client or connection lost
  asked       \* calls of Start that a Stop found running

bridge == <<running, held>>
starts == <<pc, ctx, pubsub, client, taps, took>>
redis == <<listening, inbox>>
stopping == <<stopper, target, stops, asked>>
hubs == <<hubRunning, queue, work, log>>
vars == <<bridge, starts, redis, stopping, hubs, frames, lost>>

Places == {"idle", "open", "tapPublished", "tapBroadcast", "store", "receive", "cleanup", "untap",
           "close", "closeClient", "returned"}

NoWork == [frame |-> 0, kind |-> "publish", taps |-> {}]

\* publishDelivery or broadcastDelivery; notify is TRUE when the taps are called.
Delivery(f, k, n) == [frame |-> f, kind |-> k, notify |-> n]

\* envelope, with the kind of the key it was published under.
Envelope(b, f, k) == [source |-> b, frame |-> f, kind |-> k]

Init ==
  /\ running = [b \in Bridges |-> FALSE] /\ held = [b \in Bridges |-> None]
  /\ pc = [s \in Starts |-> "idle"] /\ ctx = [s \in Starts |-> FALSE]
  /\ pubsub = [s \in Starts |-> "none"] /\ client = [s \in Starts |-> "none"]
  /\ taps = [s \in Starts |-> {}] /\ took = [s \in Starts |-> None]
  /\ listening = {} /\ inbox = [s \in Starts |-> << >>]
  /\ stopper = [b \in Bridges |-> "idle"] /\ target = [b \in Bridges |-> None]
  /\ stops = [b \in Bridges |-> 0] /\ asked = {}
  /\ hubRunning = [b \in Bridges |-> TRUE] /\ queue = [b \in Bridges |-> << >>]
  /\ work = [b \in Bridges |-> NoWork]
  /\ frames = << >> /\ log = [b \in Bridges |-> << >>] /\ lost = {}

Goto(s, l) == pc' = [pc EXCEPT ![s] = l]

-----------------------------------------------------------------------------
(* Start.                                                                   *)

\* Mutant: a bridge that runs is started again.
Mut_Start(s) ==
  /\ pc[s] = "idle"
  /\ Goto(s, "open") /\ running' = [running EXCEPT ![Owner[s]] = TRUE]
  /\ UNCHANGED <<held, ctx, pubsub, client, taps, took, redis, stopping, hubs, frames, lost>>

Start(s) ==
  /\ pc[s] = "idle"
  /\ IF running[Owner[s]] THEN Goto(s, "returned") /\ UNCHANGED running
     ELSE Goto(s, "open") /\ running' = [running EXCEPT ![Owner[s]] = TRUE]
  /\ UNCHANGED <<held, ctx, pubsub, client, taps, took, redis, stopping, hubs, frames, lost>>

\* newRedisClient and PSubscribe, whose errors show only when messages are read
Open(s) ==
  /\ pc[s] = "open"
  /\ client' = [client EXCEPT ![s] = "open"] /\ pubsub' = [pubsub EXCEPT ![s] = "open"]
  /\ Goto(s, "tapPublished")
  /\ UNCHANGED <<bridge, ctx, taps, took, redis, stopping, hubs, frames, lost>>

Tap(s, k, next) ==
  /\ taps' = [taps EXCEPT ![s] = @ \cup {k}]
  /\ Goto(s, next)
  /\ UNCHANGED <<bridge, ctx, pubsub, client, took, redis, stopping, hubs, frames, lost>>

\* hub.SubscribePublished, hub.SubscribeBroadcast
TapPublished(s) == pc[s] = "tapPublished" /\ Tap(s, "publish", "tapBroadcast")
TapBroadcast(s) == pc[s] = "tapBroadcast" /\ Tap(s, "broadcast", "store")

Store(s) ==
  /\ pc[s] = "store"
  /\ held' = [held EXCEPT ![Owner[s]] = s]
  /\ Goto(s, "receive")
  /\ UNCHANGED <<running, ctx, pubsub, client, taps, took, redis, stopping, hubs, frames,
                 lost>>

\* Mutant: every node has the same source.
Mut_OwnAll(s, m) == TRUE

\* decoded.SourceID == bridge.sourceID, the same for every Start of the bridge
Own(s, m) == m.source = Owner[s]

\* Mutant: what comes from Redis goes back to it.
Mut_FromBridge(m) == Delivery(m.frame, m.kind, TRUE)

\* PublishFromBridge and BroadcastFromBridge do not notify the taps.
FromBridge(m) == Delivery(m.frame, m.kind, FALSE)

\* One turn of the loop; a hub that does not run ends it.
Receive(s) ==
  LET m == Head(inbox[s])  b == Owner[s]
  IN  /\ pc[s] = "receive" /\ pubsub[s] = "open" /\ inbox[s] # << >>
      /\ inbox' = [inbox EXCEPT ![s] = Tail(@)]
      /\ \/ Own(s, m) /\ UNCHANGED <<pc, queue>>
         \/ /\ ~Own(s, m) /\ hubRunning[b]
            /\ queue' = [queue EXCEPT ![b] = Append(@, FromBridge(m))]
            /\ UNCHANGED pc
         \/ ~Own(s, m) /\ ~hubRunning[b] /\ Goto(s, "cleanup") /\ UNCHANGED queue
      /\ UNCHANGED <<bridge, ctx, pubsub, client, taps, took, listening, stopping, hubRunning,
                     work, log, frames, lost>>

\* ReceiveMessage fails: its context is done, its subscription was closed by
\* Stop, or the connection is lost with what was on its way.
ReceiveFail(s) ==
  /\ pc[s] = "receive"
  /\ Goto(s, "cleanup")
  /\ lost' = lost \cup {inbox[s][i].frame : i \in DOMAIN inbox[s]}
  /\ listening' = listening \ {s} /\ inbox' = [inbox EXCEPT ![s] = << >>]
  /\ UNCHANGED <<bridge, ctx, pubsub, client, taps, took, stopping, hubs, frames>>

\* The deferred function's section under the mutex.
Cleanup(s) ==
  /\ pc[s] = "cleanup"
  /\ took' = [took EXCEPT ![s] = held[Owner[s]]]
  /\ running' = [running EXCEPT ![Owner[s]] = FALSE]
  /\ held' = [held EXCEPT ![Owner[s]] = None]
  /\ Goto(s, "untap")
  /\ UNCHANGED <<ctx, pubsub, client, taps, redis, stopping, hubs, frames, lost>>

\* publishStop() and broadcastStop(); a call may have been made by Stop already.
Untap(s) ==
  /\ pc[s] = "untap"
  /\ \/ /\ took[s] # None
        /\ \E k \in taps[took[s]] : taps' = [taps EXCEPT ![took[s]] = @ \ {k}]
        /\ UNCHANGED pc
     \/ /\ took[s] = None \/ taps[took[s]] = {}
        /\ Goto(s, "close")
        /\ UNCHANGED taps
  /\ UNCHANGED <<bridge, ctx, pubsub, client, took, redis, stopping, hubs, frames, lost>>

\* pubsub.Close() takes the subscription out of Redis.
ClosePubSub(s) ==
  /\ pubsub' = [pubsub EXCEPT ![s] = "closed"]
  /\ listening' = listening \ {s} /\ inbox' = [inbox EXCEPT ![s] = << >>]

\* runCancel() and pubsub.Close(), whose error, when Stop was faster, skips
\* client.Close().
Close(s) ==
  /\ pc[s] = "close"
  /\ ctx' = [ctx EXCEPT ![s] = TRUE]
  /\ ClosePubSub(s)
  /\ Goto(s, IF pubsub[s] = "closed" THEN "returned" ELSE "closeClient")
  /\ UNCHANGED <<bridge, client, taps, took, stopping, hubs, frames, lost>>

CloseClient(s) ==
  /\ pc[s] = "closeClient"
  /\ client' = [client EXCEPT ![s] = "closed"]
  /\ Goto(s, "returned")
  /\ UNCHANGED <<bridge, ctx, pubsub, taps, took, redis, stopping, hubs, frames, lost>>

\* The context given to Start is done.
Cancel(s) ==
  /\ ~ctx[s] /\ pc[s] # "idle"
  /\ ctx' = [ctx EXCEPT ![s] = TRUE]
  /\ UNCHANGED <<bridge, pc, pubsub, client, taps, took, redis, stopping, hubs, frames, lost>>

-----------------------------------------------------------------------------
(* Stop.                                                                    *)

Active(s) == pc[s] \notin {"idle", "returned", "untap", "close", "closeClient"}

\* The section under the mutex, and the early return.
Stop(b) ==
  /\ stopper[b] = "idle" /\ stops[b] < MaxStops[b]
  /\ stops' = [stops EXCEPT ![b] = @ + 1]
  /\ asked' = IF running[b] THEN asked \cup {s \in Starts : Owner[s] = b /\ Active(s)}
              ELSE asked
  /\ stopper' = [stopper EXCEPT ![b] = IF held[b] # None THEN "cancel" ELSE "idle"]
  /\ target' = [target EXCEPT ![b] = held[b]]
  /\ UNCHANGED <<bridge, starts, redis, hubs, frames, lost>>

StopAt(b, here, next) ==
  /\ stopper[b] = here
  /\ stopper' = [stopper EXCEPT ![b] = next]
  /\ target' = IF next = "idle" THEN [target EXCEPT ![b] = None] ELSE target
  /\ UNCHANGED <<stops, asked>>

StopCancel(b) ==
  /\ StopAt(b, "cancel", "untap")
  /\ ctx' = [ctx EXCEPT ![target[b]] = TRUE]
  /\ UNCHANGED <<bridge, pc, pubsub, client, taps, took, redis, hubs, frames, lost>>

StopUntap(b) ==
  /\ \/ /\ StopAt(b, "untap", "untap")
        /\ \E k \in taps[target[b]] : taps' = [taps EXCEPT ![target[b]] = @ \ {k}]
     \/ /\ StopAt(b, "untap", "close")
        /\ taps[target[b]] = {} /\ UNCHANGED taps
  /\ UNCHANGED <<bridge, pc, ctx, pubsub, client, took, redis, hubs, frames, lost>>

StopClose(b) ==
  /\ StopAt(b, "close", "closeClient")
  /\ ClosePubSub(target[b])
  /\ UNCHANGED <<bridge, pc, ctx, client, taps, took, hubs, frames, lost>>

\* Mutant: Stop leaves the client to Start.
Mut_StopCloseClient(b) ==
  /\ StopAt(b, "closeClient", "idle")
  /\ UNCHANGED <<bridge, starts, redis, hubs, frames, lost>>

\* client.Close(), whatever pubsub.Close() returned
StopCloseClient(b) ==
  /\ StopAt(b, "closeClient", "idle")
  /\ client' = [client EXCEPT ![target[b]] = "closed"]
  /\ UNCHANGED <<bridge, pc, ctx, pubsub, taps, took, redis, hubs, frames, lost>>

-----------------------------------------------------------------------------
(* Frames.                                                                  *)

\* The publication on Redis reaches the calls that listen, or nobody.
RedisPublish(b, f, k, up) ==
  \/ /\ up
     /\ inbox' = [s \in Starts |-> IF s \in listening THEN Append(inbox[s], Envelope(b, f, k))
                                   ELSE inbox[s]]
     /\ UNCHANGED lost
  \/ lost' = lost \cup {f} /\ UNCHANGED inbox

Record(b, k, how) == frames' = Append(frames, [origin |-> b, kind |-> k, how |-> how])

\* hub.Publish or hub.Broadcast on the node of b.
HubSend(b, k) ==
  /\ hubRunning[b] /\ Len(frames) < MaxFrames
  /\ Record(b, k, "hub")
  /\ queue' = [queue EXCEPT ![b] = Append(@, Delivery(Len(frames) + 1, k, TRUE))]
  /\ UNCHANGED <<bridge, starts, redis, stopping, hubRunning, work, log, lost>>

\* bridge.PublishToChannel or bridge.PublishBroadcast: with the client that the
\* bridge holds, or with a new one.
BridgeSend(b, k) ==
  /\ running[b] /\ Len(frames) < MaxFrames
  /\ Record(b, k, "bridge")
  /\ RedisPublish(b, Len(frames) + 1, k, held[b] # None => client[held[b]] = "open")
  /\ UNCHANGED <<bridge, starts, listening, stopping, hubs>>

\* The hub's loop calls its subscriber, and has the taps it copied to call.
Serve(b) ==
  LET d == Head(queue[b])
  IN  /\ hubRunning[b] /\ work[b].taps = {} /\ queue[b] # << >>
      /\ queue' = [queue EXCEPT ![b] = Tail(@)]
      /\ log' = [log EXCEPT ![b] = Append(@, d.frame)]
      /\ work' = [work EXCEPT ![b] =
           [frame |-> d.frame, kind |-> d.kind,
            taps |-> {s \in Starts : d.notify /\ Owner[s] = b /\ d.kind \in taps[s]}]]
      /\ UNCHANGED <<bridge, starts, redis, stopping, hubRunning, frames, lost>>

\* The handler of call s: publishWithClient, in the hub's loop.
Forward(s) ==
  LET b == Owner[s]
  IN  /\ s \in work[b].taps
      /\ work' = [work EXCEPT ![b].taps = @ \ {s}]
      /\ RedisPublish(b, work[b].frame, work[b].kind, client[s] = "open")
      /\ UNCHANGED <<bridge, starts, listening, stopping, hubRunning, queue, log, frames>>

\* The hub's context ends; its loop takes nothing more.
HubStops(b) ==
  /\ hubRunning[b] /\ work[b].taps = {}
  /\ hubRunning' = [hubRunning EXCEPT ![b] = FALSE]
  /\ UNCHANGED <<bridge, starts, redis, stopping, queue, work, log, frames, lost>>

\* Redis takes up the subscription.
Listen(s) ==
  /\ pubsub[s] = "open" /\ s \notin listening
  /\ listening' = listening \cup {s}
  /\ UNCHANGED <<bridge, starts, inbox, stopping, hubs, frames, lost>>

-----------------------------------------------------------------------------

\* A step of a call of Start that waits for nobody.
StartStep(s) ==
  \/ Open(s) \/ TapPublished(s) \/ TapBroadcast(s) \/ Store(s) \/ Receive(s)
  \/ Cleanup(s) \/ Untap(s) \/ Close(s) \/ CloseClient(s)

StopStep(b) == StopCancel(b) \/ StopUntap(b) \/ StopClose(b) \/ StopCloseClient(b)

Next ==
  \/ \E s \in Starts : Start(s) \/ StartStep(s) \/ ReceiveFail(s) \/ Cancel(s) \/ Listen(s)
                       \/ Forward(s)
  \/ \E b \in Bridges : Stop(b) \/ StopStep(b) \/ Serve(b) \/ HubStops(b)
  \/ \E b \in Bridges, k \in SentKinds : HubSend(b, k) \/ BridgeSend(b, k)

Spec == Init /\ [][Next]_vars

\* Goroutines run; ReceiveMessage fails once its context is done or its
\* subscription closed.  Nobody has to send, to stop or to cancel.
Fairness ==
  /\ \A s \in Starts :
       /\ WF_vars(StartStep(s)) /\ WF_vars(Forward(s))
       /\ WF_vars((ctx[s] \/ pubsub[s] = "closed") /\ ReceiveFail(s))
  /\ \A b \in Bridges : WF_vars(StopStep(b)) /\ WF_vars(Serve(b))

FairSpec == Spec /\ Fairness

-----------------------------------------------------------------------------
(* Properties.                                                              *)

\* The fields of the bridges and of the calls of Start: Redis serves open
\* subscriptions only, and the client and subscription that a bridge holds, which
\* Stop and the taps use, are not nil.
StartsOK ==
  /\ running \in [Bridges -> BOOLEAN] /\ held \in [Bridges -> Starts \cup {None}]
  /\ pc \in [Starts -> Places] /\ ctx \in [Starts -> BOOLEAN]
  /\ pubsub \in [Starts -> {"none", "open", "closed"}]
  /\ client \in [Starts -> {"none", "open", "closed"}]
  /\ taps \in [Starts -> SUBSET Kinds] /\ took \in [Starts -> Starts \cup {None}]
  /\ listening \subseteq {s \in Starts : pubsub[s] = "open"}
  /\ \A b \in Bridges : held[b] # None => pubsub[held[b]] # "none" /\ client[held[b]] # "none"

StopsOK ==
  /\ stopper \in [Bridges -> {"idle", "cancel", "untap", "close", "closeClient"}]
  /\ target \in [Bridges -> Starts \cup {None}] /\ stops \in [Bridges -> Nat]
  /\ asked \subseteq Starts

\* Whatever is on its way was sent, and a loop calls the taps of its own bridge.
TrafficOK ==
  /\ hubRunning \in [Bridges -> BOOLEAN]
  /\ frames \in Seq([origin : Bridges, kind : Kinds, how : {"hub", "bridge"}])
  /\ Len(frames) <= MaxFrames
  /\ inbox \in [Starts -> Seq([source : Bridges, frame : DOMAIN frames, kind : Kinds])]
  /\ queue \in [Bridges -> Seq([frame : DOMAIN frames, kind : Kinds, notify : BOOLEAN])]
  /\ work \in [Bridges -> [frame : {0} \cup DOMAIN frames, kind : Kinds, taps : SUBSET Starts]]
  /\ \A b \in Bridges : \A s \in work[b].taps : Owner[s] = b /\ work[b].frame # 0
  /\ log \in [Bridges -> Seq(DOMAIN frames)]
  /\ lost \subseteq DOMAIN frames

\* The type invariant.
TypeOK == StartsOK /\ StopsOK /\ TrafficOK

\* A bridge runs for exactly one call of Start, and holds nothing of another:
\* what Stop reads from it and what the deferred function takes are that call's,
\* however the calls of Start and Stop overlap.
OneStart ==
  \A b \in Bridges :
    LET active == {s \in Starts : Owner[s] = b /\ Active(s)}
    IN  /\ Cardinality(active) = IF running[b] THEN 1 ELSE 0
        /\ held[b] \in active \cup {None}

\* A Start that has returned leaves nothing behind, unless a Stop is at it: the
\* client and the subscription are closed, by one of the two, whichever closed
\* the subscription first, and the hub no longer calls its handlers.
NothingLeft ==
  \A s \in Starts : pc[s] = "returned" /\ target[Owner[s]] # s =>
    client[s] # "open" /\ pubsub[s] # "open" /\ taps[s] = {}

Count(f, l) == Cardinality({i \in DOMAIN l : l[i] = f})

\* A Stop that finds the fields of a running Start ends it.
StopEndsFound ==
  \A s \in Starts : target[Owner[s]] = s ~> pc[s] = "returned" /\ client[s] = "closed"

Underway(f, s) ==
  \E i \in DOMAIN inbox[s] : inbox[s][i].frame = f /\ inbox[s][i].source # Owner[s]

\* While no bridge is started twice a frame reaches each hub at most once, and
\* what a bridge sent by itself does not reach its own hub ("frame from own
\* sourceID is dropped"): nothing comes back or goes round, although a hub's taps
\* would put what PublishFromBridge brings on Redis again.
AtMostOnce ==
  \A b \in Bridges : \A f \in DOMAIN frames :
    Count(f, log[b]) <= IF frames[f].origin = b /\ frames[f].how = "bridge" THEN 0 ELSE 1

\* A message that Redis handed to a bridge reaches the subscriber of its hub,
\* unless the connection, the bridge or the hub ends first.
MessageArrives ==
  \A f \in Frames, s \in Starts :
    Underway(f, s) ~> \/ Count(f, log[Owner[s]]) > 0 \/ f \in lost
                      \/ pubsub[s] = "closed" \/ ~hubRunning[Owner[s]]

\* "Blocks in a goroutine until Stop() or ctx cancel" (docs/RFC.md:782): a Stop of
\* a running bridge ends its Start.
StopEndsStart == \A s \in Starts : s \in asked ~> pc[s] = "returned"
=============================================================================
