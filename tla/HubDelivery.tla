---------------------------- MODULE HubDelivery ----------------------------
(***************************************************************************)
(* How frames travel through stream.Hub (src/go/hub.go): Publish, which    *)
(* sends to the channel's peers in the calling goroutine and queues the    *)
(* frame for the handlers; Broadcast, which queues it for the loop; the    *)
(* goroutines spawned when a queue is full; the loop, which copies the     *)
(* handler maps under the mutex and calls the copies without it; Subscribe *)
(* and its unsubscribe function; and the shutdown.                         *)
(*                                                                         *)
(* The registry is HubPeers': here a peer is a member from the start, with *)
(* fixed subscriptions, and may leave once.  HubPeers shows that one loop  *)
(* runs at a time and that leaving takes a peer out of every channel in    *)
(* one step, which is what this module takes for granted.                  *)
(*                                                                         *)
(* A frame is the number of the call that sent it.  A step is a section    *)
(* under hub.mutex, one channel operation, or one call of a handler; a     *)
(* handler that panics is recovered, which changes nothing here.           *)
(*                                                                         *)
(* A definition named Mut_... is a plausible bug in the definition that    *)
(* follows it; no specification uses it, PROJECT.json names the property   *)
(* that catches it.                                                        *)
(***************************************************************************)
EXTENDS Naturals, Sequences, FiniteSets

CONSTANTS
  Callers,       \* goroutines that publish and broadcast
  Peers,
  Handlers,      \* the closures that may be subscribed
  Channels,      \* channel names, the wildcard among them
  Wildcard,      \* the channel "*"
  NoChannel,     \* the channel of a broadcast, and of the other handler kinds
  HandlerOf,     \* [Handlers -> [kind, channel]]
  PeerChannels,  \* [Peers -> SUBSET Channels]
  QueueCap,      \* capacity of broadcastQueue and of publishQueue (256)
  SendCap,       \* capacity of a peer's send queue (256)
  MaxFrames,     \* bound: calls of Publish and Broadcast
  Bounds         \* the bounds that a behaviour may have, see BoundsType

Kinds == {"channel", "published", "broadcast"}
Frames == 1 .. MaxFrames

\* What a behaviour looks at: the peers that the hub has at first, handlers that
\* may be subscribed, values of notify...Subscribers (FALSE is a bridge's call),
\* and the number of calls of Publish and Broadcast, and of Run.
BoundsType == [peers : SUBSET Peers, handlers : SUBSET Handlers, notify : SUBSET BOOLEAN,
               frames : 0 .. MaxFrames, runs : Nat]

ASSUME HubDeliveryAssumption ==
  /\ Wildcard \in Channels /\ NoChannel \notin Channels
  /\ HandlerOf \in [Handlers -> [kind : Kinds, channel : Channels \cup {NoChannel}]]
  /\ PeerChannels \in [Peers -> SUBSET Channels]
  /\ QueueCap \in Nat \ {0} /\ SendCap \in Nat \ {0}
  /\ MaxFrames \in Nat /\ \A b \in Bounds : b \in BoundsType

VARIABLES
  bounds,          \* the bounds of this behaviour
  running,         \* hub.running; a goroutine is in the loop exactly then
  draining,        \* a Run that has left the loop has yet to close hub.done
  cancelled,       \* the context of the current Run is done
  runs,            \* calls of Run so far
  done,            \* hub.done is closed
  members,         \* hub.peers, and through PeerChannels hub.channels
  closed,          \* peers whose send queue is closed
  subscribed,      \* handlers in channelHandlers, publishHandlers, broadcastHandlers
  publishQueue,    \* oldest first
  broadcastQueue,  \* oldest first
  spawned,         \* items held by goroutines blocked on a full queue
  work,            \* what the loop has left to do for the item it took
  offer,           \* what a caller has left to do for the frame it sends
  inbox,           \* a peer's send queue
  \* History, read by no guard but the bound on calls.
  sent,            \* number of frames so far
  call,            \* [Frames -> who sent it, how, and what became of it]
  unsubscribed,    \* handlers whose unsubscribe function has returned
  early,           \* the length of a handler's log when it was unsubscribed
  log,             \* frames a handler was called with, in order
  received         \* frames a peer's write pump took, in order

runState == <<bounds, running, draining, cancelled, runs, done>>
peerState == <<members, closed>>
handlerState == <<subscribed, unsubscribed, early>>
queues == <<publishQueue, broadcastQueue, spawned>>
delivered == <<inbox, log, received>>
vars == <<runState, peerState, handlerState, queues, delivered, work, offer, sent, call>>

-----------------------------------------------------------------------------
(* Items.                                                                   *)

\* publishDelivery and broadcastDelivery.
Item(k, f, ch, n) == [kind |-> k, frame |-> f, channel |-> ch, notify |-> n]

\* An agent's remaining work on an item: peers still to send to, and the
\* groups of handlers still to call, one group after another.  "then" says
\* whether the item is to be queued when the peers are served.
Idle == [frame |-> 0, peers |-> {}, groups |-> << >>, then |-> {}]
Spent(w) == w.peers = {} /\ \A i \in DOMAIN w.groups : w.groups[i] = {}

\* Mutant: the entry of an unsubscribed handler is not deleted.
Mut_ChannelHandlers(ch) ==
  {h \in subscribed \cup unsubscribed :
     HandlerOf[h].kind = "channel" /\ HandlerOf[h].channel = ch}

\* hub.channelHandlers[ch], hub.publishHandlers, hub.broadcastHandlers
ChannelHandlers(ch) ==
  {h \in subscribed : HandlerOf[h].kind = "channel" /\ HandlerOf[h].channel = ch}
HandlersOfKind(k) == {h \in subscribed : HandlerOf[h].kind = k}

\* collectChannelPeersLocked: the channel's peers and the wildcard's, once each
ChannelPeers(ch) == {p \in members : {ch, Wildcard} \cap PeerChannels[p] # {}}

\* Mutant: the wildcard handlers are called for the channel "*" once more.
Mut_PublishGroups(i) ==
  << ChannelHandlers(i.channel), ChannelHandlers(Wildcard),
     IF i.notify THEN HandlersOfKind("published") ELSE {} >>

\* The handlers that hold a copy of the item coming to them, by group.
PublishGroups(i) ==
  << ChannelHandlers(i.channel),
     IF i.channel # Wildcard THEN ChannelHandlers(Wildcard) ELSE {},
     IF i.notify THEN HandlersOfKind("published") ELSE {} >>
BroadcastGroups(i) ==
  << ChannelHandlers(Wildcard),
     IF i.notify THEN HandlersOfKind("broadcast") ELSE {} >>

Groups(i) == IF i.kind = "publish" THEN PublishGroups(i) ELSE BroadcastGroups(i)
Members(gs) == UNION {gs[i] : i \in DOMAIN gs}

\* Peer.Send: never blocks; a full or closed queue refuses the frame.
Send(p, f) ==
  inbox' = IF p \notin closed /\ Len(inbox[p]) < SendCap
           THEN [inbox EXCEPT ![p] = Append(@, f)] ELSE inbox

Init ==
  /\ bounds \in Bounds
  /\ running = FALSE /\ draining = FALSE /\ cancelled = FALSE
  /\ runs = 0 /\ done = FALSE
  /\ members = bounds.peers /\ closed = Peers \ members
  /\ subscribed = {} /\ unsubscribed = {} /\ early = [h \in Handlers |-> 0]
  /\ publishQueue = << >> /\ broadcastQueue = << >> /\ spawned = {}
  /\ work = Idle /\ offer = [c \in Callers |-> Idle]
  /\ inbox = [p \in Peers |-> << >>]
  /\ sent = 0 /\ call = << >>
  /\ log = [h \in Handlers |-> << >>]
  /\ received = [p \in Peers |-> << >>]

-----------------------------------------------------------------------------
(* Publish and Broadcast.                                                   *)

\* Caller c starts call number sent + 1; the fate is what its read of the hub
\* under the mutex decides, and due the handlers subscribed at that moment.
Record(c, i, fate) ==
  /\ sent' = sent + 1
  /\ call' = Append(call, [caller |-> c, kind |-> i.kind, fate |-> fate,
                           due |-> Members(Groups(i))])

Settle(f, fate) == call' = [call EXCEPT ![f].fate = fate]

\* sendToChannelFromPeer, up to the early returns.
Publish(c, ch, n) ==
  LET i == Item("publish", sent + 1, ch, n)
      idle == ChannelPeers(ch) = {} /\ Members(PublishGroups(i)) = {}
  IN  /\ offer[c] = Idle /\ sent < bounds.frames
      /\ \/ ~running /\ Record(c, i, "rejected") /\ UNCHANGED offer
         \/ running /\ idle /\ Record(c, i, "ignored") /\ UNCHANGED offer
         \/ /\ running /\ ~idle
            /\ Record(c, i, "offered")
            /\ offer' = [offer EXCEPT ![c] = [Idle EXCEPT
                            !.frame = i.frame, !.peers = ChannelPeers(ch), !.then = {i}]]
      /\ UNCHANGED <<runState, peerState, handlerState, queues, delivered, work>>

\* broadcastFrameFromPeer, up to the early return.
Broadcast(c, n) ==
  LET i == Item("broadcast", sent + 1, NoChannel, n)
  IN  /\ offer[c] = Idle /\ sent < bounds.frames
      /\ \/ ~running /\ Record(c, i, "rejected") /\ UNCHANGED offer
         \/ /\ running
            /\ Record(c, i, "offered")
            /\ offer' = [offer EXCEPT ![c] = [Idle EXCEPT !.frame = i.frame, !.then = {i}]]
      /\ UNCHANGED <<runState, peerState, handlerState, queues, delivered, work>>

\* hub.sendToPeer in the publishing goroutine, one peer after the other.
SendToPeer(c, p) ==
  /\ p \in offer[c].peers
  /\ Send(p, offer[c].frame)
  /\ offer' = [offer EXCEPT ![c].peers = @ \ {p}]
  /\ UNCHANGED <<runState, peerState, handlerState, queues, log, received, work, sent, call>>

\* case queue <- item, and the call returns nil
Enqueue(c) ==
  /\ offer[c].peers = {}
  /\ \E i \in offer[c].then :
       /\ \/ /\ i.kind = "publish" /\ Len(publishQueue) < QueueCap
             /\ publishQueue' = Append(publishQueue, i)
             /\ UNCHANGED broadcastQueue
          \/ /\ i.kind = "broadcast" /\ Len(broadcastQueue) < QueueCap
             /\ broadcastQueue' = Append(broadcastQueue, i)
             /\ UNCHANGED publishQueue
       /\ Settle(i.frame, "queued")
  /\ offer' = [offer EXCEPT ![c] = Idle]
  /\ UNCHANGED <<runState, peerState, handlerState, delivered, spawned, work, sent>>

\* Mutant: a full queue drops the item.
Mut_Spawn(c) ==
  /\ offer[c].peers = {}
  /\ \E i \in offer[c].then :
       /\ Len(IF i.kind = "publish" THEN publishQueue ELSE broadcastQueue) = QueueCap
       /\ Settle(i.frame, "spawned")
  /\ offer' = [offer EXCEPT ![c] = Idle]
  /\ UNCHANGED <<runState, peerState, handlerState, delivered, queues, work, sent>>

\* Mutant: a full queue makes room for the item by handing its oldest one to
\* the goroutine.
Mut_SpawnOldest(c) ==
  /\ offer[c].peers = {}
  /\ \E i \in offer[c].then :
       /\ i.kind = "publish" /\ Len(publishQueue) = QueueCap
       /\ spawned' = spawned \cup {Head(publishQueue)}
       /\ publishQueue' = Append(Tail(publishQueue), i)
       /\ Settle(i.frame, "queued")
  /\ offer' = [offer EXCEPT ![c] = Idle]
  /\ UNCHANGED <<runState, peerState, handlerState, delivered, broadcastQueue, work, sent>>

\* default: go enqueue...(item), and the call returns nil
Spawn(c) ==
  /\ offer[c].peers = {}
  /\ \E i \in offer[c].then :
       /\ Len(IF i.kind = "publish" THEN publishQueue ELSE broadcastQueue) = QueueCap
       /\ spawned' = spawned \cup {i}
       /\ Settle(i.frame, "spawned")
  /\ offer' = [offer EXCEPT ![c] = Idle]
  /\ UNCHANGED <<runState, peerState, handlerState, delivered, publishQueue,
                 broadcastQueue, work, sent>>

\* Mutant: the goroutine of a publish waits for hub.done alone.
Mut_SpawnedEnqueue(i) ==
  /\ i \in spawned
  /\ i.kind = "broadcast" /\ Len(broadcastQueue) < QueueCap
  /\ broadcastQueue' = Append(broadcastQueue, i)
  /\ spawned' = spawned \ {i}
  /\ UNCHANGED <<runState, peerState, handlerState, delivered, publishQueue, work, offer,
                 sent, call>>

\* A spawned goroutine gets the item into its queue.
SpawnedEnqueue(i) ==
  /\ i \in spawned
  /\ \/ /\ i.kind = "publish" /\ Len(publishQueue) < QueueCap
        /\ publishQueue' = Append(publishQueue, i)
        /\ UNCHANGED broadcastQueue
     \/ /\ i.kind = "broadcast" /\ Len(broadcastQueue) < QueueCap
        /\ broadcastQueue' = Append(broadcastQueue, i)
        /\ UNCHANGED publishQueue
  /\ spawned' = spawned \ {i}
  /\ UNCHANGED <<runState, peerState, handlerState, delivered, work, offer, sent, call>>

\* Mutant: enqueueBroadcast does not watch hub.done.
Mut_SpawnedExit(i) ==
  /\ i \in spawned
  /\ done /\ i.kind = "publish"
  /\ spawned' = spawned \ {i}
  /\ Settle(i.frame, "dropped")
  /\ UNCHANGED <<runState, peerState, handlerState, delivered, publishQueue,
                 broadcastQueue, work, offer, sent>>

\* Mutant: a blocked goroutine watches the context of Run, not hub.done.
Mut_SpawnedExitCancelled(i) ==
  /\ i \in spawned
  /\ cancelled
  /\ spawned' = spawned \ {i}
  /\ Settle(i.frame, "dropped")
  /\ UNCHANGED <<runState, peerState, handlerState, delivered, publishQueue,
                 broadcastQueue, work, offer, sent>>

\* A spawned goroutine gives the item up: case <-hub.done
SpawnedExit(i) ==
  /\ i \in spawned
  /\ done
  /\ spawned' = spawned \ {i}
  /\ Settle(i.frame, "dropped")
  /\ UNCHANGED <<runState, peerState, handlerState, delivered, publishQueue,
                 broadcastQueue, work, offer, sent>>

-----------------------------------------------------------------------------
(* Handlers and peers.                                                      *)

\* SubscribeWithError, subscribePublished, SubscribeBroadcast.
Subscribe(h) ==
  /\ h \in bounds.handlers \ (subscribed \cup unsubscribed)
  /\ subscribed' = subscribed \cup {h}
  /\ UNCHANGED <<runState, peerState, queues, delivered, work, offer, sent, call,
                 unsubscribed, early>>

\* The function they return; onceFunction makes a second call a no-op.
Unsubscribe(h) ==
  /\ h \in subscribed
  /\ subscribed' = subscribed \ {h}
  /\ unsubscribed' = unsubscribed \cup {h}
  /\ early' = [early EXCEPT ![h] = Len(log[h])]
  /\ UNCHANGED <<runState, peerState, queues, delivered, work, offer, sent, call>>

\* removePeer, as HubPeers has it: out of the registry and every channel ...
Leave(p) ==
  /\ p \in members
  /\ members' = members \ {p}
  /\ UNCHANGED <<runState, closed, handlerState, queues, delivered, work, offer, sent, call>>

\* ... and closed afterwards.
ClosePeer(p) ==
  /\ p \notin members \cup closed
  /\ closed' = closed \cup {p}
  /\ UNCHANGED <<runState, members, handlerState, queues, delivered, work, offer, sent, call>>

\* An adapter's write pump takes a frame from the peer's send queue.
WritePump(p) ==
  /\ inbox[p] # << >>
  /\ inbox' = [inbox EXCEPT ![p] = Tail(@)]
  /\ received' = [received EXCEPT ![p] = Append(@, Head(inbox[p]))]
  /\ UNCHANGED <<runState, peerState, handlerState, queues, log, work, offer, sent, call>>

-----------------------------------------------------------------------------
(* The loop.                                                                *)

Run ==
  /\ ~running /\ runs < bounds.runs
  /\ running' = TRUE /\ runs' = runs + 1 /\ cancelled' = FALSE
  /\ UNCHANGED <<bounds, draining, done, peerState, handlerState, queues, delivered, work, offer,
                 sent, call>>

Cancel ==
  /\ running /\ ~cancelled
  /\ cancelled' = TRUE
  /\ UNCHANGED <<bounds, running, draining, runs, done, peerState, handlerState, queues, delivered,
                 work, offer, sent, call>>

Selecting == running /\ Spent(work)

\* case item := <-hub.publishQueue: processPublishDelivery copies the handlers
ServePublish ==
  /\ Selecting
  /\ publishQueue # << >>
  /\ publishQueue' = Tail(publishQueue)
  /\ work' = [Idle EXCEPT !.frame = Head(publishQueue).frame,
                          !.groups = PublishGroups(Head(publishQueue))]
  /\ UNCHANGED <<runState, peerState, handlerState, delivered, broadcastQueue, spawned,
                 offer, sent, call>>

\* case item := <-hub.broadcastQueue: broadcastToPeers copies peers and handlers
ServeBroadcast ==
  /\ Selecting
  /\ broadcastQueue # << >>
  /\ broadcastQueue' = Tail(broadcastQueue)
  /\ work' = [Idle EXCEPT !.frame = Head(broadcastQueue).frame,
                          !.peers = members,
                          !.groups = BroadcastGroups(Head(broadcastQueue))]
  /\ UNCHANGED <<runState, peerState, handlerState, delivered, publishQueue, spawned,
                 offer, sent, call>>

\* hub.sendBroadcastToPeer
SendBroadcast(p) ==
  /\ p \in work.peers
  /\ Send(p, work.frame)
  /\ work' = [work EXCEPT !.peers = @ \ {p}]
  /\ UNCHANGED <<runState, peerState, handlerState, queues, log, received, offer, sent, call>>

\* invokeHandlers, invokeBroadcastHandlers, invokePublishHandlers: the groups
\* in turn, the handlers of one group in any order
Invoke(h) ==
  /\ work.peers = {}
  /\ \E i \in DOMAIN work.groups :
       /\ h \in work.groups[i]
       /\ \A j \in 1 .. i - 1 : work.groups[j] = {}
       /\ work' = [work EXCEPT !.groups[i] = @ \ {h}]
  /\ log' = [log EXCEPT ![h] = Append(@, work.frame)]
  /\ UNCHANGED <<runState, peerState, handlerState, queues, inbox, received, offer,
                 sent, call>>

\* case <-ctx.Done(), and the deferred function's section under the mutex
Stop ==
  /\ Selecting
  /\ cancelled
  /\ running' = FALSE /\ draining' = TRUE
  /\ UNCHANGED <<bounds, cancelled, runs, done, peerState, handlerState, queues, delivered,
                 work, offer, sent, call>>

\* The rest of it: the peers have left, hub.done is closed once and for all.
FinishRun ==
  /\ draining /\ members = {}
  /\ done' = TRUE /\ draining' = FALSE
  /\ UNCHANGED <<bounds, running, cancelled, runs, peerState, handlerState, queues, delivered,
                 work, offer, sent, call>>

-----------------------------------------------------------------------------

CallerStep(c) ==
  \/ \E p \in Peers : SendToPeer(c, p)
  \/ Enqueue(c) \/ Spawn(c)

Working == (\E p \in Peers : SendBroadcast(p)) \/ (\E h \in Handlers : Invoke(h))

Next ==
  \/ \E c \in Callers, n \in bounds.notify :
       Broadcast(c, n) \/ \E ch \in Channels : Publish(c, ch, n)
  \/ \E c \in Callers : CallerStep(c)
  \/ \E i \in spawned : SpawnedEnqueue(i) \/ SpawnedExit(i)
  \/ \E h \in Handlers : Subscribe(h) \/ Unsubscribe(h)
  \/ \E p \in Peers : Leave(p) \/ ClosePeer(p) \/ WritePump(p)
  \/ Run \/ Cancel \/ ServePublish \/ ServeBroadcast \/ Working \/ Stop \/ FinishRun

Spec == Init /\ [][Next]_vars

\* A goroutine that can run does; a case of the loop's select that is ready
\* again and again is picked; and the runtime serves the senders blocked on a
\* channel in the order they arrived.  (The first QueueCap frames find room.)
Fairness ==
  /\ \A c \in Callers : WF_vars(CallerStep(c))
  /\ \A f \in QueueCap + 1 .. MaxFrames :
       /\ SF_vars(\E i \in spawned : i.frame = f /\ SpawnedEnqueue(i))
       /\ WF_vars(\E i \in spawned : i.frame = f /\ SpawnedExit(i))
  /\ WF_vars(Working) /\ WF_vars(FinishRun)
  /\ SF_vars(ServePublish) /\ SF_vars(ServeBroadcast) /\ SF_vars(Stop)

FairSpec == Spec /\ Fairness

-----------------------------------------------------------------------------
(* Properties.                                                              *)

Fates == {"rejected", "ignored", "offered", "queued", "spawned", "dropped"}

\* The records of calls, the items of frames sent so far, and what an agent,
\* the loop or a caller, has left to do for one of them.
Calls == [caller : Callers, kind : {"publish", "broadcast"}, fate : Fates, due : SUBSET Handlers]
Items == [kind : {"publish", "broadcast"}, frame : 1 .. sent,
          channel : Channels \cup {NoChannel}, notify : BOOLEAN]
Agents == [frame : 0 .. sent, peers : SUBSET Peers, groups : Seq(SUBSET Handlers),
           then : SUBSET Items]

\* Every variable has its type, no queue outgrows its capacity, and an agent
\* at work has a frame.
TypeOK ==
  /\ running \in BOOLEAN /\ draining \in BOOLEAN /\ cancelled \in BOOLEAN
  /\ bounds \in Bounds /\ done \in BOOLEAN /\ runs \in 0 .. bounds.runs
  /\ members \subseteq Peers /\ closed \subseteq Peers
  /\ subscribed \subseteq Handlers /\ unsubscribed \subseteq Handlers
  /\ early \in [Handlers -> Nat]
  /\ publishQueue \in Seq(Items) /\ Len(publishQueue) <= QueueCap
  /\ broadcastQueue \in Seq(Items) /\ Len(broadcastQueue) <= QueueCap
  /\ spawned \subseteq Items
  /\ work \in Agents /\ offer \in [Callers -> Agents]
  /\ \A w \in {work} \cup {offer[c] : c \in Callers} : w.frame = 0 => Spent(w)
  /\ sent \in 0 .. bounds.frames /\ call \in Seq(Calls) /\ Len(call) = sent
  /\ log \in [Handlers -> Seq(1 .. sent)] /\ received \in [Peers -> Seq(1 .. sent)]
  /\ inbox \in [Peers -> Seq(1 .. sent)] /\ \A p \in Peers : Len(inbox[p]) <= SendCap

Injective(s) == \A i, j \in DOMAIN s : s[i] = s[j] => i = j
Elements(s) == {s[i] : i \in DOMAIN s}

\* No handler is called twice with a frame and no peer is sent one twice:
\* not by way of a channel and the wildcard both, not by the queue and a
\* spawned goroutine both.
AtMostOnce ==
  /\ \A h \in Handlers : Injective(log[h])
  /\ \A p \in Peers : Injective(received[p])

SameSender(f, g) == call[f].caller = call[g].caller /\ call[f].kind = call[g].kind

\* Frames of one sender that found room in the queue reach a handler in the
\* order they were sent; only overflow may reorder them.
HandlersInOrder ==
  \A h \in Handlers : \A i, j \in DOMAIN log[h] :
    /\ i < j
    /\ SameSender(log[h][i], log[h][j])
    /\ call[log[h][i]].fate = "queued" /\ call[log[h][j]].fate = "queued"
    => log[h][i] < log[h][j]

\* Items in a queue or with a spawned goroutine.
Waiting == spawned \cup Elements(publishQueue) \cup Elements(broadcastQueue)

\* Frame f waits, or is with the loop on its way to handler h.
Underway(f, h) ==
  \/ \E i \in Waiting : i.frame = f
  \/ work.frame = f /\ h \in Members(work.groups)

\* A frame the hub accepted is not lost: a handler that was subscribed when it
\* was sent, and still is, has been called with it or it is on its way.
NothingLost ==
  \A f \in 1 .. sent : call[f].fate \in {"queued", "spawned"} =>
    \A h \in call[f].due \cap subscribed : f \in Elements(log[h]) \/ Underway(f, h)

\* After unsubscribe returns a handler is called at most once more, for the
\* item that the loop had copied the handlers for already.
LateDeliveryBounded ==
  \A h \in unsubscribed : Len(log[h]) <= early[h] + 1

\* An accepted frame reaches the handlers that were subscribed when it was
\* sent, unless they unsubscribe, the hub stops, or a spawned goroutine gave
\* it up to hub.done.
Delivery ==
  \A f \in Frames :
    f <= sent /\ call[f].fate \in {"queued", "spawned"}
      ~> \/ ~running
         \/ /\ f <= sent
            /\ \/ call[f].fate = "dropped"
               \/ \A h \in call[f].due : f \in Elements(log[h]) \/ h \in unsubscribed

\* "ctx cancelled mid-broadcast; no goroutine leak": once hub.done is closed
\* the goroutines that wait for room in a queue all end.
NoGoroutineLeak == done ~> spawned = {}

=============================================================================
