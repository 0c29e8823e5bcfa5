------------------------- MODULE HubDeliveryProofs -------------------------
(* Theorems about HubDelivery, for every set of callers, peers, handlers    *)
(* and channels, every capacity of the queues and every number of calls.    *)
EXTENDS HubDeliveryRefinement, SequenceTheorems, TLAPS

-----------------------------------------------------------------------------
(* What Append and Tail do to the elements of a sequence.                   *)

LEMMA ElementsType ==
  ASSUME NEW S, NEW s \in Seq(S)
  PROVE  Elements(s) \subseteq S
BY ElementOfSeq, LenProperties DEF Elements

LEMMA EmptyElements == Elements(<< >>) = {} /\ Injective(<< >>)
BY DEF Elements, Injective

LEMMA AppendFacts ==
  ASSUME NEW S, NEW s \in Seq(S), NEW e \in S
  PROVE  /\ Append(s, e) \in Seq(S)
         /\ Elements(Append(s, e)) = Elements(s) \cup {e}
         /\ Injective(s) /\ e \notin Elements(s) => Injective(Append(s, e))
<1>1. /\ Append(s, e) \in Seq(S) /\ Len(Append(s, e)) = Len(s) + 1 /\ Len(s) \in Nat
      /\ DOMAIN s = 1 .. Len(s) /\ DOMAIN Append(s, e) = 1 .. Len(s) + 1
      /\ \A i \in 1 .. Len(s) : Append(s, e)[i] = s[i]
      /\ Append(s, e)[Len(s) + 1] = e
  BY AppendProperties, LenProperties
<1>2. Elements(Append(s, e)) = Elements(s) \cup {e}
  BY <1>1 DEF Elements
<1>3. Injective(s) /\ e \notin Elements(s) => Injective(Append(s, e))
  BY <1>1 DEF Injective, Elements
<1> QED BY <1>1, <1>2, <1>3

LEMMA TailFacts ==
  ASSUME NEW S, NEW s \in Seq(S), s # << >>
  PROVE  /\ Tail(s) \in Seq(S) /\ Head(s) \in S /\ Len(Tail(s)) = Len(s) - 1
         /\ Head(s) \in Elements(s)
         /\ Elements(s) = {Head(s)} \cup Elements(Tail(s))
         /\ Injective(s) => /\ Injective(Tail(s))
                           /\ Head(s) \notin Elements(Tail(s))
<1>1. /\ Tail(s) \in Seq(S) /\ Head(s) \in S /\ Len(s) \in Nat \ {0}
      /\ Len(Tail(s)) = Len(s) - 1 /\ Head(s) = s[1]
      /\ DOMAIN s = 1 .. Len(s) /\ DOMAIN Tail(s) = 1 .. Len(s) - 1
      /\ \A i \in 1 .. Len(s) - 1 : Tail(s)[i] = s[i + 1]
  BY HeadTailProperties, LenProperties, EmptySeq
<1>2. Elements(s) = {Head(s)} \cup Elements(Tail(s))
  <2>1. ASSUME NEW i \in DOMAIN s
        PROVE  s[i] = Head(s) \/ \E j \in DOMAIN Tail(s) : s[i] = Tail(s)[j]
    <3>1. CASE i = 1
      BY <1>1, <3>1
    <3>2. CASE i # 1
      <4>1. i - 1 \in DOMAIN Tail(s) /\ Tail(s)[i - 1] = s[i]
        BY <1>1, <3>2
      <4> QED BY <4>1
    <3> QED BY <3>1, <3>2
  <2> QED BY <1>1, <2>1 DEF Elements
<1>3. Injective(s) => Injective(Tail(s)) /\ Head(s) \notin Elements(Tail(s))
  BY <1>1 DEF Injective, Elements
<1> QED BY <1>1, <1>2, <1>3

-----------------------------------------------------------------------------
(* The inductive invariant.                                                 *)

\* The handlers an item is for, subscribed or not.
Eligible(i) ==
  {h \in Handlers :
     IF i.kind = "publish"
     THEN \/ /\ HandlerOf[h].kind = "channel"
             /\ HandlerOf[h].channel \in {i.channel, Wildcard}
          \/ HandlerOf[h].kind = "published" /\ i.notify
     ELSE \/ HandlerOf[h].kind = "channel" /\ HandlerOf[h].channel = Wildcard
          \/ HandlerOf[h].kind = "broadcast" /\ i.notify}

\* The hub has taken frame f and not given it up.
Standing(f) == call[f].fate \in {"queued", "spawned"}

\* An item describes the call that made it.
Describes(i) == call[i.frame].kind = i.kind /\ call[i.frame].due \subseteq Eligible(i)

\* An item waits in one place, and is the only one with its frame.
PlaceInv ==
  /\ Injective(publishQueue) /\ Injective(broadcastQueue)
  /\ \A i \in Elements(publishQueue) : i.kind = "publish" /\ i \notin spawned
  /\ \A i \in Elements(broadcastQueue) : i.kind = "broadcast" /\ i \notin spawned
  /\ \A i, j \in Waiting : i.frame = j.frame => i = j

\* A frame that waits has neither reached the loop nor any handler.
WaitInv ==
  \A i \in Waiting :
    /\ Describes(i)
    /\ Standing(i.frame) /\ (i \in spawned => call[i.frame].fate = "spawned")
    /\ i.frame # work.frame
    /\ \A h \in Handlers : i.frame \notin Elements(log[h])

\* A caller is busy with its latest call, which has no other fate yet.
OfferOK(c) ==
  /\ offer[c].frame # 0
  /\ call[offer[c].frame].caller = c /\ call[offer[c].frame].fate = "offered"
  /\ \A f \in 1 .. sent : call[f].caller = c => f <= offer[c].frame
  /\ \E i \in offer[c].then :
       /\ offer[c].then = {i}
       /\ i.frame = offer[c].frame /\ Describes(i)
       /\ i.kind = "broadcast" => offer[c].peers = {}
OfferInv == \A c \in Callers : offer[c] # Idle => OfferOK(c)

\* The loop calls nobody twice, and nobody that was never subscribed.
WorkInv ==
  /\ work.frame # 0 => Standing(work.frame)
  /\ \A i, j \in DOMAIN work.groups : i # j => work.groups[i] \cap work.groups[j] = {}
  /\ \A h \in Members(work.groups) :
       h \in subscribed \cup unsubscribed /\ work.frame \notin Elements(log[h])

LogInv ==
  \A h \in Handlers : /\ Injective(log[h])
                      /\ \A f \in Elements(log[h]) : Standing(f)

Got(p) == Elements(inbox[p]) \cup Elements(received[p])

\* A peer has no frame that is still to be sent to it.
PeerInv ==
  \A p \in Peers :
    /\ Injective(inbox[p]) /\ Injective(received[p])
    /\ Elements(inbox[p]) \cap Elements(received[p]) = {}
    /\ p \in work.peers => work.frame \notin Got(p)
    /\ \A i \in Waiting : i.kind = "broadcast" => i.frame \notin Got(p)
    /\ \A c \in Callers :
         /\ p \in offer[c].peers => offer[c].frame \notin Got(p)
         /\ \A i \in offer[c].then : i.kind = "broadcast" => i.frame \notin Got(p)

SubscribedInv ==
  /\ subscribed \cap unsubscribed = {}
  /\ \A f \in 1 .. sent : call[f].due \subseteq subscribed \cup unsubscribed

LateInv ==
  \A h \in unsubscribed :
    Len(log[h]) <= IF h \in Members(work.groups) THEN early[h] ELSE early[h] + 1

\* By the records cs, frame f does not come after frame g of its sender.
InOrder(cs, f, g) ==
  /\ cs[f].caller = cs[g].caller /\ cs[f].kind = cs[g].kind
  /\ cs[f].fate = "queued" /\ cs[g].fate = "queued"
  => f < g

Ordered(cs, q) == \A k, l \in DOMAIN q : k < l => InOrder(cs, q[k].frame, q[l].frame)

\* What waits in a queue comes after what the loop and the handlers have.
ComingOrder(cs) ==
  \A i \in Elements(publishQueue) \cup Elements(broadcastQueue) :
    /\ work.frame # 0 => InOrder(cs, work.frame, i.frame)
    /\ \A h \in Handlers : \A f \in Elements(log[h]) : InOrder(cs, f, i.frame)

\* So does what the loop works on, unless the handler has it.
CurrentOrder(cs) ==
  \A h \in Handlers : \A f \in Elements(log[h]) :
    work.frame # 0 /\ f # work.frame => InOrder(cs, f, work.frame)

LogOrder(cs) ==
  \A h \in Handlers : \A k, l \in DOMAIN log[h] : k < l => InOrder(cs, log[h][k], log[h][l])

OrderBy(cs) ==
  /\ Ordered(cs, publishQueue) /\ Ordered(cs, broadcastQueue)
  /\ ComingOrder(cs) /\ CurrentOrder(cs) /\ LogOrder(cs)

OrderInv == OrderBy(call)

-----------------------------------------------------------------------------
(* The handlers of an item.                                                 *)

\* PublishGroups and BroadcastGroups find the eligible handlers that are
\* subscribed, each in one group.
LEMMA GroupsFacts ==
  ASSUME TypeOK, NEW i, i.kind \in {"publish", "broadcast"}
  PROVE  /\ Groups(i) \in Seq(SUBSET Handlers)
         /\ Members(Groups(i)) = Eligible(i) \cap subscribed
         /\ \A j, k \in DOMAIN Groups(i) : j # k => Groups(i)[j] \cap Groups(i)[k] = {}
<1> USE DEF ChannelHandlers, HandlersOfKind
<1>1. subscribed \subseteq Handlers
  BY DEF TypeOK
<1>2. CASE i.kind = "publish"
  <2>1. /\ Groups(i) = PublishGroups(i) /\ DOMAIN Groups(i) = {1, 2, 3}
        /\ Groups(i)[1] = ChannelHandlers(i.channel)
        /\ Groups(i)[2] = IF i.channel # Wildcard THEN ChannelHandlers(Wildcard) ELSE {}
        /\ Groups(i)[3] = IF i.notify THEN HandlersOfKind("published") ELSE {}
    BY <1>2 DEF Groups, PublishGroups
  <2>2. Groups(i) \in Seq(SUBSET Handlers)
    BY <1>1, <2>1 DEF PublishGroups
  <2> QED BY <1>1, <1>2, <2>1, <2>2 DEF Members, Eligible
<1>3. CASE i.kind = "broadcast"
  <2>1. /\ Groups(i) = BroadcastGroups(i) /\ DOMAIN Groups(i) = {1, 2}
        /\ Groups(i)[1] = ChannelHandlers(Wildcard)
        /\ Groups(i)[2] = IF i.notify THEN HandlersOfKind("broadcast") ELSE {}
    BY <1>3 DEF Groups, BroadcastGroups
  <2>2. Groups(i) \in Seq(SUBSET Handlers)
    BY <1>1, <2>1 DEF BroadcastGroups
  <2> QED BY <1>1, <1>3, <2>1, <2>2 DEF Members, Eligible
<1> QED BY <1>2, <1>3

-----------------------------------------------------------------------------
(* Type correctness.                                                        *)

LEMMA NumbersType ==
  ASSUME TypeOK
  PROVE  /\ bounds \in BoundsType /\ sent \in Nat /\ runs \in Nat
         /\ bounds.frames \in Nat /\ bounds.runs \in Nat
BY HubDeliveryAssumption DEF TypeOK, BoundsType

LEMMA SameFrames == sent' = sent => Items' = Items /\ Agents' = Agents
BY DEF Items, Agents

\* What was well typed stays so when frames are added.
LEMMA MoreFrames ==
  ASSUME TypeOK, sent' = sent + 1
  PROVE  /\ Items \subseteq Items' /\ Seq(Items) \subseteq Seq(Items')
         /\ Agents \subseteq Agents' /\ Seq(1 .. sent) \subseteq Seq(1 .. sent')
<1>1. 1 .. sent \subseteq 1 .. sent' /\ 0 .. sent \subseteq 0 .. sent'
  BY NumbersType
<1>2. Items \subseteq Items'
  BY <1>1 DEF Items
<1>3. Seq(Items) \subseteq Seq(Items') /\ Seq(1 .. sent) \subseteq Seq(1 .. sent')
  BY <1>1, <1>2, SeqMonotonic
<1>4. Agents \subseteq Agents'
  BY <1>1, <1>2 DEF Agents
<1> QED BY <1>2, <1>3, <1>4

\* A call is recorded, and its caller may have an offer to make.
LEMMA RecordType ==
  ASSUME TypeOK, NEW c \in Callers, NEW i, NEW fate \in Fates, NEW w, sent < bounds.frames,
         i \in [kind : {"publish", "broadcast"}, frame : {sent + 1},
                channel : Channels \cup {NoChannel}, notify : BOOLEAN],
         w \in [frame : {sent + 1}, peers : SUBSET Peers, groups : {<< >>}, then : {{i}}],
         Record(c, i, fate),
         offer' = offer \/ offer' = [offer EXCEPT ![c] = w],
         UNCHANGED <<runState, peerState, handlerState, queues, delivered, work>>
  PROVE  TypeOK'
<1> USE DEF runState, peerState, handlerState, queues, delivered
<1>1. sent' = sent + 1 /\ sent' \in 0 .. bounds'.frames /\ bounds' = bounds
  BY NumbersType DEF Record
<1>2. /\ Items \subseteq Items' /\ Seq(Items) \subseteq Seq(Items')
      /\ Agents \subseteq Agents' /\ Seq(1 .. sent) \subseteq Seq(1 .. sent')
  BY <1>1, MoreFrames
<1>3. call' \in Seq(Calls)' /\ Len(call') = sent'
  <2>1. [caller |-> c, kind |-> i.kind, fate |-> fate, due |-> Members(Groups(i))] \in Calls
    BY GroupsFacts DEF Calls, Eligible
  <2> QED BY <1>1, <2>1, AppendProperties DEF TypeOK, Record, Calls, Fates
<1>4. w \in Agents' /\ w.frame # 0
  <2>1. sent + 1 \in 1 .. sent' /\ sent + 1 \in 0 .. sent' /\ sent + 1 # 0
    BY <1>1, NumbersType
  <2>2. i \in Items' /\ << >> \in Seq(SUBSET Handlers)
    BY <2>1, EmptySeq DEF Items
  <2> QED BY <2>1, <2>2 DEF Agents
<1>5. offer' \in [Callers -> Agents']
  BY <1>2, <1>4 DEF TypeOK
<1>6. \A v \in {work'} \cup {offer'[d] : d \in Callers} : v.frame = 0 => Spent(v)
  BY <1>4 DEF TypeOK
<1>7. work' \in Agents' /\ spawned' \subseteq Items'
      /\ publishQueue' \in Seq(Items') /\ broadcastQueue' \in Seq(Items')
  BY <1>2 DEF TypeOK
<1>8. /\ log' \in [Handlers -> Seq(1 .. sent')] /\ received' \in [Peers -> Seq(1 .. sent')]
      /\ inbox' \in [Peers -> Seq(1 .. sent')]
  BY <1>2 DEF TypeOK
<1> QED BY <1>1, <1>3, <1>5, <1>6, <1>7, <1>8 DEF TypeOK

LEMMA CallType ==
  ASSUME TypeOK, NEW c \in Callers, NEW n \in bounds.notify
  PROVE  /\ Broadcast(c, n) => TypeOK'
         /\ \A ch \in Channels : Publish(c, ch, n) => TypeOK'
<1>0. n \in BOOLEAN
  BY NumbersType DEF BoundsType
<1>1. ASSUME Broadcast(c, n) PROVE TypeOK'
  <2> DEFINE i == Item("broadcast", sent + 1, NoChannel, n)
             w == [Idle EXCEPT !.frame = i.frame, !.then = {i}]
  <2>1. i \in [kind : {"publish", "broadcast"}, frame : {sent + 1},
               channel : Channels \cup {NoChannel}, notify : BOOLEAN]
    BY <1>0 DEF Item
  <2>2. w \in [frame : {sent + 1}, peers : SUBSET Peers, groups : {<< >>}, then : {{i}}]
    BY DEF Item, Idle
  <2>3. \E fate \in Fates : Record(c, i, fate)
    BY <1>1 DEF Broadcast, Fates
  <2>4. offer' = offer \/ offer' = [offer EXCEPT ![c] = w]
    BY <1>1 DEF Broadcast
  <2>5. sent < bounds.frames /\ UNCHANGED <<runState, peerState, handlerState, queues,
                                           delivered, work>>
    BY <1>1 DEF Broadcast
  <2> HIDE DEF i, w
  <2> QED BY <2>1, <2>2, <2>3, <2>4, <2>5, RecordType
<1>2. ASSUME NEW ch \in Channels, Publish(c, ch, n) PROVE TypeOK'
  <2> DEFINE i == Item("publish", sent + 1, ch, n)
             w == [Idle EXCEPT !.frame = i.frame, !.peers = ChannelPeers(ch), !.then = {i}]
  <2>1. i \in [kind : {"publish", "broadcast"}, frame : {sent + 1},
               channel : Channels \cup {NoChannel}, notify : BOOLEAN]
    BY <1>0 DEF Item
  <2>2. w \in [frame : {sent + 1}, peers : SUBSET Peers, groups : {<< >>}, then : {{i}}]
    BY DEF Item, Idle, ChannelPeers, TypeOK
  <2>3. \E fate \in Fates : Record(c, i, fate)
    BY <1>2 DEF Publish, Fates
  <2>4. offer' = offer \/ offer' = [offer EXCEPT ![c] = w]
    BY <1>2 DEF Publish
  <2>5. sent < bounds.frames /\ UNCHANGED <<runState, peerState, handlerState, queues,
                                           delivered, work>>
    BY <1>2 DEF Publish
  <2> HIDE DEF i, w
  <2> QED BY <2>1, <2>2, <2>3, <2>4, <2>5, RecordType
<1> QED BY <1>1, <1>2

\* Where an item comes from has a frame that was sent.
LEMMA ItemType ==
  ASSUME TypeOK, NEW i \in Items
  PROVE  /\ i.frame \in 1 .. sent /\ i.kind \in {"publish", "broadcast"}
         /\ call[i.frame] \in Calls
BY ElementOfSeq DEF TypeOK, Items

\* One fate is settled.
LEMMA SettleType ==
  ASSUME TypeOK, NEW i \in Items, NEW fate \in Fates, Settle(i.frame, fate)
  PROVE  /\ call' \in Seq(Calls) /\ Len(call') = sent
         /\ \A f \in 1 .. sent :
              /\ call'[f].caller = call[f].caller /\ call'[f].kind = call[f].kind
              /\ call'[f].due = call[f].due
              /\ call'[f].fate = IF f = i.frame THEN fate ELSE call[f].fate
<1>1. i.frame \in 1 .. Len(call) /\ call \in Seq(Calls) /\ Len(call) = sent
  BY ItemType DEF TypeOK
<1>2. \A f \in 1 .. sent : call[f] \in Calls
  BY <1>1, ElementOfSeq
<1> DEFINE e == [call[i.frame] EXCEPT !.fate = fate]
<1>3. e \in Calls
  BY <1>1, <1>2 DEF Calls
<1>4. call' = [call EXCEPT ![i.frame] = e]
  BY DEF Settle
<1> HIDE DEF e
<1>5. call' \in Seq(Calls) /\ Len(call') = sent
      /\ \A f \in 1 .. sent : call'[f] = IF f = i.frame THEN e ELSE call[f]
  BY <1>1, <1>3, <1>4, ExceptSeq
<1>6. e.caller = call[i.frame].caller /\ e.kind = call[i.frame].kind
      /\ e.due = call[i.frame].due /\ e.fate = fate
  BY <1>1, <1>2 DEF e, Calls
<1> QED BY <1>5, <1>6

\* Room for one more item in a queue.
LEMMA RoomType ==
  ASSUME TypeOK, NEW i \in Items
  PROVE  /\ Append(publishQueue, i) \in Seq(Items)
         /\ Append(broadcastQueue, i) \in Seq(Items)
         /\ Len(publishQueue) < QueueCap => Len(Append(publishQueue, i)) <= QueueCap
         /\ Len(broadcastQueue) < QueueCap => Len(Append(broadcastQueue, i)) <= QueueCap
BY AppendProperties, LenProperties, HubDeliveryAssumption DEF TypeOK

\* An agent that has served one of its peers.
LEMMA ServedType ==
  ASSUME TypeOK, NEW w \in Agents, NEW p \in w.peers, w.frame = 0 => Spent(w)
  PROVE  /\ [w EXCEPT !.peers = @ \ {p}] \in Agents /\ w.frame \in 1 .. sent
         /\ [w EXCEPT !.peers = @ \ {p}].frame # 0
<1>1. w.frame \in 0 .. sent /\ w.frame # 0
  BY DEF Agents, Spent
<1> QED BY <1>1, NumbersType DEF Agents

LEMMA SendType ==
  ASSUME TypeOK, NEW p \in Peers, NEW f \in 1 .. sent, Send(p, f)
  PROVE  inbox' \in [Peers -> Seq(1 .. sent)] /\ \A q \in Peers : Len(inbox'[q]) <= SendCap
<1>1. Append(inbox[p], f) \in Seq(1 .. sent) /\ Len(Append(inbox[p], f)) = Len(inbox[p]) + 1
  BY AppendProperties DEF TypeOK
<1>2. Len(inbox[p]) \in Nat
  BY LenProperties DEF TypeOK
<1> QED BY <1>1, <1>2, HubDeliveryAssumption DEF Send, TypeOK

\* The steps of a caller on its way through a call.
LEMMA CallerType ==
  ASSUME TypeOK, NEW c \in Callers, CallerStep(c)
  PROVE  TypeOK'
<1> USE DEF runState, peerState, handlerState, queues, delivered
<1>0. offer[c] \in Agents /\ (offer[c].frame = 0 => Spent(offer[c]))
  BY DEF TypeOK
<1>1. Idle \in Agents /\ Spent(Idle)
  BY EmptySeq, NumbersType DEF Idle, Agents, Spent
<1>2. ASSUME NEW p \in Peers, SendToPeer(c, p) PROVE TypeOK'
  <2>1. p \in offer[c].peers /\ Send(p, offer[c].frame)
        /\ offer' = [offer EXCEPT ![c] = [offer[c] EXCEPT !.peers = @ \ {p}]]
    BY <1>2 DEF SendToPeer
  <2>2. /\ [offer[c] EXCEPT !.peers = @ \ {p}] \in Agents /\ offer[c].frame \in 1 .. sent
        /\ [offer[c] EXCEPT !.peers = @ \ {p}].frame # 0
    BY <1>0, <2>1, ServedType
  <2>3. /\ offer' \in [Callers -> Agents]
        /\ \A w \in {work} \cup {offer'[d] : d \in Callers} : w.frame = 0 => Spent(w)
    BY <2>1, <2>2 DEF TypeOK
  <2>4. inbox' \in [Peers -> Seq(1 .. sent)] /\ \A q \in Peers : Len(inbox'[q]) <= SendCap
    BY <2>1, <2>2, SendType
  <2> QED BY <1>2, <2>3, <2>4 DEF SendToPeer, TypeOK, Items, Agents
<1>3. ASSUME Enqueue(c) \/ Spawn(c) PROVE TypeOK'
  <2>1. PICK i \in offer[c].then, fate \in Fates : Settle(i.frame, fate)
    BY <1>3 DEF Enqueue, Spawn, Fates
  <2>2. i \in Items
    BY <1>0 DEF Agents
  <2>3. call' \in Seq(Calls) /\ Len(call') = sent
    BY <2>1, <2>2, SettleType
  <2>4. offer' = [offer EXCEPT ![c] = Idle]
    BY <1>3 DEF Enqueue, Spawn
  <2>5. /\ offer' \in [Callers -> Agents]
        /\ \A w \in {work} \cup {offer'[d] : d \in Callers} : w.frame = 0 => Spent(w)
    BY <1>1, <2>4 DEF TypeOK
  <2>6. \A j \in offer[c].then :
          /\ j \in Items
          /\ Append(publishQueue, j) \in Seq(Items) /\ Append(broadcastQueue, j) \in Seq(Items)
          /\ Len(publishQueue) < QueueCap => Len(Append(publishQueue, j)) <= QueueCap
          /\ Len(broadcastQueue) < QueueCap => Len(Append(broadcastQueue, j)) <= QueueCap
    BY <1>0, RoomType DEF Agents
  <2>7. /\ publishQueue' \in Seq(Items) /\ Len(publishQueue') <= QueueCap
        /\ broadcastQueue' \in Seq(Items) /\ Len(broadcastQueue') <= QueueCap
        /\ spawned' \subseteq Items
    BY <1>3, <2>6 DEF Enqueue, Spawn, TypeOK
  <2>8. UNCHANGED <<runState, peerState, handlerState, delivered, work, sent>>
    BY <1>3 DEF Enqueue, Spawn
  <2> QED BY <2>3, <2>5, <2>7, <2>8 DEF TypeOK, Items, Agents, Calls, Fates
<1> QED BY <1>2, <1>3 DEF CallerStep

\* The goroutines that a full queue spawned.
LEMMA SpawnedType ==
  ASSUME TypeOK, NEW i \in spawned, SpawnedEnqueue(i) \/ SpawnedExit(i)
  PROVE  TypeOK'
<1> USE DEF runState, peerState, handlerState, queues, delivered
<1>1. i \in Items
  BY DEF TypeOK
<1>2. CASE SpawnedEnqueue(i)
  <2>1. /\ publishQueue' \in Seq(Items) /\ Len(publishQueue') <= QueueCap
        /\ broadcastQueue' \in Seq(Items) /\ Len(broadcastQueue') <= QueueCap
    BY <1>1, <1>2, RoomType DEF SpawnedEnqueue, TypeOK
  <2> QED BY <1>2, <2>1 DEF SpawnedEnqueue, TypeOK, Items, Agents
<1>3. CASE SpawnedExit(i)
  <2>1. call' \in Seq(Calls) /\ Len(call') = sent
    BY <1>1, <1>3, SettleType DEF SpawnedExit, Fates
  <2> QED BY <1>3, <2>1 DEF SpawnedExit, TypeOK, Items, Agents
<1> QED BY <1>2, <1>3

\* Handlers and peers.
LEMMA HandlerType ==
  ASSUME TypeOK, NEW h \in Handlers, Subscribe(h) \/ Unsubscribe(h)
  PROVE  TypeOK'
<1> USE DEF runState, peerState, handlerState, queues, delivered
<1>1. CASE Subscribe(h)
  BY <1>1 DEF Subscribe, TypeOK, Items, Agents
<1>2. CASE Unsubscribe(h)
  <2>1. Len(log[h]) \in Nat
    BY LenProperties DEF TypeOK
  <2> QED BY <1>2, <2>1 DEF Unsubscribe, TypeOK, Items, Agents
<1> QED BY <1>1, <1>2

LEMMA PeerType ==
  ASSUME TypeOK, NEW p \in Peers, Leave(p) \/ ClosePeer(p) \/ WritePump(p)
  PROVE  TypeOK'
<1> USE DEF runState, peerState, handlerState, queues, delivered
<1>1. CASE Leave(p)
  BY <1>1 DEF Leave, TypeOK, Items, Agents
<1>2. CASE ClosePeer(p)
  BY <1>2 DEF ClosePeer, TypeOK, Items, Agents
<1>3. CASE WritePump(p)
  <2>1. /\ inbox[p] \in Seq(1 .. sent) /\ received[p] \in Seq(1 .. sent)
        /\ inbox[p] # << >> /\ Len(inbox[p]) \in Nat
    BY <1>3, LenProperties DEF TypeOK, WritePump
  <2>2. Tail(inbox[p]) \in Seq(1 .. sent) /\ Len(Tail(inbox[p])) = Len(inbox[p]) - 1
        /\ Append(received[p], Head(inbox[p])) \in Seq(1 .. sent)
    BY <2>1, HeadTailProperties, AppendProperties
  <2>3. /\ inbox' \in [Peers -> Seq(1 .. sent)] /\ \A q \in Peers : Len(inbox'[q]) <= SendCap
        /\ received' \in [Peers -> Seq(1 .. sent)]
    BY <1>3, <2>1, <2>2, HubDeliveryAssumption DEF WritePump, TypeOK
  <2>4. /\ UNCHANGED <<runState, peerState, handlerState, queues, log, work, offer, sent, call>>
        /\ Items' = Items /\ Agents' = Agents
    BY <1>3, SameFrames DEF WritePump
  <2> QED BY <2>3, <2>4 DEF TypeOK
<1> QED BY <1>1, <1>2, <1>3

\* The loop.
LEMMA ServeType ==
  ASSUME TypeOK, ServePublish \/ ServeBroadcast
  PROVE  TypeOK'
<1> USE DEF runState, peerState, handlerState, queues, delivered
<1>1. CASE ServePublish
  <2>1. publishQueue \in Seq(Items) /\ publishQueue # << >> /\ Len(publishQueue) \in Nat
    BY <1>1, LenProperties DEF ServePublish, TypeOK
  <2>2. Tail(publishQueue) \in Seq(Items) /\ Len(Tail(publishQueue)) <= QueueCap
        /\ Head(publishQueue) \in Items
    BY <2>1, HeadTailProperties, HubDeliveryAssumption DEF TypeOK
  <2>3. PublishGroups(Head(publishQueue)) \in Seq(SUBSET Handlers)
    BY DEF PublishGroups, ChannelHandlers, HandlersOfKind, TypeOK
  <2>4. work' \in Agents /\ work'.frame # 0
    <3> DEFINE i == Head(publishQueue)
    <3>1. i.frame \in 0 .. sent /\ i.frame # 0
      BY <2>2, ItemType, NumbersType
    <3>2. work' = [frame |-> i.frame, peers |-> {}, groups |-> PublishGroups(i), then |-> {}]
      BY <1>1 DEF ServePublish, Idle
    <3> QED BY <2>3, <3>1, <3>2 DEF Agents
  <2> QED BY <1>1, <2>2, <2>4 DEF ServePublish, TypeOK, Items, Agents
<1>2. CASE ServeBroadcast
  <2>1. broadcastQueue \in Seq(Items) /\ broadcastQueue # << >> /\ Len(broadcastQueue) \in Nat
    BY <1>2, LenProperties DEF ServeBroadcast, TypeOK
  <2>2. Tail(broadcastQueue) \in Seq(Items) /\ Len(Tail(broadcastQueue)) <= QueueCap
        /\ Head(broadcastQueue) \in Items
    BY <2>1, HeadTailProperties, HubDeliveryAssumption DEF TypeOK
  <2>3. BroadcastGroups(Head(broadcastQueue)) \in Seq(SUBSET Handlers)
    BY DEF BroadcastGroups, ChannelHandlers, HandlersOfKind, TypeOK
  <2>4. work' \in Agents /\ work'.frame # 0
    <3> DEFINE i == Head(broadcastQueue)
    <3>1. i.frame \in 0 .. sent /\ i.frame # 0
      BY <2>2, ItemType, NumbersType
    <3>2. work' = [frame |-> i.frame, peers |-> members, groups |-> BroadcastGroups(i),
                   then |-> {}]
      BY <1>2 DEF ServeBroadcast, Idle
    <3> QED BY <2>3, <3>1, <3>2 DEF Agents, TypeOK
  <2>5. UNCHANGED <<runState, peerState, handlerState, delivered, publishQueue, spawned, offer,
                    sent, call>>
        /\ broadcastQueue' = Tail(broadcastQueue)
        /\ Items' = Items /\ Agents' = Agents
    BY <1>2, SameFrames DEF ServeBroadcast
  <2>6. \A w \in {work'} \cup {offer'[c] : c \in Callers} : w.frame = 0 => Spent(w)
    BY <2>4, <2>5 DEF TypeOK
  <2> QED BY <2>2, <2>4, <2>5, <2>6 DEF TypeOK
<1> QED BY <1>1, <1>2

LEMMA WorkType ==
  ASSUME TypeOK, Working
  PROVE  TypeOK'
<1> USE DEF runState, peerState, handlerState, queues, delivered
<1>0. work \in Agents /\ (work.frame = 0 => Spent(work))
  BY DEF TypeOK
<1>1. ASSUME NEW p \in Peers, SendBroadcast(p) PROVE TypeOK'
  <2>1. p \in work.peers /\ Send(p, work.frame) /\ work' = [work EXCEPT !.peers = @ \ {p}]
    BY <1>1 DEF SendBroadcast
  <2>2. work' \in Agents /\ work.frame \in 1 .. sent /\ work'.frame # 0
    BY <1>0, <2>1, ServedType
  <2>3. inbox' \in [Peers -> Seq(1 .. sent)] /\ \A q \in Peers : Len(inbox'[q]) <= SendCap
    BY <2>1, <2>2, SendType
  <2> QED BY <1>1, <2>2, <2>3 DEF SendBroadcast, TypeOK, Items, Agents
<1>2. ASSUME NEW h \in Handlers, Invoke(h) PROVE TypeOK'
  <2>1. PICK i \in DOMAIN work.groups :
          h \in work.groups[i] /\ work' = [work EXCEPT !.groups[i] = @ \ {h}]
    BY <1>2 DEF Invoke
  <2>2. work.groups \in Seq(SUBSET Handlers) /\ work.frame \in 1 .. sent
    BY <1>0, <2>1, NumbersType DEF Agents, Spent
  <2>3. i \in 1 .. Len(work.groups) /\ work.groups[i] \in SUBSET Handlers
    BY <2>1, <2>2, LenProperties, ElementOfSeq
  <2>4. [work.groups EXCEPT ![i] = @ \ {h}] \in Seq(SUBSET Handlers)
    BY <2>2, <2>3, ExceptSeq
  <2>5. work' = [work EXCEPT !.groups = [work.groups EXCEPT ![i] = @ \ {h}]]
    BY <1>0, <2>1 DEF Agents
  <2>6. work' \in Agents /\ work'.frame # 0
    <3>1. work.frame # 0
      BY <2>2, NumbersType
    <3> QED BY <1>0, <2>4, <2>5, <3>1 DEF Agents
  <2>7. log' \in [Handlers -> Seq(1 .. sent)]
    BY <1>2, <2>2, AppendProperties DEF Invoke, TypeOK
  <2>8. /\ UNCHANGED <<runState, peerState, handlerState, queues, inbox, received, offer,
                        sent, call>>
        /\ Items' = Items /\ Agents' = Agents
    BY <1>2, SameFrames DEF Invoke
  <2>9. \A w \in {work'} \cup {offer'[c] : c \in Callers} : w.frame = 0 => Spent(w)
    BY <2>6, <2>8 DEF TypeOK
  <2> HIDE DEF Items, Agents
  <2> QED BY <2>6, <2>7, <2>8, <2>9 DEF TypeOK
<1> QED BY <1>1, <1>2 DEF Working

LEMMA RunType ==
  ASSUME TypeOK, Run \/ Cancel \/ Stop \/ FinishRun
  PROVE  TypeOK'
<1> USE DEF runState, peerState, handlerState, queues, delivered
<1>1. bounds.runs \in Nat /\ runs \in Nat
  BY NumbersType
<1>2. runs' \in 0 .. bounds'.runs
  BY <1>1 DEF Run, Cancel, Stop, FinishRun, TypeOK
<1>3. /\ UNCHANGED <<bounds, peerState, handlerState, queues, delivered, work, offer, sent, call>>
      /\ running' \in BOOLEAN /\ draining' \in BOOLEAN /\ cancelled' \in BOOLEAN
      /\ done' \in BOOLEAN
  BY DEF Run, Cancel, Stop, FinishRun, TypeOK
<1> QED BY <1>2, <1>3 DEF TypeOK, Items, Agents

LEMMA TypeStep == TypeOK /\ [Next]_vars => TypeOK'
<1> SUFFICES ASSUME TypeOK, [Next]_vars PROVE TypeOK'
  OBVIOUS
<1>1. CASE UNCHANGED vars
  BY <1>1 DEF vars, runState, peerState, handlerState, queues, delivered, TypeOK, Items, Agents
<1> QED
  BY <1>1, CallType, CallerType, SpawnedType, HandlerType, PeerType, ServeType, WorkType,
     RunType DEF Next

LEMMA TypeInit == Init => TypeOK
<1> SUFFICES ASSUME Init PROVE TypeOK
  OBVIOUS
<1> USE DEF Init
<1>1. bounds \in BoundsType
  BY HubDeliveryAssumption
<1>2. members \subseteq Peers /\ runs \in 0 .. bounds.runs /\ sent \in 0 .. bounds.frames
  BY <1>1, HubDeliveryAssumption DEF BoundsType
<1>3. /\ << >> \in Seq(Items) /\ << >> \in Seq(Calls) /\ << >> \in Seq(1 .. sent)
      /\ << >> \in Seq(SUBSET Handlers) /\ Len(<< >>) = 0
  BY EmptySeq
<1>4. Idle \in Agents /\ Spent(Idle)
  BY <1>3 DEF Idle, Agents, Spent
<1>5. /\ work \in Agents /\ offer \in [Callers -> Agents]
      /\ \A w \in {work} \cup {offer[c] : c \in Callers} : w.frame = 0 => Spent(w)
  BY <1>4
<1>6. QueueCap \in Nat /\ SendCap \in Nat
  BY HubDeliveryAssumption
<1>7. /\ inbox = [p \in Peers |-> << >>] /\ received = inbox /\ log = [h \in Handlers |-> << >>]
      /\ publishQueue = << >> /\ broadcastQueue = << >> /\ call = << >> /\ sent = 0
  OBVIOUS
<1>8. /\ log \in [Handlers -> Seq(1 .. sent)] /\ received \in [Peers -> Seq(1 .. sent)]
      /\ inbox \in [Peers -> Seq(1 .. sent)] /\ \A p \in Peers : Len(inbox[p]) <= SendCap
  BY <1>3, <1>6, <1>7
<1>9. /\ publishQueue \in Seq(Items) /\ Len(publishQueue) <= QueueCap
      /\ broadcastQueue \in Seq(Items) /\ Len(broadcastQueue) <= QueueCap
      /\ call \in Seq(Calls) /\ Len(call) = sent
  BY <1>3, <1>6, <1>7
<1> QED BY <1>2, <1>5, <1>8, <1>9 DEF TypeOK

\* Every variable keeps its type, and a queue never holds more than its
\* capacity: neither that of the hub nor that of a peer (hub.go:55-56, 345-352,
\* stream.go:110-131).
THEOREM TypeCorrect == Spec => []TypeOK
<1>1. QED
  BY TypeInit, TypeStep, PTL DEF Spec

-----------------------------------------------------------------------------
(* Where an item is.                                                        *)

LEMMA WaitingType ==
  ASSUME TypeOK
  PROVE  /\ Waiting \subseteq Items /\ \A i \in Waiting : i.frame \in 1 .. sent
         /\ publishQueue \in Seq(Items) /\ broadcastQueue \in Seq(Items)
         /\ \A h \in Handlers : log[h] \in Seq(1 .. sent) /\ Elements(log[h]) \subseteq 1 .. sent
         /\ \A p \in Peers : Got(p) \subseteq 1 .. sent
<1>1. publishQueue \in Seq(Items) /\ broadcastQueue \in Seq(Items) /\ spawned \subseteq Items
  BY DEF TypeOK
<1>2. Waiting \subseteq Items
  BY <1>1, ElementsType DEF Waiting
<1>3. \A h \in Handlers : log[h] \in Seq(1 .. sent) /\ Elements(log[h]) \subseteq 1 .. sent
  BY ElementsType DEF TypeOK
<1>4. \A p \in Peers : Got(p) \subseteq 1 .. sent
  BY ElementsType DEF TypeOK, Got
<1> QED BY <1>1, <1>2, <1>3, <1>4, ItemType

\* What a caller offers is nowhere else, and no other caller offers it.
LEMMA OfferFacts ==
  ASSUME TypeOK, WaitInv, OfferInv, WorkInv, LogInv,
         NEW c \in Callers, offer[c] # Idle
  PROVE  LET f == offer[c].frame
         IN  /\ f \in 1 .. sent /\ f # work.frame /\ ~Standing(f)
             /\ \A i \in Waiting : i.frame # f
             /\ \A h \in Handlers : f \notin Elements(log[h])
             /\ \A d \in Callers : d # c /\ offer[d] # Idle => offer[d].frame # f
<1> DEFINE f == offer[c].frame
<1>1. f \in 0 .. sent
  BY DEF TypeOK, Agents
<1>2. call[f].caller = c /\ call[f].fate = "offered" /\ f # 0
  BY DEF OfferInv, OfferOK
<1>3. f \in 1 .. sent /\ ~Standing(f)
  BY <1>1, <1>2, NumbersType DEF Standing
<1> QED BY <1>2, <1>3 DEF WaitInv, OfferInv, OfferOK, WorkInv, LogInv

\* An idle caller offers nothing; a busy one offers one item.
LEMMA OfferedItem ==
  ASSUME TypeOK, OfferInv, NEW c \in Callers, NEW i \in offer[c].then
  PROVE  /\ offer[c] # Idle /\ offer[c].then = {i} /\ i.frame = offer[c].frame
         /\ i \in Items /\ Describes(i) /\ (i.kind = "broadcast" => offer[c].peers = {})
<1>1. offer[c] # Idle
  BY DEF Idle
<1>2. i \in Items
  BY DEF TypeOK, Agents
<1> QED BY <1>1, <1>2 DEF OfferInv, OfferOK

\* An item that is new to the queues is put into its queue, or in the hands of
\* a goroutine.
LEMMA EnqueuePlace ==
  ASSUME TypeOK, PlaceInv, NEW c \in Callers, NEW i \in Items, offer[c].then = {i},
         \A j \in Waiting : j.frame # i.frame, Enqueue(c)
  PROVE  /\ Waiting' = Waiting \cup {i} /\ PlaceInv' /\ UNCHANGED spawned
         /\ Settle(i.frame, "queued")
<1>0. i \notin Waiting
  OBVIOUS
<1>1. CASE i.kind = "publish" /\ publishQueue' = Append(publishQueue, i)
           /\ UNCHANGED <<broadcastQueue, spawned>>
  <2>1. /\ Elements(publishQueue') = Elements(publishQueue) \cup {i}
        /\ Injective(publishQueue')
    BY <1>0, <1>1, WaitingType, AppendFacts DEF Waiting, PlaceInv
  <2>2. Waiting' = Waiting \cup {i}
    BY <1>1, <2>1 DEF Waiting
  <2> QED BY <1>0, <1>1, <2>1, <2>2 DEF PlaceInv, Enqueue, Waiting
<1>2. CASE i.kind = "broadcast" /\ broadcastQueue' = Append(broadcastQueue, i)
           /\ UNCHANGED <<publishQueue, spawned>>
  <2>1. /\ Elements(broadcastQueue') = Elements(broadcastQueue) \cup {i}
        /\ Injective(broadcastQueue')
    BY <1>0, <1>2, WaitingType, AppendFacts DEF Waiting, PlaceInv
  <2>2. Waiting' = Waiting \cup {i}
    BY <1>2, <2>1 DEF Waiting
  <2> QED BY <1>0, <1>2, <2>1, <2>2 DEF PlaceInv, Enqueue, Waiting
<1> QED BY <1>1, <1>2 DEF Enqueue

LEMMA SpawnPlace ==
  ASSUME TypeOK, PlaceInv, NEW c \in Callers, NEW i \in Items, offer[c].then = {i},
         \A j \in Waiting : j.frame # i.frame, Spawn(c)
  PROVE  /\ Waiting' = Waiting \cup {i} /\ PlaceInv' /\ spawned' = spawned \cup {i}
         /\ UNCHANGED <<publishQueue, broadcastQueue>> /\ Settle(i.frame, "spawned")
<1>1. /\ spawned' = spawned \cup {i} /\ UNCHANGED <<publishQueue, broadcastQueue>>
      /\ Settle(i.frame, "spawned")
  BY DEF Spawn
<1>2. Waiting' = Waiting \cup {i}
  BY <1>1 DEF Waiting
<1> QED BY <1>1, <1>2 DEF PlaceInv, Waiting

\* A goroutine that finds room changes the place of its item and no more.
LEMMA SpawnedPlace ==
  ASSUME TypeOK, PlaceInv, NEW i \in spawned, SpawnedEnqueue(i)
  PROVE  /\ Waiting' = Waiting /\ PlaceInv' /\ spawned' = spawned \ {i}
<1>0. spawned' = spawned \ {i} /\ i \in Items
  BY DEF SpawnedEnqueue, TypeOK
<1>1. CASE i.kind = "publish" /\ publishQueue' = Append(publishQueue, i)
           /\ UNCHANGED broadcastQueue
  <2>1. /\ Elements(publishQueue') = Elements(publishQueue) \cup {i}
        /\ Injective(publishQueue')
    BY <1>0, <1>1, WaitingType, AppendFacts DEF PlaceInv
  <2>2. Waiting' = Waiting
    BY <1>0, <1>1, <2>1 DEF Waiting
  <2> QED BY <1>0, <1>1, <2>1, <2>2 DEF PlaceInv
<1>2. CASE i.kind = "broadcast" /\ broadcastQueue' = Append(broadcastQueue, i)
           /\ UNCHANGED publishQueue
  <2>1. /\ Elements(broadcastQueue') = Elements(broadcastQueue) \cup {i}
        /\ Injective(broadcastQueue')
    BY <1>0, <1>2, WaitingType, AppendFacts DEF PlaceInv
  <2>2. Waiting' = Waiting
    BY <1>0, <1>2, <2>1 DEF Waiting
  <2> QED BY <1>0, <1>2, <2>1, <2>2 DEF PlaceInv
<1> QED BY <1>1, <1>2 DEF SpawnedEnqueue

LEMMA ExitPlace ==
  ASSUME TypeOK, PlaceInv, NEW i \in spawned, SpawnedExit(i)
  PROVE  /\ Waiting' = Waiting \ {i} /\ PlaceInv' /\ spawned' = spawned \ {i}
         /\ UNCHANGED <<publishQueue, broadcastQueue>>
<1>1. spawned' = spawned \ {i} /\ UNCHANGED <<publishQueue, broadcastQueue>>
  BY DEF SpawnedExit
<1>2. Waiting' = Waiting \ {i}
  BY <1>1 DEF Waiting, PlaceInv
<1> QED BY <1>1, <1>2 DEF PlaceInv

\* The item that the loop takes waits no longer.
LEMMA ServePlace ==
  ASSUME TypeOK, PlaceInv, ServePublish \/ ServeBroadcast
  PROVE  \E i \in Waiting :
           /\ i \notin spawned /\ Waiting' = Waiting \ {i} /\ PlaceInv' /\ UNCHANGED spawned
           /\ Elements(publishQueue') = Elements(publishQueue) \ {i}
           /\ Elements(broadcastQueue') = Elements(broadcastQueue) \ {i}
           /\ work'.frame = i.frame /\ work'.groups = Groups(i)
           /\ i.kind = "publish" => work'.peers = {} /\ i = Head(publishQueue)
           /\ i.kind = "broadcast" => work'.peers \subseteq Peers /\ i = Head(broadcastQueue)
<1>1. CASE ServePublish
  <2> DEFINE i == Head(publishQueue)
  <2>1. /\ i \in Elements(publishQueue) /\ Injective(publishQueue')
        /\ Elements(publishQueue') = Elements(publishQueue) \ {i}
    BY <1>1, WaitingType, TailFacts DEF ServePublish, PlaceInv
  <2>2. i.kind = "publish" /\ i \notin spawned /\ i \notin Elements(broadcastQueue)
        /\ UNCHANGED <<spawned, broadcastQueue>>
    BY <1>1, <2>1 DEF PlaceInv, ServePublish
  <2>3. Waiting' = Waiting \ {i} /\ i \in Waiting
    BY <2>1, <2>2 DEF Waiting
  <2>4. work'.frame = i.frame /\ work'.groups = Groups(i) /\ work'.peers = {}
    BY <1>1, <2>2 DEF ServePublish, Idle, Groups
  <2>5. PlaceInv'
    BY <2>1, <2>2, <2>3 DEF PlaceInv
  <2> HIDE DEF i
  <2> QED BY <2>1, <2>2, <2>3, <2>4, <2>5 DEF i
<1>2. CASE ServeBroadcast
  <2> DEFINE i == Head(broadcastQueue)
  <2>1. /\ i \in Elements(broadcastQueue) /\ Injective(broadcastQueue')
        /\ Elements(broadcastQueue') = Elements(broadcastQueue) \ {i}
    BY <1>2, WaitingType, TailFacts DEF ServeBroadcast, PlaceInv
  <2>2. i.kind = "broadcast" /\ i \notin spawned /\ i \notin Elements(publishQueue)
        /\ UNCHANGED <<spawned, publishQueue>>
    BY <1>2, <2>1 DEF PlaceInv, ServeBroadcast
  <2>3. Waiting' = Waiting \ {i} /\ i \in Waiting
    BY <2>1, <2>2 DEF Waiting
  <2>4. work'.frame = i.frame /\ work'.groups = Groups(i) /\ work'.peers \subseteq Peers
    BY <1>2, <2>2 DEF ServeBroadcast, Idle, Groups, TypeOK
  <2>5. PlaceInv'
    BY <2>1, <2>2, <2>3 DEF PlaceInv
  <2> HIDE DEF i
  <2> QED BY <2>1, <2>2, <2>3, <2>4, <2>5 DEF i
<1> QED BY <1>1, <1>2

-----------------------------------------------------------------------------
(* The steps, one after the other.                                          *)

DeliveryInv ==
  PlaceInv /\ WaitInv /\ OfferInv /\ WorkInv /\ LogInv /\ PeerInv /\ SubscribedInv

\* Subscribing and unsubscribing, leaving and running move no frame.
LEMMA QuietStep ==
  ASSUME TypeOK, DeliveryInv, UNCHANGED <<queues, delivered, work, offer, sent, call>>,
         subscribed \cup unsubscribed \subseteq subscribed' \cup unsubscribed',
         subscribed' \cap unsubscribed' = {}
  PROVE  DeliveryInv'
<1> USE DEF DeliveryInv, queues, delivered
<1>1. Waiting' = Waiting /\ \A p : Got(p)' = Got(p)
  BY DEF Waiting, Got
<1>2. PlaceInv' /\ WaitInv'
  BY <1>1 DEF PlaceInv, WaitInv, Standing, Describes
<1>3. OfferInv' /\ LogInv'
  BY DEF OfferInv, OfferOK, LogInv, Standing, Describes
<1>4. WorkInv' /\ SubscribedInv'
  BY DEF WorkInv, SubscribedInv, Standing
<1>5. PeerInv'
  BY <1>1 DEF PeerInv
<1> QED BY <1>2, <1>3, <1>4, <1>5

\* A call adds a frame that is nowhere yet.
LEMMA CallStep ==
  ASSUME TypeOK, DeliveryInv, NEW c \in Callers, NEW i, NEW fate, NEW w, offer[c] = Idle,
         i.kind \in {"publish", "broadcast"}, i.frame = sent + 1, Record(c, i, fate),
         w.frame = i.frame, w.then = {i}, i.kind = "broadcast" => w.peers = {},
         UNCHANGED offer \/ (fate = "offered" /\ offer' = [offer EXCEPT ![c] = w]),
         UNCHANGED <<handlerState, queues, delivered, work>>
  PROVE  DeliveryInv'
<1> USE DEF DeliveryInv, queues, delivered, handlerState
<1> DEFINE e == [caller |-> c, kind |-> i.kind, fate |-> fate, due |-> Members(Groups(i))]
<1>1. /\ sent \in Nat /\ sent' = sent + 1 /\ i.frame \notin 1 .. sent /\ i.frame # 0
      /\ 1 .. sent' = 1 .. sent \cup {i.frame} /\ i.frame \notin 0 .. sent
  BY NumbersType DEF Record
<1>2. (\A f \in 1 .. sent : call'[f] = call[f]) /\ call'[i.frame] = e
  BY <1>1 DEF Record, TypeOK
<1>3. Members(Groups(i)) \subseteq Eligible(i) /\ Members(Groups(i)) \subseteq subscribed
  BY GroupsFacts
<1> HIDE DEF e
<1>4. e.caller = c /\ e.kind = i.kind /\ e.fate = fate /\ e.due = Members(Groups(i))
  BY DEF e
<1>5. Waiting' = Waiting /\ \A p : Got(p)' = Got(p)
  BY DEF Waiting, Got
<1>6. /\ \A j \in Waiting : j.frame \in 1 .. sent
      /\ \A h \in Handlers : Elements(log[h]) \subseteq 1 .. sent
      /\ \A p \in Peers : Got(p) \subseteq 1 .. sent
      /\ work.frame \in 0 .. sent
      /\ \A d \in Callers : offer[d] # Idle => offer[d].frame \in 1 .. sent
  BY WaitingType, OfferFacts DEF TypeOK, Agents
<1>7. PlaceInv'
  BY <1>5 DEF PlaceInv
<1>8. WaitInv'
  BY <1>2, <1>5, <1>6 DEF WaitInv, Standing, Describes
<1>9. LogInv' /\ WorkInv'
  BY <1>1, <1>2, <1>6 DEF LogInv, WorkInv, Standing
<1>10. SubscribedInv'
  BY <1>1, <1>2, <1>3, <1>4 DEF SubscribedInv
<1>11. \A d \in Callers : \/ offer'[d] = offer[d]
                         \/ /\ d = c /\ fate = "offered" /\ offer'[d].frame = i.frame
                            /\ offer'[d].peers = w.peers /\ offer'[d].then = {i}
  BY DEF TypeOK, Idle
<1>12. OfferInv'
  <2> SUFFICES ASSUME NEW d \in Callers, offer'[d] # Idle PROVE OfferOK(d)'
    BY DEF OfferInv, OfferOK
  <2>1. CASE offer'[d] = offer[d]
    <3>1. d # c /\ offer[d].frame \in 1 .. sent
      BY <1>6, <2>1
    <3>2. \A j \in offer[d].then : j.frame = offer[d].frame => (Describes(j) => Describes(j)')
      BY <1>2, <3>1 DEF Describes
    <3> QED BY <1>1, <1>2, <1>4, <2>1, <3>1, <3>2 DEF OfferInv, OfferOK
  <2>2. CASE /\ d = c /\ fate = "offered" /\ offer'[d].frame = i.frame
             /\ offer'[d].peers = w.peers /\ offer'[d].then = {i}
    <3>1. Describes(i)'
      BY <1>2, <1>3, <1>4 DEF Describes
    <3> QED BY <1>1, <1>2, <1>4, <2>2, <3>1 DEF OfferOK
  <2> QED BY <1>11, <2>1, <2>2
<1>13. PeerInv'
  BY <1>1, <1>5, <1>6, <1>11 DEF PeerInv
<1> QED BY <1>7, <1>8, <1>9, <1>10, <1>12, <1>13

\* A peer is sent a frame that it does not have, by the one agent that has it.
LEMMA SendFacts ==
  ASSUME TypeOK, NEW p \in Peers, NEW f \in 1 .. sent, Send(p, f), f \notin Got(p),
         UNCHANGED received, Injective(inbox[p]),
         Elements(inbox[p]) \cap Elements(received[p]) = {}
  PROVE  /\ \A q \in Peers : Got(q)' \subseteq IF q = p THEN Got(q) \cup {f} ELSE Got(q)
         /\ \A q \in Peers : q # p => inbox'[q] = inbox[q]
         /\ Injective(inbox'[p]) /\ Elements(inbox'[p]) \cap Elements(received[p]) = {}
<1>0. inbox[p] \in Seq(1 .. sent)
  BY DEF TypeOK
<1>1. CASE inbox' = inbox
  BY <1>1 DEF Got
<1>2. CASE inbox' = [inbox EXCEPT ![p] = Append(@, f)]
  <2>1. /\ inbox'[p] = Append(inbox[p], f)
        /\ \A q \in Peers : q # p => inbox'[q] = inbox[q]
    BY <1>2 DEF TypeOK
  <2>2. Elements(inbox'[p]) = Elements(inbox[p]) \cup {f} /\ Injective(inbox'[p])
    <3>1. f \notin Elements(inbox[p])
      BY DEF Got
    <3>2. /\ Elements(Append(inbox[p], f)) = Elements(inbox[p]) \cup {f}
          /\ Injective(Append(inbox[p], f))
      <4> DEFINE S == 1 .. sent  s == inbox[p]
      <4>1. s \in Seq(S) /\ f \in S /\ Injective(s) /\ f \notin Elements(s)
        BY <1>0, <3>1
      <4> HIDE DEF S, s
      <4>2. Elements(Append(s, f)) = Elements(s) \cup {f} /\ Injective(Append(s, f))
        BY <4>1, AppendFacts
      <4> QED BY <4>2 DEF s
    <3> QED BY <2>1, <3>2
  <2> QED BY <2>1, <2>2 DEF Got
<1> QED BY <1>1, <1>2 DEF Send

LEMMA SendToPeerStep ==
  ASSUME TypeOK, DeliveryInv, NEW c \in Callers, NEW p \in Peers, SendToPeer(c, p)
  PROVE  DeliveryInv'
<1> USE DEF DeliveryInv, queues, handlerState
<1> DEFINE f == offer[c].frame
<1>1. /\ p \in offer[c].peers /\ Send(p, f)
      /\ offer' = [offer EXCEPT ![c] = [offer[c] EXCEPT !.peers = @ \ {p}]]
      /\ UNCHANGED <<handlerState, queues, log, received, work, sent, call>>
  BY DEF SendToPeer
<1>2. offer[c] # Idle
  BY <1>1 DEF Idle
<1>3. /\ f \in 1 .. sent /\ f # work.frame /\ ~Standing(f)
      /\ \A i \in Waiting : i.frame # f
      /\ \A d \in Callers : d # c /\ offer[d] # Idle => offer[d].frame # f
  BY <1>2, OfferFacts
<1>4. /\ \A d \in Callers : d # c => offer'[d] = offer[d]
      /\ offer'[c].frame = f /\ offer'[c].peers = offer[c].peers \ {p}
      /\ offer'[c].then = offer[c].then
  BY <1>1 DEF TypeOK, Agents
<1>5. /\ f \notin Got(p)
      /\ Injective(inbox[p]) /\ Elements(inbox[p]) \cap Elements(received[p]) = {}
  BY <1>1 DEF PeerInv
<1>6. /\ \A q \in Peers : Got(q)' \subseteq IF q = p THEN Got(q) \cup {f} ELSE Got(q)
      /\ \A q \in Peers : q # p => inbox'[q] = inbox[q]
      /\ Injective(inbox'[p]) /\ Elements(inbox'[p]) \cap Elements(received[p]) = {}
  BY <1>1, <1>3, <1>5, SendFacts
<1>7. Waiting' = Waiting
  BY <1>1 DEF Waiting
<1>8. PlaceInv' /\ WaitInv' /\ WorkInv' /\ LogInv' /\ SubscribedInv'
  BY <1>1, <1>7 DEF PlaceInv, WaitInv, WorkInv, LogInv, SubscribedInv, Standing, Describes
<1>9. OfferInv'
  <2>1. \A d \in Callers : offer[d] # Idle => OfferOK(d)'
    BY <1>1, <1>4 DEF OfferInv, OfferOK, Describes
  <2> QED BY <1>2, <1>4, <2>1 DEF OfferInv
<1>10. \A q \in Peers : /\ Injective(inbox'[q]) /\ Injective(received'[q])
                       /\ Elements(inbox'[q]) \cap Elements(received'[q]) = {}
  BY <1>1, <1>6 DEF PeerInv
<1>11. \A q \in Peers : /\ q \in work'.peers => work'.frame \notin Got(q)'
                       /\ \A i \in Waiting' : i.kind = "broadcast" => i.frame \notin Got(q)'
  BY <1>1, <1>3, <1>6, <1>7 DEF PeerInv
<1>12. ASSUME NEW q \in Peers, NEW d \in Callers
       PROVE  /\ q \in offer'[d].peers => offer'[d].frame \notin Got(q)'
              /\ \A i \in offer'[d].then : i.kind = "broadcast" => i.frame \notin Got(q)'
  <2>1. CASE d = c
    <3>1. q \in offer'[d].peers => offer'[d].frame \notin Got(q)'
      BY <1>4, <1>6, <2>1 DEF PeerInv
    <3>2. \A i \in offer[c].then : i.kind # "broadcast"
      BY <1>1, OfferedItem
    <3> QED BY <1>4, <2>1, <3>1, <3>2
  <2>2. CASE d # c
    <3>1. offer'[d] = offer[d] /\ (offer[d] # Idle => offer[d].frame # f)
      BY <1>3, <1>4, <2>2
    <3>2. q \in offer[d].peers => offer[d] # Idle
      BY DEF Idle
    <3>3. \A i \in offer[d].then : i.frame # f
      BY <3>1, OfferedItem
    <3> QED BY <1>6, <3>1, <3>2, <3>3 DEF PeerInv
  <2> QED BY <2>1, <2>2
<1>13. PeerInv'
  BY <1>10, <1>11, <1>12 DEF PeerInv
<1> QED BY <1>8, <1>9, <1>13

\* The frame of a caller is accepted: it waits where it waited nowhere before.
LEMMA AcceptStep ==
  ASSUME TypeOK, DeliveryInv, NEW c \in Callers, Enqueue(c) \/ Spawn(c)
  PROVE  DeliveryInv'
<1> USE DEF DeliveryInv, delivered, handlerState
<1>1. PICK i \in offer[c].then : TRUE
  BY DEF Enqueue, Spawn
<1> DEFINE f == i.frame
<1>2. /\ offer[c] # Idle /\ offer[c].then = {i} /\ f = offer[c].frame
      /\ i \in Items /\ Describes(i)
  BY <1>1, OfferedItem
<1>3. /\ f \in 1 .. sent /\ f # work.frame /\ ~Standing(f)
      /\ \A j \in Waiting : j.frame # f
      /\ \A h \in Handlers : f \notin Elements(log[h])
      /\ \A d \in Callers : d # c /\ offer[d] # Idle => offer[d].frame # f
  BY <1>2, OfferFacts
<1>4. PICK fate \in {"queued", "spawned"} :
        /\ Settle(f, fate) /\ Waiting' = Waiting \cup {i} /\ PlaceInv'
        /\ spawned' \ {i} \subseteq spawned /\ (i \in spawned' => fate = "spawned")
  BY <1>2, <1>3, EnqueuePlace, SpawnPlace DEF Waiting
<1>5. /\ offer' = [offer EXCEPT ![c] = Idle]
      /\ UNCHANGED <<handlerState, delivered, work, sent>>
  BY DEF Enqueue, Spawn
<1>6. \A g \in 1 .. sent :
        /\ call'[g].caller = call[g].caller /\ call'[g].kind = call[g].kind
        /\ call'[g].due = call[g].due
        /\ call'[g].fate = IF g = f THEN fate ELSE call[g].fate
  BY <1>2, <1>4, SettleType DEF Fates
<1>7. (\A d \in Callers : d # c => offer'[d] = offer[d]) /\ offer'[c] = Idle
  BY <1>5 DEF TypeOK
<1>8. /\ \A j \in Waiting : j.frame \in 1 .. sent
      /\ \A h \in Handlers : Elements(log[h]) \subseteq 1 .. sent
      /\ work.frame \in 0 .. sent /\ sent \in Nat
      /\ \A d \in Callers : offer[d] # Idle => offer[d].frame \in 1 .. sent
  BY WaitingType, OfferFacts, NumbersType DEF TypeOK, Agents
<1>9. \A p : Got(p)' = Got(p)
  BY <1>5 DEF Got
<1> HIDE DEF f
<1>10. WaitInv'
  <2>1. Describes(i)' /\ Standing(f)'
    BY <1>2, <1>3, <1>4, <1>6 DEF Describes, Standing, f
  <2>2. ASSUME NEW j \in Waiting
        PROVE  /\ Describes(j)' /\ Standing(j.frame)' /\ call'[j.frame].fate = call[j.frame].fate
               /\ (j \in spawned => call'[j.frame].fate = "spawned")
    BY <1>3, <1>6, <1>8 DEF WaitInv, Describes, Standing
  <2> QED BY <1>3, <1>4, <1>5, <1>6, <2>1, <2>2 DEF WaitInv, f
<1>11. OfferInv'
  <2> SUFFICES ASSUME NEW d \in Callers, offer'[d] # Idle PROVE OfferOK(d)'
    BY DEF OfferInv, Idle
  <2>1. d # c /\ offer'[d] = offer[d] /\ OfferOK(d)
    BY <1>7 DEF OfferInv
  <2>2. offer[d].frame \in 1 .. sent /\ offer[d].frame # f
    BY <1>3, <1>7, <1>8, <2>1
  <2>3. \A j \in offer[d].then : j.frame = offer[d].frame /\ Describes(j) => Describes(j)'
    BY <1>6, <2>2 DEF Describes
  <2> QED BY <1>5, <1>6, <2>1, <2>2, <2>3 DEF OfferOK
<1>12. WorkInv' /\ LogInv'
  BY <1>3, <1>5, <1>6, <1>8 DEF WorkInv, LogInv, Standing
<1>13. PeerInv'
  BY <1>1, <1>4, <1>5, <1>7, <1>9 DEF PeerInv, Idle
<1>14. SubscribedInv'
  BY <1>5, <1>6 DEF SubscribedInv
<1> QED BY <1>4, <1>10, <1>11, <1>12, <1>13, <1>14

LEMMA SpawnedStep ==
  ASSUME TypeOK, DeliveryInv, NEW i \in spawned, SpawnedEnqueue(i)
  PROVE  DeliveryInv'
<1> USE DEF DeliveryInv, delivered, handlerState
<1>1. /\ Waiting' = Waiting /\ PlaceInv' /\ spawned' = spawned \ {i}
      /\ UNCHANGED <<handlerState, delivered, work, offer, sent, call>>
  BY SpawnedPlace DEF SpawnedEnqueue
<1>2. WaitInv' /\ OfferInv'
  <2>1. WaitInv'
    BY <1>1 DEF WaitInv, Standing, Describes
  <2>2. OfferInv'
    BY <1>1 DEF OfferInv, OfferOK, Describes
  <2> QED BY <2>1, <2>2
<1>3. WorkInv' /\ LogInv' /\ SubscribedInv'
  BY <1>1 DEF WorkInv, LogInv, SubscribedInv, Standing
<1>4. PeerInv'
  BY <1>1 DEF PeerInv, Got
<1> QED BY <1>1, <1>2, <1>3, <1>4

\* A frame that is given up has been with its goroutine alone.
LEMMA ExitStep ==
  ASSUME TypeOK, DeliveryInv, NEW i \in spawned, SpawnedExit(i)
  PROVE  DeliveryInv'
<1> USE DEF DeliveryInv, delivered, handlerState
<1> DEFINE f == i.frame
<1>1. /\ Waiting' = Waiting \ {i} /\ PlaceInv' /\ spawned' = spawned \ {i}
      /\ UNCHANGED <<handlerState, delivered, work, offer, sent>>
  BY ExitPlace DEF SpawnedExit
<1>2. i \in Waiting /\ i \in Items /\ f \in 1 .. sent
  BY WaitingType DEF Waiting
<1>3. \A g \in 1 .. sent :
        /\ call'[g].caller = call[g].caller /\ call'[g].kind = call[g].kind
        /\ call'[g].due = call[g].due
        /\ call'[g].fate = IF g = f THEN "dropped" ELSE call[g].fate
  BY <1>2, SettleType DEF SpawnedExit, Fates
<1>4. /\ f # work.frame /\ \A h \in Handlers : f \notin Elements(log[h])
      /\ \A j \in Waiting \ {i} : j.frame # f
      /\ \A d \in Callers : offer[d] # Idle => offer[d].frame # f
  BY <1>2, OfferFacts DEF WaitInv, PlaceInv
<1>5. /\ \A j \in Waiting : j.frame \in 1 .. sent
      /\ \A h \in Handlers : Elements(log[h]) \subseteq 1 .. sent
      /\ work.frame \in 0 .. sent /\ sent \in Nat
      /\ \A d \in Callers : offer[d] # Idle => offer[d].frame \in 1 .. sent
  BY WaitingType, OfferFacts, NumbersType DEF TypeOK, Agents
<1> HIDE DEF f
<1>6. WaitInv'
  BY <1>1, <1>3, <1>4, <1>5 DEF WaitInv, Standing, Describes
<1>7. OfferInv'
  BY <1>1, <1>3, <1>4, <1>5 DEF OfferInv, OfferOK, Describes
<1>8. WorkInv' /\ LogInv' /\ SubscribedInv'
  BY <1>1, <1>3, <1>4, <1>5 DEF WorkInv, LogInv, SubscribedInv, Standing
<1>9. PeerInv'
  BY <1>1 DEF PeerInv, Got
<1> QED BY <1>1, <1>6, <1>7, <1>8, <1>9

\* The loop takes an item, and copies the handlers of that moment.
LEMMA ServeStep ==
  ASSUME TypeOK, DeliveryInv, ServePublish \/ ServeBroadcast
  PROVE  DeliveryInv'
<1> USE DEF DeliveryInv, delivered, handlerState
<1>1. PICK i \in Waiting :
        /\ Waiting' = Waiting \ {i} /\ PlaceInv' /\ UNCHANGED spawned
        /\ work'.frame = i.frame /\ work'.groups = Groups(i)
        /\ i.kind = "publish" => work'.peers = {}
        /\ i.kind = "broadcast" => work'.peers \subseteq Peers
  BY ServePlace
<1>2. UNCHANGED <<handlerState, delivered, offer, sent, call>>
  BY DEF ServePublish, ServeBroadcast
<1>3. i \in Items /\ i.kind \in {"publish", "broadcast"}
  BY WaitingType, ItemType
<1>4. \A j \in Waiting' : j.frame # i.frame
  BY <1>1 DEF PlaceInv
<1>5. WaitInv'
  BY <1>1, <1>2, <1>4 DEF WaitInv, Standing, Describes
<1>6. OfferInv' /\ LogInv' /\ SubscribedInv'
  BY <1>2 DEF OfferInv, OfferOK, LogInv, SubscribedInv, Standing, Describes
<1>7. WorkInv'
  <2>1. /\ Members(Groups(i)) = Eligible(i) \cap subscribed
        /\ \A j, k \in DOMAIN Groups(i) : j # k => Groups(i)[j] \cap Groups(i)[k] = {}
    BY <1>3, GroupsFacts
  <2>2. Standing(i.frame) /\ \A h \in Handlers : i.frame \notin Elements(log[h])
    BY DEF WaitInv
  <2>3. Members(work'.groups) = Members(Groups(i)) /\ Eligible(i) \subseteq Handlers
    BY <1>1 DEF Eligible
  <2> QED BY <1>1, <1>2, <2>1, <2>2, <2>3 DEF WorkInv, Standing
<1>8. PeerInv'
  BY <1>1, <1>2, <1>3 DEF PeerInv, Got
<1> QED BY <1>1, <1>5, <1>6, <1>7, <1>8

LEMMA SendBroadcastStep ==
  ASSUME TypeOK, DeliveryInv, NEW p \in Peers, SendBroadcast(p)
  PROVE  DeliveryInv'
<1> USE DEF DeliveryInv, queues, handlerState
<1> DEFINE f == work.frame
<1>1. /\ p \in work.peers /\ Send(p, f) /\ work' = [work EXCEPT !.peers = @ \ {p}]
      /\ UNCHANGED <<handlerState, queues, log, received, offer, sent, call>>
  BY DEF SendBroadcast
<1>2. f \in 1 .. sent
  BY <1>1, ServedType DEF TypeOK
<1>3. work'.frame = f /\ work'.peers = work.peers \ {p} /\ work'.groups = work.groups
  BY <1>1 DEF TypeOK, Agents
<1>4. /\ f \notin Got(p)
      /\ Injective(inbox[p]) /\ Elements(inbox[p]) \cap Elements(received[p]) = {}
  BY <1>1 DEF PeerInv
<1>5. /\ \A q \in Peers : Got(q)' \subseteq IF q = p THEN Got(q) \cup {f} ELSE Got(q)
      /\ \A q \in Peers : q # p => inbox'[q] = inbox[q]
      /\ Injective(inbox'[p]) /\ Elements(inbox'[p]) \cap Elements(received[p]) = {}
  BY <1>1, <1>2, <1>4, SendFacts
<1>6. Waiting' = Waiting
  BY <1>1 DEF Waiting
<1>7. PlaceInv' /\ WaitInv' /\ WorkInv' /\ LogInv' /\ SubscribedInv'
  <2>1. PlaceInv' /\ WaitInv' /\ LogInv'
    BY <1>1, <1>3, <1>6 DEF PlaceInv, WaitInv, LogInv, Standing, Describes
  <2>2. WorkInv' /\ SubscribedInv'
    BY <1>1, <1>3 DEF WorkInv, SubscribedInv, Standing
  <2> QED BY <2>1, <2>2
<1>8. OfferInv'
  BY <1>1 DEF OfferInv, OfferOK, Describes
<1>9. \A q \in Peers : /\ Injective(inbox'[q]) /\ Injective(received'[q])
                      /\ Elements(inbox'[q]) \cap Elements(received'[q]) = {}
  BY <1>1, <1>5 DEF PeerInv
<1>10. \A q \in Peers : /\ q \in work'.peers => work'.frame \notin Got(q)'
                       /\ \A i \in Waiting' : i.kind = "broadcast" => i.frame \notin Got(q)'
  BY <1>3, <1>5, <1>6 DEF PeerInv, WaitInv
<1>11. ASSUME NEW q \in Peers, NEW d \in Callers
       PROVE  /\ q \in offer'[d].peers => offer'[d].frame \notin Got(q)'
              /\ \A i \in offer'[d].then : i.kind = "broadcast" => i.frame \notin Got(q)'
  <2>1. offer'[d] = offer[d] /\ (offer[d] # Idle => offer[d].frame # f)
    BY <1>1, OfferFacts
  <2>2. q \in offer[d].peers => offer[d] # Idle
    BY DEF Idle
  <2>3. \A i \in offer[d].then : i.frame # f
    BY <2>1, OfferedItem
  <2> QED BY <1>5, <2>1, <2>2, <2>3 DEF PeerInv
<1>12. PeerInv'
  BY <1>9, <1>10, <1>11 DEF PeerInv
<1> QED BY <1>7, <1>8, <1>12

\* What a call of a handler changes.
LEMMA InvokeFacts ==
  ASSUME TypeOK, WorkInv, NEW h \in Handlers, Invoke(h)
  PROVE  /\ h \in Members(work.groups) /\ work.frame \in 1 .. sent
         /\ work'.frame = work.frame /\ work'.peers = work.peers
         /\ DOMAIN work'.groups = DOMAIN work.groups
         /\ \A j \in DOMAIN work.groups : work'.groups[j] \subseteq work.groups[j]
         /\ Members(work'.groups) = Members(work.groups) \ {h}
         /\ log' \in [Handlers -> Seq(1 .. sent)]
         /\ log'[h] = Append(log[h], work.frame)
         /\ \A g \in Handlers : g # h => log'[g] = log[g]
<1>1. PICK i \in DOMAIN work.groups :
        h \in work.groups[i] /\ work' = [work EXCEPT !.groups[i] = @ \ {h}]
  BY DEF Invoke
<1>2. work \in Agents /\ work.groups \in Seq(SUBSET Handlers) /\ work.frame \in 1 .. sent
  <2>1. work \in Agents /\ work.groups \in Seq(SUBSET Handlers) /\ work.frame \in 0 .. sent
    BY DEF TypeOK, Agents
  <2>2. ~Spent(work)
    BY <1>1 DEF Spent
  <2>3. work.frame # 0
    BY <2>2 DEF TypeOK
  <2> QED BY <2>1, <2>3, NumbersType
<1>3. DOMAIN work.groups = 1 .. Len(work.groups)
  BY <1>2, LenProperties
<1>4. /\ work'.frame = work.frame /\ work'.peers = work.peers
      /\ work'.groups = [work.groups EXCEPT ![i] = @ \ {h}]
  BY <1>1, <1>2 DEF Agents
<1>5. /\ DOMAIN work'.groups = DOMAIN work.groups
      /\ \A j \in DOMAIN work.groups :
           work'.groups[j] = IF j = i THEN work.groups[j] \ {h} ELSE work.groups[j]
  BY <1>2, <1>4
<1>6. \A j \in DOMAIN work.groups : j # i => h \notin work.groups[j]
  BY <1>1 DEF WorkInv
<1>7. Members(work'.groups) = Members(work.groups) \ {h} /\ h \in Members(work.groups)
  BY <1>1, <1>5, <1>6 DEF Members
<1>8. /\ log' = [log EXCEPT ![h] = Append(log[h], work.frame)]
      /\ Append(log[h], work.frame) \in Seq(1 .. sent)
  BY <1>2, AppendProperties DEF Invoke, TypeOK
<1> QED BY <1>2, <1>4, <1>5, <1>7, <1>8 DEF TypeOK

LEMMA InvokeStep ==
  ASSUME TypeOK, DeliveryInv, NEW h \in Handlers, Invoke(h)
  PROVE  DeliveryInv'
<1> USE DEF DeliveryInv, queues, handlerState
<1> DEFINE f == work.frame
<1>1. /\ h \in Members(work.groups) /\ f \in 1 .. sent
      /\ work'.frame = f /\ work'.peers = work.peers
      /\ DOMAIN work'.groups = DOMAIN work.groups
      /\ \A j \in DOMAIN work.groups : work'.groups[j] \subseteq work.groups[j]
      /\ Members(work'.groups) = Members(work.groups) \ {h}
      /\ log'[h] = Append(log[h], f) /\ \A g \in Handlers : g # h => log'[g] = log[g]
  BY InvokeFacts
<1>2. UNCHANGED <<handlerState, queues, inbox, received, offer, sent, call>>
  BY DEF Invoke
<1>3. f \notin Elements(log[h]) /\ Standing(f) /\ log[h] \in Seq(1 .. sent)
  BY <1>1, NumbersType DEF WorkInv, TypeOK
<1>4. Elements(log'[h]) = Elements(log[h]) \cup {f} /\ Injective(log'[h])
  <2>1. Injective(log[h])
    BY DEF LogInv
  <2>2. f \in 1 .. sent /\ log'[h] = Append(log[h], f)
    BY <1>1
  <2> DEFINE s == log[h]
             S == 1 .. sent
  <2>3. s \in Seq(S) /\ f \in S /\ f \notin Elements(s) /\ Injective(s)
    BY <1>3, <2>1, <2>2
  <2> HIDE DEF f, s, S
  <2>4. Elements(Append(s, f)) = Elements(s) \cup {f} /\ Injective(Append(s, f))
    BY <2>3, AppendFacts
  <2> QED BY <2>2, <2>4 DEF s
<1>5. Waiting' = Waiting /\ \A p : Got(p)' = Got(p)
  BY <1>2 DEF Waiting, Got
<1>6. PlaceInv' /\ OfferInv' /\ SubscribedInv'
  <2>1. PlaceInv' /\ SubscribedInv'
    BY <1>2, <1>5 DEF PlaceInv, SubscribedInv
  <2>2. OfferInv'
    BY <1>2 DEF OfferInv, OfferOK, Describes
  <2> QED BY <2>1, <2>2
<1>7. WaitInv' /\ LogInv'
  <2>1. \A g \in Handlers : Elements(log'[g]) \subseteq Elements(log[g]) \cup {f}
    BY <1>1, <1>4
  <2>2. WaitInv'
    BY <1>1, <1>2, <1>5, <2>1 DEF WaitInv, Standing, Describes
  <2>3. LogInv'
    BY <1>1, <1>2, <1>3, <1>4 DEF LogInv, Standing
  <2> QED BY <2>2, <2>3
<1>8. WorkInv'
  <2>1. \A i, j \in DOMAIN work'.groups : i # j => work'.groups[i] \cap work'.groups[j] = {}
    BY <1>1 DEF WorkInv
  <2>2. \A g \in Members(work'.groups) :
          g \in subscribed' \cup unsubscribed' /\ work'.frame \notin Elements(log'[g])
    <3>1. \A g \in Members(work.groups) : g \in Handlers
      BY DEF WorkInv, TypeOK
    <3> QED BY <1>1, <1>2, <3>1 DEF WorkInv
  <2> QED BY <1>1, <1>2, <1>3, <2>1, <2>2 DEF WorkInv, Standing
<1>9. PeerInv'
  BY <1>1, <1>2, <1>5 DEF PeerInv
<1> QED BY <1>6, <1>7, <1>8, <1>9

\* A frame goes from the send queue to the connection.
LEMMA WritePumpStep ==
  ASSUME TypeOK, DeliveryInv, NEW p \in Peers, WritePump(p)
  PROVE  DeliveryInv'
<1> USE DEF DeliveryInv, queues, handlerState
<1> DEFINE f == Head(inbox[p])
<1>1. /\ UNCHANGED <<handlerState, queues, log, work, offer, sent, call>>
      /\ inbox[p] # << >> /\ inbox[p] \in Seq(1 .. sent) /\ received[p] \in Seq(1 .. sent)
      /\ inbox'[p] = Tail(inbox[p]) /\ received'[p] = Append(received[p], f)
      /\ \A q \in Peers : q # p => inbox'[q] = inbox[q] /\ received'[q] = received[q]
  BY DEF WritePump, TypeOK
<1>2. /\ f \in 1 .. sent /\ f \in Elements(inbox[p])
      /\ Elements(inbox[p]) = {f} \cup Elements(Tail(inbox[p]))
      /\ Injective(Tail(inbox[p])) /\ f \notin Elements(Tail(inbox[p]))
  BY <1>1, TailFacts DEF PeerInv
<1>3. f \notin Elements(received[p])
  BY <1>2 DEF PeerInv
<1>4. /\ Elements(received'[p]) = Elements(received[p]) \cup {f}
      /\ Injective(received'[p])
  BY <1>1, <1>2, <1>3, AppendFacts DEF PeerInv
<1> HIDE DEF f
<1>5. \A q \in Peers : /\ Injective(inbox'[q]) /\ Injective(received'[q])
                      /\ Elements(inbox'[q]) \cap Elements(received'[q]) = {}
                      /\ Got(q)' = Got(q)
  <2> SUFFICES ASSUME NEW q \in Peers
               PROVE  /\ Injective(inbox'[q]) /\ Injective(received'[q])
                      /\ Elements(inbox'[q]) \cap Elements(received'[q]) = {}
                      /\ Got(q)' = Got(q)
    OBVIOUS
  <2>1. CASE q = p
    BY <1>1, <1>2, <1>3, <1>4, <2>1 DEF PeerInv, Got
  <2>2. CASE q # p
    BY <1>1, <2>2 DEF PeerInv, Got
  <2> QED BY <2>1, <2>2
<1>6. Waiting' = Waiting
  BY <1>1 DEF Waiting
<1>7. PlaceInv' /\ WaitInv' /\ WorkInv'
  BY <1>1, <1>6 DEF PlaceInv, WaitInv, WorkInv, Standing, Describes
<1>8. OfferInv' /\ LogInv' /\ SubscribedInv'
  <2>1. OfferInv'
    BY <1>1 DEF OfferInv, OfferOK, Describes
  <2>2. LogInv' /\ SubscribedInv'
    BY <1>1 DEF LogInv, SubscribedInv, Standing
  <2> QED BY <2>1, <2>2
<1>9. PeerInv'
  BY <1>1, <1>5, <1>6 DEF PeerInv
<1> QED BY <1>7, <1>8, <1>9

LEMMA DeliveryStep == TypeOK /\ DeliveryInv /\ [Next]_vars => DeliveryInv'
<1> SUFFICES ASSUME TypeOK, DeliveryInv, [Next]_vars PROVE DeliveryInv'
  OBVIOUS
<1>1. ASSUME NEW c \in Callers, NEW n \in bounds.notify, Broadcast(c, n)
      PROVE  DeliveryInv'
  <2> DEFINE i == Item("broadcast", sent + 1, NoChannel, n)
             w == [Idle EXCEPT !.frame = i.frame, !.then = {i}]
  <2>1. i.kind = "broadcast" /\ i.frame = sent + 1
        /\ w.frame = i.frame /\ w.then = {i} /\ w.peers = {}
    BY DEF Item, Idle
  <2>2. PICK fate : /\ Record(c, i, fate)
                    /\ \/ UNCHANGED offer
                       \/ fate = "offered" /\ offer' = [offer EXCEPT ![c] = w]
    BY <1>1 DEF Broadcast
  <2>3. offer[c] = Idle /\ UNCHANGED <<handlerState, queues, delivered, work>>
    BY <1>1 DEF Broadcast
  <2> HIDE DEF i, w
  <2> QED BY <2>1, <2>2, <2>3, CallStep
<1>2. ASSUME NEW c \in Callers, NEW n \in bounds.notify, NEW ch \in Channels, Publish(c, ch, n)
      PROVE  DeliveryInv'
  <2> DEFINE i == Item("publish", sent + 1, ch, n)
             w == [Idle EXCEPT !.frame = i.frame, !.peers = ChannelPeers(ch), !.then = {i}]
  <2>1. i.kind = "publish" /\ i.frame = sent + 1 /\ w.frame = i.frame /\ w.then = {i}
    BY DEF Item, Idle
  <2>2. PICK fate : /\ Record(c, i, fate)
                    /\ \/ UNCHANGED offer
                       \/ fate = "offered" /\ offer' = [offer EXCEPT ![c] = w]
    BY <1>2 DEF Publish
  <2>3. offer[c] = Idle /\ UNCHANGED <<handlerState, queues, delivered, work>>
    BY <1>2 DEF Publish
  <2> HIDE DEF i, w
  <2> QED BY <2>1, <2>2, <2>3, CallStep
<1>3. ASSUME NEW h \in Handlers, Subscribe(h) \/ Unsubscribe(h) PROVE DeliveryInv'
  BY <1>3, QuietStep DEF Subscribe, Unsubscribe, DeliveryInv, SubscribedInv
<1>4. ASSUME NEW p \in Peers, Leave(p) \/ ClosePeer(p) PROVE DeliveryInv'
  BY <1>4, QuietStep DEF Leave, ClosePeer, handlerState, DeliveryInv, SubscribedInv
<1>5. CASE Run \/ Cancel \/ Stop \/ FinishRun \/ UNCHANGED vars
  BY <1>5, QuietStep DEF Run, Cancel, Stop, FinishRun, vars, handlerState, DeliveryInv,
     SubscribedInv
<1> QED
  BY <1>1, <1>2, <1>3, <1>4, <1>5, SendToPeerStep, AcceptStep, SpawnedStep, ExitStep, ServeStep,
     SendBroadcastStep, InvokeStep, WritePumpStep DEF Next, CallerStep, Working

LEMMA DeliveryInit == Init => DeliveryInv
<1> SUFFICES ASSUME Init PROVE DeliveryInv
  OBVIOUS
<1> USE DEF Init
<1>1. Waiting = {} /\ \A p \in Peers : Got(p) = {}
  BY EmptyElements DEF Waiting, Got
<1>2. PlaceInv /\ WaitInv
  BY <1>1, EmptyElements DEF PlaceInv, WaitInv
<1>3. OfferInv /\ WorkInv /\ LogInv /\ SubscribedInv
  BY EmptyElements DEF OfferInv, WorkInv, LogInv, SubscribedInv, Idle, Members
<1>4. PeerInv
  BY <1>1, EmptyElements DEF PeerInv, Idle
<1> QED BY <1>2, <1>3, <1>4 DEF DeliveryInv

LEMMA DeliveryInvariant == Spec => [](TypeOK /\ DeliveryInv)
<1>1. QED
  BY TypeInit, TypeStep, DeliveryInit, DeliveryStep, PTL DEF Spec

\* However many callers publish and broadcast, queues overflow, handlers come
\* and go and hubs stop, no handler is called twice with a frame and no peer
\* is sent one twice: an item is in one queue or with one goroutine, the
\* handler groups of a delivery are disjoint, and a peer that follows a
\* channel and the wildcard is collected once (hub.go:313-340, 343-370, 617-666).
THEOREM DeliveredAtMostOnce == Spec => []AtMostOnce
<1>1. DeliveryInv => AtMostOnce
  BY DEF DeliveryInv, LogInv, PeerInv, AtMostOnce
<1>2. QED
  BY <1>1, DeliveryInvariant, PTL

-----------------------------------------------------------------------------
(* What each kind of step does to accepted frames, for the three theorems   *)
(* that follow.                                                             *)

\* A new call, and the fate it has; frames sent before keep theirs.
NewCall ==
  /\ sent' = sent + 1 /\ ~Standing(sent)'
  /\ \A f \in 1 .. sent : call'[f] = call[f]
  /\ UNCHANGED <<handlerState, queues, delivered, work>>

\* The frame of item i gets another fate.
Settled(i, fate) ==
  /\ i.frame # work.frame /\ \A h \in Handlers : i.frame \notin Elements(log[h])
  /\ \A f \in 1 .. sent :
       /\ call'[f].caller = call[f].caller /\ call'[f].kind = call[f].kind
       /\ call'[f].due = call[f].due
       /\ call'[f].fate = IF f = i.frame THEN fate ELSE call[f].fate
  /\ UNCHANGED <<handlerState, delivered, work, sent>>

Accepted ==
  \E c \in Callers : \E i \in offer[c].then : \E fate \in {"queued", "spawned"} :
    /\ Settled(i, fate) /\ Waiting' = Waiting \cup {i}
    /\ \A j \in Waiting : j.frame # i.frame
    /\ \/ Enqueue(c) /\ fate = "queued"
       \/ Spawn(c) /\ fate = "spawned"

GivenUp ==
  \E i \in Waiting :
    /\ Settled(i, "dropped") /\ Waiting' = Waiting \ {i}
    /\ \A j \in Waiting' : j.frame # i.frame
    /\ UNCHANGED <<publishQueue, broadcastQueue>>

Moved ==
  /\ UNCHANGED <<handlerState, delivered, work, sent, call>>
  /\ Waiting' = Waiting /\ \E i \in spawned : SpawnedEnqueue(i)

Served ==
  /\ UNCHANGED <<handlerState, delivered, sent, call>>
  /\ Spent(work) /\ (ServePublish \/ ServeBroadcast)

Called ==
  /\ UNCHANGED <<handlerState, queues, sent, call>>
  /\ \E h \in Handlers : Invoke(h)

\* A step that moves no frame to or from a handler.
Aside ==
  /\ UNCHANGED <<queues, log, sent, call>> /\ work'.frame = work.frame
  /\ work'.groups = work.groups
  /\ UNCHANGED handlerState \/ \E h \in Handlers : Subscribe(h) \/ Unsubscribe(h)

LEMMA StepKinds ==
  ASSUME TypeOK, DeliveryInv, [Next]_vars
  PROVE  NewCall \/ Accepted \/ GivenUp \/ Moved \/ Served \/ Called \/ Aside
<1> USE DEF handlerState, queues, delivered
<1>1. ASSUME NEW c \in Callers, NEW n \in bounds.notify,
             Broadcast(c, n) \/ \E ch \in Channels : Publish(c, ch, n)
      PROVE  NewCall
  <2>1. PICK fate \in {"rejected", "ignored", "offered"} : \E i : Record(c, i, fate)
    BY <1>1 DEF Broadcast, Publish
  <2>2. sent \in Nat /\ Len(call) = sent /\ call \in Seq(Calls)
    BY NumbersType DEF TypeOK
  <2>3. /\ sent' = sent + 1 /\ \A f \in 1 .. sent : call'[f] = call[f]
        /\ call'[sent + 1].fate = fate
    BY <2>1, <2>2 DEF Record
  <2>4. UNCHANGED <<handlerState, queues, delivered, work>>
    BY <1>1 DEF Broadcast, Publish
  <2> QED BY <2>3, <2>4 DEF NewCall, Standing
<1>2. ASSUME NEW c \in Callers, Enqueue(c) \/ Spawn(c) PROVE Accepted
  <2>1. PICK i \in offer[c].then : TRUE
    BY <1>2 DEF Enqueue, Spawn
  <2>2. /\ offer[c] # Idle /\ offer[c].then = {i} /\ i.frame = offer[c].frame /\ i \in Items
    BY OfferedItem DEF DeliveryInv
  <2>3. /\ i.frame # work.frame /\ \A j \in Waiting : j.frame # i.frame
        /\ \A h \in Handlers : i.frame \notin Elements(log[h])
    BY <2>2, OfferFacts DEF DeliveryInv
  <2>4. UNCHANGED <<handlerState, delivered, work, sent>>
    BY <1>2 DEF Enqueue, Spawn
  <2>5. CASE Enqueue(c)
    <3>1. Settle(i.frame, "queued") /\ Waiting' = Waiting \cup {i}
      BY <2>2, <2>3, <2>5, EnqueuePlace DEF DeliveryInv
    <3>2. Settled(i, "queued")
      BY <2>2, <2>3, <2>4, <3>1, SettleType DEF Settled, Fates
    <3> QED BY <2>3, <2>5, <3>1, <3>2 DEF Accepted
  <2>6. CASE Spawn(c)
    <3>1. Settle(i.frame, "spawned") /\ Waiting' = Waiting \cup {i}
      BY <2>2, <2>3, <2>6, SpawnPlace DEF DeliveryInv
    <3>2. Settled(i, "spawned")
      BY <2>2, <2>3, <2>4, <3>1, SettleType DEF Settled, Fates
    <3> QED BY <2>3, <2>6, <3>1, <3>2 DEF Accepted
  <2> QED BY <1>2, <2>5, <2>6
<1>3. ASSUME NEW i \in spawned, SpawnedExit(i) PROVE GivenUp
  <2>1. /\ Waiting' = Waiting \ {i} /\ i \in Waiting /\ i \in Items
        /\ UNCHANGED <<publishQueue, broadcastQueue>>
    BY <1>3, ExitPlace, WaitingType DEF DeliveryInv, Waiting
  <2>2. \A j \in Waiting' : j.frame # i.frame
    BY <2>1 DEF DeliveryInv, PlaceInv
  <2>3. UNCHANGED <<handlerState, delivered, work, sent>> /\ Settle(i.frame, "dropped")
    BY <1>3 DEF SpawnedExit
  <2>4. Settled(i, "dropped")
    BY <2>1, <2>3, SettleType DEF DeliveryInv, WaitInv, Settled, Fates
  <2> QED BY <2>1, <2>2, <2>4 DEF GivenUp
<1>4. ASSUME NEW i \in spawned, SpawnedEnqueue(i) PROVE Moved
  BY <1>4, SpawnedPlace DEF DeliveryInv, SpawnedEnqueue, Moved
<1>5. ASSUME ServePublish \/ ServeBroadcast PROVE Served
  BY <1>5 DEF ServePublish, ServeBroadcast, Selecting, Served
<1>6. ASSUME NEW h \in Handlers, Invoke(h) PROVE Called
  BY <1>6 DEF Invoke, Called
<1>7. ASSUME NEW p \in Peers, SendBroadcast(p) PROVE Aside
  BY <1>7 DEF SendBroadcast, Aside, TypeOK, Agents
<1>8. ASSUME NEW p \in Peers, NEW c \in Callers, SendToPeer(c, p) PROVE Aside
  BY <1>8 DEF SendToPeer, Aside
<1>9. ASSUME NEW p \in Peers, Leave(p) \/ ClosePeer(p) \/ WritePump(p) PROVE Aside
  BY <1>9 DEF Leave, ClosePeer, WritePump, Aside
<1>10. ASSUME NEW h \in Handlers, Subscribe(h) \/ Unsubscribe(h) PROVE Aside
  BY <1>10 DEF Subscribe, Unsubscribe, Aside
<1>11. ASSUME Run \/ Cancel \/ Stop \/ FinishRun \/ UNCHANGED vars PROVE Aside
  BY <1>11 DEF Run, Cancel, Stop, FinishRun, vars, Aside
<1> QED
  BY <1>1, <1>2, <1>3, <1>4, <1>5, <1>6, <1>7, <1>8, <1>9, <1>10, <1>11
  DEF Next, CallerStep, Working

-----------------------------------------------------------------------------
(* No frame that the hub accepted is lost.                                  *)

LEMMA LossStep ==
  ASSUME TypeOK, DeliveryInv, NothingLost, [Next]_vars
  PROVE  NothingLost'
<1> USE DEF handlerState, queues, delivered
<1> SUFFICES ASSUME NEW f \in 1 .. sent', Standing(f)', NEW h \in call'[f].due, h \in subscribed'
             PROVE  f \in Elements(log'[h]) \/ Underway(f, h)'
  BY DEF NothingLost, Standing
<1>0. \A g \in 1 .. sent, k \in subscribed :
        Standing(g) /\ k \in call[g].due => g \in Elements(log[k]) \/ Underway(g, k)
  BY DEF NothingLost, Standing
<1>1. CASE NewCall
  <2>1. f \in 1 .. sent /\ Standing(f) /\ h \in call[f].due /\ h \in subscribed
    BY <1>1, NumbersType DEF NewCall, Standing
  <2>2. Underway(f, h)' = Underway(f, h) /\ log' = log
    BY <1>1 DEF NewCall, Underway, Waiting
  <2> QED BY <1>0, <2>1, <2>2
<1>2. CASE Accepted
  <2>1. PICK i, fate : Settled(i, fate) /\ Waiting' = Waiting \cup {i}
    BY <1>2 DEF Accepted
  <2>2. CASE f = i.frame
    BY <2>1, <2>2 DEF Underway
  <2>3. CASE f # i.frame
    <3>1. f \in 1 .. sent /\ Standing(f) /\ h \in call[f].due /\ h \in subscribed
      BY <2>1, <2>3 DEF Settled, Standing
    <3>2. (Underway(f, h) => Underway(f, h)') /\ log' = log
      BY <2>1 DEF Underway, Settled
    <3> QED BY <1>0, <3>1, <3>2
  <2> QED BY <2>2, <2>3
<1>3. CASE GivenUp
  <2>1. PICK i \in Waiting : Settled(i, "dropped") /\ Waiting' = Waiting \ {i}
    BY <1>3 DEF GivenUp
  <2>2. /\ f \in 1 .. sent /\ f # i.frame /\ Standing(f) /\ h \in call[f].due
        /\ h \in subscribed
    BY <2>1 DEF Settled, Standing
  <2>3. (Underway(f, h) => Underway(f, h)') /\ log' = log
    BY <2>1, <2>2 DEF Underway, Settled
  <2> QED BY <1>0, <2>2, <2>3
<1>4. CASE Moved
  <2>1. Underway(f, h)' = Underway(f, h) /\ log' = log
    BY <1>4 DEF Moved, Underway
  <2> QED BY <1>0, <1>4, <2>1 DEF Moved, Standing
<1>5. CASE Served
  <2>1. PICK i \in Waiting : Waiting' = Waiting \ {i} /\ work'.frame = i.frame
                             /\ work'.groups = Groups(i)
    BY <1>5, ServePlace DEF Served, DeliveryInv
  <2>2. /\ f \in 1 .. sent /\ Standing(f) /\ h \in call[f].due /\ h \in subscribed
        /\ log' = log
    BY <1>5 DEF Served, Standing
  <2>3. CASE f = i.frame
    <3>1. h \in Eligible(i) \cap subscribed
      BY <2>2, <2>3 DEF DeliveryInv, WaitInv, Describes
    <3>2. h \in Members(work'.groups)
      BY <2>1, <3>1, GroupsFacts, WaitingType, ItemType DEF Members
    <3> QED BY <2>1, <2>3, <3>2 DEF Underway, Members
  <2>4. CASE f # i.frame
    <3>1. Members(work.groups) = {}
      BY <1>5 DEF Served, Spent, Members
    <3>2. Underway(f, h) => Underway(f, h)'
      BY <2>1, <2>4, <3>1 DEF Underway
    <3> QED BY <1>0, <2>2, <3>2
  <2> QED BY <2>3, <2>4
<1>6. CASE Called
  <2>1. PICK k \in Handlers : Invoke(k)
    BY <1>6 DEF Called
  <2>2. /\ work.frame \in 1 .. sent /\ work'.frame = work.frame
        /\ Members(work'.groups) = Members(work.groups) \ {k}
        /\ log'[k] = Append(log[k], work.frame)
        /\ \A g \in Handlers : g # k => log'[g] = log[g]
    BY <2>1, InvokeFacts DEF DeliveryInv
  <2>3. /\ f \in 1 .. sent /\ Standing(f) /\ h \in call[f].due /\ h \in subscribed
        /\ Waiting' = Waiting /\ h \in Handlers
    BY <1>6 DEF Called, Standing, Waiting, TypeOK
  <2>4. f \in Elements(log[h]) \/ Underway(f, h)
    BY <1>0, <2>3
  <2>5. CASE h # k
    <3>1. log'[h] = log[h] /\ (Underway(f, h) => Underway(f, h)')
      BY <2>2, <2>3, <2>5 DEF Underway, Members
    <3> QED BY <2>4, <3>1
  <2>6. CASE h = k
    <3>1. log[h] \in Seq(1 .. sent)
      BY <2>3, WaitingType
    <3>2. Elements(log'[h]) = Elements(log[h]) \cup {work.frame}
      <4> DEFINE s == log[h]
                 S == 1 .. sent
                 g == work.frame
      <4>1. s \in Seq(S) /\ g \in S
        BY <2>2, <3>1
      <4> HIDE DEF s, S, g
      <4>2. Elements(Append(s, g)) = Elements(s) \cup {g}
        BY <4>1, AppendFacts
      <4> QED BY <2>2, <2>6, <4>2 DEF s, g
    <3>3. Underway(f, h) => f = work.frame \/ Underway(f, h)'
      BY <2>3 DEF Underway
    <3> QED BY <2>4, <3>2, <3>3
  <2> QED BY <2>5, <2>6
<1>7. CASE Aside
  <2>1. /\ f \in 1 .. sent /\ Standing(f) /\ h \in call[f].due /\ log' = log
        /\ Underway(f, h)' = Underway(f, h)
    BY <1>7 DEF Aside, Standing, Underway, Waiting
  <2>2. h \in subscribed
    <3>1. h \in subscribed \cup unsubscribed
      BY <2>1 DEF DeliveryInv, SubscribedInv
    <3> QED BY <1>7, <3>1 DEF Aside, Subscribe, Unsubscribe
  <2> QED BY <1>0, <2>1, <2>2
<1> QED BY <1>1, <1>2, <1>3, <1>4, <1>5, <1>6, <1>7, StepKinds

\* A frame for which Publish or Broadcast returned nil is in a queue, with the
\* goroutine of a full queue, with the loop or with the handler: at no moment,
\* in no order of sends, overflows, subscriptions and restarts, has it vanished
\* (hub.go:333-340, 361-370, 560-600).
THEOREM AcceptedNotLost == Spec => []NothingLost
<1>1. Init => NothingLost
  BY DEF Init, NothingLost
<1>2. QED
  BY <1>1, LossStep, DeliveryInvariant, PTL DEF Spec

-----------------------------------------------------------------------------
(* A handler that was unsubscribed.                                         *)

LEMMA LateStep ==
  ASSUME TypeOK, DeliveryInv, LateInv, [Next]_vars
  PROVE  LateInv'
<1> USE DEF handlerState, queues, delivered
<1> SUFFICES ASSUME NEW h \in unsubscribed'
             PROVE  Len(log'[h]) <= IF h \in Members(work'.groups) THEN early'[h]
                                    ELSE early'[h] + 1
  BY DEF LateInv, Members
<1>0. /\ \A k \in Handlers : Len(log[k]) \in Nat /\ early[k] \in Nat /\ log[k] \in Seq(1 .. sent)
      /\ subscribed \subseteq Handlers /\ unsubscribed \subseteq Handlers
  BY LenProperties DEF TypeOK
<1>1. CASE NewCall \/ Accepted \/ GivenUp \/ Moved
  BY <1>1 DEF NewCall, Accepted, GivenUp, Moved, Settled, LateInv
<1>2. CASE Served
  <2>1. PICK i \in Waiting : work'.groups = Groups(i)
    BY <1>2, ServePlace DEF Served, DeliveryInv
  <2>2. Members(work'.groups) \subseteq subscribed
    BY <2>1, GroupsFacts, WaitingType, ItemType DEF Members
  <2>3. UNCHANGED <<log, early, unsubscribed>> /\ h \notin subscribed
    BY <1>2 DEF Served, DeliveryInv, SubscribedInv
  <2> QED BY <1>0, <2>2, <2>3 DEF LateInv
<1>3. CASE Called
  <2>1. PICK k \in Handlers : Invoke(k)
    BY <1>3 DEF Called
  <2>2. /\ k \in Members(work.groups) /\ work.frame \in 1 .. sent
        /\ Members(work'.groups) = Members(work.groups) \ {k}
        /\ log'[k] = Append(log[k], work.frame)
        /\ \A g \in Handlers : g # k => log'[g] = log[g]
    BY <2>1, InvokeFacts DEF DeliveryInv
  <2>3. UNCHANGED <<early, unsubscribed>>
    BY <1>3 DEF Called
  <2>4. CASE h = k
    <3>1. Len(log'[h]) = Len(log[h]) + 1
      BY <1>0, <2>1, <2>2, <2>4, AppendProperties
    <3> QED BY <1>0, <2>2, <2>3, <2>4, <3>1 DEF LateInv
  <2>5. CASE h # k
    BY <1>0, <2>2, <2>3, <2>5 DEF LateInv
  <2> QED BY <2>4, <2>5
<1>4. CASE Aside
  <2>1. log' = log /\ Members(work'.groups) = Members(work.groups)
    BY <1>4 DEF Aside
  <2>2. CASE UNCHANGED handlerState
    BY <2>1, <2>2 DEF LateInv
  <2>3. ASSUME NEW k \in Handlers, Subscribe(k)
        PROVE  UNCHANGED <<early, unsubscribed>>
    BY <2>3 DEF Subscribe
  <2>4. ASSUME NEW k \in Handlers, Unsubscribe(k)
        PROVE  /\ unsubscribed' = unsubscribed \cup {k}
               /\ early'[k] = Len(log[k]) /\ \A g \in Handlers : g # k => early'[g] = early[g]
    BY <2>4 DEF Unsubscribe, TypeOK
  <2> QED BY <1>0, <1>4, <2>1, <2>2, <2>3, <2>4 DEF Aside, LateInv
<1> QED BY <1>1, <1>2, <1>3, <1>4, StepKinds

\* A handler whose unsubscribe function has returned is called once more at
\* most, since the loop works on one copy of the handlers at a time
\* (hub.go:313-340, 560-600, 668-720).
THEOREM LateDeliveryIsBounded == Spec => []LateDeliveryBounded
<1>1. Init => LateInv
  BY DEF Init, LateInv
<1>2. TypeOK /\ LateInv => LateDeliveryBounded
  <2> SUFFICES ASSUME TypeOK, LateInv, NEW h \in unsubscribed
               PROVE  Len(log[h]) <= early[h] + 1
    BY DEF LateDeliveryBounded
  <2>1. Len(log[h]) \in Nat /\ early[h] \in Nat
    BY LenProperties DEF TypeOK
  <2> QED BY <2>1 DEF LateInv
<1>3. QED
  BY <1>1, <1>2, LateStep, DeliveryInvariant, PTL DEF Spec

-----------------------------------------------------------------------------
(* The order in which handlers see the frames of one sender.                *)

LEMMA AppendOrdered ==
  ASSUME NEW cs, NEW S, NEW q \in Seq(S), NEW i \in S, Ordered(cs, q),
         \A j \in Elements(q) : InOrder(cs, j.frame, i.frame)
  PROVE  Ordered(cs, Append(q, i))
<1>1. /\ DOMAIN q = 1 .. Len(q) /\ Len(q) \in Nat
      /\ DOMAIN Append(q, i) = 1 .. Len(q) + 1
      /\ \A k \in 1 .. Len(q) : Append(q, i)[k] = q[k] /\ q[k] \in Elements(q)
      /\ Append(q, i)[Len(q) + 1] = i
  BY AppendProperties, LenProperties DEF Elements
<1> QED BY <1>1 DEF Ordered

LEMMA TailOrdered ==
  ASSUME NEW cs, NEW S, NEW q \in Seq(S), q # << >>, Ordered(cs, q)
  PROVE  /\ Ordered(cs, Tail(q))
         /\ \A j \in Elements(Tail(q)) : InOrder(cs, Head(q).frame, j.frame)
<1>1. /\ DOMAIN q = 1 .. Len(q) /\ Len(q) \in Nat \ {0} /\ Head(q) = q[1]
      /\ DOMAIN Tail(q) = 1 .. Len(q) - 1
      /\ \A k \in 1 .. Len(q) - 1 : Tail(q)[k] = q[k + 1]
  BY HeadTailProperties, LenProperties, EmptySeq
<1>2. Ordered(cs, Tail(q))
  BY <1>1 DEF Ordered
<1>3. \A k \in 1 .. Len(q) - 1 : InOrder(cs, Head(q).frame, Tail(q)[k].frame)
  BY <1>1 DEF Ordered
<1> QED BY <1>1, <1>2, <1>3 DEF Elements

\* The frames that the order is about have been sent.
LEMMA OrderedType ==
  ASSUME TypeOK
  PROVE  /\ \A k \in DOMAIN publishQueue : publishQueue[k] \in Elements(publishQueue)
         /\ \A k \in DOMAIN broadcastQueue : broadcastQueue[k] \in Elements(broadcastQueue)
         /\ Elements(publishQueue) \subseteq Waiting /\ Elements(broadcastQueue) \subseteq Waiting
         /\ \A i \in Waiting : i.frame \in 1 .. sent
         /\ \A h \in Handlers : Elements(log[h]) \subseteq 1 .. sent
         /\ work.frame # 0 => work.frame \in 1 .. sent
<1>1. work.frame # 0 => work.frame \in 1 .. sent
  BY NumbersType DEF TypeOK, Agents
<1> QED BY <1>1, WaitingType DEF Elements, Waiting

\* A call that is recorded, or that gets another fate before its frame has
\* reached a queue, changes no order.
LEMMA OrderKept ==
  ASSUME TypeOK, OrderInv, NEW f0 \in Nat,
         \A f, g \in 1 .. sent : f # f0 /\ g # f0 => InOrder(call', f, g) = InOrder(call, f, g),
         \A i \in Elements(publishQueue) \cup Elements(broadcastQueue) : i.frame # f0,
         work.frame # f0 \/ f0 = 0, \A h \in Handlers : f0 \notin Elements(log[h])
  PROVE  OrderBy(call')
<1> USE DEF OrderInv, OrderBy
<1>1. Ordered(call', publishQueue)
  BY OrderedType DEF Ordered
<1>2. Ordered(call', broadcastQueue)
  BY OrderedType DEF Ordered
<1>3. ComingOrder(call')
  BY OrderedType DEF ComingOrder
<1>4. CurrentOrder(call')
  BY OrderedType DEF CurrentOrder
<1>5. LogOrder(call')
  <2>1. \A h \in Handlers : \A k \in DOMAIN log[h] : log[h][k] \in Elements(log[h])
    BY DEF Elements
  <2> QED BY <2>1, OrderedType DEF LogOrder
<1> QED BY <1>1, <1>2, <1>3, <1>4, <1>5

LEMMA OrderCall ==
  ASSUME TypeOK, DeliveryInv, OrderInv, NewCall
  PROVE  OrderInv'
<1>1. 0 \notin 1 .. sent
  BY NumbersType
<1>2. \A f, g \in 1 .. sent : InOrder(call', f, g) = InOrder(call, f, g)
  BY DEF InOrder, NewCall
<1>3. OrderBy(call')
  BY <1>1, <1>2, OrderKept, OrderedType
<1> QED
  BY <1>3 DEF OrderInv, OrderBy, Ordered, ComingOrder, CurrentOrder, LogOrder, NewCall,
     queues, delivered

LEMMA OrderSettled ==
  ASSUME TypeOK, DeliveryInv, OrderInv, NEW i \in Items, NEW fate, Settled(i, fate),
         \A j \in Elements(publishQueue) \cup Elements(broadcastQueue) : j.frame # i.frame
  PROVE  OrderBy(call')
<1>1. i.frame \in 1 .. sent /\ i.frame \in Nat
  BY ItemType, NumbersType
<1>2. \A f, g \in 1 .. sent : f # i.frame /\ g # i.frame
                             => InOrder(call', f, g) = InOrder(call, f, g)
  BY DEF InOrder, Settled
<1> QED BY <1>1, <1>2, OrderKept DEF Settled

LEMMA OrderGivenUp ==
  ASSUME TypeOK, DeliveryInv, OrderInv, GivenUp
  PROVE  OrderInv'
<1>1. PICK i \in Waiting :
        /\ Settled(i, "dropped") /\ Waiting' = Waiting \ {i}
        /\ \A j \in Waiting' : j.frame # i.frame
        /\ UNCHANGED <<publishQueue, broadcastQueue>>
  BY DEF GivenUp
<1>2. i \in Items /\ (Elements(publishQueue) \cup Elements(broadcastQueue)) \subseteq Waiting'
  BY <1>1, WaitingType DEF Waiting
<1>3. OrderBy(call')
  BY <1>1, <1>2, OrderSettled
<1> QED
  BY <1>1, <1>3 DEF OrderInv, OrderBy, Ordered, ComingOrder, CurrentOrder, LogOrder, Settled,
     delivered

\* The frame that a caller has in hand is the last one it sent: it may join the
\* end of its queue.
LEMMA OrderAccepted ==
  ASSUME TypeOK, DeliveryInv, OrderInv, Accepted
  PROVE  OrderInv'
<1>1. PICK c \in Callers : \E i \in offer[c].then : \E fate \in {"queued", "spawned"} :
        /\ Settled(i, fate) /\ \A j \in Waiting : j.frame # i.frame
        /\ Enqueue(c) \/ Spawn(c)
  BY DEF Accepted
<1>2. PICK i \in offer[c].then, fate \in {"queued", "spawned"} :
        Settled(i, fate) /\ \A j \in Waiting : j.frame # i.frame
  BY <1>1
<1> DEFINE f == i.frame
<1>3. /\ offer[c] # Idle /\ offer[c].then = {i} /\ f = offer[c].frame /\ i \in Items
      /\ f \in 1 .. sent
  BY OfferedItem, ItemType DEF DeliveryInv
<1>4. OrderBy(call')
  BY <1>2, <1>3, OrderSettled DEF Waiting
<1>5. \A g \in 1 .. sent : g # f => InOrder(call', g, f)
  <2>1. call[f].caller = c /\ \A g \in 1 .. sent : call[g].caller = c => g <= f
    BY <1>3 DEF DeliveryInv, OfferInv, OfferOK
  <2> QED BY <1>2, <1>3, <2>1, NumbersType DEF InOrder, Settled
<1>6. UNCHANGED <<log, work>> /\ work.frame # f /\ \A h \in Handlers : f \notin Elements(log[h])
  BY <1>2 DEF Settled, delivered
<1>7. CurrentOrder(call)' /\ LogOrder(call)'
  BY <1>4, <1>6 DEF OrderBy, CurrentOrder, LogOrder
<1>8. CASE UNCHANGED <<publishQueue, broadcastQueue>>
  BY <1>4, <1>6, <1>7, <1>8 DEF OrderInv, OrderBy, Ordered, ComingOrder
<1>9. ASSUME NEW q \in Seq(Items), Ordered(call', q), Elements(q) \subseteq Waiting
      PROVE  /\ Ordered(call', Append(q, i)) /\ Elements(Append(q, i)) = Elements(q) \cup {i}
  <2>1. \A j \in Elements(q) : InOrder(call', j.frame, f)
    BY <1>2, <1>5, <1>9, WaitingType
  <2> QED BY <1>3, <1>9, <2>1, AppendOrdered, AppendFacts
<1>10. ASSUME Elements(publishQueue') \cup Elements(broadcastQueue')
                = Elements(publishQueue) \cup Elements(broadcastQueue) \cup {i}
       PROVE  ComingOrder(call)'
  <2>1. /\ work.frame # 0 => InOrder(call', work.frame, f)
        /\ \A h \in Handlers : \A g \in Elements(log[h]) : InOrder(call', g, f)
    BY <1>5, <1>6, OrderedType
  <2>2. ComingOrder(call')
    BY <1>4 DEF OrderBy
  <2> HIDE DEF f
  <2> QED BY <1>6, <1>10, <2>1, <2>2 DEF ComingOrder, f
<1>11. CASE publishQueue' = Append(publishQueue, i) /\ UNCHANGED broadcastQueue
  <2>1. /\ Ordered(call', publishQueue')
        /\ Elements(publishQueue') = Elements(publishQueue) \cup {i}
    BY <1>4, <1>9, <1>11, WaitingType, OrderedType DEF OrderBy
  <2>2. Ordered(call', broadcastQueue')
    BY <1>4, <1>11 DEF OrderBy
  <2>3. ComingOrder(call)'
    BY <1>10, <1>11, <2>1
  <2> QED BY <1>7, <2>1, <2>2, <2>3 DEF OrderInv, OrderBy
<1>12. CASE broadcastQueue' = Append(broadcastQueue, i) /\ UNCHANGED publishQueue
  <2>1. /\ Ordered(call', broadcastQueue')
        /\ Elements(broadcastQueue') = Elements(broadcastQueue) \cup {i}
    BY <1>4, <1>9, <1>12, WaitingType, OrderedType DEF OrderBy
  <2>2. Ordered(call', publishQueue')
    BY <1>4, <1>12 DEF OrderBy
  <2>3. ComingOrder(call)'
    BY <1>10, <1>12, <2>1
  <2> QED BY <1>7, <2>1, <2>2, <2>3 DEF OrderInv, OrderBy
<1> QED BY <1>1, <1>3, <1>8, <1>11, <1>12 DEF Enqueue, Spawn

\* A frame that a goroutine carried has lost its place in the order.
LEMMA OrderMoved ==
  ASSUME TypeOK, DeliveryInv, OrderInv, Moved
  PROVE  OrderInv'
<1>1. PICK i \in spawned : SpawnedEnqueue(i)
  BY DEF Moved
<1>2. /\ i \in Items /\ i \in Waiting /\ call[i.frame].fate = "spawned"
      /\ UNCHANGED <<log, work, call>>
  BY DEF DeliveryInv, WaitInv, Waiting, TypeOK, Moved, delivered
<1>3. \A g : InOrder(call, g, i.frame)
  BY <1>2 DEF InOrder
<1>4. CurrentOrder(call)' /\ LogOrder(call)'
  BY <1>2 DEF OrderInv, OrderBy, CurrentOrder, LogOrder
<1>5. ASSUME NEW q \in Seq(Items), Ordered(call, q)
      PROVE  Ordered(call, Append(q, i)) /\ Elements(Append(q, i)) = Elements(q) \cup {i}
  BY <1>2, <1>3, <1>5, AppendOrdered, AppendFacts
<1>6. ASSUME Elements(publishQueue') \cup Elements(broadcastQueue')
               = Elements(publishQueue) \cup Elements(broadcastQueue) \cup {i}
      PROVE  ComingOrder(call)'
  BY <1>2, <1>3, <1>6 DEF ComingOrder, OrderInv, OrderBy
<1>7. CASE publishQueue' = Append(publishQueue, i) /\ UNCHANGED broadcastQueue
  <2>1. /\ Ordered(call', publishQueue') /\ Ordered(call', broadcastQueue')
        /\ Elements(publishQueue') = Elements(publishQueue) \cup {i}
    BY <1>2, <1>5, <1>7, WaitingType DEF OrderInv, OrderBy
  <2> QED BY <1>4, <1>6, <1>7, <2>1 DEF OrderInv, OrderBy
<1>8. CASE broadcastQueue' = Append(broadcastQueue, i) /\ UNCHANGED publishQueue
  <2>1. /\ Ordered(call', publishQueue') /\ Ordered(call', broadcastQueue')
        /\ Elements(broadcastQueue') = Elements(broadcastQueue) \cup {i}
    BY <1>2, <1>5, <1>8, WaitingType DEF OrderInv, OrderBy
  <2> QED BY <1>4, <1>6, <1>8, <2>1 DEF OrderInv, OrderBy
<1> QED BY <1>1, <1>7, <1>8 DEF SpawnedEnqueue

\* The loop takes the oldest frame of a queue; those of the other queue are of
\* the other kind.
LEMMA OrderServed ==
  ASSUME TypeOK, DeliveryInv, OrderInv, Served
  PROVE  OrderInv'
<1>1. PICK i \in Waiting :
        /\ Elements(publishQueue') = Elements(publishQueue) \ {i}
        /\ Elements(broadcastQueue') = Elements(broadcastQueue) \ {i}
        /\ work'.frame = i.frame
        /\ i.kind = "publish" => i = Head(publishQueue)
        /\ i.kind = "broadcast" => i = Head(broadcastQueue)
  BY ServePlace DEF DeliveryInv, Served
<1>2. UNCHANGED <<log, call>> /\ i \in Items /\ i.frame # 0
  BY WaitingType, ItemType, NumbersType DEF Served, delivered
<1>3. \/ /\ publishQueue # << >> /\ publishQueue' = Tail(publishQueue)
         /\ i.frame = Head(publishQueue).frame /\ UNCHANGED broadcastQueue
      \/ /\ broadcastQueue # << >> /\ broadcastQueue' = Tail(broadcastQueue)
         /\ i.frame = Head(broadcastQueue).frame /\ UNCHANGED publishQueue
  BY <1>1 DEF Served, ServePublish, ServeBroadcast, Idle
<1>4. LogOrder(call)'
  BY <1>2 DEF OrderInv, OrderBy, LogOrder
<1>5. i \in Elements(publishQueue) \cup Elements(broadcastQueue)
  <2>1. i.kind \in {"publish", "broadcast"}
    BY <1>2, ItemType
  <2>2. \E j \in Elements(publishQueue) \cup Elements(broadcastQueue) : j.frame = i.frame
    BY <1>3, WaitingType, TailFacts
  <2> QED BY <2>2 DEF DeliveryInv, PlaceInv, Waiting
<1>6. \A h \in Handlers : \A f \in Elements(log[h]) : InOrder(call, f, i.frame)
  BY <1>5 DEF OrderInv, OrderBy, ComingOrder
<1>7. CurrentOrder(call)'
  BY <1>1, <1>2, <1>6 DEF CurrentOrder
<1>8. ASSUME NEW j \in Waiting, NEW k \in Waiting, j.kind # k.kind
      PROVE  InOrder(call, j.frame, k.frame)
  BY <1>8 DEF DeliveryInv, WaitInv, Describes, InOrder
<1>9. CASE /\ publishQueue # << >> /\ publishQueue' = Tail(publishQueue)
           /\ i.frame = Head(publishQueue).frame /\ UNCHANGED broadcastQueue
  <2>1. /\ Ordered(call, publishQueue') /\ Ordered(call, broadcastQueue')
        /\ \A j \in Elements(publishQueue') : InOrder(call, i.frame, j.frame)
    BY <1>9, WaitingType, TailOrdered DEF OrderInv, OrderBy
  <2>2. Head(publishQueue) \in Elements(publishQueue)
    BY <1>9, WaitingType, TailFacts
  <2>3. i.kind = "publish"
    BY <1>9, <2>2 DEF DeliveryInv, PlaceInv, Waiting
  <2>4. \A j \in Elements(broadcastQueue') : InOrder(call, i.frame, j.frame)
    BY <1>8, <1>9, <2>3 DEF DeliveryInv, PlaceInv, Waiting
  <2>5. ComingOrder(call)'
    BY <1>1, <1>2, <2>1, <2>4 DEF ComingOrder, OrderInv, OrderBy
  <2> QED BY <1>2, <1>4, <1>7, <2>1, <2>5 DEF OrderInv, OrderBy
<1>10. CASE /\ broadcastQueue # << >> /\ broadcastQueue' = Tail(broadcastQueue)
            /\ i.frame = Head(broadcastQueue).frame /\ UNCHANGED publishQueue
  <2>1. /\ Ordered(call, broadcastQueue') /\ Ordered(call, publishQueue')
        /\ \A j \in Elements(broadcastQueue') : InOrder(call, i.frame, j.frame)
    BY <1>10, WaitingType, TailOrdered DEF OrderInv, OrderBy
  <2>2. Head(broadcastQueue) \in Elements(broadcastQueue)
    BY <1>10, WaitingType, TailFacts
  <2>3. i.kind = "broadcast"
    BY <1>10, <2>2 DEF DeliveryInv, PlaceInv, Waiting
  <2>4. \A j \in Elements(publishQueue') : InOrder(call, i.frame, j.frame)
    BY <1>8, <1>10, <2>3 DEF DeliveryInv, PlaceInv, Waiting
  <2>5. ComingOrder(call)'
    BY <1>1, <1>2, <2>1, <2>4 DEF ComingOrder, OrderInv, OrderBy
  <2> QED BY <1>2, <1>4, <1>7, <2>1, <2>5 DEF OrderInv, OrderBy
<1> QED BY <1>3, <1>9, <1>10

\* A handler gets the frame that the loop works on after those it has.
LEMMA OrderCalled ==
  ASSUME TypeOK, DeliveryInv, OrderInv, Called
  PROVE  OrderInv'
<1>1. PICK h \in Handlers : Invoke(h)
  BY DEF Called
<1> DEFINE f == work.frame
<1>2. /\ h \in Members(work.groups) /\ f \in 1 .. sent /\ work'.frame = f
      /\ log'[h] = Append(log[h], f) /\ \A g \in Handlers : g # h => log'[g] = log[g]
  BY <1>1, InvokeFacts DEF DeliveryInv
<1>3. /\ log[h] \in Seq(1 .. sent) /\ f \notin Elements(log[h]) /\ f # 0
      /\ UNCHANGED <<publishQueue, broadcastQueue, call>>
  BY <1>2, WaitingType, NumbersType DEF DeliveryInv, WorkInv, Called, queues
<1>4. Elements(log'[h]) = Elements(log[h]) \cup {f}
  <2> DEFINE s == log[h]
             S == 1 .. sent
  <2>1. s \in Seq(S) /\ f \in S
    BY <1>2, <1>3
  <2> HIDE DEF s, S, f
  <2>2. Elements(Append(s, f)) = Elements(s) \cup {f}
    BY <2>1, AppendFacts
  <2> QED BY <1>2, <2>2 DEF s
<1>5. \A g \in Handlers : Elements(log'[g]) \subseteq Elements(log[g]) \cup {f}
  BY <1>2, <1>4
<1>6. Ordered(call, publishQueue)' /\ Ordered(call, broadcastQueue)'
  BY <1>3 DEF OrderInv, OrderBy, Ordered
<1>7. ComingOrder(call)' /\ CurrentOrder(call)'
  <2>1. ComingOrder(call)'
    BY <1>2, <1>3, <1>5 DEF OrderInv, OrderBy, ComingOrder
  <2>2. CurrentOrder(call)'
    BY <1>2, <1>3, <1>5 DEF OrderInv, OrderBy, CurrentOrder
  <2> QED BY <2>1, <2>2
<1>8. LogOrder(call)'
  <2> SUFFICES ASSUME NEW g \in Handlers, NEW k \in DOMAIN log'[g], NEW l \in DOMAIN log'[g],
                      k < l
               PROVE  InOrder(call, log'[g][k], log'[g][l])
    BY <1>3 DEF LogOrder
  <2>1. CASE g # h
    BY <1>2, <2>1 DEF OrderInv, OrderBy, LogOrder
  <2>2. CASE g = h
    <3>1. /\ DOMAIN log[h] = 1 .. Len(log[h]) /\ Len(log[h]) \in Nat
          /\ DOMAIN log'[h] = 1 .. Len(log[h]) + 1
          /\ \A m \in 1 .. Len(log[h]) : log'[h][m] = log[h][m]
          /\ log'[h][Len(log[h]) + 1] = f
      BY <1>2, <1>3, AppendProperties, LenProperties
    <3>2. CASE l \in DOMAIN log[h]
      <4>1. k \in DOMAIN log[h] /\ log'[h][k] = log[h][k] /\ log'[h][l] = log[h][l]
        BY <2>2, <3>1, <3>2
      <4> QED BY <2>2, <3>2, <4>1 DEF OrderInv, OrderBy, LogOrder
    <3>3. CASE l = Len(log[h]) + 1
      <4>1. k \in DOMAIN log[h] /\ log'[h][k] = log[h][k] /\ log'[h][l] = f
        BY <2>2, <3>1, <3>3
      <4>2. log[h][k] \in Elements(log[h])
        BY <4>1 DEF Elements
      <4> QED BY <1>3, <2>2, <4>1, <4>2 DEF OrderInv, OrderBy, CurrentOrder
    <3> QED BY <2>2, <3>1, <3>2, <3>3
  <2> QED BY <2>1, <2>2
<1> QED BY <1>6, <1>7, <1>8 DEF OrderInv, OrderBy

LEMMA OrderStep ==
  ASSUME TypeOK, DeliveryInv, OrderInv, [Next]_vars
  PROVE  OrderInv'
<1>1. CASE Aside
  BY <1>1 DEF Aside, queues, OrderInv, OrderBy, Ordered, ComingOrder, CurrentOrder, LogOrder
<1> QED
  BY <1>1, StepKinds, OrderCall, OrderAccepted, OrderGivenUp, OrderMoved, OrderServed, OrderCalled

\* Of the frames of one sender that found room in a queue, a handler sees an
\* earlier one before a later one, whatever the others do; only what a full
\* queue handed to a goroutine may be overtaken (hub.go:333-340, 361-370).
THEOREM HandlersSeeOrder == Spec => []HandlersInOrder
<1>1. Init => OrderInv
  BY EmptyElements DEF Init, OrderInv, OrderBy, Ordered, ComingOrder, CurrentOrder, LogOrder
<1>2. OrderInv => HandlersInOrder
  BY DEF OrderInv, OrderBy, LogOrder, InOrder, HandlersInOrder, SameSender
<1>3. QED
  BY <1>1, <1>2, OrderStep, DeliveryInvariant, PTL DEF Spec

-----------------------------------------------------------------------------
(* Each step of HubDelivery is a step of DeliveryService or changes nothing  *)
(* there.                                                                   *)

ServiceInv == TypeOK /\ DeliveryInv /\ OrderInv

\* What a peer got grows by what its send queue takes, and does not change when
\* its write pump moves a frame.
LEMMA GottenGrows ==
  ASSUME NEW S, NEW r \in Seq(S), NEW q \in Seq(S), NEW f \in S
  PROVE  r \o Append(q, f) = Append(r \o q, f)
<1>1. <<f>> \in Seq(S) /\ r \o q \in Seq(S)
  BY ConcatProperties
<1>2. Append(q, f) = q \o <<f>> /\ Append(r \o q, f) = (r \o q) \o <<f>>
  BY <1>1, AppendIsConcat
<1>3. (r \o q) \o <<f>> = r \o (q \o <<f>>)
  BY <1>1, ConcatAssociative
<1> QED BY <1>2, <1>3

LEMMA GottenMoves ==
  ASSUME NEW S, NEW r \in Seq(S), NEW q \in Seq(S), q # << >>
  PROVE  Append(r, Head(q)) \o Tail(q) = r \o q
<1>1. Head(q) \in S /\ Tail(q) \in Seq(S) /\ <<Head(q)>> \in Seq(S)
  BY HeadTailProperties
<1>2. q = <<Head(q)>> \o Tail(q)
  <2>1. /\ <<Head(q)>> \o Tail(q) \in Seq(S) /\ Len(<<Head(q)>> \o Tail(q)) = Len(q)
        /\ \A i \in 1 .. Len(q) : (<<Head(q)>> \o Tail(q))[i] = q[i]
    BY <1>1, HeadTailProperties, LenProperties
  <2> QED BY <2>1, SeqEqual
<1>3. Append(r, Head(q)) = r \o <<Head(q)>>
  BY <1>1, AppendIsConcat
<1>4. (r \o <<Head(q)>>) \o Tail(q) = r \o (<<Head(q)>> \o Tail(q))
  BY <1>1, ConcatAssociative
<1> QED BY <1>2, <1>3, <1>4

\* The handlers that the loop copies are the service's listeners.
LEMMA GroupsAreListeners ==
  ASSUME TypeOK, NEW i, i.kind \in {"publish", "broadcast"}
  PROVE  Members(Groups(i)) = Service!Listeners(i)
<1>1. Members(Groups(i)) = Eligible(i) \cap subscribed /\ subscribed \subseteq Handlers
  BY GroupsFacts DEF TypeOK
<1> QED BY <1>1 DEF Eligible, Service!Listeners, Service!Wants

\* Records that keep callers and fates of the frames so far.
LEMMA TakenInStays ==
  ASSUME TypeOK, Waiting' = Waiting,
         \A f \in 1 .. sent : call'[f].caller = call[f].caller /\ call'[f].fate = call[f].fate
  PROVE  TakenIn' = TakenIn
<1>1. \A i \in Waiting : i.frame \in 1 .. sent
  BY WaitingType
<1>2. \A i \in Waiting : Taken(i)' = Taken(i)
  BY <1>1 DEF Taken
<1> QED BY <1>2 DEF TakenIn

\* What the service sees of a step on neither frames nor agents.
LEMMA NothingMoves ==
  ASSUME UNCHANGED <<queues, delivered, work, offer, call>>
  PROVE  /\ Calling' = Calling /\ TakenIn' = TakenIn /\ Owed' = Owed /\ Gotten' = Gotten
         /\ Members(work.groups)' = Members(work.groups)
BY DEF queues, delivered, Calling, TakenIn, Taken, Waiting, Owed, Gotten

LEMMA OwedAre ==
  ASSUME NEW f, NEW p
  PROVE  <<f, p>> \in Owed <=> \/ work.frame = f /\ p \in work.peers
                               \/ \E c \in Callers : offer[c].frame = f /\ p \in offer[c].peers
BY DEF Owed

\* The frame of the loop is owed by the loop alone, and that of a caller by the
\* caller alone.
LEMMA OneOwes ==
  ASSUME TypeOK, DeliveryInv
  PROVE  /\ \A c \in Callers : offer[c].peers # {} \/ offer[c].then # {} =>
              /\ offer[c].frame \in 1 .. sent /\ offer[c].frame # work.frame
              /\ \A d \in Callers : d # c /\ offer[d].peers # {} => offer[d].frame # offer[c].frame
         /\ work.peers # {} => work.frame \in 1 .. sent
<1>1. \A c \in Callers : offer[c].peers # {} \/ offer[c].then # {} => offer[c] # Idle
  BY DEF Idle
<1>2. work.peers # {} => work.frame \in 1 .. sent
  BY NumbersType DEF TypeOK, Agents, Spent
<1> QED BY <1>1, <1>2, OfferFacts DEF DeliveryInv

LEMMA FreeLoop ==
  ASSUME TypeOK, DeliveryInv, Spent(work)
  PROVE  Service!Free
<1>1. Members(work.groups) = {}
  BY DEF Members, Spent
<1>2. ~Service!Owing(work.frame)
  BY OneOwes, OwedAre DEF Service!Owing, Spent
<1> QED BY <1>1, <1>2 DEF Service!Free

\* What a caller holds that has handed its frame to no peer yet.
LEMMA FreshOffer ==
  ASSUME NEW f, NEW t
  PROVE  [Idle EXCEPT !.frame = f, !.then = t] = [Idle EXCEPT !.frame = f, !.peers = {}, !.then = t]
<1>1. Idle = [Idle EXCEPT !.peers = {}]
  BY DEF Idle
<1> QED BY <1>1 DEF Idle

-----------------------------------------------------------------------------
\* A call is offered to the service or refused by it.
LEMMA OfferServed ==
  ASSUME ServiceInv, NEW c \in Callers, NEW n \in BOOLEAN,
         Broadcast(c, n) \/ \E ch \in Channels : Publish(c, ch, n)
  PROVE  Service!Next
<1> USE DEF ServiceInv, queues, delivered
<1> DEFINE unwanted(i) == /\ i.kind = "publish" /\ ChannelPeers(i.channel) = {}
                          /\ Members(PublishGroups(i)) = {}
           followers(i) == IF i.kind = "publish" THEN ChannelPeers(i.channel) ELSE {}
           taken(i) == [Idle EXCEPT !.frame = i.frame, !.peers = followers(i), !.then = {i}]
           served(i) == /\ offer[c] = Idle /\ \E fate : Record(c, i, fate)
                        /\ \/ (~running \/ unwanted(i)) /\ UNCHANGED offer
                           \/ /\ running /\ ~unwanted(i)
                              /\ offer' = [offer EXCEPT ![c] = taken(i)]
<1>1. PICK i \in Service!Messages : served(i)
  <2>1. ASSUME Broadcast(c, n) PROVE \E i \in Service!Messages : served(i)
    <3> DEFINE i == Item("broadcast", sent + 1, NoChannel, n)
    <3>1. i \in Service!Messages /\ i.kind = "broadcast"
      BY DEF Item, Service!Messages
    <3>2. /\ offer[c] = Idle
          /\ \/ ~running /\ Record(c, i, "rejected") /\ UNCHANGED offer
             \/ /\ running /\ Record(c, i, "offered")
                /\ offer' = [offer EXCEPT ![c] = [Idle EXCEPT !.frame = i.frame, !.then = {i}]]
      BY <2>1 DEF Broadcast
    <3> HIDE DEF i
    <3>3. taken(i) = [Idle EXCEPT !.frame = i.frame, !.then = {i}]
      <4>1. followers(i) = {}
        BY <3>1
      <4> HIDE DEF followers
      <4> QED BY <4>1, FreshOffer
    <3>4. served(i)
      BY <3>1, <3>2, <3>3
    <3> QED BY <3>1, <3>4
  <2>2. ASSUME NEW ch \in Channels, Publish(c, ch, n) PROVE \E i \in Service!Messages : served(i)
    <3> DEFINE i == Item("publish", sent + 1, ch, n)
    <3>1. i \in Service!Messages /\ i.kind = "publish" /\ i.channel = ch
      BY DEF Item, Service!Messages
    <3>2. /\ offer[c] = Idle
          /\ \/ ~running /\ Record(c, i, "rejected") /\ UNCHANGED offer
             \/ /\ running /\ ChannelPeers(ch) = {} /\ Members(PublishGroups(i)) = {}
                /\ Record(c, i, "ignored") /\ UNCHANGED offer
             \/ /\ running /\ ~(ChannelPeers(ch) = {} /\ Members(PublishGroups(i)) = {})
                /\ Record(c, i, "offered")
                /\ offer' = [offer EXCEPT ![c] = [Idle EXCEPT !.frame = i.frame,
                               !.peers = ChannelPeers(ch), !.then = {i}]]
      BY <2>2 DEF Publish
    <3> HIDE DEF i
    <3>3. served(i)
      BY <3>1, <3>2
    <3> QED BY <3>1, <3>3
  <2> QED BY <2>1, <2>2
<1>2. /\ UNCHANGED <<runState, peerState, handlerState, queues, delivered, work>>
      /\ sent' = sent + 1 /\ i.kind \in {"publish", "broadcast"} /\ i.frame = sent + 1
  BY <1>1 DEF Broadcast, Publish, Record, Service!Messages
<1>3. UNCHANGED <<Service!hub, Service!turn, TakenIn, log, Gotten>>
  <2>1. /\ sent \in Nat /\ call \in Seq(Calls) /\ Len(call) = sent
    BY NumbersType DEF TypeOK
  <2>2. \A f \in 1 .. sent : call'[f] = call[f]
    BY <1>1, <2>1 DEF Record
  <2>3. Waiting' = Waiting
    BY <1>2 DEF Waiting
  <2>4. TakenIn' = TakenIn /\ Gotten' = Gotten
    BY <1>2, <2>2, <2>3, TakenInStays DEF Gotten
  <2> QED BY <1>2, <2>4 DEF Service!hub, Service!turn, runState, peerState, handlerState
<1>4. /\ Service!Followers(i) = ChannelPeers(i.channel)
      /\ Service!Unwanted(i) <=> unwanted(i)
  BY GroupsAreListeners DEF Service!Followers, ChannelPeers, Service!Unwanted, Groups
<1>5. CASE (~running \/ unwanted(i)) /\ UNCHANGED offer
  <2>1. Calling' = Calling /\ Owed' = Owed
    BY <1>2, <1>5 DEF Calling, Owed
  <2>2. Service!Refuse(i)
    BY <1>2, <1>3, <1>4, <1>5, <2>1 DEF Service!Refuse
  <2> QED BY <2>2 DEF Service!Next
<1>6. CASE running /\ ~unwanted(i) /\ offer' = [offer EXCEPT ![c] = taken(i)]
  <2>1. \A d \in Callers : offer'[d] = IF d = c THEN taken(i) ELSE offer[d]
    BY <1>6 DEF TypeOK
  <2>2. taken(i).frame = i.frame /\ taken(i).peers = followers(i) /\ taken(i).then = {i}
    BY DEF Idle
  <2>3. offer[c].peers = {} /\ offer[c].then = {}
    BY <1>1 DEF Idle
  <2> HIDE DEF taken, followers
  <2>4. Calling' = [Calling EXCEPT ![c] = {i}] /\ Calling[c] = {}
    BY <2>1, <2>2, <2>3 DEF Calling
  <2>5. Owed' = Owed \cup {<<i.frame, p>> : p \in followers(i)}
    BY <1>2, <2>1, <2>2, <2>3 DEF Owed
  <2>6. Owed' = Owed \cup IF i.kind = "publish" THEN Service!To(i.frame, Service!Followers(i)) ELSE {}
    BY <1>4, <2>5 DEF Service!To, followers
  <2>7. Service!Offer(c, i)
    BY <1>2, <1>3, <1>4, <1>6, <2>4, <2>6 DEF Service!Offer
  <2> QED BY <2>7 DEF Service!Next
<1> HIDE DEF unwanted, taken
<1> QED BY <1>1, <1>5, <1>6

\* A peer is sent its frame, or misses it.
LEMMA SendServed ==
  ASSUME ServiceInv, NEW p \in Peers,
         SendBroadcast(p) \/ \E c \in Callers : SendToPeer(c, p)
  PROVE  Service!Next
<1> USE DEF ServiceInv, queues, handlerState
<1>1. PICK f \in 1 .. sent :
        /\ Send(p, f) /\ <<f, p>> \in Owed /\ Owed' = Owed \ {<<f, p>>}
        /\ UNCHANGED <<Calling, Members(work.groups), work.frame>>
  <2>1. CASE SendBroadcast(p)
    <3>1. /\ p \in work.peers /\ Send(p, work.frame) /\ work.frame \in 1 .. sent
          /\ work'.frame = work.frame /\ work'.peers = work.peers \ {p}
          /\ work'.groups = work.groups /\ offer' = offer
      BY <2>1, OneOwes DEF SendBroadcast, TypeOK, Agents
    <3>2. \A c \in Callers : offer[c].peers # {} => offer[c].frame # work.frame
      BY OneOwes
    <3>3. Owed' = Owed \ {<<work.frame, p>>} /\ <<work.frame, p>> \in Owed
      BY <3>1, <3>2 DEF Owed
    <3> QED BY <3>1, <3>3 DEF Calling
  <2>2. ASSUME NEW c \in Callers, SendToPeer(c, p)
        PROVE  \E f \in 1 .. sent :
                 /\ Send(p, f) /\ <<f, p>> \in Owed /\ Owed' = Owed \ {<<f, p>>}
                 /\ UNCHANGED <<Calling, Members(work.groups), work.frame>>
    <3> DEFINE f == offer[c].frame
    <3>1. /\ p \in offer[c].peers /\ Send(p, f) /\ f \in 1 .. sent /\ f # work.frame
          /\ \A d \in Callers : d # c /\ offer[d].peers # {} => offer[d].frame # f
      BY <2>2, OneOwes DEF SendToPeer
    <3>2. /\ \A d \in Callers : d # c => offer'[d] = offer[d]
          /\ offer'[c].frame = f /\ offer'[c].peers = offer[c].peers \ {p}
          /\ offer'[c].then = offer[c].then /\ work' = work
      BY <2>2 DEF SendToPeer, TypeOK, Agents
    <3> HIDE DEF f
    <3>3. Calling' = Calling
      BY <3>2 DEF Calling
    <3>4. <<f, p>> \in Owed
      BY <3>1, OwedAre DEF f
    <3>5. Owed' = Owed \ {<<f, p>>}
      <4>1. ASSUME NEW d \in Callers, d # c, NEW q \in offer[d].peers
            PROVE  <<offer[d].frame, q>> # <<f, p>>
        BY <3>1, <4>1
      <4>2. {<<offer'[c].frame, q>> : q \in offer'[c].peers}
              = {<<offer[c].frame, q>> : q \in offer[c].peers} \ {<<f, p>>}
        BY <3>2 DEF f
      <4> QED BY <3>1, <3>2, <4>1, <4>2 DEF Owed
    <3> QED BY <3>1, <3>2, <3>3, <3>4, <3>5
  <2> QED BY <2>1, <2>2
<1>2. UNCHANGED <<runState, peerState, handlerState, queues, log, received, sent, call>>
  BY DEF SendBroadcast, SendToPeer
<1>3. Gotten' = Gotten \/ Gotten' = [Gotten EXCEPT ![p] = Append(@, f)]
  <2>1. CASE inbox' = inbox
    BY <1>2, <2>1 DEF Gotten
  <2>2. CASE inbox' = [inbox EXCEPT ![p] = Append(@, f)]
    <3>1. received[p] \o Append(inbox[p], f) = Append(received[p] \o inbox[p], f)
      BY GottenGrows DEF TypeOK
    <3>2. \A q \in Peers : inbox'[q] = IF q = p THEN Append(inbox[p], f) ELSE inbox[q]
      BY <2>2 DEF TypeOK
    <3> QED BY <1>2, <3>1, <3>2 DEF Gotten
  <2> QED BY <1>1, <2>1, <2>2 DEF Send
<1>4. TakenIn' = TakenIn
  BY <1>2 DEF TakenIn, Taken, Waiting
<1>5. Service!SendTo(f, p)
  BY <1>1, <1>2, <1>3, <1>4 DEF Service!SendTo, Service!hub, Service!turn, runState, peerState
<1> QED BY <1>5 DEF Service!Next

\* The return of a call takes its frame in.
LEMMA AcceptServed ==
  ASSUME ServiceInv, NEW c \in Callers, Enqueue(c) \/ Spawn(c)
  PROVE  Service!Next
<1> USE DEF ServiceInv, delivered, handlerState
<1>1. PICK i \in offer[c].then : TRUE
  BY DEF Enqueue, Spawn
<1>2. /\ offer[c] # Idle /\ offer[c].then = {i} /\ i.frame = offer[c].frame /\ i \in Items
  BY OfferedItem DEF DeliveryInv
<1>3. i.frame \in 1 .. sent /\ \A j \in Waiting : j.frame # i.frame
  BY <1>2, OfferFacts DEF DeliveryInv
<1>4. /\ offer' = [offer EXCEPT ![c] = Idle] /\ offer[c].peers = {}
      /\ UNCHANGED <<runState, peerState, handlerState, delivered, work, sent>>
  BY DEF Enqueue, Spawn
<1>5. PICK fate \in {"queued", "spawned"} : Settle(i.frame, fate) /\ Waiting' = Waiting \cup {i}
  BY <1>2, <1>3, EnqueuePlace, SpawnPlace DEF DeliveryInv
<1> DEFINE w == [caller |-> c, message |-> i, prompt |-> fate = "queued"]
<1>6. TakenIn' = TakenIn \cup {w}
  <2>1. \A f \in 1 .. sent : /\ call'[f].caller = call[f].caller
                             /\ call'[f].fate = IF f = i.frame THEN fate ELSE call[f].fate
    BY <1>2, <1>5, SettleType DEF Fates
  <2>2. \A j \in Waiting : Taken(j)' = Taken(j)
    BY <1>3, <2>1, WaitingType DEF Taken
  <2>3. Taken(i)' = w
    <3>1. call[i.frame].caller = c
      BY <1>2 DEF DeliveryInv, OfferInv, OfferOK
    <3> QED BY <1>3, <2>1, <3>1 DEF Taken
  <2> HIDE DEF w
  <2> QED BY <1>5, <2>2, <2>3 DEF TakenIn
<1>7. Calling' = [Calling EXCEPT ![c] = {}] /\ Calling[c] = {i} /\ Owed' = Owed
  <2>1. /\ \A d \in Callers : d # c => offer'[d] = offer[d]
        /\ offer'[c].then = {} /\ offer'[c].peers = {}
    BY <1>4 DEF TypeOK, Idle
  <2>2. Calling' = [Calling EXCEPT ![c] = {}] /\ Calling[c] = {i}
    BY <1>2, <2>1 DEF Calling
  <2>3. Owed' = Owed
    BY <1>4, <2>1 DEF Owed
  <2> QED BY <2>2, <2>3
<1>8. ~Service!Owing(i.frame)
  <2> DEFINE f == i.frame
  <2>1. work.frame # f /\ \A d \in Callers : offer[d].frame = f => offer[d].peers = {}
    <3>1. offer[c].then # {}
      BY <1>2
    <3> QED BY <1>2, <1>4, <3>1, OneOwes
  <2> HIDE DEF f
  <2>2. \A p : <<f, p>> \notin Owed
    BY <2>1, OwedAre
  <2> QED BY <2>2 DEF Service!Owing, f
<1>9. Gotten' = Gotten
  BY <1>4 DEF Gotten
<1>10. Service!Accept(c)
  BY <1>4, <1>6, <1>7, <1>8, <1>9
     DEF Service!Accept, Service!hub, Service!turn, runState, peerState
<1> QED BY <1>10 DEF Service!Next

\* A goroutine that finds room changes nothing that the service shows.
LEMMA MoveServed ==
  ASSUME ServiceInv, NEW i \in spawned, SpawnedEnqueue(i)
  PROVE  UNCHANGED Service!state
<1> USE DEF ServiceInv
<1>1. Waiting' = Waiting
  BY SpawnedPlace DEF DeliveryInv
<1>2. UNCHANGED <<runState, peerState, handlerState, delivered, work, offer, sent, call>>
  BY DEF SpawnedEnqueue
<1>3. TakenIn' = TakenIn /\ Calling' = Calling /\ Owed' = Owed /\ Gotten' = Gotten
  BY <1>1, <1>2 DEF TakenIn, Taken, Calling, Owed, Gotten, delivered
<1> QED
  BY <1>2, <1>3 DEF Service!state, Service!frames, Service!hub, Service!turn, runState, peerState, handlerState,
                    delivered

\* One that gives up had put its frame off, and the hub has been stopped.
LEMMA GiveUpServed ==
  ASSUME ServiceInv, NEW i \in spawned, SpawnedExit(i)
  PROVE  Service!Next
<1> USE DEF ServiceInv
<1>1. /\ Waiting' = Waiting \ {i} /\ i \in Waiting /\ i \in Items /\ Settle(i.frame, "dropped")
      /\ done /\ call[i.frame].fate = "spawned"
      /\ UNCHANGED <<runState, peerState, handlerState, delivered, work, offer, sent>>
  BY ExitPlace, WaitingType DEF DeliveryInv, WaitInv, Waiting, SpawnedExit
<1>2. \A j \in Waiting' : Taken(j)' = Taken(j)
  <2>1. \A j \in Waiting' : j.frame # i.frame /\ j.frame \in 1 .. sent
    BY <1>1, WaitingType DEF DeliveryInv, PlaceInv
  <2>2. \A f \in 1 .. sent : /\ call'[f].caller = call[f].caller
                             /\ f # i.frame => call'[f].fate = call[f].fate
    BY <1>1, SettleType DEF Fates
  <2> QED BY <2>1, <2>2 DEF Taken
<1>3. TakenIn' = TakenIn \ {Taken(i)} /\ Taken(i) \in TakenIn
  <2>1. \A j \in Waiting : j # i => Taken(j) # Taken(i)
    BY DEF Taken
  <2> QED BY <1>1, <1>2, <2>1 DEF TakenIn
<1>4. Calling' = Calling /\ Owed' = Owed /\ Gotten' = Gotten
  BY <1>1 DEF Calling, Owed, Gotten, delivered
<1>5. ~Taken(i).prompt
  BY <1>1 DEF Taken
<1> HIDE DEF ServiceInv
<1>6. Service!GiveUp(Taken(i))
  BY <1>1, <1>3, <1>4, <1>5
     DEF Service!GiveUp, Service!hub, Service!turn, runState, peerState, handlerState, delivered
<1> QED BY <1>3, <1>6 DEF Service!Next

\* What is first in its queue is in turn: frames of its sender that were sent
\* before it and found room are not behind it, and goroutines have the others.
LEMMA HeadInTurn ==
  ASSUME ServiceInv, NEW i \in Waiting, i \notin spawned,
         i.kind = "publish" => publishQueue # << >> /\ i = Head(publishQueue),
         i.kind = "broadcast" => broadcastQueue # << >> /\ i = Head(broadcastQueue)
  PROVE  Service!InTurn(Taken(i))
<1> USE DEF ServiceInv
<1>1. /\ i \in Items /\ i.kind \in {"publish", "broadcast"} /\ i.frame \in 1 .. sent
      /\ Describes(i)
  BY WaitingType, ItemType DEF DeliveryInv, WaitInv
<1>2. SUFFICES ASSUME NEW j \in Waiting, call[j.frame].fate = "queued",
                      call[i.frame].fate = "queued",
                      call[j.frame].caller = call[i.frame].caller, j.kind = i.kind
               PROVE  i.frame <= j.frame
  <2>1. \A j : /\ Taken(j).caller = call[j.frame].caller /\ Taken(j).message = j
               /\ Taken(j).prompt <=> call[j.frame].fate = "queued"
    BY DEF Taken
  <2> HIDE DEF ServiceInv
  <2> QED BY <2>1 DEF Service!InTurn, TakenIn
<1>3. j \notin spawned /\ Describes(j) /\ j.frame \in 1 .. sent
  BY <1>2, WaitingType DEF DeliveryInv, WaitInv
<1>4. call[j.frame].kind = call[i.frame].kind
  BY <1>1, <1>2, <1>3 DEF Describes
<1>5. ASSUME NEW q \in Seq(Items), q # << >>, i = Head(q), j \in Elements(q), Ordered(call, q)
      PROVE  i.frame <= j.frame
  <2>1. /\ Len(q) \in Nat \ {0} /\ DOMAIN q = 1 .. Len(q) /\ i = q[1]
    BY <1>5, LenProperties, EmptySeq
  <2>2. PICK k \in DOMAIN q : j = q[k]
    BY <1>5 DEF Elements
  <2>3. CASE k = 1
    BY <1>1, <2>1, <2>2, <2>3, NumbersType
  <2>4. CASE k # 1
    <3>1. 1 \in DOMAIN q /\ 1 < k
      BY <2>1, <2>2, <2>4
    <3>2. InOrder(call, i.frame, j.frame)
      BY <1>5, <2>1, <2>2, <3>1 DEF Ordered
    <3> QED BY <1>1, <1>2, <1>3, <1>4, <3>2, NumbersType DEF InOrder
  <2> QED BY <2>3, <2>4
<1>6. CASE i.kind = "publish"
  <2>1. j \in Elements(publishQueue)
    BY <1>2, <1>3, <1>6 DEF Waiting, DeliveryInv, PlaceInv
  <2> QED BY <1>5, <1>6, <2>1, WaitingType DEF OrderInv, OrderBy
<1>7. CASE i.kind = "broadcast"
  <2>1. j \in Elements(broadcastQueue)
    BY <1>2, <1>3, <1>7 DEF Waiting, DeliveryInv, PlaceInv
  <2> QED BY <1>5, <1>7, <2>1, WaitingType DEF OrderInv, OrderBy
<1> QED BY <1>1, <1>6, <1>7

\* The loop takes a frame: its turn begins, with the handlers subscribed now.
LEMMA TakeServed ==
  ASSUME ServiceInv, ServePublish \/ ServeBroadcast
  PROVE  Service!Next
<1> USE DEF ServiceInv
<1>1. PICK i \in Waiting :
        /\ i \notin spawned /\ Waiting' = Waiting \ {i}
        /\ work'.frame = i.frame /\ work'.groups = Groups(i)
        /\ i.kind = "publish" => work'.peers = {} /\ i = Head(publishQueue)
        /\ i.kind = "broadcast" => i = Head(broadcastQueue)
  BY ServePlace DEF DeliveryInv
<1>2. i \in Items /\ i.kind \in {"publish", "broadcast"}
  BY WaitingType, ItemType
<1>3. /\ running /\ Spent(work)
      /\ UNCHANGED <<runState, peerState, handlerState, delivered, offer, sent, call>>
  BY DEF ServePublish, ServeBroadcast, Selecting
<1>4. /\ i.kind = "publish" => publishQueue # << >>
      /\ i.kind = "broadcast" => broadcastQueue # << >> /\ work'.peers = members
  <2>1. CASE ServePublish
    <3>1. Head(publishQueue) \in Elements(publishQueue)
      BY <2>1, TailFacts, WaitingType DEF ServePublish
    <3>2. Head(publishQueue).kind = "publish" /\ Head(publishQueue) \in Waiting
      BY <3>1 DEF DeliveryInv, PlaceInv, Waiting
    <3>3. Head(publishQueue).frame = i.frame
      BY <1>1, <2>1 DEF ServePublish, Idle
    <3>4. i = Head(publishQueue)
      BY <3>2, <3>3 DEF DeliveryInv, PlaceInv
    <3> QED BY <2>1, <3>2, <3>4 DEF ServePublish
  <2>2. CASE ServeBroadcast
    <3>1. Head(broadcastQueue) \in Elements(broadcastQueue)
      BY <2>2, TailFacts, WaitingType DEF ServeBroadcast
    <3>2. Head(broadcastQueue).kind = "broadcast" /\ Head(broadcastQueue) \in Waiting
      BY <3>1 DEF DeliveryInv, PlaceInv, Waiting
    <3>3. Head(broadcastQueue).frame = i.frame /\ work'.peers = members
      BY <1>1, <2>2 DEF ServeBroadcast, Idle
    <3>4. i = Head(broadcastQueue)
      BY <3>2, <3>3 DEF DeliveryInv, PlaceInv
    <3> QED BY <2>2, <3>2, <3>3, <3>4 DEF ServeBroadcast
  <2> QED BY <2>1, <2>2
<1> DEFINE w == Taken(i)
<1>5. w \in TakenIn /\ w.message = i /\ Service!InTurn(w)
  BY <1>1, <1>4, HeadInTurn DEF TakenIn, Taken
<1>6. TakenIn' = TakenIn \ {w}
  <2>1. \A j \in Waiting : (Taken(j) = Taken(i) => j = i) /\ Taken(j)' = Taken(j)
    BY <1>3 DEF Taken
  <2> QED BY <1>1, <2>1 DEF TakenIn
<1>7. Members(work.groups)' = Service!Listeners(i)
  BY <1>1, <1>2, GroupsAreListeners DEF Members
<1>8. Owed' = Owed \cup IF i.kind = "broadcast" THEN Service!To(i.frame, members) ELSE {}
  <2>1. work.peers = {} /\ work'.peers = IF i.kind = "broadcast" THEN members ELSE {}
    BY <1>1, <1>2, <1>3, <1>4 DEF Spent
  <2> QED BY <1>1, <1>3, <2>1 DEF Owed, Service!To
<1>9. Calling' = Calling /\ Gotten' = Gotten
  BY <1>3 DEF Calling, Gotten, delivered
<1>10. Service!Free
  BY <1>3, FreeLoop
<1> HIDE DEF w, ServiceInv
<1>11. Service!Take(w)
  BY <1>1, <1>3, <1>5, <1>6, <1>7, <1>8, <1>9, <1>10
     DEF Service!Take, Service!hub, runState, peerState, handlerState, delivered
<1> QED BY <1>5, <1>11 DEF Service!Next

\* A handler is called in its turn, when the peers have been served.
LEMMA CallServed ==
  ASSUME ServiceInv, NEW h \in Handlers, Invoke(h)
  PROVE  Service!Next
<1> USE DEF ServiceInv
<1>1. /\ h \in Members(work.groups) /\ work.frame \in 1 .. sent
      /\ work'.frame = work.frame /\ work'.peers = work.peers
      /\ Members(work'.groups) = Members(work.groups) \ {h}
  BY InvokeFacts DEF DeliveryInv
<1>2. /\ work.peers = {} /\ log' = [log EXCEPT ![h] = Append(@, work.frame)]
      /\ UNCHANGED <<runState, peerState, handlerState, queues, inbox, received, offer, sent, call>>
  BY DEF Invoke
<1>3. TakenIn' = TakenIn /\ Calling' = Calling /\ Owed' = Owed /\ Gotten' = Gotten
  BY <1>1, <1>2 DEF TakenIn, Taken, Waiting, Calling, Owed, Gotten, queues
<1>4. ~Service!Owing(work.frame)
  <2>1. \A c \in Callers : offer[c].frame = work.frame => offer[c].peers = {}
    BY OneOwes
  <2> QED BY <1>2, <2>1, OwedAre DEF Service!Owing
<1> HIDE DEF ServiceInv
<1>5. Service!Call(h)
  BY <1>1, <1>2, <1>3, <1>4
     DEF Service!Call, Service!hub, Members, runState, peerState, handlerState
<1> QED BY <1>5 DEF Service!Next

\* A write pump takes what the peer had got already.
LEMMA PumpServed ==
  ASSUME ServiceInv, NEW p \in Peers, WritePump(p)
  PROVE  UNCHANGED Service!state
<1> USE DEF ServiceInv
<1>1. UNCHANGED <<runState, peerState, handlerState, queues, log, work, offer, sent, call>>
  BY DEF WritePump
<1>2. Gotten' = Gotten
  <2>1. /\ inbox[p] # << >> /\ inbox[p] \in Seq(1 .. sent) /\ received[p] \in Seq(1 .. sent)
        /\ inbox'[p] = Tail(inbox[p]) /\ received'[p] = Append(received[p], Head(inbox[p]))
        /\ \A q \in Peers : q # p => inbox'[q] = inbox[q] /\ received'[q] = received[q]
    BY DEF WritePump, TypeOK
  <2>2. received'[p] \o inbox'[p] = received[p] \o inbox[p]
    BY <2>1, GottenMoves
  <2> QED BY <2>1, <2>2 DEF Gotten
<1>3. TakenIn' = TakenIn /\ Calling' = Calling /\ Owed' = Owed
  BY <1>1 DEF TakenIn, Taken, Waiting, Calling, Owed, queues
<1> HIDE DEF ServiceInv
<1> QED
  BY <1>1, <1>2, <1>3 DEF Service!state, Service!frames, Service!hub, Service!turn, runState, peerState, handlerState

\* Handlers and peers that come and go, and the runs of the loop.
LEMMA HubServed ==
  ASSUME ServiceInv,
         \/ \E h \in Handlers : Subscribe(h) \/ Unsubscribe(h)
         \/ \E p \in Peers : Leave(p) \/ ClosePeer(p)
         \/ Run \/ Cancel \/ Stop \/ FinishRun \/ UNCHANGED vars
  PROVE  Service!Next \/ UNCHANGED Service!state
<1> USE DEF ServiceInv
<1>1. UNCHANGED <<queues, delivered, work, offer, sent, call>>
  BY DEF Subscribe, Unsubscribe, Leave, ClosePeer, Run, Cancel, Stop, FinishRun, vars
<1>2. /\ Calling' = Calling /\ TakenIn' = TakenIn /\ Owed' = Owed /\ Gotten' = Gotten
      /\ Members(work.groups)' = Members(work.groups)
      /\ work.frame' = work.frame /\ log' = log /\ sent' = sent
  BY <1>1, NothingMoves DEF delivered
<1> USE DEF runState, peerState, handlerState, Service!hub, Service!turn, Service!frames
<1>3. ASSUME NEW h \in Handlers, Subscribe(h) PROVE Service!Subscribe(h)
  BY <1>2, <1>3 DEF Subscribe, Service!Subscribe
<1>4. ASSUME NEW h \in Handlers, Unsubscribe(h) PROVE Service!Unsubscribe(h)
  BY <1>2, <1>4 DEF Unsubscribe, Service!Unsubscribe
<1>5. ASSUME NEW p \in Peers, Leave(p) PROVE Service!Leave(p)
  BY <1>2, <1>5 DEF Leave, Service!Leave
<1>6. ASSUME Run PROVE Service!Open
  BY <1>2, <1>6 DEF Run, Service!Open
<1>7. ASSUME Stop PROVE Service!Halt
  BY <1>2, <1>7, FreeLoop DEF Stop, Selecting, Service!Halt
<1>8. ASSUME FinishRun PROVE Service!Finish
  BY <1>2, <1>8 DEF FinishRun, Service!Finish
<1>9. ASSUME (\E p \in Peers : ClosePeer(p)) \/ Cancel \/ UNCHANGED vars
      PROVE  UNCHANGED Service!state
  BY <1>2, <1>9 DEF ClosePeer, Cancel, vars, Service!state
<1> QED BY <1>3, <1>4, <1>5, <1>6, <1>7, <1>8, <1>9 DEF Service!Next

LEMMA ServiceInit == Init => Service!Init
<1> SUFFICES ASSUME Init PROVE Service!Init
  OBVIOUS
<1> USE DEF Init
<1>1. Waiting = {} /\ Members(work.groups) = {}
  BY EmptyElements DEF Waiting, Members, Idle
<1>2. TakenIn = {} /\ Owed = {} /\ Calling = [c \in Callers |-> {}] /\ work.frame = 0
  BY <1>1 DEF TakenIn, Owed, Calling, Idle
<1>3. Gotten = [p \in Peers |-> << >>]
  <2>1. << >> \o << >> = << >>
    BY ConcatEmptySeq, EmptySeq
  <2> QED BY <2>1 DEF Gotten
<1>4. members \subseteq Peers
  BY HubDeliveryAssumption DEF BoundsType
<1> QED BY <1>1, <1>2, <1>3, <1>4 DEF Service!Init

LEMMA ServiceStep ==
  ServiceInv /\ [Next]_vars => [Service!Next]_(Service!state)
<1> SUFFICES ASSUME ServiceInv, [Next]_vars PROVE Service!Next \/ UNCHANGED Service!state
  OBVIOUS
<1>1. bounds.notify \subseteq BOOLEAN
  BY NumbersType DEF ServiceInv, BoundsType
<1> QED
  BY <1>1, OfferServed, SendServed, AcceptServed, MoveServed, GiveUpServed, TakeServed,
     CallServed, PumpServed, HubServed DEF Next, CallerStep, Working

\* The hub with its two queues, its goroutines, its copies of the handler maps
\* and its restarts implements the service of DeliveryService, for any number of
\* callers, handlers and peers: every step is one of the service's or changes
\* nothing that it shows (hub.go:94-141, 164-249,
\* 326-371, 607-650, 702-906).
THEOREM ServiceImplemented == Spec => ImplementsService
<1>1. Init => OrderInv
  BY EmptyElements DEF Init, OrderInv, OrderBy, Ordered, ComingOrder, CurrentOrder, LogOrder
<1>2. Init => ServiceInv
  BY <1>1, TypeInit, DeliveryInit DEF ServiceInv
<1>3. ServiceInv /\ [Next]_vars => ServiceInv'
  BY TypeStep, DeliveryStep, OrderStep DEF ServiceInv
<1>4. QED
  BY <1>2, <1>3, ServiceInit, ServiceStep, PTL DEF Spec, ImplementsService, Service!Spec

=============================================================================
