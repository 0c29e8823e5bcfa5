------------------------- MODULE RedisBridgeProofs -------------------------
(* Theorems about RedisBridge, for any number of bridges, of calls of Start *)
(* and Stop and of frames: that a bridge runs for one call of Start at a    *)
(* time, that the types are kept, that a Start leaves nothing behind, and   *)
(* that no hub gets a frame twice.                                          *)
EXTENDS RedisBridge, TLAPS, FiniteSetTheorems, SequenceTheorems

\* The types of what Start and Stop decide by.
ControlOK ==
  /\ running \in [Bridges -> BOOLEAN]
  /\ held \in [Bridges -> Starts \cup {None}]
  /\ pc \in [Starts -> Places]

\* A call that is active has its bridge running, alone; a running bridge has
\* one; and what it holds is the active one's.
Exclusive ==
  /\ \A s \in Starts : Active(s) => running[Owner[s]]
  /\ \A s, t \in Starts : Active(s) /\ Active(t) /\ Owner[s] = Owner[t] => s = t
  /\ \A b \in Bridges : running[b] => \E s \in Starts : Owner[s] = b /\ Active(s)
  /\ \A b \in Bridges : held[b] # None => Owner[held[b]] = b /\ Active(held[b])

IInv == ControlOK /\ Exclusive

LEMMA InitControl == Init => IInv
BY RedisBridgeAssumption
DEF Init, IInv, ControlOK, Exclusive, Active, Places

-----------------------------------------------------------------------------

\* A call that goes from one place to another, active in both or in neither,
\* with what the bridge holds left alone.
LEMMA Moving ==
  ASSUME IInv, NEW s \in Starts, NEW l \in Places, Goto(s, l), UNCHANGED bridge,
         (l \in {"idle", "returned", "untap", "close", "closeClient"}) <=> ~Active(s)
  PROVE  IInv'
<1>1. pc' \in [Starts -> Places] /\ pc'[s] = l /\ \A t \in Starts \ {s} : pc'[t] = pc[t]
  BY DEF IInv, ControlOK, Goto
<1>2. \A t \in Starts : Active(t)' <=> Active(t)
  BY <1>1 DEF Active
<1>3. running' = running /\ held' = held
  BY DEF bridge
<1>4. ControlOK'
  BY <1>1, <1>3 DEF IInv, ControlOK
<1>5. \A b \in Bridges : held[b] # None => held[b] \in Starts
  BY DEF IInv, ControlOK
<1> QED  BY <1>2, <1>3, <1>4, <1>5 DEF IInv, Exclusive

\* A call that finds its bridge running returns; otherwise it is the first.
LEMMA StartKeeps ==
  ASSUME IInv, NEW s \in Starts, Start(s)
  PROVE  IInv'
<1> DEFINE b == Owner[s]
<1>1. b \in Bridges /\ held' = held /\ pc[s] = "idle"
  BY RedisBridgeAssumption DEF Start
<1>2. CASE running[b]
  <2>1. Goto(s, "returned") /\ UNCHANGED bridge
    BY <1>1, <1>2 DEF Start, bridge
  <2> QED  BY <1>1, <2>1, Moving DEF Active, Places
<1>3. CASE ~running[b]
  <2>1. /\ pc' = [pc EXCEPT ![s] = "open"]
        /\ running' = [running EXCEPT ![b] = TRUE]
    BY <1>3 DEF Start, Goto
  <2>2. ControlOK'
    BY <1>1, <2>1 DEF IInv, ControlOK, Places
  <2>3. Active(s)' /\ \A t \in Starts \ {s} : Active(t)' <=> Active(t)
    BY <2>1 DEF IInv, ControlOK, Active
  <2>4. /\ running'[b]
        /\ \A c \in Bridges \ {b} : running'[c] = running[c]
    BY <1>1, <2>1 DEF IInv, ControlOK
  <2>5. \A t \in Starts : Owner[t] = b => ~Active(t)
    BY <1>3 DEF IInv, Exclusive
  <2>6. held[b] = None
    BY <1>1, <1>3, <2>5 DEF IInv, ControlOK, Exclusive
  <2>7. \A c \in Bridges : held[c] # None => held[c] \in Starts \ {s}
    BY <1>1 DEF IInv, ControlOK, Exclusive, Active
  <2>8. \A t \in Starts : Owner[t] \in Bridges
    BY RedisBridgeAssumption
  <2>9. Exclusive'
    <3>1. \A t \in Starts : Active(t)' => running'[Owner[t]]
      BY <2>3, <2>4, <2>8 DEF IInv, Exclusive
    <3>2. \A t, u \in Starts : Active(t)' /\ Active(u)' /\ Owner[t] = Owner[u] => t = u
      BY <2>3, <2>5 DEF IInv, Exclusive
    <3>3. \A c \in Bridges : running'[c] => \E t \in Starts : Owner[t] = c /\ Active(t)'
      BY <2>3, <2>4 DEF IInv, Exclusive
    <3>4. \A c \in Bridges : held'[c] # None => Owner[held'[c]] = c /\ Active(held[c])'
      BY <1>1, <2>3, <2>7 DEF IInv, Exclusive
    <3> QED  BY <3>1, <3>2, <3>3, <3>4 DEF Exclusive
  <2> QED  BY <2>2, <2>9 DEF IInv
<1> QED  BY <1>2, <1>3

\* The bridge gets the fields of the call that runs.
LEMMA StoreKeeps ==
  ASSUME IInv, NEW s \in Starts, Store(s)
  PROVE  IInv'
<1>1. /\ Owner[s] \in Bridges /\ running' = running /\ pc[s] = "store"
      /\ pc' = [pc EXCEPT ![s] = "receive"]
      /\ held' = [held EXCEPT ![Owner[s]] = s]
  BY RedisBridgeAssumption DEF Store, Goto
<1>2. ControlOK'
  BY <1>1 DEF IInv, ControlOK, Places
<1>3. Active(s)' /\ \A t \in Starts : Active(t)' <=> Active(t)
  BY <1>1 DEF IInv, ControlOK, Active
<1>4. \A b \in Bridges : held'[b] = IF b = Owner[s] THEN s ELSE held[b]
  BY <1>1 DEF IInv, ControlOK
<1>5. \A b \in Bridges : held[b] # None => held[b] \in Starts
  BY DEF IInv, ControlOK
<1> QED  BY <1>1, <1>2, <1>3, <1>4, <1>5 DEF IInv, Exclusive

\* The deferred function's section is the end of the active call, and of what
\* the bridge holds of it.
LEMMA CleanupKeeps ==
  ASSUME IInv, NEW s \in Starts, Cleanup(s)
  PROVE  IInv'
<1> DEFINE b == Owner[s]
<1>1. /\ b \in Bridges /\ pc[s] = "cleanup"
      /\ pc' = [pc EXCEPT ![s] = "untap"]
      /\ running' = [running EXCEPT ![b] = FALSE]
      /\ held' = [held EXCEPT ![b] = None]
  BY RedisBridgeAssumption DEF Cleanup, Goto
<1>2. ControlOK'
  BY <1>1 DEF IInv, ControlOK, Places
<1>3. Active(s) /\ ~Active(s)' /\ \A t \in Starts \ {s} : Active(t)' <=> Active(t)
  BY <1>1 DEF IInv, ControlOK, Active
<1>4. /\ ~running'[b] /\ held'[b] = None
      /\ \A c \in Bridges \ {b} : running'[c] = running[c] /\ held'[c] = held[c]
  BY <1>1 DEF IInv, ControlOK
<1>5. \A t \in Starts \ {s} : Active(t) => Owner[t] # b
  BY <1>3 DEF IInv, Exclusive
<1>6. \A c \in Bridges \ {b} : held[c] # None => held[c] \in Starts \ {s}
  BY DEF IInv, ControlOK, Exclusive
<1>7. \A t \in Starts : Owner[t] \in Bridges
  BY RedisBridgeAssumption
<1>8. Exclusive'
  <2>1. \A t \in Starts : Active(t)' => running'[Owner[t]]
    BY <1>3, <1>4, <1>5, <1>7 DEF IInv, Exclusive
  <2>2. \A t, u \in Starts : Active(t)' /\ Active(u)' /\ Owner[t] = Owner[u] => t = u
    BY <1>3 DEF IInv, Exclusive
  <2>3. \A c \in Bridges : running'[c] => \E t \in Starts : Owner[t] = c /\ Active(t)'
    BY <1>3, <1>4 DEF IInv, Exclusive
  <2>4. \A c \in Bridges : held'[c] # None => Owner[held'[c]] = c /\ Active(held[c])'
    BY <1>3, <1>4, <1>6 DEF IInv, Exclusive
  <2> QED  BY <2>1, <2>2, <2>3, <2>4 DEF Exclusive
<1> QED  BY <1>2, <1>8 DEF IInv

-----------------------------------------------------------------------------

LEMMA NextControl == IInv /\ [Next]_vars => IInv'
<1> SUFFICES ASSUME IInv, [Next]_vars PROVE IInv'
  OBVIOUS
<1>1. ASSUME NEW s \in Starts, Start(s) PROVE IInv'
  BY <1>1, StartKeeps
<1>2. ASSUME NEW s \in Starts, Store(s) PROVE IInv'
  BY <1>2, StoreKeeps
<1>3. ASSUME NEW s \in Starts, Cleanup(s) PROVE IInv'
  BY <1>3, CleanupKeeps
<1>4. ASSUME NEW s \in Starts, Open(s) PROVE IInv'
  BY <1>4, Moving DEF Open, Active, Places
<1>5. ASSUME NEW s \in Starts, TapPublished(s) \/ TapBroadcast(s) PROVE IInv'
  BY <1>5, Moving DEF TapPublished, TapBroadcast, Tap, Active, Places
<1>6. CASE UNCHANGED <<bridge, pc>>
  BY <1>6 DEF IInv, ControlOK, Exclusive, Active, bridge
<1>7. ASSUME NEW s \in Starts, Receive(s) PROVE IInv'
  BY <1>6, <1>7, Moving DEF Receive, Active, Places
<1>8. ASSUME NEW s \in Starts, ReceiveFail(s) PROVE IInv'
  BY <1>8, Moving DEF ReceiveFail, Active, Places
<1>9. ASSUME NEW s \in Starts, Untap(s) PROVE IInv'
  BY <1>6, <1>9, Moving DEF Untap, Active, Places
<1>10. ASSUME NEW s \in Starts, Close(s) PROVE IInv'
  BY <1>10, Moving DEF Close, Active, Places
<1>11. ASSUME NEW s \in Starts, CloseClient(s) PROVE IInv'
  BY <1>11, Moving DEF CloseClient, Active, Places
<1>12. ASSUME NEW s \in Starts, Cancel(s) \/ Listen(s) \/ Forward(s) PROVE IInv'
  BY <1>6, <1>12 DEF Cancel, Listen, Forward, starts
<1>13. ASSUME NEW b \in Bridges, Stop(b) \/ StopStep(b) \/ Serve(b) \/ HubStops(b) PROVE IInv'
  BY <1>6, <1>13 DEF Stop, StopStep, StopCancel, StopUntap, StopClose, StopCloseClient, Serve,
     HubStops, starts
<1>14. ASSUME NEW b \in Bridges, NEW k \in SentKinds, HubSend(b, k) \/ BridgeSend(b, k)
       PROVE  IInv'
  BY <1>6, <1>14 DEF HubSend, BridgeSend, starts
<1>15. CASE UNCHANGED vars
  BY <1>6, <1>15 DEF vars, starts
<1> QED
  BY <1>1, <1>2, <1>3, <1>4, <1>5, <1>7, <1>8, <1>9, <1>10, <1>11, <1>12, <1>13, <1>14, <1>15
  DEF Next, StartStep

\* One active call is one element.
LEMMA ExclusiveIsOne == IInv => OneStart
<1> SUFFICES ASSUME IInv, NEW b \in Bridges
             PROVE  LET active == {s \in Starts : Owner[s] = b /\ Active(s)}
                    IN  /\ Cardinality(active) = IF running[b] THEN 1 ELSE 0
                        /\ held[b] \in active \cup {None}
  BY DEF OneStart
<1> DEFINE active == {s \in Starts : Owner[s] = b /\ Active(s)}
<1>1. held[b] \in active \cup {None}
  BY DEF IInv, ControlOK, Exclusive
<1>2. CASE running[b]
  <2>1. PICK s \in Starts : Owner[s] = b /\ Active(s)
    BY <1>2 DEF IInv, Exclusive
  <2>2. active = {s}
    BY <2>1 DEF IInv, Exclusive
  <2>3. Cardinality(active) = 1
    BY <2>2, FS_Singleton
  <2> QED  BY <1>1, <1>2, <2>3
<1>3. CASE ~running[b]
  <2>1. active = {}
    BY <1>3 DEF IInv, Exclusive
  <2>2. Cardinality(active) = 0
    BY <2>1, FS_EmptySet
  <2> QED  BY <1>1, <1>3, <2>2
<1> QED  BY <1>2, <1>3

\* However many calls of Start and Stop overlap, a bridge runs for exactly one
\* of them and holds the client, subscription and cancel of no other.
THEOREM BridgeRunsOnce == Spec => []OneStart
BY InitControl, NextControl, ExclusiveIsOne, PTL DEF Spec

-----------------------------------------------------------------------------
(* The type invariant.  A call past Open has a client and a subscription,   *)
(* and only such a call is stored in its bridge.                            *)

Opened ==
  \A s \in Starts : pc[s] \notin {"idle", "open", "returned"} =>
    pubsub[s] # "none" /\ client[s] # "none"

TInv == Exclusive /\ Opened /\ TypeOK

LEMMA TypedIsControlled == TInv => IInv
BY DEF TInv, TypeOK, StartsOK, IInv, ControlOK

LEMMA InitTyped == Init => TInv
<1> SUFFICES ASSUME Init PROVE TInv
  OBVIOUS
<1>1. Exclusive
  BY InitControl DEF IInv
<1>2. Opened /\ StartsOK
  BY RedisBridgeAssumption DEF Init, Opened, StartsOK, Places, Kinds
<1>3. StopsOK
  BY DEF Init, StopsOK
<1>4. TrafficOK
  BY RedisBridgeAssumption DEF Init, TrafficOK, NoWork, Kinds
<1> QED  BY <1>1, <1>2, <1>3, <1>4 DEF TInv, TypeOK

\* A subscription that is closed is out of Redis.
LEMMA Closing ==
  ASSUME StartsOK, NEW s, ClosePubSub(s)
  PROVE  /\ pubsub' \in [Starts -> {"none", "open", "closed"}]
         /\ listening' \subseteq {t \in Starts : pubsub'[t] = "open"}
         /\ \A t \in Starts : pubsub[t] # "none" => pubsub'[t] # "none"
BY DEF StartsOK, ClosePubSub

LEMMA StartsKept ==
  ASSUME TInv, Next
  PROVE  StartsOK' /\ Opened'
<1> USE DEF TInv, TypeOK
<1>1. ASSUME NEW s \in Starts, Start(s) PROVE StartsOK' /\ Opened'
  BY <1>1 DEF Start, Goto, StartsOK, Opened, Places, redis
<1>2. ASSUME NEW s \in Starts, Open(s) PROVE StartsOK' /\ Opened'
  BY <1>2 DEF Open, Goto, StartsOK, Opened, Places, redis, bridge
<1>3. ASSUME NEW s \in Starts, TapPublished(s) \/ TapBroadcast(s) PROVE StartsOK' /\ Opened'
  BY <1>3 DEF TapPublished, TapBroadcast, Tap, Goto, StartsOK, Opened, Places, Kinds, redis, bridge
<1>4. ASSUME NEW s \in Starts, Store(s) PROVE StartsOK' /\ Opened'
  BY <1>4 DEF Store, Goto, StartsOK, Opened, Places, redis
<1>5. ASSUME NEW s \in Starts, Receive(s) \/ ReceiveFail(s) PROVE StartsOK' /\ Opened'
  BY <1>5 DEF Receive, ReceiveFail, Goto, StartsOK, Opened, Places, bridge
<1>6. ASSUME NEW s \in Starts, Cleanup(s) PROVE StartsOK' /\ Opened'
  BY <1>6, RedisBridgeAssumption DEF Cleanup, Goto, StartsOK, Opened, Places, redis
<1>7. ASSUME NEW s \in Starts, Untap(s) PROVE StartsOK' /\ Opened'
  BY <1>7 DEF Untap, Goto, StartsOK, Opened, Places, redis, bridge
<1>8. ASSUME NEW s \in Starts, Close(s) PROVE StartsOK' /\ Opened'
  BY <1>8, Closing DEF Close, Goto, StartsOK, Opened, Places, bridge
<1>9. ASSUME NEW s \in Starts, CloseClient(s) PROVE StartsOK' /\ Opened'
  BY <1>9 DEF CloseClient, Goto, StartsOK, Opened, Places, redis, bridge
<1>10. ASSUME NEW s \in Starts, Cancel(s) \/ Listen(s) PROVE StartsOK' /\ Opened'
  BY <1>10 DEF Cancel, Listen, StartsOK, Opened, redis, bridge, starts
<1>11. ASSUME NEW b \in Bridges, StopStep(b), ~StopClose(b) PROVE StartsOK' /\ Opened'
  <2>1. CASE StopCancel(b)
    BY <2>1 DEF StopCancel, StartsOK, Opened, redis, bridge
  <2>2. CASE StopUntap(b)
    <3>1. taps' \in [Starts -> SUBSET Kinds]
      BY <2>2 DEF StopUntap, StartsOK
    <3> QED  BY <2>2, <3>1 DEF StopUntap, StartsOK, Opened, redis, bridge
  <2>3. CASE StopCloseClient(b)
    BY <2>3 DEF StopCloseClient, StartsOK, Opened, redis, bridge
  <2> QED  BY <1>11, <2>1, <2>2, <2>3 DEF StopStep
<1>12. ASSUME NEW b \in Bridges, StopClose(b) PROVE StartsOK' /\ Opened'
  BY <1>12, Closing DEF StopClose, StartsOK, Opened, bridge
<1>13. CASE UNCHANGED <<bridge, starts, listening>>
  BY <1>13 DEF StartsOK, Opened, bridge, starts
<1>14. ASSUME NEW s \in Starts, Forward(s) PROVE StartsOK' /\ Opened'
  BY <1>13, <1>14 DEF Forward
<1>15. ASSUME NEW b \in Bridges, Stop(b) \/ Serve(b) \/ HubStops(b) PROVE StartsOK' /\ Opened'
  BY <1>13, <1>15 DEF Stop, Serve, HubStops, redis
<1>16. ASSUME NEW b \in Bridges, NEW k \in SentKinds, HubSend(b, k) \/ BridgeSend(b, k)
       PROVE  StartsOK' /\ Opened'
  BY <1>13, <1>16 DEF HubSend, BridgeSend, redis
<1> QED
  BY <1>1, <1>2, <1>3, <1>4, <1>5, <1>6, <1>7, <1>8, <1>9, <1>10, <1>11, <1>12, <1>14, <1>15, <1>16
  DEF Next, StartStep, StopStep

LEMMA StopsKept ==
  ASSUME TInv, Next
  PROVE  StopsOK'
<1> USE DEF TInv, TypeOK
<1>1. ASSUME NEW b \in Bridges, Stop(b) PROVE StopsOK'
  BY <1>1 DEF Stop, StopsOK, StartsOK
<1>2. ASSUME NEW b \in Bridges, StopStep(b) PROVE StopsOK'
  BY <1>2 DEF StopStep, StopCancel, StopUntap, StopClose, StopCloseClient, StopAt, StopsOK
<1>3. CASE UNCHANGED stopping
  BY <1>3 DEF stopping, StopsOK
<1>4. ASSUME NEW s \in Starts, Start(s) \/ StartStep(s) \/ ReceiveFail(s) \/ Cancel(s) \/ Listen(s)
                               \/ Forward(s)
      PROVE  StopsOK'
  BY <1>3, <1>4
  DEF Start, StartStep, Open, TapPublished, TapBroadcast, Tap, Store, Receive, Cleanup, Untap, Close,
      CloseClient, ReceiveFail, Cancel, Listen, Forward
<1>5. ASSUME NEW b \in Bridges, Serve(b) \/ HubStops(b) PROVE StopsOK'
  BY <1>3, <1>5 DEF Serve, HubStops
<1>6. ASSUME NEW b \in Bridges, NEW k \in SentKinds, HubSend(b, k) \/ BridgeSend(b, k)
      PROVE  StopsOK'
  BY <1>3, <1>6 DEF HubSend, BridgeSend
<1> QED  BY <1>1, <1>2, <1>4, <1>5, <1>6 DEF Next

-----------------------------------------------------------------------------
(* The frames.                                                              *)

Messages == [source : Bridges, frame : DOMAIN frames, kind : Kinds]
Deliveries == [frame : DOMAIN frames, kind : Kinds, notify : BOOLEAN]
Sent == [origin : Bridges, kind : Kinds, how : {"hub", "bridge"}]

\* What is typed by the frames sent stays so when one more is sent.
LEMMA Sending ==
  ASSUME TrafficOK, NEW b \in Bridges, NEW k \in SentKinds, NEW how \in {"hub", "bridge"},
         Len(frames) < MaxFrames, Record(b, k, how)
  PROVE  /\ frames' \in Seq(Sent) /\ Len(frames') <= MaxFrames
         /\ Len(frames) + 1 \in DOMAIN frames' /\ DOMAIN frames \subseteq DOMAIN frames'
         /\ k \in Kinds
<1>1. k \in Kinds
  BY RedisBridgeAssumption DEF Kinds
<1>2. [origin |-> b, kind |-> k, how |-> how] \in Sent
  BY <1>1 DEF Sent
<1>3. frames \in Seq(Sent) /\ frames' = Append(frames, [origin |-> b, kind |-> k, how |-> how])
  BY DEF TrafficOK, Record, Sent
<1>4. Len(frames') = Len(frames) + 1 /\ frames' \in Seq(Sent) /\ Len(frames) \in Nat
  BY <1>2, <1>3
<1>5. DOMAIN frames = 1 .. Len(frames) /\ DOMAIN frames' = 1 .. Len(frames')
  BY <1>3, <1>4
<1> QED  BY <1>1, <1>4, <1>5, RedisBridgeAssumption

LEMMA SeqGrows ==
  ASSUME NEW S, NEW T, S \subseteq T, NEW q \in Seq(S)
  PROVE  q \in Seq(T)
<1>1. \A i \in 1 .. Len(q) : q[i] \in T
  OBVIOUS
<1> QED  BY <1>1

\* The messages, deliveries and logs, when frames have been sent or not.
LEMMA Growing ==
  ASSUME TrafficOK, DOMAIN frames \subseteq DOMAIN frames'
  PROVE  /\ inbox \in [Starts -> Seq(Messages')]
         /\ queue \in [Bridges -> Seq(Deliveries')]
         /\ log \in [Bridges -> Seq(DOMAIN frames')]
         /\ work \in [Bridges -> [frame : {0} \cup DOMAIN frames', kind : Kinds, taps : SUBSET Starts]]
         /\ lost \subseteq DOMAIN frames'
<1>1. Messages \subseteq Messages' /\ Deliveries \subseteq Deliveries'
  BY DEF Messages, Deliveries
<1>2. inbox \in [Starts -> Seq(Messages)] /\ queue \in [Bridges -> Seq(Deliveries)]
  BY DEF TrafficOK, Messages, Deliveries
<1>3. inbox \in [Starts -> Seq(Messages')]
  BY <1>1, <1>2, SeqGrows
<1>4. queue \in [Bridges -> Seq(Deliveries')]
  BY <1>1, <1>2, SeqGrows
<1>5. log \in [Bridges -> Seq(DOMAIN frames')]
  BY SeqGrows DEF TrafficOK
<1> QED  BY <1>3, <1>4, <1>5 DEF TrafficOK

\* A publication puts a message of the frame into the inboxes, or loses it.
LEMMA Publishing ==
  ASSUME NEW b \in Bridges, NEW f \in DOMAIN frames', NEW k \in Kinds, NEW up,
         inbox \in [Starts -> Seq(Messages')], lost \subseteq DOMAIN frames',
         RedisPublish(b, f, k, up)
  PROVE  inbox' \in [Starts -> Seq(Messages')] /\ lost' \subseteq DOMAIN frames'
<1>1. Envelope(b, f, k) \in Messages'
  BY DEF Envelope, Messages
<1>2. \A s \in Starts : Append(inbox[s], Envelope(b, f, k)) \in Seq(Messages')
  BY <1>1
<1> QED  BY <1>2 DEF RedisPublish

LEMMA TrafficKept ==
  ASSUME TInv, Next
  PROVE  TrafficOK'
<1> USE DEF TInv, TypeOK
<1>1. CASE UNCHANGED <<inbox, hubs, frames, lost>>
  BY <1>1 DEF TrafficOK, hubs
<1>2. ASSUME NEW s \in Starts, Start(s) \/ Open(s) \/ TapPublished(s) \/ TapBroadcast(s) \/ Store(s)
                               \/ Cleanup(s) \/ Untap(s) \/ CloseClient(s) \/ Cancel(s) \/ Listen(s)
      PROVE  TrafficOK'
  BY <1>1, <1>2 DEF Start, Open, TapPublished, TapBroadcast, Tap, Store, Cleanup, Untap, CloseClient,
                    Cancel, Listen, redis
<1>3. ASSUME NEW b \in Bridges, Stop(b) \/ StopCancel(b) \/ StopUntap(b) \/ StopCloseClient(b)
      PROVE  TrafficOK'
  BY <1>1, <1>3 DEF Stop, StopCancel, StopUntap, StopCloseClient, redis
<1>4. ASSUME NEW s, inbox' = [inbox EXCEPT ![s] = << >>], UNCHANGED <<hubs, frames>>,
             lost' \subseteq DOMAIN frames
      PROVE  TrafficOK'
  <2>1. inbox \in [Starts -> Seq(Messages)]
    BY DEF TrafficOK, Messages
  <2>2. << >> \in Seq(Messages)
    OBVIOUS
  <2>3. inbox' \in [Starts -> Seq(Messages)]
    BY <1>4, <2>1, <2>2
  <2> QED  BY <1>4, <2>3 DEF TrafficOK, hubs, Messages
<1>5. ASSUME NEW s \in Starts, Close(s) PROVE TrafficOK'
  BY <1>4, <1>5 DEF Close, ClosePubSub, TrafficOK
<1>6. ASSUME NEW b \in Bridges, StopClose(b) PROVE TrafficOK'
  BY <1>4, <1>6 DEF StopClose, ClosePubSub, TrafficOK
<1>7. ASSUME NEW s \in Starts, ReceiveFail(s) PROVE TrafficOK'
  <2>1. inbox[s] \in Seq(Messages)
    BY DEF TrafficOK, Messages
  <2>2. \A i \in DOMAIN inbox[s] : inbox[s][i] \in Messages
    BY <2>1
  <2>3. {inbox[s][i].frame : i \in DOMAIN inbox[s]} \subseteq DOMAIN frames
    BY <2>2 DEF Messages
  <2>4. lost \subseteq DOMAIN frames
    BY DEF TrafficOK
  <2>5. lost' \subseteq DOMAIN frames
    BY <1>7, <2>3, <2>4 DEF ReceiveFail
  <2> QED  BY <1>4, <1>7, <2>5 DEF ReceiveFail
<1>8. ASSUME NEW s \in Starts, Receive(s) PROVE TrafficOK'
  <2> DEFINE m == Head(inbox[s])
  <2>1. inbox[s] \in Seq(Messages) /\ inbox[s] # << >>
    BY <1>8 DEF Receive, TrafficOK, Messages
  <2>2. m \in Messages /\ Tail(inbox[s]) \in Seq(Messages)
    BY <2>1
  <2>3. FromBridge(m) \in Deliveries
    BY <2>2 DEF FromBridge, Delivery, Messages, Deliveries
  <2>4. inbox' \in [Starts -> Seq(Messages)]
    BY <1>8, <2>2 DEF Receive, TrafficOK, Messages
  <2>5. queue \in [Bridges -> Seq(Deliveries)] /\ queue[Owner[s]] \in Seq(Deliveries)
    BY RedisBridgeAssumption DEF TrafficOK, Deliveries
  <2>6. Append(queue[Owner[s]], FromBridge(m)) \in Seq(Deliveries)
    BY <2>3, <2>5
  <2>7. queue' \in [Bridges -> Seq(Deliveries)]
    BY <1>8, <2>5, <2>6 DEF Receive
  <2> QED  BY <1>8, <2>4, <2>7 DEF Receive, TrafficOK, Messages, Deliveries
<1>9. ASSUME NEW b \in Bridges, Serve(b) PROVE TrafficOK'
  <2> DEFINE d == Head(queue[b])
  <2>1. queue[b] \in Seq(Deliveries) /\ queue[b] # << >>
    BY <1>9 DEF Serve, TrafficOK, Deliveries
  <2>2. d \in Deliveries /\ Tail(queue[b]) \in Seq(Deliveries)
    BY <2>1
  <2>3. queue' \in [Bridges -> Seq(Deliveries)]
    BY <1>9, <2>2 DEF Serve, TrafficOK, Deliveries
  <2>4. Append(log[b], d.frame) \in Seq(DOMAIN frames)
    BY <2>2 DEF TrafficOK, Deliveries
  <2>5. log' \in [Bridges -> Seq(DOMAIN frames)]
    BY <1>9, <2>4 DEF Serve, TrafficOK
  <2>6. d.frame \in DOMAIN frames /\ d.kind \in Kinds /\ 0 \notin DOMAIN frames
    BY <2>2 DEF TrafficOK, Deliveries
  <2> DEFINE w == [frame |-> d.frame, kind |-> d.kind,
                   taps |-> {s \in Starts : d.notify /\ Owner[s] = b /\ d.kind \in taps[s]}]
  <2>7. work' = [work EXCEPT ![b] = w]
    BY <1>9 DEF Serve
  <2>8. /\ w \in [frame : {0} \cup DOMAIN frames, kind : Kinds, taps : SUBSET Starts]
        /\ w.frame # 0 /\ \A s \in w.taps : Owner[s] = b
    BY <2>6
  <2> HIDE DEF w
  <2>9. /\ work' \in [Bridges -> [frame : {0} \cup DOMAIN frames, kind : Kinds, taps : SUBSET Starts]]
        /\ \A c \in Bridges : \A s \in work'[c].taps : Owner[s] = c /\ work'[c].frame # 0
    BY <2>7, <2>8 DEF TrafficOK
  <2> QED  BY <1>9, <2>3, <2>5, <2>9 DEF Serve, TrafficOK, Deliveries, redis
<1>10. ASSUME NEW b \in Bridges, HubStops(b) PROVE TrafficOK'
  BY <1>10 DEF HubStops, TrafficOK, redis
<1>11. ASSUME NEW s \in Starts, Forward(s) PROVE TrafficOK'
  <2> DEFINE b == Owner[s]
  <2>1. b \in Bridges /\ UNCHANGED <<hubRunning, queue, log, frames>>
    BY <1>11, RedisBridgeAssumption DEF Forward
  <2>2. work[b].frame \in DOMAIN frames' /\ work[b].kind \in Kinds
    BY <1>11, <2>1 DEF Forward, TrafficOK
  <2>3. inbox \in [Starts -> Seq(Messages')] /\ lost \subseteq DOMAIN frames'
    BY <2>1, Growing
  <2>4. RedisPublish(b, work[b].frame, work[b].kind, client[s] = "open")
    BY <1>11 DEF Forward
  <2>5. inbox' \in [Starts -> Seq(Messages')] /\ lost' \subseteq DOMAIN frames'
    BY <2>1, <2>2, <2>3, <2>4, Publishing
  <2>6. work' = [work EXCEPT ![b].taps = @ \ {s}]
    BY <1>11 DEF Forward
  <2>7. /\ work' \in [Bridges -> [frame : {0} \cup DOMAIN frames, kind : Kinds, taps : SUBSET Starts]]
        /\ \A c \in Bridges : \A t \in work'[c].taps : Owner[t] = c /\ work'[c].frame # 0
    <3> DEFINE W == [frame : {0} \cup DOMAIN frames, kind : Kinds, taps : SUBSET Starts]
    <3>1. work \in [Bridges -> W] /\ \A c \in Bridges : \A t \in work[c].taps :
                                       Owner[t] = c /\ work[c].frame # 0
      BY DEF TrafficOK
    <3> DEFINE w == [work[b] EXCEPT !.taps = @ \ {s}]
    <3>2. w \in W /\ w.frame = work[b].frame /\ w.taps \subseteq work[b].taps
      BY <2>1, <3>1
    <3>3. work' = [work EXCEPT ![b] = w]
      BY <2>6
    <3> HIDE DEF w, W
    <3>4. work' \in [Bridges -> W] /\ work'[b] = w /\ \A c \in Bridges \ {b} : work'[c] = work[c]
      BY <2>1, <3>1, <3>2, <3>3
    <3>5. ASSUME NEW c \in Bridges, NEW t \in work'[c].taps PROVE Owner[t] = c /\ work'[c].frame # 0
      BY <3>1, <3>2, <3>4, <3>5
    <3> QED  BY <3>4, <3>5 DEF W
  <2> QED  BY <2>1, <2>5, <2>7 DEF TrafficOK, Messages
<1>12. ASSUME NEW b \in Bridges, NEW k \in SentKinds, NEW how \in {"hub", "bridge"},
              Len(frames) < MaxFrames, Record(b, k, how), UNCHANGED <<hubRunning, work, log>>,
              inbox' \in [Starts -> Seq(Messages')], queue' \in [Bridges -> Seq(Deliveries')],
              lost' \subseteq DOMAIN frames'
       PROVE  TrafficOK'
  <2>1. /\ frames' \in Seq(Sent) /\ Len(frames') <= MaxFrames
        /\ DOMAIN frames \subseteq DOMAIN frames'
    BY <1>12, Sending
  <2>2. /\ log' \in [Bridges -> Seq(DOMAIN frames')]
        /\ work' \in [Bridges -> [frame : {0} \cup DOMAIN frames', kind : Kinds, taps : SUBSET Starts]]
    BY <1>12, <2>1, Growing
  <2>3. \A c \in Bridges : \A s \in work'[c].taps : Owner[s] = c /\ work'[c].frame # 0
    BY <1>12 DEF TrafficOK
  <2>4. hubRunning' \in [Bridges -> BOOLEAN]
    BY <1>12 DEF TrafficOK
  <2> QED  BY <1>12, <2>1, <2>2, <2>3, <2>4 DEF TrafficOK, Messages, Deliveries, Sent
<1>13. ASSUME NEW b \in Bridges, NEW k \in SentKinds, HubSend(b, k) PROVE TrafficOK'
  <2> DEFINE d == Delivery(Len(frames) + 1, k, TRUE)
  <2>1. Len(frames) < MaxFrames /\ Record(b, k, "hub")
    BY <1>13 DEF HubSend
  <2>2. /\ DOMAIN frames \subseteq DOMAIN frames' /\ Len(frames) + 1 \in DOMAIN frames' /\ k \in Kinds
    BY <2>1, Sending
  <2>3. /\ inbox \in [Starts -> Seq(Messages')] /\ queue \in [Bridges -> Seq(Deliveries')]
        /\ lost \subseteq DOMAIN frames'
    BY <2>2, Growing
  <2>4. Append(queue[b], d) \in Seq(Deliveries')
    <3>1. d \in Deliveries'
      BY <2>2 DEF Delivery, Deliveries
    <3>2. queue[b] \in Seq(Deliveries')
      BY <2>3
    <3> HIDE DEF d
    <3> QED  BY <3>1, <3>2
  <2>5. queue' \in [Bridges -> Seq(Deliveries')]
    BY <1>13, <2>3, <2>4 DEF HubSend
  <2> QED  BY <1>12, <1>13, <2>1, <2>3, <2>5 DEF HubSend, redis
<1>14. ASSUME NEW b \in Bridges, NEW k \in SentKinds, BridgeSend(b, k) PROVE TrafficOK'
  <2>1. Len(frames) < MaxFrames /\ Record(b, k, "bridge")
    BY <1>14 DEF BridgeSend
  <2>2. /\ DOMAIN frames \subseteq DOMAIN frames' /\ Len(frames) + 1 \in DOMAIN frames' /\ k \in Kinds
    BY <2>1, Sending
  <2>3. /\ inbox \in [Starts -> Seq(Messages')] /\ queue \in [Bridges -> Seq(Deliveries')]
        /\ lost \subseteq DOMAIN frames'
    BY <2>2, Growing
  <2>4. inbox' \in [Starts -> Seq(Messages')] /\ lost' \subseteq DOMAIN frames'
    BY <1>14, <2>2, <2>3, Publishing DEF BridgeSend
  <2> QED  BY <1>12, <1>14, <2>1, <2>3, <2>4 DEF BridgeSend, hubs
<1> QED
  BY <1>2, <1>3, <1>5, <1>6, <1>7, <1>8, <1>9, <1>10, <1>11, <1>13, <1>14
  DEF Next, StartStep, StopStep

LEMMA NextTyped == TInv /\ [Next]_vars => TInv'
<1> SUFFICES ASSUME TInv, [Next]_vars PROVE TInv'
  OBVIOUS
<1>1. Exclusive'
  BY TypedIsControlled, NextControl DEF IInv
<1>2. CASE Next
  BY <1>1, <1>2, StartsKept, StopsKept, TrafficKept DEF TInv, TypeOK
<1>3. CASE UNCHANGED vars
  BY <1>1, <1>3
  DEF TInv, TypeOK, StartsOK, StopsOK, TrafficOK, Opened, vars, bridge, starts, redis, stopping, hubs
<1> QED  BY <1>2, <1>3

\* Every variable keeps its type: what Redis serves is open, what a bridge holds
\* is not nil, a loop calls the taps of its own bridge, and every frame in an
\* inbox, a queue or a log was sent.
THEOREM TypeCorrect == Spec => []TypeOK
<1>1. TInv => TypeOK
  BY DEF TInv
<1> QED  BY InitTyped, NextTyped, <1>1, PTL DEF Spec

-----------------------------------------------------------------------------
(* What a Start leaves behind.  Its end and a Stop share the work, and       *)
(* whichever closes the subscription first closes the client.                *)

\* The bridge holds the fields of a call from Store to its deferred function,
\* which takes them: the handlers that it unsubscribes are its own.
OwnFields ==
  \A s \in Starts :
    /\ pc[s] \in {"receive", "cleanup"} => held[Owner[s]] = s
    /\ pc[s] \in {"untap", "close", "closeClient"} => took[s] = s
    /\ taps[s] # {} => pc[s] \in {"tapBroadcast", "store", "receive", "cleanup", "untap"}

\* A Stop is at work on a call of its bridge, one that was stored.
OwnTarget ==
  \A b \in Bridges : target[b] # None =>
    Owner[target[b]] = b /\ pc[target[b]] \notin {"idle", "open"}

ClosesClient(s) == target[Owner[s]] = s /\ stopper[Owner[s]] = "closeClient"

\* Once the subscription is closed the client is, or one of the two is about to
\* close it; a call that has returned left that to the Stop.
EndInv ==
  \A s \in Starts :
    /\ pc[s] \in {"idle", "open"} => client[s] = "none" /\ pubsub[s] = "none"
    /\ pubsub[s] = "closed" => client[s] = "closed" \/ ClosesClient(s) \/ pc[s] = "closeClient"
    /\ pc[s] = "closeClient" => pubsub[s] = "closed"
    /\ pc[s] = "returned" => pubsub[s] # "open" /\ (client[s] = "open" => ClosesClient(s))

LeftInv == TInv /\ OwnFields /\ OwnTarget /\ EndInv

LEMMA InitLeft == Init => LeftInv
<1> SUFFICES ASSUME Init PROVE LeftInv
  OBVIOUS
<1>1. TInv
  BY InitTyped
<1>2. OwnFields /\ OwnTarget /\ EndInv
  BY DEF Init, OwnFields, OwnTarget, EndInv
<1> QED  BY <1>1, <1>2 DEF LeftInv

LEMMA FieldsKept ==
  ASSUME LeftInv, Next
  PROVE  OwnFields'
<1> USE DEF LeftInv, TInv, TypeOK, StartsOK, StopsOK
<1>1. ASSUME NEW s \in Starts, Start(s) \/ Open(s) PROVE OwnFields'
  BY <1>1 DEF Start, Open, Goto, OwnFields, bridge
<1>2. ASSUME NEW s \in Starts, TapPublished(s) \/ TapBroadcast(s) PROVE OwnFields'
  BY <1>2 DEF TapPublished, TapBroadcast, Tap, Goto, OwnFields, bridge
<1>3. ASSUME NEW s \in Starts, Store(s) PROVE OwnFields'
  <2>1. \A t \in Starts \ {s} : pc[t] \in {"receive", "cleanup"} => Owner[t] # Owner[s]
    BY <1>3 DEF Store, Exclusive, Active
  <2>2. \A t \in Starts : Owner[t] \in Bridges
    BY RedisBridgeAssumption
  <2> QED  BY <1>3, <2>1, <2>2 DEF Store, Goto, OwnFields
<1>4. ASSUME NEW s \in Starts, Cleanup(s) PROVE OwnFields'
  <2>1. \A t \in Starts \ {s} : pc[t] \in {"receive", "cleanup"} => Owner[t] # Owner[s]
    BY <1>4 DEF Cleanup, Exclusive, Active
  <2>2. \A t \in Starts : Owner[t] \in Bridges
    BY RedisBridgeAssumption
  <2> QED  BY <1>4, <2>1, <2>2 DEF Cleanup, Goto, OwnFields
<1>5. ASSUME NEW s \in Starts, Receive(s) \/ ReceiveFail(s) PROVE OwnFields'
  <2>1. UNCHANGED <<held, took, taps>> /\ pc[s] = "receive" /\ (UNCHANGED pc \/ Goto(s, "cleanup"))
    BY <1>5 DEF Receive, ReceiveFail, bridge
  <2> QED  BY <2>1 DEF Goto, OwnFields
<1>6. ASSUME NEW s \in Starts, Untap(s) PROVE OwnFields'
  <2>1. UNCHANGED <<held, took>> /\ pc[s] = "untap" /\ took[s] = s
    BY <1>6 DEF Untap, bridge, OwnFields
  <2>2. \/ UNCHANGED pc /\ \E k : taps' = [taps EXCEPT ![s] = @ \ {k}]
        \/ Goto(s, "close") /\ UNCHANGED taps /\ taps[s] = {}
    BY <1>6, <2>1, RedisBridgeAssumption DEF Untap
  <2> QED  BY <2>1, <2>2 DEF Goto, OwnFields
<1>7. ASSUME NEW s \in Starts, Close(s) \/ CloseClient(s) PROVE OwnFields'
  BY <1>7 DEF Close, CloseClient, Goto, OwnFields, bridge
<1>8. ASSUME NEW b \in Bridges, StopUntap(b) PROVE OwnFields'
  BY <1>8 DEF StopUntap, OwnFields, bridge
<1>9. CASE UNCHANGED <<pc, held, took, taps>>
  BY <1>9 DEF OwnFields
<1>10. ASSUME NEW s \in Starts, Cancel(s) \/ Listen(s) \/ Forward(s) PROVE OwnFields'
  BY <1>9, <1>10 DEF Cancel, Listen, Forward, bridge, starts
<1>11. ASSUME NEW b \in Bridges, Stop(b) \/ StopCancel(b) \/ StopClose(b) \/ StopCloseClient(b)
                                 \/ Serve(b) \/ HubStops(b)
       PROVE  OwnFields'
  BY <1>9, <1>11 DEF Stop, StopCancel, StopClose, StopCloseClient, Serve, HubStops, bridge, starts
<1>12. ASSUME NEW b \in Bridges, NEW k \in SentKinds, HubSend(b, k) \/ BridgeSend(b, k)
       PROVE  OwnFields'
  BY <1>9, <1>12 DEF HubSend, BridgeSend, bridge, starts
<1> QED
  BY <1>1, <1>2, <1>3, <1>4, <1>5, <1>6, <1>7, <1>8, <1>10, <1>11, <1>12
  DEF Next, StartStep, StopStep

\* A Stop moves on, with its target or with none, and no other step moves it.
LEMMA TargetKept ==
  ASSUME LeftInv, Next
  PROVE  OwnTarget'
<1> USE DEF LeftInv, TInv, TypeOK, StartsOK, StopsOK
<1>1. ASSUME NEW b \in Bridges, Stop(b) PROVE OwnTarget'
  <2>1. held[b] # None => held[b] \in Starts /\ Owner[held[b]] = b
    BY DEF Exclusive
  <2>2. held[b] # None => pc[held[b]] \notin {"idle", "open"}
    BY <2>1 DEF EndInv
  <2>3. UNCHANGED pc /\ \A c \in Bridges : target'[c] = IF c = b THEN held[b] ELSE target[c]
    BY <1>1 DEF Stop, starts
  <2> QED  BY <2>1, <2>2, <2>3 DEF OwnTarget
<1>2. ASSUME NEW b \in Bridges, StopStep(b) PROVE OwnTarget'
  <2>1. UNCHANGED pc /\ \A c \in Bridges : target'[c] \in {target[c], None}
    BY <1>2 DEF StopStep, StopCancel, StopUntap, StopClose, StopCloseClient, StopAt
  <2> QED  BY <2>1 DEF OwnTarget
<1>3. CASE UNCHANGED <<target, pc>>
  BY <1>3 DEF OwnTarget
<1>4. ASSUME NEW s \in Starts, Start(s) \/ StartStep(s) \/ ReceiveFail(s) PROVE OwnTarget'
  <2>1. UNCHANGED target /\ \A t \in Starts : pc'[t] = pc[t] \/ pc'[t] # "idle"
    BY <1>4
    DEF Start, StartStep, Open, TapPublished, TapBroadcast, Tap, Store, Receive, Cleanup, Untap,
        Close, CloseClient, ReceiveFail, Goto, stopping
  <2>2. \A t \in Starts : pc'[t] = "open" => pc[t] \in {"idle", "open"}
    BY <1>4
    DEF Start, StartStep, Open, TapPublished, TapBroadcast, Tap, Store, Receive, Cleanup, Untap,
        Close, CloseClient, ReceiveFail, Goto
  <2> QED  BY <2>1, <2>2 DEF OwnTarget
<1>5. ASSUME NEW s \in Starts, Cancel(s) \/ Listen(s) \/ Forward(s) PROVE OwnTarget'
  BY <1>3, <1>5 DEF Cancel, Listen, Forward, starts, stopping
<1>6. ASSUME NEW b \in Bridges, Serve(b) \/ HubStops(b) PROVE OwnTarget'
  BY <1>3, <1>6 DEF Serve, HubStops, starts, stopping
<1>7. ASSUME NEW b \in Bridges, NEW k \in SentKinds, HubSend(b, k) \/ BridgeSend(b, k)
      PROVE  OwnTarget'
  BY <1>3, <1>7 DEF HubSend, BridgeSend, starts, stopping
<1> QED  BY <1>1, <1>2, <1>4, <1>5, <1>6, <1>7 DEF Next

LEMMA EndKept ==
  ASSUME LeftInv, Next
  PROVE  EndInv'
<1> USE DEF LeftInv, TInv, TypeOK, StartsOK, StopsOK, ClosesClient
<1>1. ASSUME NEW s \in Starts, Start(s) PROVE EndInv'
  BY <1>1 DEF Start, Goto, EndInv, stopping
<1>2. ASSUME NEW s \in Starts, Open(s) PROVE EndInv'
  BY <1>2 DEF Open, Goto, EndInv, stopping
<1>3. ASSUME NEW s \in Starts, TapPublished(s) \/ TapBroadcast(s) \/ Store(s) PROVE EndInv'
  BY <1>3 DEF TapPublished, TapBroadcast, Tap, Store, Goto, EndInv, stopping
<1>4. ASSUME NEW s \in Starts, Receive(s) \/ ReceiveFail(s) \/ Cleanup(s) \/ Untap(s) PROVE EndInv'
  BY <1>4 DEF Receive, ReceiveFail, Cleanup, Untap, Goto, EndInv, stopping
<1>5. ASSUME NEW s \in Starts, Close(s) PROVE EndInv'
  BY <1>5 DEF Close, ClosePubSub, Goto, EndInv, stopping
<1>6. ASSUME NEW s \in Starts, CloseClient(s) PROVE EndInv'
  BY <1>6 DEF CloseClient, Goto, EndInv, stopping
<1>7. ASSUME NEW b \in Bridges, Stop(b) PROVE EndInv'
  BY <1>7 DEF Stop, EndInv, starts
<1>8. ASSUME NEW b \in Bridges, StopCancel(b) \/ StopUntap(b) PROVE EndInv'
  <2>1. /\ UNCHANGED <<pc, client, pubsub, target>>
        /\ stopper[b] # "closeClient" /\ \A c \in Bridges \ {b} : stopper'[c] = stopper[c]
    BY <1>8 DEF StopCancel, StopUntap, StopAt
  <2>2. \A s \in Starts : ClosesClient(s) => ClosesClient(s)'
    BY <2>1, RedisBridgeAssumption
  <2> QED  BY <2>1, <2>2 DEF EndInv
<1>9. ASSUME NEW b \in Bridges, StopClose(b) PROVE EndInv'
  <2> DEFINE t == target[b]
  <2>1. /\ UNCHANGED <<pc, client, target>> /\ stopper[b] = "close" /\ stopper'[b] = "closeClient"
        /\ \A c \in Bridges \ {b} : stopper'[c] = stopper[c]
    BY <1>9 DEF StopClose, StopAt
  <2>2. \A s \in Starts : pubsub'[s] = IF s = t THEN "closed" ELSE pubsub[s]
    BY <1>9 DEF StopClose, ClosePubSub
  <2>3. \A s \in Starts : ClosesClient(s) => ClosesClient(s)'
    BY <2>1, RedisBridgeAssumption
  <2>4. \A s \in Starts : s = t => ClosesClient(s)'
    BY <2>1, RedisBridgeAssumption DEF OwnTarget
  <2>5. \A s \in Starts : s = t => pc[s] \notin {"idle", "open"}
    BY RedisBridgeAssumption DEF OwnTarget
  <2> HIDE DEF ClosesClient
  <2> QED  BY <2>1, <2>2, <2>3, <2>4, <2>5 DEF EndInv
<1>10. ASSUME NEW b \in Bridges, StopCloseClient(b) PROVE EndInv'
  <2> DEFINE t == target[b]
  <2>1. /\ UNCHANGED <<pc, pubsub>> /\ stopper[b] = "closeClient"
        /\ \A c \in Bridges \ {b} : stopper'[c] = stopper[c] /\ target'[c] = target[c]
    BY <1>10 DEF StopCloseClient, StopAt
  <2>2. \A s \in Starts : client'[s] = IF s = t THEN "closed" ELSE client[s]
    BY <1>10 DEF StopCloseClient
  <2>3. \A s \in Starts \ {t} : ClosesClient(s) => ClosesClient(s)'
    BY <2>1, RedisBridgeAssumption
  <2>4. \A s \in Starts : s = t => pc[s] \notin {"idle", "open"}
    BY RedisBridgeAssumption DEF OwnTarget
  <2> HIDE DEF ClosesClient
  <2> QED  BY <2>1, <2>2, <2>3, <2>4 DEF EndInv
<1>11. CASE UNCHANGED <<pc, client, pubsub, target, stopper>>
  BY <1>11 DEF EndInv
<1>12. ASSUME NEW s \in Starts, Cancel(s) \/ Listen(s) \/ Forward(s) PROVE EndInv'
  BY <1>11, <1>12 DEF Cancel, Listen, Forward, starts, stopping
<1>13. ASSUME NEW b \in Bridges, Serve(b) \/ HubStops(b) PROVE EndInv'
  BY <1>11, <1>13 DEF Serve, HubStops, starts, stopping
<1>14. ASSUME NEW b \in Bridges, NEW k \in SentKinds, HubSend(b, k) \/ BridgeSend(b, k)
       PROVE  EndInv'
  BY <1>11, <1>14 DEF HubSend, BridgeSend, starts, stopping
<1> QED
  BY <1>1, <1>2, <1>3, <1>4, <1>5, <1>6, <1>7, <1>8, <1>9, <1>10, <1>12, <1>13, <1>14
  DEF Next, StartStep, StopStep

LEMMA NextLeft == LeftInv /\ [Next]_vars => LeftInv'
<1> SUFFICES ASSUME LeftInv, [Next]_vars PROVE LeftInv'
  OBVIOUS
<1>1. TInv'
  BY NextTyped DEF LeftInv
<1>2. CASE Next
  BY <1>1, <1>2, FieldsKept, TargetKept, EndKept DEF LeftInv
<1>3. CASE UNCHANGED vars
  <2>1. UNCHANGED <<held, pc, took, taps, client, pubsub, target, stopper>>
    BY <1>3 DEF vars, bridge, starts, stopping
  <2> QED  BY <1>1, <2>1 DEF LeftInv, OwnFields, OwnTarget, EndInv, ClosesClient
<1> QED  BY <1>2, <1>3

\* However a Start's end and the Stops of its bridge interleave, and however many
\* times the bridge is started again, a Start that has returned leaves no client,
\* no subscription and no handler, unless a Stop is still at its fields.
THEOREM ReturnLeavesNothing == Spec => []NothingLeft
<1>1. LeftInv => NothingLeft
  BY DEF LeftInv, OwnFields, EndInv, ClosesClient, NothingLeft
<1> QED  BY InitLeft, NextLeft, <1>1, PTL DEF Spec
-----------------------------------------------------------------------------
(* A frame on its way.  Until its origin has put it on Redis nobody else     *)
(* has it; from then on each hub has it in one place.                        *)

Elements(q) == {q[i] : i \in DOMAIN q}
FramesIn(q) == {m.frame : m \in Elements(q)}

\* No frame twice, in an inbox or a queue, and in a log.
Once(q) == \A i, j \in DOMAIN q : q[i].frame = q[j].frame => i = j
Injective(l) == \A i, j \in DOMAIN l : l[i] = l[j] => i = j

\* The hub of bridge b has frame f.
Has(b, f) == f \in FramesIn(queue[b]) \cup Elements(log[b])

\* Frame f waits in the hub of bridge b for its tap.
Pending(b, f) ==
  \/ \E d \in Elements(queue[b]) : d.notify /\ d.frame = f
  \/ work[b].taps # {} /\ work[b].frame = f

\* The hub of the origin has what was given to it, the others what came by Redis.
OriginInv ==
  /\ \A s \in Starts : \A m \in Elements(inbox[s]) : m.source = frames[m.frame].origin
  /\ \A b \in Bridges : \A d \in Elements(queue[b]) : d.notify <=> frames[d.frame].origin = b
  /\ \A b \in Bridges : \A f \in Frames :
       (Has(b, f) \/ Pending(b, f)) /\ frames[f].origin = b => frames[f].how = "hub"
  /\ \A b \in Bridges : work[b].taps # {} =>
       frames[work[b].frame].origin = b /\ work[b].frame \in Elements(log[b])

\* A hub and the inbox of its bridge have a frame once.
PlaceInv ==
  /\ \A s \in Starts : Once(inbox[s])
  /\ \A b \in Bridges : /\ Once(queue[b]) /\ Injective(log[b])
                        /\ FramesIn(queue[b]) \cap Elements(log[b]) = {}
  /\ \A s \in Starts : \A m \in Elements(inbox[s]) : ~Own(s, m) => ~Has(Owner[s], m.frame)

\* What waits for its tap is nowhere else.
PendingInv ==
  \A b \in Bridges, f \in Frames : Pending(b, f) =>
    /\ \A s \in Starts : f \notin FramesIn(inbox[s])
    /\ \A c \in Bridges \ {b} : ~Has(c, f)

CopyInv == OriginInv /\ PlaceInv /\ PendingInv

\* No bridge is started twice.
StartedOnce == \A s, t \in Starts : Owner[s] = Owner[t] => s = t

LEMMA AppendMessage ==
  ASSUME NEW S, NEW q \in Seq(S), NEW m \in S
  PROVE  /\ Elements(Append(q, m)) = Elements(q) \cup {m}
         /\ FramesIn(Append(q, m)) = FramesIn(q) \cup {m.frame}
         /\ Once(q) /\ m.frame \notin FramesIn(q) => Once(Append(q, m))
<1>1. /\ Len(q) \in Nat /\ DOMAIN q = 1 .. Len(q) /\ DOMAIN Append(q, m) = 1 .. Len(q) + 1
      /\ \A i \in 1 .. Len(q) : Append(q, m)[i] = q[i]
      /\ Append(q, m)[Len(q) + 1] = m
  BY AppendProperties, LenProperties
<1>2. Elements(Append(q, m)) = Elements(q) \cup {m}
  BY <1>1 DEF Elements
<1>3. FramesIn(Append(q, m)) = FramesIn(q) \cup {m.frame}
  BY <1>2 DEF FramesIn
<1>4. Once(q) /\ m.frame \notin FramesIn(q) => Once(Append(q, m))
  BY <1>1 DEF Once, FramesIn, Elements
<1> QED  BY <1>2, <1>3, <1>4

LEMMA AppendToLog ==
  ASSUME NEW S, NEW l \in Seq(S), NEW f \in S
  PROVE  /\ Elements(Append(l, f)) = Elements(l) \cup {f}
         /\ Injective(l) /\ f \notin Elements(l) => Injective(Append(l, f))
<1>1. /\ Len(l) \in Nat /\ DOMAIN l = 1 .. Len(l) /\ DOMAIN Append(l, f) = 1 .. Len(l) + 1
      /\ \A i \in 1 .. Len(l) : Append(l, f)[i] = l[i]
      /\ Append(l, f)[Len(l) + 1] = f
  BY AppendProperties, LenProperties
<1> QED  BY <1>1 DEF Elements, Injective

LEMMA TakeMessage ==
  ASSUME NEW S, NEW q \in Seq(S), q # << >>
  PROVE  /\ Head(q) \in S /\ Head(q) \in Elements(q)
         /\ Elements(q) = {Head(q)} \cup Elements(Tail(q))
         /\ FramesIn(q) = {Head(q).frame} \cup FramesIn(Tail(q))
         /\ Once(q) => Once(Tail(q)) /\ Head(q).frame \notin FramesIn(Tail(q))
<1>1. /\ Head(q) \in S /\ Head(q) = q[1] /\ Len(q) \in Nat \ {0}
      /\ DOMAIN q = 1 .. Len(q) /\ DOMAIN Tail(q) = 1 .. Len(q) - 1
      /\ \A i \in 1 .. Len(q) - 1 : Tail(q)[i] = q[i + 1]
  BY HeadTailProperties, LenProperties, EmptySeq
<1>2. \A i \in DOMAIN q : i = 1 \/ (i - 1 \in DOMAIN Tail(q) /\ Tail(q)[i - 1] = q[i])
  BY <1>1
<1>3. \A i \in DOMAIN Tail(q) : i + 1 \in DOMAIN q /\ Tail(q)[i] = q[i + 1]
  BY <1>1
<1>4. Elements(q) = {Head(q)} \cup Elements(Tail(q))
  <2>1. \A i \in DOMAIN q : q[i] = Head(q) \/ \E j \in DOMAIN Tail(q) : q[i] = Tail(q)[j]
    BY <1>1, <1>2
  <2>2. {Head(q)} \cup Elements(Tail(q)) \subseteq Elements(q)
    BY <1>1, <1>3 DEF Elements
  <2> QED  BY <2>1, <2>2 DEF Elements
<1>5. FramesIn(q) = {Head(q).frame} \cup FramesIn(Tail(q))
  BY <1>4 DEF FramesIn
<1>6. Once(q) => Once(Tail(q)) /\ Head(q).frame \notin FramesIn(Tail(q))
  BY <1>1, <1>3 DEF Once, FramesIn, Elements
<1> QED  BY <1>1, <1>4, <1>5, <1>6

\* Whatever is somewhere has been sent.
LEMMA AllSent ==
  ASSUME TrafficOK
  PROVE  /\ DOMAIN frames \subseteq Frames /\ Len(frames) \in Nat /\ DOMAIN frames = 1 .. Len(frames)
         /\ \A s \in Starts : inbox[s] \in Seq(Messages) /\ Elements(inbox[s]) \subseteq Messages
                              /\ FramesIn(inbox[s]) \subseteq DOMAIN frames
         /\ \A b \in Bridges : queue[b] \in Seq(Deliveries) /\ Elements(queue[b]) \subseteq Deliveries
                               /\ FramesIn(queue[b]) \subseteq DOMAIN frames
         /\ \A b \in Bridges : log[b] \in Seq(DOMAIN frames) /\ Elements(log[b]) \subseteq DOMAIN frames
         /\ \A b \in Bridges : work[b].taps # {} => work[b].frame \in DOMAIN frames
         /\ \A b \in Bridges : \A f : Has(b, f) \/ Pending(b, f) => f \in DOMAIN frames
<1>1. Len(frames) \in Nat /\ DOMAIN frames = 1 .. Len(frames) /\ Len(frames) <= MaxFrames
  BY LenProperties DEF TrafficOK
<1>2. DOMAIN frames \subseteq Frames
  BY <1>1, RedisBridgeAssumption DEF Frames
<1>3. \A s \in Starts : inbox[s] \in Seq(Messages)
  BY DEF TrafficOK, Messages
<1>4. \A s \in Starts : Elements(inbox[s]) \subseteq Messages
  BY <1>3, ElementOfSeq, LenProperties DEF Elements
<1>5. \A s \in Starts : FramesIn(inbox[s]) \subseteq DOMAIN frames
  BY <1>4 DEF FramesIn, Messages
<1>6. \A b \in Bridges : queue[b] \in Seq(Deliveries)
  BY DEF TrafficOK, Deliveries
<1>7. \A b \in Bridges : Elements(queue[b]) \subseteq Deliveries
  BY <1>6, ElementOfSeq, LenProperties DEF Elements
<1>8. \A b \in Bridges : FramesIn(queue[b]) \subseteq DOMAIN frames
  BY <1>7 DEF FramesIn, Deliveries
<1>9. \A b \in Bridges : log[b] \in Seq(DOMAIN frames)
  BY DEF TrafficOK
<1>10. \A b \in Bridges : Elements(log[b]) \subseteq DOMAIN frames
  BY <1>9, ElementOfSeq, LenProperties DEF Elements
<1>11. \A b \in Bridges : work[b].taps # {} => work[b].frame \in DOMAIN frames
  BY DEF TrafficOK
<1>12. \A b \in Bridges : \A f : Has(b, f) \/ Pending(b, f) => f \in DOMAIN frames
  BY <1>8, <1>10, <1>11 DEF Has, Pending, FramesIn
<1> QED  BY <1>1, <1>2, <1>3, <1>4, <1>5, <1>6, <1>7, <1>8, <1>9, <1>10, <1>11, <1>12

LEMMA InitCopies == Init => CopyInv
<1> SUFFICES ASSUME Init PROVE CopyInv
  OBVIOUS
<1>1. Elements(<< >>) = {} /\ FramesIn(<< >>) = {} /\ Once(<< >>) /\ Injective(<< >>)
  BY DEF Elements, FramesIn, Once, Injective
<1>2. /\ \A s \in Starts : inbox[s] = << >>
      /\ \A b \in Bridges : queue[b] = << >> /\ log[b] = << >> /\ work[b].taps = {}
  BY DEF Init, NoWork
<1> QED  BY <1>1, <1>2 DEF CopyInv, OriginInv, PlaceInv, PendingInv, Has, Pending

\* An inbox that is emptied, and steps that touch no frame.
LEMMA CopiesStay ==
  ASSUME CopyInv, UNCHANGED <<queue, log, work, frames>>,
         \A s \in Starts : inbox'[s] = inbox[s] \/ inbox'[s] = << >>
  PROVE  CopyInv'
<1>1. Elements(<< >>) = {} /\ FramesIn(<< >>) = {} /\ Once(<< >>)
  BY DEF Elements, FramesIn, Once
<1>2. \A b, f : (Has(b, f)' <=> Has(b, f)) /\ (Pending(b, f)' <=> Pending(b, f))
  BY DEF Has, Pending
<1>3. \A s \in Starts :
        /\ Elements(inbox'[s]) \subseteq Elements(inbox[s])
        /\ FramesIn(inbox'[s]) \subseteq FramesIn(inbox[s])
        /\ Once(inbox[s]) => Once(inbox'[s])
  BY <1>1
<1>4. OriginInv'
  BY <1>2, <1>3 DEF CopyInv, OriginInv
<1>5. PlaceInv'
  BY <1>2, <1>3 DEF CopyInv, PlaceInv, Own
<1>6. PendingInv'
  BY <1>2, <1>3 DEF CopyInv, PendingInv
<1> QED  BY <1>4, <1>5, <1>6 DEF CopyInv

\* A publication on Redis of a frame that no inbox and no other hub has yet.
LEMMA CopiesPublished ==
  ASSUME TrafficOK, TrafficOK', CopyInv,
         NEW b \in Bridges, NEW f \in DOMAIN frames', NEW k \in Kinds, NEW up,
         RedisPublish(b, f, k, up), UNCHANGED <<queue, log>>,
         \A g \in DOMAIN frames : g \in DOMAIN frames' /\ frames'[g] = frames[g],
         frames'[f].origin = b,
         \A s \in Starts : f \notin FramesIn(inbox[s]),
         \A c \in Bridges \ {b} : ~Has(c, f),
         \A c \in Bridges, g \in Frames : Pending(c, g)' => Pending(c, g) /\ g # f,
         \A c \in Bridges : work'[c].taps # {} => work[c].taps # {} /\ work'[c].frame = work[c].frame
  PROVE  CopyInv'
<1> DEFINE m == Envelope(b, f, k)
<1>1. m \in Messages' /\ m.frame = f /\ m.source = b
  BY DEF Envelope, Messages
<1>2. \A s \in Starts : inbox[s] \in Seq(Messages')
  BY Growing
<1> HIDE DEF m
<1>3. \A s \in Starts :
        /\ Elements(inbox'[s]) \subseteq Elements(inbox[s]) \cup {m}
        /\ FramesIn(inbox'[s]) \subseteq FramesIn(inbox[s]) \cup {f}
        /\ Once(inbox[s]) => Once(inbox'[s])
  <2> SUFFICES ASSUME NEW s \in Starts
               PROVE  /\ Elements(inbox'[s]) \subseteq Elements(inbox[s]) \cup {m}
                      /\ FramesIn(inbox'[s]) \subseteq FramesIn(inbox[s]) \cup {f}
                      /\ Once(inbox[s]) => Once(inbox'[s])
    OBVIOUS
  <2>1. inbox'[s] \in {inbox[s], Append(inbox[s], m)}
    BY DEF RedisPublish, m
  <2>2. f \notin FramesIn(inbox[s]) /\ inbox[s] \in Seq(Messages')
    BY <1>2
  <2>3. CASE inbox'[s] = Append(inbox[s], m)
    BY <1>1, <2>2, <2>3, AppendMessage
  <2> QED  BY <2>1, <2>3
<1>4. \A c, g : Has(c, g)' <=> Has(c, g)
  BY DEF Has
<1>5. \A c \in Bridges, g \in Frames : Has(c, g) \/ Pending(c, g) => g \in DOMAIN frames
  BY AllSent
<1>6. OriginInv'
  <2>1. \A s \in Starts : \A n \in Elements(inbox'[s]) : n.source = frames'[n.frame].origin
    <3>1. \A s \in Starts : \A n \in Elements(inbox[s]) : n.frame \in DOMAIN frames
      BY AllSent DEF FramesIn
    <3> QED  BY <1>1, <1>3, <3>1 DEF CopyInv, OriginInv
  <2>2. \A c \in Bridges : \A d \in Elements(queue'[c]) : d.notify <=> frames'[d.frame].origin = c
    <3>1. \A c \in Bridges : \A d \in Elements(queue[c]) : d.frame \in DOMAIN frames
      BY AllSent DEF FramesIn
    <3> QED  BY <3>1 DEF CopyInv, OriginInv
  <2>3. \A c \in Bridges : \A g \in Frames :
          (Has(c, g)' \/ Pending(c, g)') /\ frames'[g].origin = c => frames'[g].how = "hub"
    BY <1>4, <1>5 DEF CopyInv, OriginInv
  <2>4. \A c \in Bridges : work'[c].taps # {} =>
          frames'[work'[c].frame].origin = c /\ work'[c].frame \in Elements(log'[c])
    <3>1. \A c \in Bridges : work[c].taps # {} => work[c].frame \in DOMAIN frames
      BY AllSent
    <3> QED  BY <3>1 DEF CopyInv, OriginInv
  <2> QED  BY <2>1, <2>2, <2>3, <2>4 DEF OriginInv
<1>7. PlaceInv'
  <2>1. ASSUME NEW s \in Starts, NEW n \in Elements(inbox'[s]), ~Own(s, n)
        PROVE  ~Has(Owner[s], n.frame)
    <3>1. CASE n = m
      BY <1>1, <2>1, <3>1, RedisBridgeAssumption DEF Own
    <3>2. CASE n \in Elements(inbox[s])
      BY <2>1, <3>2 DEF CopyInv, PlaceInv
    <3> QED  BY <1>3, <3>1, <3>2
  <2> QED  BY <1>3, <1>4, <2>1 DEF CopyInv, PlaceInv, Own
<1>8. PendingInv'
  BY <1>3, <1>4 DEF CopyInv, PendingInv
<1> QED  BY <1>6, <1>7, <1>8 DEF CopyInv

LEMMA CopiesServed ==
  ASSUME TInv, CopyInv, StartedOnce, NEW b \in Bridges, Serve(b)
  PROVE  CopyInv'
<1> USE DEF TInv, TypeOK
<1> DEFINE d == Head(queue[b])
<1>1. /\ UNCHANGED <<inbox, frames>> /\ queue[b] # << >> /\ work[b].taps = {}
      /\ work' = [work EXCEPT ![b] =
           [frame |-> d.frame, kind |-> d.kind,
            taps |-> {s \in Starts : d.notify /\ Owner[s] = b /\ d.kind \in taps[s]}]]
      /\ \A c \in Bridges : queue'[c] = IF c = b THEN Tail(queue[b]) ELSE queue[c]
      /\ \A c \in Bridges : log'[c] = IF c = b THEN Append(log[b], d.frame) ELSE log[c]
  BY DEF Serve, redis, TrafficOK
<1>2. /\ work'[b].frame = d.frame /\ (work'[b].taps # {} => d.notify)
      /\ \A c \in Bridges \ {b} : work'[c] = work[c]
  BY <1>1 DEF TrafficOK
<1>3. /\ d \in Deliveries /\ d \in Elements(queue[b])
      /\ Elements(queue[b]) = {d} \cup Elements(Tail(queue[b]))
      /\ FramesIn(queue[b]) = {d.frame} \cup FramesIn(Tail(queue[b]))
      /\ Once(queue[b]) => Once(Tail(queue[b])) /\ d.frame \notin FramesIn(Tail(queue[b]))
  <2>1. queue[b] \in Seq(Deliveries)
    BY AllSent
  <2> QED  BY <1>1, <2>1, TakeMessage
<1>4. /\ Elements(Append(log[b], d.frame)) = Elements(log[b]) \cup {d.frame}
      /\ Injective(log[b]) /\ d.frame \notin Elements(log[b]) => Injective(Append(log[b], d.frame))
  <2>1. log[b] \in Seq(DOMAIN frames) /\ d.frame \in DOMAIN frames
    BY <1>3, AllSent DEF Deliveries
  <2> QED  BY <2>1, AppendToLog
<1> HIDE DEF d
<1>5. d.frame \in FramesIn(queue[b])
  BY <1>3 DEF FramesIn
<1>6. \A c \in Bridges : \A f : Has(c, f)' <=> Has(c, f)
  BY <1>1, <1>3, <1>4 DEF Has
<1>7. \A c \in Bridges : \A f : Pending(c, f)' => Pending(c, f)
  BY <1>1, <1>2, <1>3 DEF Pending
<1>8. OriginInv'
  <2>1. \A c \in Bridges : \A e \in Elements(queue'[c]) : e.notify <=> frames'[e.frame].origin = c
    BY <1>1, <1>3 DEF CopyInv, OriginInv
  <2>2. \A c \in Bridges : work'[c].taps # {} =>
          frames'[work'[c].frame].origin = c /\ work'[c].frame \in Elements(log'[c])
    BY <1>1, <1>2, <1>3, <1>4 DEF CopyInv, OriginInv
  <2> QED  BY <1>1, <1>6, <1>7, <2>1, <2>2 DEF CopyInv, OriginInv
<1>9. PlaceInv'
  <2>1. d.frame \notin Elements(log[b])
    BY <1>5 DEF CopyInv, PlaceInv
  <2>2. \A c \in Bridges : Once(queue'[c]) /\ Injective(log'[c])
    BY <1>1, <1>3, <1>4, <2>1 DEF CopyInv, PlaceInv
  <2>3. \A c \in Bridges : FramesIn(queue'[c]) \cap Elements(log'[c]) = {}
    BY <1>1, <1>3, <1>4 DEF CopyInv, PlaceInv
  <2> QED  BY <1>1, <1>6, <2>2, <2>3, RedisBridgeAssumption DEF CopyInv, PlaceInv, Own
<1>10. PendingInv'
  BY <1>1, <1>6, <1>7 DEF CopyInv, PendingInv
<1> QED  BY <1>8, <1>9, <1>10 DEF CopyInv

LEMMA CopiesForwarded ==
  ASSUME TInv, TrafficOK', CopyInv, StartedOnce, NEW s \in Starts, Forward(s)
  PROVE  CopyInv'
<1> USE DEF TInv, TypeOK
<1> DEFINE b == Owner[s]  f == work[b].frame
<1>1. b \in Bridges /\ UNCHANGED <<queue, log, frames>> /\ s \in work[b].taps
  BY RedisBridgeAssumption DEF Forward
<1>2. \A t \in work[b].taps : t = s
  BY <1>1 DEF TrafficOK, StartedOnce
<1>3. /\ work'[b].taps = {}
      /\ \A c \in Bridges \ {b} : work'[c] = work[c]
  BY <1>1, <1>2 DEF Forward, TrafficOK
<1>4. f \in DOMAIN frames /\ f \in Frames /\ Pending(b, f)
  BY <1>1, AllSent DEF Pending
<1>5. frames[f].origin = b /\ f \in Elements(log[b])
  BY <1>1 DEF CopyInv, OriginInv
<1>6. (\A t \in Starts : f \notin FramesIn(inbox[t])) /\ \A c \in Bridges \ {b} : ~Has(c, f)
  BY <1>1, <1>4 DEF CopyInv, PendingInv
<1>7. \A c \in Bridges, g \in Frames : Pending(c, g)' => Pending(c, g) /\ g # f
  <2>1. f \notin FramesIn(queue[b])
    BY <1>1, <1>5 DEF CopyInv, PlaceInv
  <2>2. \A c \in Bridges \ {b} : ~Pending(c, f)
    <3>1. \A c \in Bridges : Pending(c, f) => frames[f].origin = c
      BY DEF CopyInv, OriginInv, Pending
    <3> QED  BY <1>5, <3>1
  <2> QED  BY <1>1, <1>3, <2>1, <2>2 DEF Pending, FramesIn
<1>8. work[b].kind \in Kinds /\ RedisPublish(b, f, work[b].kind, client[s] = "open")
  BY <1>1 DEF Forward, TrafficOK
<1>9. \A c \in Bridges : work'[c].taps # {} => work[c].taps # {} /\ work'[c].frame = work[c].frame
  BY <1>3
<1> HIDE DEF b, f
<1> QED  BY <1>1, <1>4, <1>5, <1>6, <1>7, <1>8, <1>9, CopiesPublished

\* What is sent is new.
LEMMA SentNew ==
  ASSUME TrafficOK, NEW b \in Bridges, NEW k \in SentKinds, NEW how \in {"hub", "bridge"},
         Len(frames) < MaxFrames, Record(b, k, how), NEW f, f = Len(frames) + 1
  PROVE  /\ f \in DOMAIN frames' /\ f \notin DOMAIN frames /\ f \in Frames /\ k \in Kinds
         /\ \A g \in DOMAIN frames : g \in DOMAIN frames' /\ frames'[g] = frames[g]
         /\ frames'[f].origin = b /\ frames'[f].how = how
         /\ \A s \in Starts : f \notin FramesIn(inbox[s])
         /\ \A c \in Bridges : ~Has(c, f) /\ ~Pending(c, f)
<1> DEFINE r == [origin |-> b, kind |-> k, how |-> how]
<1>1. f \in DOMAIN frames' /\ k \in Kinds /\ DOMAIN frames \subseteq DOMAIN frames'
  BY Sending
<1>2. f \notin DOMAIN frames /\ f \in Frames
  BY AllSent, RedisBridgeAssumption DEF Frames
<1>3. r \in Sent /\ frames \in Seq(Sent) /\ frames' = Append(frames, r)
  BY <1>1 DEF Record, TrafficOK, Sent
<1>4. r.origin = b /\ r.how = how
  OBVIOUS
<1> HIDE DEF r
<1>5. (\A g \in 1 .. Len(frames) : frames'[g] = frames[g]) /\ frames'[f] = r
  BY <1>3, AppendProperties
<1> QED  BY <1>1, <1>2, <1>4, <1>5, AllSent

LEMMA CopiesSentBridge ==
  ASSUME TInv, TrafficOK', CopyInv, NEW b \in Bridges, NEW k \in SentKinds, BridgeSend(b, k)
  PROVE  CopyInv'
<1> USE DEF TInv, TypeOK
<1> DEFINE f == Len(frames) + 1  up == held[b] # None => client[held[b]] = "open"
<1>1. /\ UNCHANGED <<queue, log, work>> /\ Len(frames) < MaxFrames /\ Record(b, k, "bridge")
      /\ RedisPublish(b, f, k, up)
  BY DEF BridgeSend, hubs
<1> HIDE DEF up
<1>2. /\ f \in DOMAIN frames' /\ f \notin DOMAIN frames /\ f \in Frames /\ k \in Kinds
      /\ \A g \in DOMAIN frames : g \in DOMAIN frames' /\ frames'[g] = frames[g]
      /\ frames'[f].origin = b
      /\ \A s \in Starts : f \notin FramesIn(inbox[s])
      /\ \A c \in Bridges : ~Has(c, f) /\ ~Pending(c, f)
  BY <1>1, SentNew
<1> HIDE DEF f
<1>3. \A c \in Bridges, g \in Frames : Pending(c, g)' => Pending(c, g) /\ g # f
  BY <1>1, <1>2 DEF Pending
<1> QED  BY <1>1, <1>2, <1>3, CopiesPublished

LEMMA CopiesSentHub ==
  ASSUME TInv, CopyInv, NEW b \in Bridges, NEW k \in SentKinds, HubSend(b, k)
  PROVE  CopyInv'
<1> USE DEF TInv, TypeOK
<1> DEFINE f == Len(frames) + 1  d == Delivery(f, k, TRUE)
<1>1. /\ UNCHANGED <<inbox, log, work>> /\ Len(frames) < MaxFrames /\ Record(b, k, "hub")
      /\ \A c \in Bridges : queue'[c] = IF c = b THEN Append(queue[b], d) ELSE queue[c]
  BY DEF HubSend, redis, TrafficOK
<1>2. d.frame = f /\ d.notify = TRUE
  BY DEF Delivery
<1>3. /\ f \in DOMAIN frames' /\ f \notin DOMAIN frames /\ f \in Frames /\ k \in Kinds
      /\ \A g \in DOMAIN frames : g \in DOMAIN frames' /\ frames'[g] = frames[g]
      /\ frames'[f].origin = b /\ frames'[f].how = "hub"
      /\ \A s \in Starts : f \notin FramesIn(inbox[s])
      /\ \A c \in Bridges : ~Has(c, f) /\ ~Pending(c, f)
  BY <1>1, SentNew
<1>4. d \in Deliveries'
  BY <1>3 DEF Delivery, Deliveries
<1> HIDE DEF d, f
<1>5. /\ Elements(Append(queue[b], d)) = Elements(queue[b]) \cup {d}
      /\ FramesIn(Append(queue[b], d)) = FramesIn(queue[b]) \cup {f}
      /\ Once(queue[b]) => Once(Append(queue[b], d))
  <2>1. DOMAIN frames \subseteq DOMAIN frames'
    BY <1>3
  <2>2. queue[b] \in Seq(Deliveries')
    BY <2>1, Growing
  <2>3. f \notin FramesIn(queue[b])
    BY <1>3 DEF Has
  <2> QED  BY <1>2, <1>4, <2>2, <2>3, AppendMessage
<1>6. \A c \in Bridges : \A g : Has(c, g)' <=> Has(c, g) \/ (c = b /\ g = f)
  BY <1>1, <1>5 DEF Has
<1>7. \A c \in Bridges : \A g : Pending(c, g)' <=> Pending(c, g) \/ (c = b /\ g = f)
  BY <1>1, <1>2, <1>5 DEF Pending
<1>8. \A c \in Bridges : \A g : Has(c, g) \/ Pending(c, g) => g \in DOMAIN frames
  BY AllSent
<1>9. OriginInv'
  <2>1. \A s \in Starts : \A m \in Elements(inbox'[s]) : m.source = frames'[m.frame].origin
    <3>1. \A s \in Starts : \A m \in Elements(inbox[s]) : m.frame \in DOMAIN frames
      BY AllSent DEF FramesIn
    <3> QED  BY <1>1, <1>3, <3>1 DEF CopyInv, OriginInv
  <2>2. \A c \in Bridges : \A e \in Elements(queue'[c]) : e.notify <=> frames'[e.frame].origin = c
    <3>1. \A c \in Bridges : \A e \in Elements(queue[c]) : e.frame \in DOMAIN frames
      BY AllSent DEF FramesIn
    <3> QED  BY <1>1, <1>2, <1>3, <1>5, <3>1 DEF CopyInv, OriginInv
  <2>3. \A c \in Bridges : \A g \in Frames :
          (Has(c, g)' \/ Pending(c, g)') /\ frames'[g].origin = c => frames'[g].how = "hub"
    BY <1>3, <1>6, <1>7, <1>8 DEF CopyInv, OriginInv
  <2>4. \A c \in Bridges : work'[c].taps # {} =>
          frames'[work'[c].frame].origin = c /\ work'[c].frame \in Elements(log'[c])
    <3>1. \A c \in Bridges : work[c].taps # {} => work[c].frame \in DOMAIN frames
      BY AllSent
    <3> QED  BY <1>1, <1>3, <3>1 DEF CopyInv, OriginInv
  <2> QED  BY <2>1, <2>2, <2>3, <2>4 DEF OriginInv
<1>10. PlaceInv'
  <2>1. \A c \in Bridges : Once(queue'[c]) /\ FramesIn(queue'[c]) \cap Elements(log'[c]) = {}
    BY <1>1, <1>3, <1>5 DEF CopyInv, PlaceInv, Has
  <2>2. ASSUME NEW s \in Starts, NEW m \in Elements(inbox'[s]), ~Own(s, m)
        PROVE  ~Has(Owner[s], m.frame)'
    <3>1. m.frame # f
      BY <1>1, <1>3, <2>2 DEF FramesIn
    <3> QED  BY <1>1, <1>6, <2>2, <3>1, RedisBridgeAssumption DEF CopyInv, PlaceInv
  <2> QED  BY <1>1, <2>1, <2>2 DEF CopyInv, PlaceInv, Own
<1>11. PendingInv'
  BY <1>1, <1>3, <1>6, <1>7 DEF CopyInv, PendingInv
<1> QED  BY <1>9, <1>10, <1>11 DEF CopyInv

\* What was received leaves the inbox, for the hub unless it is its own.
LEMMA CopiesReceived ==
  ASSUME TInv, CopyInv, StartedOnce, NEW s \in Starts, Receive(s)
  PROVE  CopyInv'
<1> USE DEF TInv, TypeOK
<1> DEFINE b == Owner[s]  m == Head(inbox[s])  d == FromBridge(m)
<1>1. /\ b \in Bridges /\ UNCHANGED <<log, work, frames>> /\ inbox[s] # << >>
      /\ \A t \in Starts : inbox'[t] = IF t = s THEN Tail(inbox[s]) ELSE inbox[t]
      /\ queue' = queue \/ (~Own(s, m) /\ queue' = [queue EXCEPT ![b] = Append(@, d)])
  BY RedisBridgeAssumption DEF Receive, TrafficOK
<1>2. inbox[s] \in Seq(Messages) /\ queue[b] \in Seq(Deliveries)
  BY <1>1, AllSent
<1>3. /\ m \in Messages /\ m \in Elements(inbox[s])
      /\ Elements(inbox[s]) = {m} \cup Elements(Tail(inbox[s]))
      /\ FramesIn(inbox[s]) = {m.frame} \cup FramesIn(Tail(inbox[s]))
      /\ Once(inbox[s]) => Once(Tail(inbox[s])) /\ m.frame \notin FramesIn(Tail(inbox[s]))
  BY <1>1, <1>2, TakeMessage
<1>4. d \in Deliveries /\ d.frame = m.frame /\ d.notify = FALSE
  BY <1>3 DEF FromBridge, Delivery, Messages, Deliveries
<1> HIDE DEF m, d
<1>5. \A t \in Starts : /\ Elements(inbox'[t]) \subseteq Elements(inbox[t])
                        /\ FramesIn(inbox'[t]) \subseteq FramesIn(inbox[t])
                        /\ Once(inbox'[t])
  BY <1>1, <1>3 DEF CopyInv, PlaceInv
<1>6. CASE queue' = queue
  <2>1. \A c, f : (Has(c, f)' <=> Has(c, f)) /\ (Pending(c, f)' <=> Pending(c, f))
    BY <1>1, <1>6 DEF Has, Pending
  <2>2. OriginInv'
    BY <1>1, <1>5, <1>6, <2>1 DEF CopyInv, OriginInv
  <2>3. PlaceInv'
    BY <1>1, <1>5, <1>6, <2>1, RedisBridgeAssumption DEF CopyInv, PlaceInv, Own
  <2>4. PendingInv'
    BY <1>5, <2>1 DEF CopyInv, PendingInv
  <2> QED  BY <2>2, <2>3, <2>4 DEF CopyInv
<1>7. CASE ~Own(s, m) /\ queue' = [queue EXCEPT ![b] = Append(@, d)]
  <2>1. ~Has(b, m.frame) /\ frames[m.frame].origin # b /\ m.frame \in Frames
    <3>1. m.source = frames[m.frame].origin /\ m.frame \in DOMAIN frames
      BY <1>3 DEF CopyInv, OriginInv, Messages
    <3> QED  BY <1>3, <1>7, <3>1, AllSent DEF CopyInv, PlaceInv, Own
  <2>2. /\ Elements(Append(queue[b], d)) = Elements(queue[b]) \cup {d}
        /\ FramesIn(Append(queue[b], d)) = FramesIn(queue[b]) \cup {m.frame}
        /\ Once(queue[b]) => Once(Append(queue[b], d))
    BY <1>2, <1>4, <2>1, AppendMessage DEF Has
  <2>3. \A c \in Bridges : queue'[c] = IF c = b THEN Append(queue[b], d) ELSE queue[c]
    BY <1>7 DEF TrafficOK
  <2>4. \A c \in Bridges : \A f : Has(c, f)' <=> Has(c, f) \/ (c = b /\ f = m.frame)
    BY <1>1, <2>2, <2>3 DEF Has
  <2>5. \A c \in Bridges : \A f : Pending(c, f)' <=> Pending(c, f)
    BY <1>1, <1>4, <2>2, <2>3 DEF Pending
  <2>6. OriginInv'
    <3>1. \A t \in Starts : \A n \in Elements(inbox'[t]) : n.source = frames'[n.frame].origin
      BY <1>1, <1>5 DEF CopyInv, OriginInv
    <3>2. \A c \in Bridges : \A e \in Elements(queue'[c]) : e.notify <=> frames'[e.frame].origin = c
      <4>1. \A e \in Elements(queue'[b]) : e.notify <=> frames[e.frame].origin = b
        BY <1>1, <1>4, <2>1, <2>2, <2>3 DEF CopyInv, OriginInv
      <4> QED  BY <1>1, <2>3, <4>1 DEF CopyInv, OriginInv
    <3>3. \A c \in Bridges, f \in Frames :
            (Has(c, f) \/ Pending(c, f))' /\ frames'[f].origin = c => frames'[f].how = "hub"
      BY <1>1, <2>1, <2>4, <2>5 DEF CopyInv, OriginInv
    <3>4. \A c \in Bridges : work'[c].taps # {} =>
            frames'[work'[c].frame].origin = c /\ work'[c].frame \in Elements(log'[c])
      BY <1>1 DEF CopyInv, OriginInv
    <3> QED  BY <3>1, <3>2, <3>3, <3>4 DEF OriginInv
  <2>7. PlaceInv'
    <3>1. \A c \in Bridges : Once(queue'[c]) /\ FramesIn(queue'[c]) \cap Elements(log'[c]) = {}
      BY <1>1, <2>1, <2>2, <2>3 DEF CopyInv, PlaceInv, Has
    <3>2. ASSUME NEW t \in Starts, NEW n \in Elements(inbox'[t]), ~Own(t, n)
          PROVE  ~Has(Owner[t], n.frame)'
      <4>1. ~Has(Owner[t], n.frame) /\ Owner[t] \in Bridges
        BY <1>5, <3>2, RedisBridgeAssumption DEF CopyInv, PlaceInv
      <4>2. Owner[t] = b => n.frame # m.frame
        <5>1. Owner[t] = b => t = s
          BY DEF StartedOnce
        <5>2. m.frame \notin FramesIn(Tail(inbox[s]))
          BY <1>3 DEF CopyInv, PlaceInv
        <5> QED  BY <1>1, <3>2, <5>1, <5>2 DEF FramesIn
      <4> QED  BY <2>4, <4>1, <4>2
    <3> QED  BY <1>1, <1>5, <3>1, <3>2 DEF CopyInv, PlaceInv, Own
  <2>8. PendingInv'
    <3>1. \A c \in Bridges : ~Pending(c, m.frame)
      BY <1>3, <2>1 DEF CopyInv, PendingInv, FramesIn
    <3> QED  BY <1>5, <2>4, <2>5, <3>1 DEF CopyInv, PendingInv
  <2> QED  BY <2>6, <2>7, <2>8 DEF CopyInv
<1> QED  BY <1>1, <1>6, <1>7

LEMMA NextCopies ==
  ASSUME StartedOnce
  PROVE  TInv /\ TInv' /\ CopyInv /\ [Next]_vars => CopyInv'
<1> SUFFICES ASSUME TInv, TInv', CopyInv, [Next]_vars PROVE CopyInv'
  OBVIOUS
<1>1. TrafficOK /\ TrafficOK'
  BY DEF TInv, TypeOK
<1>2. CASE UNCHANGED <<inbox, hubs, frames>>
  BY <1>2, CopiesStay DEF hubs
<1>3. ASSUME NEW s \in Starts, Start(s) \/ Open(s) \/ TapPublished(s) \/ TapBroadcast(s) \/ Store(s)
                               \/ Cleanup(s) \/ Untap(s) \/ CloseClient(s) \/ Cancel(s) \/ Listen(s)
      PROVE  CopyInv'
  BY <1>2, <1>3 DEF Start, Open, TapPublished, TapBroadcast, Tap, Store, Cleanup, Untap, CloseClient,
                    Cancel, Listen, redis
<1>4. ASSUME NEW b \in Bridges, Stop(b) \/ StopCancel(b) \/ StopUntap(b) \/ StopCloseClient(b)
      PROVE  CopyInv'
  BY <1>2, <1>4 DEF Stop, StopCancel, StopUntap, StopCloseClient, redis
<1>5. ASSUME NEW s, inbox' = [inbox EXCEPT ![s] = << >>], UNCHANGED <<hubs, frames>>
      PROVE  CopyInv'
  <2>1. \A t \in Starts : inbox'[t] = inbox[t] \/ inbox'[t] = << >>
    BY <1>1, <1>5 DEF TrafficOK
  <2> QED  BY <1>5, <2>1, CopiesStay DEF hubs
<1>6. ASSUME NEW s \in Starts, Close(s) \/ ReceiveFail(s) PROVE CopyInv'
  BY <1>5, <1>6 DEF Close, ClosePubSub, ReceiveFail
<1>7. ASSUME NEW b \in Bridges, StopClose(b) PROVE CopyInv'
  BY <1>5, <1>7 DEF StopClose, ClosePubSub
<1>8. ASSUME NEW b \in Bridges, HubStops(b) PROVE CopyInv'
  <2>1. \A s \in Starts : inbox'[s] = inbox[s] \/ inbox'[s] = << >>
    BY <1>8 DEF HubStops, redis
  <2> QED  BY <1>8, <2>1, CopiesStay DEF HubStops
<1>9. ASSUME NEW s \in Starts, Receive(s) PROVE CopyInv'
  BY <1>9, CopiesReceived
<1>10. ASSUME NEW s \in Starts, Forward(s) PROVE CopyInv'
  BY <1>1, <1>10, CopiesForwarded
<1>11. ASSUME NEW b \in Bridges, Serve(b) PROVE CopyInv'
  BY <1>11, CopiesServed
<1>12. ASSUME NEW b \in Bridges, NEW k \in SentKinds, HubSend(b, k) \/ BridgeSend(b, k)
       PROVE  CopyInv'
  BY <1>1, <1>12, CopiesSentHub, CopiesSentBridge
<1>13. CASE UNCHANGED vars
  BY <1>2, <1>13 DEF vars, redis
<1> QED
  BY <1>3, <1>4, <1>6, <1>7, <1>8, <1>9, <1>10, <1>11, <1>12, <1>13 DEF Next, StartStep, StopStep

LEMMA CopiesAreFew == TInv /\ CopyInv => AtMostOnce
<1> SUFFICES ASSUME TInv, CopyInv, NEW b \in Bridges, NEW f \in DOMAIN frames
             PROVE  Count(f, log[b]) <=
                      IF frames[f].origin = b /\ frames[f].how = "bridge" THEN 0 ELSE 1
  BY DEF AtMostOnce
<1> DEFINE places == {i \in DOMAIN log[b] : log[b][i] = f}
<1>1. f \in Frames
  BY AllSent DEF TInv, TypeOK
<1>2. CASE places = {}
  <2>1. Count(f, log[b]) = 0
    BY <1>2, FS_EmptySet DEF Count
  <2> QED  BY <2>1
<1>3. CASE places # {}
  <2>1. PICK i \in places : TRUE
    BY <1>3
  <2>2. places = {i}
    BY <2>1 DEF CopyInv, PlaceInv, Injective
  <2>3. Count(f, log[b]) = 1
    BY <2>2, FS_Singleton DEF Count
  <2>4. frames[f].origin = b => frames[f].how = "hub"
    BY <1>1, <2>1 DEF CopyInv, OriginInv, Has, Elements
  <2> QED  BY <2>3, <2>4
<1> QED  BY <1>2, <1>3

\* While no bridge is started twice, no hub gets a frame twice, and none gets
\* back what its own bridge sent, whatever connections, bridges and hubs fail:
\* frames that went through Redis are not put there again.
THEOREM FramesReachOnce ==
  ASSUME StartedOnce
  PROVE  Spec => []AtMostOnce
BY InitTyped, NextTyped, InitCopies, NextCopies, CopiesAreFew, PTL DEF Spec
=============================================================================
