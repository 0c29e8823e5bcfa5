------------------------------ MODULE HubProofs ------------------------------
(* Theorems about the hub: the registry of its peers (HubPeers), for every  *)
(* set of peers, channels, callers and runners, every queue capacity and    *)
(* every bound on the calls; what its queries return (HubQueries); the      *)
(* registry it implements (HubPeersRefinement, PeerRegistry); and its       *)
(* configuration (HubConfig).                                               *)
EXTENDS HubQueries, HubPeersRefinement, HubConfig, TLAPS, FiniteSetTheorems

-----------------------------------------------------------------------------
(* Type correctness.                                                        *)

\* An agent inside an operation has a peer in hand.
LEMMA ArgIsPeer ==
  ASSUME TypeOK, NEW a \in Agents, pc[a] # "idle"
  PROVE  arg[a] \in Peers
BY DEF TypeOK

\* The part of TypeOK that Goto and Return touch.
PlaceOK ==
  /\ pc \in [Agents -> Places] /\ arg \in [Agents -> Peers \cup {NoPeer}]
  /\ \A a \in Agents : arg[a] = NoPeer <=> pc[a] = "idle"

\* Goto keeps the types of pc and arg, and the bond between them.
LEMMA GotoType ==
  ASSUME TypeOK, NEW a \in Agents, NEW l \in Places, NEW p \in Peers \cup {NoPeer},
         p = NoPeer <=> l = "idle", Goto(a, l, p)
  PROVE  PlaceOK'
BY DEF TypeOK, Goto, PlaceOK

LEMMA ReturnType ==
  ASSUME TypeOK, NEW a \in Agents, Return(a)
  PROVE  PlaceOK'
BY GotoType DEF Return, Places

\* ChannelsWithout only drops peers from entries and entries from the map.
LEMMA ChannelsWithoutType ==
  ASSUME TypeOK, NEW p, NEW cs
  PROVE  /\ DOMAIN ChannelsWithout(p, cs) \subseteq Channels
         /\ \A ch \in DOMAIN ChannelsWithout(p, cs) :
              ChannelsWithout(p, cs)[ch] \subseteq Peers
BY DEF TypeOK, ChannelsWithout

LEMMA TypeInit == Init => TypeOK
<1> SUFFICES ASSUME Init PROVE TypeOK
  OBVIOUS
<1> USE HubPeersAssumption DEF Init
<1>1. DOMAIN channels = {}
  OBVIOUS
<1>2. /\ register \in Seq(Peers) /\ Len(register) <= QueueCap
      /\ unregister \in Seq(Peers) /\ Len(unregister) <= QueueCap
  OBVIOUS
<1>3. /\ adds \in [Peers -> 0 .. MaxCalls] /\ removes \in [Peers -> 0 .. MaxCalls]
      /\ connects \in [Peers -> Nat] /\ disconnects \in [Peers -> Nat]
  OBVIOUS
<1>4. /\ pc \in [Agents -> Places] /\ arg \in [Agents -> Peers \cup {NoPeer}]
      /\ \A a \in Agents : arg[a] = NoPeer <=> pc[a] = "idle"
  BY DEF Places
<1>5. /\ phase \in [Runners -> Phases] /\ drain \in [Runners -> SUBSET Peers]
      /\ snapshot \in [Runners -> SUBSET Peers]
      /\ subscriptions \in [Peers -> SUBSET Channels]
      /\ lastCall \in [Peers -> {"none", "AddPeer", "RemovePeer", "SubscribePeer"}]
  BY DEF Phases
<1> QED
  BY <1>1, <1>2, <1>3, <1>4, <1>5 DEF TypeOK

LEMMA TypeStep == TypeOK /\ [Next]_vars => TypeOK'
<1> SUFFICES ASSUME TypeOK, [Next]_vars PROVE TypeOK'
  OBVIOUS
<1> USE HubPeersAssumption DEF registry, queues, runState, calls, hooks, At
<1>1. ASSUME NEW c \in Callers, NEW p \in Peers, AddPeer(c, p) PROVE TypeOK'
  <2>1. PlaceOK'
    <3>1. c \in Agents BY DEF Agents
    <3>2. CASE running BY <1>1, <3>1, <3>2, GotoType DEF AddPeer, Places
    <3>3. CASE ~running BY <1>1, <3>1, <3>3, GotoType DEF AddPeer, Places
    <3> QED BY <3>2, <3>3
  <2>2. adds' \in [Peers -> 0 .. MaxCalls] BY <1>1 DEF AddPeer, TypeOK
  <2> QED BY <1>1, <2>1, <2>2 DEF AddPeer, TypeOK, PlaceOK
<1>2. ASSUME NEW c \in Callers, NEW p \in Peers, RemovePeer(c, p) PROVE TypeOK'
  <2>1. PlaceOK'
    <3>1. c \in Agents BY DEF Agents
    <3>2. CASE running BY <1>2, <3>1, <3>2, GotoType DEF RemovePeer, Places
    <3>3. CASE ~running BY <1>2, <3>1, <3>3, GotoType DEF RemovePeer, Places
    <3> QED BY <3>2, <3>3
  <2>2. removes' \in [Peers -> 0 .. MaxCalls] BY <1>2 DEF RemovePeer, TypeOK
  <2> QED BY <1>2, <2>1, <2>2 DEF RemovePeer, TypeOK, PlaceOK
<1>3. ASSUME NEW c \in Callers, NEW p \in Peers, PeerClose(c, p) PROVE TypeOK'
  BY <1>3 DEF PeerClose, TypeOK
<1>4. ASSUME NEW c \in Callers, NEW p \in Peers, NEW ch \in Channels, SubscribePeer(c, p, ch)
      PROVE  TypeOK'
  BY <1>4 DEF SubscribePeer, TypeOK, Subscribers
<1>5. ASSUME NEW c \in Callers, NEW p \in Peers, NEW ch \in Channels, UnsubscribePeer(c, p, ch)
      PROVE  TypeOK'
  BY <1>5, ChannelsWithoutType DEF UnsubscribePeer, TypeOK
<1>6. ASSUME NEW a \in Agents, QueueRegister(a) PROVE TypeOK'
  <2>1. PlaceOK' BY <1>6, ReturnType DEF QueueRegister
  <2>2. arg[a] \in Peers BY <1>6, ArgIsPeer DEF QueueRegister
  <2>3. register' \in Seq(Peers) /\ Len(register') <= QueueCap
    BY <1>6, <2>2 DEF QueueRegister, TypeOK
  <2> QED BY <1>6, <2>1, <2>3 DEF QueueRegister, TypeOK, PlaceOK
<1>7. ASSUME NEW a \in Agents, RegisterFull(a) PROVE TypeOK'
  <2>1. arg[a] \in Peers BY <1>7, ArgIsPeer DEF RegisterFull
  <2>2. PlaceOK' BY <1>7, <2>1, GotoType, HubPeersAssumption DEF RegisterFull, Places
  <2> QED BY <1>7, <2>2 DEF RegisterFull, TypeOK, PlaceOK
<1>8. ASSUME NEW a \in Agents, QueueUnregister(a) PROVE TypeOK'
  <2>1. PlaceOK' BY <1>8, ReturnType DEF QueueUnregister
  <2>2. arg[a] \in Peers BY <1>8, ArgIsPeer DEF QueueUnregister
  <2>3. unregister' \in Seq(Peers) /\ Len(unregister') <= QueueCap
    BY <1>8, <2>2 DEF QueueUnregister, TypeOK
  <2> QED BY <1>8, <2>1, <2>3 DEF QueueUnregister, TypeOK, PlaceOK
<1>9. ASSUME NEW a \in Agents, UnregisterFull(a) PROVE TypeOK'
  <2>1. arg[a] \in Peers BY <1>9, ArgIsPeer DEF UnregisterFull
  <2>2. PlaceOK' BY <1>9, <2>1, GotoType, HubPeersAssumption DEF UnregisterFull, Places
  <2> QED BY <1>9, <2>2 DEF UnregisterFull, TypeOK, PlaceOK
<1>10. ASSUME NEW a \in Agents, addPeer(a) PROVE TypeOK'
  <2>1. arg[a] \in Peers BY <1>10, ArgIsPeer DEF addPeer
  <2>2. PlaceOK' BY <2>1, <1>10, ReturnType, GotoType DEF addPeer, Places
  <2> QED BY <1>10, <2>1, <2>2 DEF addPeer, TypeOK, PlaceOK
<1>11. ASSUME NEW a \in Agents, OnConnect(a) PROVE TypeOK'
  <2>1. PlaceOK' BY <1>11, ReturnType DEF OnConnect
  <2>2. connects' \in [Peers -> Nat] BY <1>11 DEF OnConnect, TypeOK
  <2> QED BY <1>11, <2>1, <2>2 DEF OnConnect, TypeOK, PlaceOK
<1>12. ASSUME NEW a \in Agents, removePeer(a) PROVE TypeOK'
  <2>1. arg[a] \in Peers BY <1>12, ArgIsPeer DEF removePeer
  <2>2. PlaceOK' BY <2>1, <1>12, ReturnType, GotoType DEF removePeer, Places
  <2>3. /\ DOMAIN channels' \subseteq Channels
        /\ \A ch \in DOMAIN channels' : channels'[ch] \subseteq Peers
        /\ subscriptions' \in [Peers -> SUBSET Channels]
        /\ peers' \subseteq Peers
    <3>1. CASE UNCHANGED registry BY <3>1 DEF TypeOK
    <3>2. CASE channels' = ChannelsWithout(arg[a], DOMAIN channels)
               /\ subscriptions' = [subscriptions EXCEPT ![arg[a]] = {}]
               /\ peers' = peers \ {arg[a]}
      <4>1. /\ DOMAIN channels' \subseteq Channels
            /\ \A ch \in DOMAIN channels' : channels'[ch] \subseteq Peers
        BY <3>2, ChannelsWithoutType
      <4> QED BY <3>2, <4>1 DEF TypeOK
    <3> QED BY <1>12, <3>1, <3>2 DEF removePeer
  <2> QED BY <1>12, <2>2, <2>3 DEF removePeer, TypeOK, PlaceOK
<1>13. ASSUME NEW a \in Agents, Close(a) PROVE TypeOK'
  <2>1. arg[a] \in Peers BY <1>13, ArgIsPeer DEF Close
  <2>2. PlaceOK' BY <1>13, <2>1, GotoType DEF Close, Places
  <2> QED BY <1>13, <2>1, <2>2 DEF Close, TypeOK, PlaceOK
<1>14. ASSUME NEW a \in Agents, OnDisconnect(a) PROVE TypeOK'
  <2>1. PlaceOK' BY <1>14, ReturnType DEF OnDisconnect
  <2>2. disconnects' \in [Peers -> Nat] BY <1>14 DEF OnDisconnect, TypeOK
  <2> QED BY <1>14, <2>1, <2>2 DEF OnDisconnect, TypeOK, PlaceOK
<1>15. ASSUME NEW r \in Runners, Run(r) PROVE TypeOK'
  BY <1>15 DEF Run, TypeOK, Phases
<1>16. ASSUME NEW r \in Runners, Cancel(r) PROVE TypeOK'
  BY <1>16 DEF Cancel, TypeOK
<1>17. ASSUME NEW r \in Runners, ServeRegister(r) PROVE TypeOK'
  <2>1. r \in Agents BY DEF Agents
  <2>2. /\ Head(register) \in Peers /\ Tail(register) \in Seq(Peers)
        /\ Len(Tail(register)) <= QueueCap
    BY <1>17 DEF ServeRegister, TypeOK
  <2>3. PlaceOK' BY <1>17, <2>1, <2>2, GotoType DEF ServeRegister, Places
  <2> QED BY <1>17, <2>2, <2>3 DEF ServeRegister, TypeOK, PlaceOK
<1>18. ASSUME NEW r \in Runners, ServeUnregister(r) PROVE TypeOK'
  <2>1. r \in Agents BY DEF Agents
  <2>2. /\ Head(unregister) \in Peers /\ Tail(unregister) \in Seq(Peers)
        /\ Len(Tail(unregister)) <= QueueCap
    BY <1>18 DEF ServeUnregister, TypeOK
  <2>3. PlaceOK' BY <1>18, <2>1, <2>2, GotoType DEF ServeUnregister, Places
  <2> QED BY <1>18, <2>2, <2>3 DEF ServeUnregister, TypeOK, PlaceOK
<1>19. ASSUME NEW r \in Runners, StopLoop(r) PROVE TypeOK'
  BY <1>19 DEF StopLoop, TypeOK, Phases
<1>20. ASSUME NEW r \in Runners, DrainPeer(r) PROVE TypeOK'
  <2>1. r \in Agents BY DEF Agents
  <2>2. PICK p \in drain[r] : Goto(r, "removePeer", p) /\ drain' = [drain EXCEPT ![r] = @ \ {p}]
    BY <1>20 DEF DrainPeer
  <2>3. p \in Peers BY DEF TypeOK
  <2>4. PlaceOK' BY <2>1, <2>2, <2>3, GotoType DEF Places
  <2> QED BY <1>20, <2>2, <2>4 DEF DrainPeer, TypeOK, PlaceOK
<1>21. ASSUME NEW r \in Runners, FinishRun(r) PROVE TypeOK'
  BY <1>21 DEF FinishRun, TypeOK, Phases
<1>22. CASE UNCHANGED vars
  BY <1>22 DEF vars, TypeOK
<1> QED
  BY <1>1, <1>2, <1>3, <1>4, <1>5, <1>6, <1>7, <1>8, <1>9, <1>10, <1>11, <1>12,
     <1>13, <1>14, <1>15, <1>16, <1>17, <1>18, <1>19, <1>20, <1>21, <1>22
     DEF Next, Call, RunnerStep, Continue

\* Every variable keeps its type, and neither queue outgrows its capacity,
\* with any number of goroutines in AddPeer, RemovePeer and Run.
THEOREM TypeCorrect == Spec => []TypeOK
<1>1. QED
  BY TypeInit, TypeStep, PTL DEF Spec

-----------------------------------------------------------------------------
(* The event loop is single.                                                *)

\* Only Run, StopLoop and FinishRun write hub.running or a runner's phase.
LEMMA LoopFrame ==
  ASSUME [Next]_vars
  PROVE  \/ UNCHANGED <<running, phase>>
         \/ \E r \in Runners : Run(r) \/ StopLoop(r) \/ FinishRun(r)
BY DEF Next, Call, RunnerStep, Continue, vars, runState, AddPeer, RemovePeer, PeerClose,
       SubscribePeer, UnsubscribePeer, QueueRegister, RegisterFull, QueueUnregister,
       UnregisterFull, addPeer, OnConnect, removePeer, Close, OnDisconnect, Cancel,
       ServeRegister, ServeUnregister, DrainPeer

LEMMA OneEventLoopStep == TypeOK /\ OneEventLoop /\ [Next]_vars => OneEventLoop'
<1> SUFFICES ASSUME TypeOK, OneEventLoop, [Next]_vars PROVE OneEventLoop'
  OBVIOUS
<1>1. phase \in [Runners -> Phases] /\ running \in BOOLEAN
  BY DEF TypeOK
<1>2. CASE UNCHANGED <<running, phase>>
  BY <1>2 DEF OneEventLoop
<1>3. ASSUME NEW r \in Runners, Run(r) PROVE OneEventLoop'
  <2>1. CASE running
    BY <1>1, <1>3, <2>1 DEF Run, OneEventLoop
  <2>2. CASE ~running
    BY <1>1, <1>3, <2>2 DEF Run, OneEventLoop
  <2> QED BY <2>1, <2>2
<1>4. ASSUME NEW r \in Runners, StopLoop(r) PROVE OneEventLoop'
  BY <1>1, <1>4 DEF StopLoop, Selecting, OneEventLoop
<1>5. ASSUME NEW r \in Runners, FinishRun(r) PROVE OneEventLoop'
  BY <1>1, <1>5 DEF FinishRun, OneEventLoop
<1> QED
  BY <1>2, <1>3, <1>4, <1>5, LoopFrame

\* hub.running says whether a goroutine is in the event loop, and never two
\* are: the check at the head of Run holds across overlapping and repeated runs.
THEOREM LoopIsSingle == Spec => []OneEventLoop
<1>1. Init => OneEventLoop
  BY DEF Init, OneEventLoop
<1>2. QED
  BY <1>1, OneEventLoopStep, TypeCorrect, PTL DEF Spec

-----------------------------------------------------------------------------
(* hub.channels mirrors the peers' subscriptions.                           *)

RegistryInv == SubscriptionMirror /\ NoEmptyChannel

\* Only SubscribePeer, UnsubscribePeer and removePeer write hub.channels or a
\* peer's subscriptions.
LEMMA RegistryFrame ==
  ASSUME [Next]_vars
  PROVE  \/ UNCHANGED <<channels, subscriptions>>
         \/ \E a \in Agents : removePeer(a)
         \/ \E c \in Callers, p \in Peers, ch \in Channels :
              SubscribePeer(c, p, ch) \/ UnsubscribePeer(c, p, ch)
BY DEF Next, Call, RunnerStep, Continue, vars, registry, AddPeer, RemovePeer, PeerClose,
       QueueRegister, RegisterFull, QueueUnregister, UnregisterFull, addPeer,
       OnConnect, Close, OnDisconnect, Run, StopLoop, FinishRun, Cancel,
       ServeRegister, ServeUnregister, DrainPeer

\* ChannelsWithout takes the peer out of the entries named, leaves every other
\* subscriber where it was, and leaves no entry empty.
LEMMA ChannelsWithoutSubscribers ==
  ASSUME TypeOK, NoEmptyChannel, NEW p \in Peers, NEW cs,
         channels' = ChannelsWithout(p, cs)
  PROVE  /\ NoEmptyChannel'
         /\ \A q \in Peers, ch \in Channels :
              q \in Subscribers(ch)' <=>
                q \in Subscribers(ch) /\ ~(q = p /\ ch \in cs)
<1>1. \A ch : ch \in DOMAIN channels' <=>
               /\ ch \in DOMAIN channels
               /\ ch \in cs => channels[ch] \ {p} # {}
  BY DEF ChannelsWithout
<1>2. \A ch \in DOMAIN channels' :
        channels'[ch] = IF ch \in cs THEN channels[ch] \ {p} ELSE channels[ch]
  BY DEF ChannelsWithout
<1>3. NoEmptyChannel'
  BY <1>1, <1>2 DEF NoEmptyChannel
<1>4. ASSUME NEW q \in Peers, NEW ch \in Channels
      PROVE  q \in Subscribers(ch)' <=> q \in Subscribers(ch) /\ ~(q = p /\ ch \in cs)
  BY <1>1, <1>2 DEF Subscribers
<1> QED BY <1>3, <1>4

LEMMA RegistryStep == TypeOK /\ RegistryInv /\ [Next]_vars => RegistryInv'
<1> SUFFICES ASSUME TypeOK, RegistryInv, [Next]_vars PROVE RegistryInv'
  OBVIOUS
<1> USE DEF RegistryInv
<1>0. subscriptions \in [Peers -> SUBSET Channels]
  BY DEF TypeOK
<1>1. CASE UNCHANGED <<channels, subscriptions>>
  BY <1>1 DEF SubscriptionMirror, NoEmptyChannel, Subscribers
<1>2. ASSUME NEW a \in Agents, removePeer(a) PROVE RegistryInv'
  <2>1. CASE UNCHANGED registry
    BY <1>1, <2>1 DEF registry
  <2>2. CASE /\ channels' = ChannelsWithout(arg[a], DOMAIN channels)
             /\ subscriptions' = [subscriptions EXCEPT ![arg[a]] = {}]
    <3>1. arg[a] \in Peers
      BY <1>2, ArgIsPeer DEF removePeer, At
    <3>2. /\ NoEmptyChannel'
          /\ \A q \in Peers, ch \in Channels :
               q \in Subscribers(ch)' <=>
                 q \in Subscribers(ch) /\ ~(q = arg[a] /\ ch \in DOMAIN channels)
      BY <2>2, <3>1, ChannelsWithoutSubscribers
    <3>3. \A q \in Peers, ch \in Channels :
            q \in Subscribers(ch)' <=> q \in Subscribers(ch) /\ q # arg[a]
      BY <3>2 DEF Subscribers
    <3> QED BY <1>0, <2>2, <3>1, <3>2, <3>3 DEF SubscriptionMirror
  <2> QED BY <1>2, <2>1, <2>2 DEF removePeer
<1>3. ASSUME NEW c \in Callers, NEW p \in Peers, NEW ch \in Channels, SubscribePeer(c, p, ch)
      PROVE  RegistryInv'
  <2>1. DOMAIN channels' = DOMAIN channels \cup {ch}
    BY <1>3 DEF SubscribePeer
  <2>2. \A x \in DOMAIN channels' :
          channels'[x] = IF x = ch THEN Subscribers(ch) \cup {p} ELSE channels[x]
    BY <1>3 DEF SubscribePeer
  <2>3. NoEmptyChannel'
    BY <2>1, <2>2 DEF NoEmptyChannel
  <2>4. \A q \in Peers, x \in Channels :
          q \in Subscribers(x)' <=> q \in Subscribers(x) \/ (q = p /\ x = ch)
    BY <2>1, <2>2 DEF Subscribers
  <2>5. \A q \in Peers, x \in Channels :
          x \in subscriptions'[q] <=> x \in subscriptions[q] \/ (q = p /\ x = ch)
    BY <1>0, <1>3 DEF SubscribePeer
  <2> QED BY <2>3, <2>4, <2>5 DEF SubscriptionMirror
<1>4. ASSUME NEW c \in Callers, NEW p \in Peers, NEW ch \in Channels, UnsubscribePeer(c, p, ch)
      PROVE  RegistryInv'
  <2>1. /\ NoEmptyChannel'
        /\ \A q \in Peers, x \in Channels :
             q \in Subscribers(x)' <=> q \in Subscribers(x) /\ ~(q = p /\ x \in {ch})
    BY <1>4, ChannelsWithoutSubscribers DEF UnsubscribePeer
  <2>2. \A q \in Peers, x \in Channels :
          x \in subscriptions'[q] <=> x \in subscriptions[q] /\ ~(q = p /\ x = ch)
    BY <1>0, <1>4 DEF UnsubscribePeer
  <2> QED BY <2>1, <2>2 DEF SubscriptionMirror
<1> QED
  BY <1>1, <1>2, <1>3, <1>4, RegistryFrame

LEMMA RegistryInvariant == Spec => []RegistryInv
<1>1. Init => RegistryInv
  BY DEF Init, RegistryInv, SubscriptionMirror, NoEmptyChannel, Subscribers
<1>2. QED
  BY <1>1, RegistryStep, TypeCorrect, PTL DEF Spec

\* The channel index and the peers' own subscription sets are each other's
\* inverse, whatever goroutines subscribe, unsubscribe and remove.
THEOREM IndexMirrorsPeers == Spec => []SubscriptionMirror
<1>1. RegistryInv => SubscriptionMirror
  BY DEF RegistryInv
<1>2. QED
  BY <1>1, RegistryInvariant, PTL

\* hub.channels never holds an entry without subscribers.
THEOREM IndexHasNoDeadEntry == Spec => []NoEmptyChannel
<1>1. RegistryInv => NoEmptyChannel
  BY DEF RegistryInv
<1>2. QED
  BY <1>1, RegistryInvariant, PTL

-----------------------------------------------------------------------------
(* Removal.                                                                 *)

\* A peer leaves hub.peers only in removePeer, and addPeer is the only step
\* that takes one in.
LEMMA PeersFrame ==
  ASSUME [Next]_vars
  PROVE  UNCHANGED peers \/ \E a \in Agents : removePeer(a) \/ addPeer(a)
BY DEF Next, Call, RunnerStep, Continue, vars, registry, AddPeer, RemovePeer, PeerClose,
       SubscribePeer, UnsubscribePeer, QueueRegister, RegisterFull, QueueUnregister,
       UnregisterFull, OnConnect, Close, OnDisconnect, Run, StopLoop, FinishRun, Cancel,
       ServeRegister, ServeUnregister, DrainPeer

\* The step that takes a peer out of the registry takes it out of every
\* channel: no publisher finds it through hub.channels after that.
THEOREM RemovalCompletes == Spec => RemovalIsComplete
<1>1. TypeOK /\ [Next]_vars
        => [\A p \in Peers : p \in peers /\ p \notin peers' =>
              \A ch \in DOMAIN channels' : p \notin channels'[ch]]_vars
  <2> SUFFICES ASSUME TypeOK, [Next]_vars, NEW p \in Peers, p \in peers, p \notin peers',
                      NEW ch \in DOMAIN channels'
               PROVE  p \notin channels'[ch]
    OBVIOUS
  <2>1. PICK a \in Agents : removePeer(a)
    BY PeersFrame DEF addPeer
  <2>2. arg[a] = p /\ channels' = ChannelsWithout(p, DOMAIN channels)
    BY <2>1 DEF removePeer, registry
  <2> QED BY <2>2 DEF ChannelsWithout
<1>2. QED
  BY <1>1, TypeCorrect, PTL DEF Spec, RemovalIsComplete

-----------------------------------------------------------------------------
(* Closing.                                                                 *)

\* The send queue of p is closed, or an agent that removed p is about to.
Gone(p) == p \in closed \/ \E a \in Agents : pc[a] = "close" /\ arg[a] = p

\* What a step does to the place of an agent: one agent moves, and it is in
\* Close that it leaves the place "close".
LEMMA GoneIsStable ==
  ASSUME TypeOK, [Next]_vars, NEW p \in Peers, Gone(p)
  PROVE  Gone(p)'
<1> USE DEF Gone, Goto, Return, At
<1>1. closed \subseteq closed'
  BY DEF Next, Call, RunnerStep, Continue, vars, AddPeer, RemovePeer, PeerClose,
       SubscribePeer, UnsubscribePeer, QueueRegister, RegisterFull, QueueUnregister,
       UnregisterFull, addPeer, OnConnect, removePeer, Close, OnDisconnect, Run, StopLoop,
       FinishRun, Cancel, ServeRegister, ServeUnregister, DrainPeer
<1>2. ASSUME NEW a \in Agents, pc[a] = "close", arg[a] = p
      PROVE  (pc'[a] = "close" /\ arg'[a] = p) \/ p \in closed'
  <2>0. pc \in [Agents -> Places] /\ arg \in [Agents -> Peers \cup {NoPeer}]
    BY DEF TypeOK
  <2>1. CASE UNCHANGED vars
    BY <1>2, <2>1 DEF vars
  <2>2. ASSUME NEW c \in Callers, Call(c)
        PROVE  pc'[a] = "close" /\ arg'[a] = p
    BY <1>2, <2>0, <2>2 DEF Call, AddPeer, RemovePeer, PeerClose, SubscribePeer,
       UnsubscribePeer
  <2>3. ASSUME NEW r \in Runners, RunnerStep(r)
        PROVE  pc'[a] = "close" /\ arg'[a] = p
    BY <1>2, <2>0, <2>3 DEF RunnerStep, Run, StopLoop, FinishRun, Cancel, Selecting,
       ServeRegister, ServeUnregister, DrainPeer
  <2>4. ASSUME NEW b \in Agents, Continue(b)
        PROVE  (pc'[a] = "close" /\ arg'[a] = p) \/ p \in closed'
    BY <1>2, <2>0, <2>4 DEF Continue, QueueRegister, RegisterFull, QueueUnregister,
       UnregisterFull, addPeer, OnConnect, removePeer, Close, OnDisconnect
  <2> QED BY <2>1, <2>2, <2>3, <2>4 DEF Next
<1> QED
  BY <1>1, <1>2

\* A peer that leaves the registry is about to be closed.
LEMMA RemovedIsGone ==
  ASSUME TypeOK, [Next]_vars, NEW p \in Peers, p \in peers, p \notin peers'
  PROVE  Gone(p)'
<1>1. PICK a \in Agents : removePeer(a)
  BY PeersFrame DEF addPeer
<1>2. arg[a] = p /\ Goto(a, "close", p)
  BY <1>1 DEF removePeer, registry
<1>3. pc'[a] = "close" /\ arg'[a] = p
  BY <1>2 DEF Goto, TypeOK
<1> QED
  BY <1>3 DEF Gone

\* A runner's shutdown list: empty before the shutdown; afterwards each peer on
\* it is registered or gone, and is still listed, in hand, or gone.
ListInv(r) ==
  /\ phase[r] \in {"new", "looping"} => snapshot[r] = {}
  /\ \A p \in snapshot[r] : p \in peers \/ Gone(p)
  /\ \A p \in snapshot[r] :
       \/ p \in drain[r]
       \/ pc[r] = "removePeer" /\ arg[r] = p
       \/ Gone(p)
  /\ phase[r] = "returned" => \A p \in snapshot[r] : Gone(p)

ShutdownInv == \A r \in Runners : ListInv(r)

\* What another agent's step leaves alone of a runner.
RunnerStill(r) == UNCHANGED <<phase[r], snapshot[r], drain[r], pc[r], arg[r]>>

\* A runner is left alone, or makes one of the steps that follow, or moves its
\* phase with an empty list, or works on a list that stays what it is.
LEMMA RunnerFrame ==
  ASSUME TypeOK, [Next]_vars, NEW r \in Runners
  PROVE  \/ RunnerStill(r)
         \/ Run(r) \/ StopLoop(r) \/ DrainPeer(r) \/ FinishRun(r) \/ removePeer(r)
         \/ /\ UNCHANGED <<phase[r], snapshot[r], drain[r]>>
            /\ pc[r] # "removePeer"
<1> USE DEF Goto, Return, At, runState
<1>0. /\ r \in Agents /\ pc \in [Agents -> Places]
      /\ arg \in [Agents -> Peers \cup {NoPeer}]
      /\ phase \in [Runners -> Phases] /\ drain \in [Runners -> SUBSET Peers]
      /\ snapshot \in [Runners -> SUBSET Peers]
  BY DEF TypeOK, Agents
<1>1. CASE UNCHANGED vars
  BY <1>1 DEF vars, RunnerStill
<1>2. ASSUME NEW c \in Callers, Call(c) PROVE RunnerStill(r)
  <2>1. c # r /\ c \in Agents
    BY HubPeersAssumption DEF Agents
  <2> QED
    BY <1>0, <1>2, <2>1 DEF RunnerStill, Call, AddPeer, RemovePeer, PeerClose, SubscribePeer,
       UnsubscribePeer
<1>3. ASSUME NEW s \in Runners, RunnerStep(s), s # r PROVE RunnerStill(r)
  BY <1>0, <1>3 DEF RunnerStill, RunnerStep, Run, StopLoop, FinishRun, Cancel, Selecting,
     ServeRegister, ServeUnregister, DrainPeer
<1>4. CASE RunnerStep(r)
  BY <1>0, <1>4 DEF RunnerStill, RunnerStep, Cancel, Selecting, ServeRegister, ServeUnregister
<1>5. ASSUME NEW b \in Agents, Continue(b), b # r PROVE RunnerStill(r)
  BY <1>0, <1>5 DEF RunnerStill, Continue, QueueRegister, RegisterFull, QueueUnregister,
     UnregisterFull, addPeer, OnConnect, removePeer, Close, OnDisconnect
<1>6. CASE Continue(r)
  BY <1>0, <1>6 DEF Continue, QueueRegister, RegisterFull, QueueUnregister,
     UnregisterFull, addPeer, OnConnect, Close, OnDisconnect
<1> QED
  BY <1>1, <1>2, <1>3, <1>4, <1>5, <1>6 DEF Next

LEMMA ShutdownInit == Init => ShutdownInv
BY DEF Init, ShutdownInv, ListInv

LEMMA ShutdownStep == TypeOK /\ ShutdownInv /\ [Next]_vars => ShutdownInv'
<1> SUFFICES ASSUME TypeOK, ShutdownInv, [Next]_vars, NEW r \in Runners
             PROVE  ListInv(r)'
  BY DEF ShutdownInv
<1>0. /\ r \in Agents /\ pc \in [Agents -> Places]
      /\ arg \in [Agents -> Peers \cup {NoPeer}]
      /\ phase \in [Runners -> Phases] /\ drain \in [Runners -> SUBSET Peers]
      /\ snapshot \in [Runners -> SUBSET Peers] /\ peers \subseteq Peers
  BY DEF TypeOK, Agents
<1>1. ListInv(r)
  BY DEF ShutdownInv
<1>2. \A p \in Peers : Gone(p) => Gone(p)'
  BY GoneIsStable
<1>3. \A p \in Peers : p \in peers /\ p \notin peers' => Gone(p)'
  BY RemovedIsGone
<1>4. ASSUME snapshot'[r] = snapshot[r]
      PROVE  \A p \in snapshot'[r] : p \in peers' \/ Gone(p)'
  BY <1>0, <1>1, <1>2, <1>3, <1>4 DEF ListInv
<1>5. CASE RunnerStill(r)
  BY <1>0, <1>1, <1>2, <1>4, <1>5 DEF ListInv, RunnerStill
<1>6. CASE /\ UNCHANGED <<phase[r], snapshot[r], drain[r]>>
           /\ pc[r] # "removePeer"
  BY <1>0, <1>1, <1>2, <1>4, <1>6 DEF ListInv
<1>7. CASE Run(r)
  <2>1. snapshot'[r] = {}
    BY <1>1, <1>7 DEF Run, ListInv
  <2> QED BY <2>1 DEF ListInv
<1>8. CASE StopLoop(r)
  <2>1. /\ snapshot'[r] = peers /\ drain'[r] = peers /\ peers' = peers
        /\ phase'[r] = "draining"
    BY <1>0, <1>8 DEF StopLoop, registry
  <2> QED BY <2>1 DEF ListInv
<1>9. CASE DrainPeer(r)
  <2>1. PICK p \in drain[r] : /\ drain'[r] = drain[r] \ {p}
                              /\ pc'[r] = "removePeer" /\ arg'[r] = p
    BY <1>0, <1>9 DEF DrainPeer, Goto
  <2>2. UNCHANGED <<phase, snapshot>> /\ pc[r] = "idle" /\ phase[r] = "draining"
    BY <1>9 DEF DrainPeer, At
  <2> QED BY <1>0, <1>1, <1>2, <1>4, <2>1, <2>2 DEF ListInv
<1>10. CASE FinishRun(r)
  <2>1. /\ drain[r] = {} /\ pc[r] = "idle" /\ phase[r] = "draining"
        /\ UNCHANGED <<snapshot, drain>> /\ phase'[r] = "returned"
    BY <1>0, <1>10 DEF FinishRun, At
  <2>2. \A p \in snapshot'[r] : Gone(p)'
    BY <1>0, <1>1, <1>2, <2>1 DEF ListInv
  <2> QED BY <2>1, <2>2 DEF ListInv
<1>11. CASE removePeer(r)
  <2>1. UNCHANGED <<phase, snapshot, drain>>
    BY <1>11 DEF removePeer, runState
  <2>2. ASSUME NEW p \in snapshot[r], p = arg[r] PROVE Gone(p)'
    <3>1. p \in Peers
      BY <1>0
    <3>2. CASE p \in peers
      <4>1. p \notin peers'
        BY <1>11, <2>2, <3>2 DEF removePeer
      <4> QED BY <1>3, <3>1, <3>2, <4>1
    <3>3. CASE p \notin peers
      BY <1>1, <1>2, <3>1, <3>3 DEF ListInv
    <3> QED BY <3>2, <3>3
  <2>3. pc[r] = "removePeer"
    BY <1>11 DEF removePeer, At
  <2>4. \A p \in snapshot'[r] : p \in drain'[r] \/ Gone(p)'
    BY <1>0, <1>1, <1>2, <2>1, <2>2, <2>3 DEF ListInv
  <2>5. phase'[r] = "returned" => \A p \in snapshot'[r] : Gone(p)'
    BY <1>0, <1>1, <1>2, <2>1 DEF ListInv
  <2>6. phase'[r] \in {"new", "looping"} => snapshot'[r] = {}
    BY <1>1, <2>1 DEF ListInv
  <2> QED BY <1>4, <2>1, <2>4, <2>5, <2>6 DEF ListInv
<1> QED
  BY <1>5, <1>6, <1>7, <1>8, <1>9, <1>10, <1>11, RunnerFrame

\* When Run returns, each peer that was registered when the loop stopped is
\* closed, or a concurrent removal that beat the shutdown is about to close it.
THEOREM ShutdownClosesAll == Spec => []ShutdownCloses
<1>1. Init => ShutdownInv
  BY ShutdownInit
<1>2. ShutdownInv => ShutdownCloses
  BY DEF ShutdownInv, ListInv, ShutdownCloses, Gone, Working
<1>3. QED
  BY <1>1, <1>2, ShutdownStep, TypeCorrect, PTL DEF Spec

-----------------------------------------------------------------------------
(* A peer is closed before OnDisconnect is called for it.                   *)

ClosedInv ==
  /\ \A p \in Peers : disconnects[p] > 0 => p \in closed
  /\ \A a \in Agents : pc[a] = "onDisconnect" => arg[a] \in closed

LEMMA ClosedStep == TypeOK /\ ClosedInv /\ [Next]_vars => ClosedInv'
<1> SUFFICES ASSUME TypeOK, ClosedInv, [Next]_vars PROVE ClosedInv'
  OBVIOUS
<1> USE DEF Goto, Return, At, hooks
<1>0. /\ pc \in [Agents -> Places] /\ arg \in [Agents -> Peers \cup {NoPeer}]
      /\ disconnects \in [Peers -> Nat] /\ Callers \subseteq Agents /\ Runners \subseteq Agents
  BY DEF TypeOK, Agents
<1>1. CASE UNCHANGED vars
  BY <1>1 DEF vars, ClosedInv
<1>2. ASSUME NEW c \in Callers, Call(c) PROVE ClosedInv'
  BY <1>0, <1>2 DEF ClosedInv, Call, AddPeer, RemovePeer, PeerClose, SubscribePeer,
     UnsubscribePeer
<1>3. ASSUME NEW r \in Runners, RunnerStep(r) PROVE ClosedInv'
  BY <1>0, <1>3 DEF ClosedInv, RunnerStep, Run, StopLoop, FinishRun, Cancel, Selecting,
     ServeRegister, ServeUnregister, DrainPeer
<1>4. ASSUME NEW a \in Agents, Close(a) PROVE ClosedInv'
  BY <1>0, <1>4 DEF ClosedInv, Close
<1>5. ASSUME NEW a \in Agents, OnDisconnect(a) PROVE ClosedInv'
  <2>1. arg[a] \in Peers /\ arg[a] \in closed
    BY <1>5, ArgIsPeer DEF OnDisconnect, ClosedInv
  <2> QED BY <1>0, <1>5, <2>1 DEF ClosedInv, OnDisconnect
<1>6. ASSUME NEW a \in Agents, Continue(a), ~Close(a), ~OnDisconnect(a) PROVE ClosedInv'
  BY <1>0, <1>6 DEF ClosedInv, Continue, QueueRegister, RegisterFull, QueueUnregister,
     UnregisterFull, addPeer, OnConnect, removePeer
<1> QED
  BY <1>1, <1>2, <1>3, <1>4, <1>5, <1>6 DEF Next, Continue

\* OnDisconnect never runs for a peer whose send queue is still open.
THEOREM DisconnectAfterClose == Spec => []ClosedBeforeDisconnect
<1>1. Init => ClosedInv
  BY DEF Init, ClosedInv
<1>2. TypeOK /\ ClosedInv => ClosedBeforeDisconnect
  BY DEF ClosedInv, ClosedBeforeDisconnect, Working, TypeOK
<1>3. QED
  BY <1>1, <1>2, ClosedStep, TypeCorrect, PTL DEF Spec

-----------------------------------------------------------------------------
(* What the hub answers about itself, for every finite set of channels.     *)

\* Without dead entries, the methods that test for them and those that do not
\* walk the same channels.
LEMMA AnswersAgree ==
  ASSUME IsFiniteSet(Channels), TypeOK, NoEmptyChannel
  PROVE  QueriesAgree
<1> SUFFICES ASSUME NEW hs \in SUBSET Channels,
                    NEW handlers, handlers = [ch \in hs |-> 1]
             PROVE  /\ Stats(handlers).Channels = ChannelCount(handlers)
                    /\ Stats(handlers).Channels = Cardinality(AllChannels(handlers))
                    /\ \A ch \in DOMAIN Stats(handlers).SubscriberCount :
                         /\ ch \in AllChannels(handlers)
                         /\ ChannelSubscriberCount(handlers, ch)
                              = Stats(handlers).SubscriberCount[ch]
  BY DEF QueriesAgree
<1> DEFINE indexed == DOMAIN channels \ {Wildcard}
           extra == {ch \in hs \ {Wildcard} : ch \notin DOMAIN channels}
           all == (DOMAIN channels \cup hs) \ {Wildcard}
<1>1. /\ DOMAIN handlers = hs
      /\ \A ch \in hs : handlers[ch] = 1
      /\ DOMAIN channels \subseteq Channels
      /\ \A ch \in DOMAIN channels : channels[ch] # {} /\ channels[ch] \subseteq Peers
  BY DEF TypeOK, NoEmptyChannel
<1>2. indexed \cup extra = all /\ indexed \cap extra = {}
  OBVIOUS
<1>3. IsFiniteSet(indexed) /\ IsFiniteSet(extra)
  <2>1. indexed \subseteq Channels /\ extra \subseteq Channels
    BY <1>1
  <2> QED BY <2>1, FS_Subset
<1>4. Cardinality(all) = Cardinality(indexed) + Cardinality(extra)
  <2>1. Cardinality(indexed \cup extra)
          = Cardinality(indexed) + Cardinality(extra) - Cardinality(indexed \cap extra)
    BY <1>3, FS_Union
  <2>2. Cardinality(indexed \cap extra) = 0
    BY <1>2, FS_EmptySet
  <2>3. Cardinality(indexed) \in Nat /\ Cardinality(extra) \in Nat
    BY <1>3, FS_CardinalityType
  <2>4. Cardinality(all) = Cardinality(indexed \cup extra)
    BY <1>2
  <2> HIDE DEF indexed, extra, all
  <2> QED BY <2>1, <2>2, <2>3, <2>4
<1>5. /\ Stats(handlers).SubscriberCount = SubscriberCount(handlers)
      /\ Stats(handlers).Channels = Cardinality(DOMAIN SubscriberCount(handlers))
  BY DEF Stats
<1>6. DOMAIN SubscriberCount(handlers) = all
  BY <1>1 DEF SubscriberCount
<1>7. AllChannels(handlers) = all
  BY <1>1 DEF AllChannels
<1>8. ChannelCount(handlers) = Cardinality(indexed) + Cardinality(extra)
  <2>1. {ch \in DOMAIN channels \ {Wildcard} :
           channels[ch] # {} \/ HandlerCount(handlers, ch) # 0} = indexed
    BY <1>1
  <2>2. {ch \in DOMAIN handlers \ {Wildcard} :
           handlers[ch] # 0 /\ Subscribers(ch) = {}} = extra
    BY <1>1 DEF Subscribers
  <2> QED BY <2>1, <2>2 DEF ChannelCount
<1>9. ASSUME NEW ch \in all
      PROVE  ChannelSubscriberCount(handlers, ch) = SubscriberCount(handlers)[ch]
  <2>1. CASE ch \in DOMAIN channels
    BY <2>1 DEF ChannelSubscriberCount, SubscriberCount, Subscribers
  <2>2. CASE ch \notin DOMAIN channels
    <3>1. Cardinality(Subscribers(ch)) = 0
      BY <2>2, FS_EmptySet DEF Subscribers
    <3>2. ch \in hs /\ HandlerCount(handlers, ch) = 1
      BY <1>1, <2>2 DEF HandlerCount
    <3> QED BY <1>1, <2>2, <3>1, <3>2 DEF ChannelSubscriberCount, SubscriberCount
  <2> QED BY <2>1, <2>2
<1> QED BY <1>4, <1>5, <1>6, <1>7, <1>8, <1>9

\* Stats, ChannelCount, AllChannels and ChannelSubscriberCount tell one story
\* between any two steps, whatever channels have handlers: their loops over
\* the index differ only by tests for entries that removal never leaves.
THEOREM AnswersAlwaysAgree ==
  ASSUME IsFiniteSet(Channels)
  PROVE  Spec => []QueriesAgree
<1>1. TypeOK /\ RegistryInv => QueriesAgree
  BY AnswersAgree DEF RegistryInv
<1>2. QED
  BY <1>1, TypeCorrect, RegistryInvariant, PTL

-----------------------------------------------------------------------------
(* Whoever holds a peer was told to: the requests that goroutines carry,    *)
(* and those that wait in the queues or on a shutdown's list, were made.    *)

HeldInv ==
  /\ \A a \in Agents : pc[a] \in {"register", "addPeer"} => arg[a] \in Invited
  /\ \A a \in Agents : pc[a] \in {"unregister", "removePeer"} => arg[a] \in Asked
  /\ \A i \in DOMAIN register : register[i] \in Invited
  /\ \A i \in DOMAIN unregister : unregister[i] \in Asked
  /\ \A r \in Runners : drain[r] \subseteq snapshot[r]

\* What the refinement stands on.
RefinementInv ==
  TypeOK /\ OneEventLoop /\ RegistryInv /\ ShutdownInv /\ ClosedInv /\ HeldInv

\* Only AddPeer, RemovePeer and StopLoop make requests.
LEMMA RequestsFrame ==
  ASSUME [Next]_vars
  PROVE  \/ UNCHANGED <<adds, removes, snapshot>>
         \/ \E c \in Callers, p \in Peers : AddPeer(c, p) \/ RemovePeer(c, p)
         \/ \E r \in Runners : StopLoop(r)
BY DEF Next, Call, RunnerStep, Continue, vars, runState, calls, PeerClose,
       SubscribePeer, UnsubscribePeer, QueueRegister, RegisterFull, QueueUnregister,
       UnregisterFull, addPeer, OnConnect, removePeer, Close, OnDisconnect, Run, Cancel,
       ServeRegister, ServeUnregister, DrainPeer, FinishRun

\* A runner that is still in its loop has no list yet, so that the list it
\* takes adds to the requests and replaces none.
LEMMA StopLoopAsks ==
  ASSUME TypeOK, ShutdownInv, NEW r \in Runners, StopLoop(r)
  PROVE  Asked' = Asked \cup peers /\ Invited' = Invited
<1>1. snapshot[r] = {}
  BY DEF StopLoop, Selecting, ShutdownInv, ListInv
<1>2. \A s \in Runners : snapshot'[s] = IF s = r THEN peers ELSE snapshot[s]
  BY DEF StopLoop, TypeOK
<1>3. UNCHANGED <<adds, removes>> /\ peers \subseteq Peers
  BY DEF StopLoop, calls, TypeOK
<1> QED BY <1>1, <1>2, <1>3 DEF Asked, Invited

LEMMA AddPeerInvites ==
  ASSUME TypeOK, NEW c \in Callers, NEW p \in Peers, AddPeer(c, p)
  PROVE  Invited' = Invited \cup {p} /\ Asked' = Asked
<1>1. adds' = [adds EXCEPT ![p] = @ + 1] /\ UNCHANGED <<removes, snapshot>>
  BY DEF AddPeer, runState
<1>2. \A q \in Peers : adds'[q] > 0 <=> adds[q] > 0 \/ q = p
  BY <1>1, HubPeersAssumption DEF TypeOK
<1> QED BY <1>1, <1>2 DEF Invited, Asked

LEMMA RemovePeerAsks ==
  ASSUME TypeOK, NEW c \in Callers, NEW p \in Peers, RemovePeer(c, p)
  PROVE  Asked' = Asked \cup {p} /\ Invited' = Invited
<1>1. removes' = [removes EXCEPT ![p] = @ + 1] /\ UNCHANGED <<adds, snapshot>>
  BY DEF RemovePeer, runState
<1>2. \A q \in Peers : removes'[q] > 0 <=> removes[q] > 0 \/ q = p
  BY <1>1, HubPeersAssumption DEF TypeOK
<1> QED BY <1>1, <1>2 DEF Invited, Asked

\* A request is never withdrawn.
LEMMA RequestsStay ==
  ASSUME TypeOK, ShutdownInv, [Next]_vars
  PROVE  Invited \subseteq Invited' /\ Asked \subseteq Asked'
<1>1. CASE UNCHANGED <<adds, removes, snapshot>>
  BY <1>1 DEF Invited, Asked
<1> QED
  BY <1>1, RequestsFrame, StopLoopAsks, AddPeerInvites, RemovePeerAsks

LEMMA HeldInit == Init => HeldInv
BY DEF Init, HeldInv

LEMMA HeldStep == TypeOK /\ ShutdownInv /\ HeldInv /\ [Next]_vars => HeldInv'
<1> SUFFICES ASSUME TypeOK, ShutdownInv, HeldInv, [Next]_vars PROVE HeldInv'
  OBVIOUS
<1> USE DEF Goto, Return, At, queues, runState
<1>0. /\ pc \in [Agents -> Places] /\ arg \in [Agents -> Peers \cup {NoPeer}]
      /\ drain \in [Runners -> SUBSET Peers] /\ snapshot \in [Runners -> SUBSET Peers]
      /\ register \in Seq(Peers) /\ unregister \in Seq(Peers)
      /\ Callers \subseteq Agents /\ Runners \subseteq Agents
  BY DEF TypeOK, Agents
<1>1. Invited \subseteq Invited' /\ Asked \subseteq Asked'
  BY RequestsStay
<1>2. CASE UNCHANGED vars
  BY <1>1, <1>2 DEF vars, HeldInv
<1>3. ASSUME NEW c \in Callers, NEW p \in Peers, AddPeer(c, p) PROVE HeldInv'
  <2>1. p \in Invited' BY <1>3, AddPeerInvites
  <2> QED BY <1>0, <1>1, <1>3, <2>1 DEF AddPeer, HeldInv
<1>4. ASSUME NEW c \in Callers, NEW p \in Peers, RemovePeer(c, p) PROVE HeldInv'
  <2>1. p \in Asked' BY <1>4, RemovePeerAsks
  <2> QED BY <1>0, <1>1, <1>4, <2>1 DEF RemovePeer, HeldInv
<1>5. ASSUME NEW c \in Callers, NEW p \in Peers, NEW ch \in Channels,
             SubscribePeer(c, p, ch) \/ UnsubscribePeer(c, p, ch)
      PROVE  HeldInv'
  BY <1>0, <1>1, <1>5 DEF SubscribePeer, UnsubscribePeer, HeldInv
<1>5a. ASSUME NEW c \in Callers, NEW p \in Peers, PeerClose(c, p) PROVE HeldInv'
  BY <1>5a, <1>0, <1>1 DEF PeerClose, HeldInv
<1>6. ASSUME NEW a \in Agents, QueueRegister(a) PROVE HeldInv'
  <2>1. arg[a] \in Invited /\ arg[a] \in Peers
    BY <1>6, ArgIsPeer DEF QueueRegister, HeldInv
  <2>2. \A i \in DOMAIN register' : register'[i] \in Invited
    BY <1>0, <1>6, <2>1 DEF QueueRegister, HeldInv
  <2> QED BY <1>0, <1>1, <1>6, <2>2 DEF QueueRegister, HeldInv
<1>7. ASSUME NEW a \in Agents, QueueUnregister(a) PROVE HeldInv'
  <2>1. arg[a] \in Asked /\ arg[a] \in Peers
    BY <1>7, ArgIsPeer DEF QueueUnregister, HeldInv
  <2>2. \A i \in DOMAIN unregister' : unregister'[i] \in Asked
    BY <1>0, <1>7, <2>1 DEF QueueUnregister, HeldInv
  <2> QED BY <1>0, <1>1, <1>7, <2>2 DEF QueueUnregister, HeldInv
<1>8. ASSUME NEW a \in Agents, RegisterFull(a) \/ UnregisterFull(a) PROVE HeldInv'
  BY <1>0, <1>1, <1>8 DEF RegisterFull, UnregisterFull, HeldInv
<1>9. ASSUME NEW a \in Agents,
             addPeer(a) \/ OnConnect(a) \/ removePeer(a) \/ Close(a) \/ OnDisconnect(a)
      PROVE  HeldInv'
  BY <1>0, <1>1, <1>9 DEF addPeer, OnConnect, removePeer, Close, OnDisconnect, HeldInv
<1>10. ASSUME NEW r \in Runners, Run(r) \/ Cancel(r) \/ FinishRun(r) PROVE HeldInv'
  BY <1>0, <1>1, <1>10 DEF Run, Cancel, FinishRun, HeldInv
<1>11. ASSUME NEW r \in Runners, ServeRegister(r) PROVE HeldInv'
  <2>1. /\ Head(register) \in Invited
        /\ \A i \in DOMAIN Tail(register) : Tail(register)[i] \in Invited
    BY <1>0, <1>11 DEF ServeRegister, HeldInv
  <2> QED BY <1>0, <1>1, <1>11, <2>1 DEF ServeRegister, HeldInv
<1>12. ASSUME NEW r \in Runners, ServeUnregister(r) PROVE HeldInv'
  <2>1. /\ Head(unregister) \in Asked
        /\ \A i \in DOMAIN Tail(unregister) : Tail(unregister)[i] \in Asked
    BY <1>0, <1>12 DEF ServeUnregister, HeldInv
  <2> QED BY <1>0, <1>1, <1>12, <2>1 DEF ServeUnregister, HeldInv
<1>13. ASSUME NEW r \in Runners, StopLoop(r) PROVE HeldInv'
  BY <1>0, <1>1, <1>13 DEF StopLoop, HeldInv
<1>14. ASSUME NEW r \in Runners, DrainPeer(r) PROVE HeldInv'
  <2>1. PICK p \in drain[r] : Goto(r, "removePeer", p) /\ drain' = [drain EXCEPT ![r] = @ \ {p}]
    BY <1>14 DEF DrainPeer
  <2>2. p \in Asked
    BY <1>0, <2>1 DEF HeldInv, Asked
  <2> QED BY <1>0, <1>1, <1>14, <2>1, <2>2 DEF DrainPeer, HeldInv
<1> QED
  BY <1>2, <1>3, <1>4, <1>5, <1>5a, <1>6, <1>7, <1>8, <1>9, <1>10, <1>11, <1>12, <1>13, <1>14
     DEF Next, Call, RunnerStep, Continue

-----------------------------------------------------------------------------
(* The hooks add up.                                                        *)

HookPlaces == {"onConnect", "close", "onDisconnect"}

Connecting(p) == Working(p, {"onConnect"})
Leaving(p) == Working(p, {"close", "onDisconnect"})

\* Agents may be infinitely many, those at work on a hook are not.
HookInv ==
  /\ HookAccounting
  /\ \A p \in Peers : IsFiniteSet(Connecting(p)) /\ IsFiniteSet(Leaving(p))

\* One agent moves: the others that work stay.
LEMMA WorkingMoves ==
  ASSUME TypeOK, NEW a \in Agents, NEW l, NEW q, Goto(a, l, q), NEW p, NEW ls
  PROVE  /\ l \in ls /\ q = p => Working(p, ls)' = Working(p, ls) \cup {a}
         /\ l \notin ls \/ q # p => Working(p, ls)' = Working(p, ls) \ {a}
         /\ a \in Working(p, ls) <=> pc[a] \in ls /\ arg[a] = p
BY DEF TypeOK, Goto, Working

\* The hooks of the peers that are not concerned by a step.
HooksStill(p) ==
  /\ UNCHANGED <<connects[p], disconnects[p], Connecting(p), Leaving(p)>>
  /\ p \in peers' <=> p \in peers

\* Only addPeer, removePeer and what follows them change an account.
LEMMA HooksFrame ==
  ASSUME TypeOK, [Next]_vars,
         \A a \in Agents : ~addPeer(a) /\ ~OnConnect(a) /\ ~removePeer(a) /\ ~OnDisconnect(a)
  PROVE  \A p \in Peers : HooksStill(p)
<1> USE DEF HooksStill, Connecting, Leaving, Return, At
<1> SUFFICES ASSUME NEW p \in Peers PROVE HooksStill(p)
  OBVIOUS
<1>0. Callers \subseteq Agents /\ Runners \subseteq Agents
  BY DEF Agents
<1>1. CASE UNCHANGED <<peers, connects, disconnects, pc, arg>>
  BY <1>1 DEF Working
<1>2. ASSUME NEW a \in Agents, NEW l \in Places \ HookPlaces, NEW q, Goto(a, l, q),
             pc[a] \notin HookPlaces, UNCHANGED <<peers, connects, disconnects>>
      PROVE  HooksStill(p)
  <2>1. Working(p, {"onConnect"})' = Working(p, {"onConnect"})
    BY <1>2, WorkingMoves DEF HookPlaces
  <2>2. Working(p, {"close", "onDisconnect"})' = Working(p, {"close", "onDisconnect"})
    BY <1>2, WorkingMoves DEF HookPlaces
  <2> QED BY <1>2, <2>1, <2>2
<1>3. CASE UNCHANGED vars
  BY <1>1, <1>3 DEF vars, registry, hooks
<1>4. ASSUME NEW c \in Callers, NEW q \in Peers, AddPeer(c, q) \/ RemovePeer(c, q)
      PROVE  HooksStill(p)
  BY <1>0, <1>2, <1>4 DEF AddPeer, RemovePeer, Places, HookPlaces, registry, hooks
<1>5. ASSUME NEW c \in Callers, NEW q \in Peers, NEW ch \in Channels,
             PeerClose(c, q) \/ SubscribePeer(c, q, ch) \/ UnsubscribePeer(c, q, ch)
      PROVE  HooksStill(p)
  BY <1>1, <1>5 DEF PeerClose, SubscribePeer, UnsubscribePeer, registry, hooks
<1>5a. ASSUME NEW c \in Callers, NEW q \in Peers, PeerClose(c, q) PROVE HooksStill(p)
  BY <1>1, <1>5a DEF PeerClose, registry, hooks
<1>6. ASSUME NEW r \in Runners, Run(r) \/ Cancel(r) \/ StopLoop(r) \/ FinishRun(r)
      PROVE  HooksStill(p)
  BY <1>1, <1>6 DEF Run, Cancel, StopLoop, FinishRun, registry, hooks
<1>7. ASSUME NEW r \in Runners, ServeRegister(r) \/ ServeUnregister(r) \/ DrainPeer(r)
      PROVE  HooksStill(p)
  BY <1>0, <1>2, <1>7 DEF ServeRegister, ServeUnregister, DrainPeer, Selecting, Places, HookPlaces,
     registry, hooks
<1>8. ASSUME NEW a \in Agents,
             QueueRegister(a) \/ RegisterFull(a) \/ QueueUnregister(a) \/ UnregisterFull(a)
      PROVE  HooksStill(p)
  BY <1>2, <1>8 DEF QueueRegister, RegisterFull, QueueUnregister, UnregisterFull, Places,
     HookPlaces, registry, hooks
<1>9. ASSUME NEW a \in Agents, Close(a) PROVE HooksStill(p)
  <2>1. Goto(a, "onDisconnect", arg[a]) /\ pc[a] = "close" /\ UNCHANGED <<registry, hooks>>
    BY <1>9 DEF Close
  <2>2. pc' = [pc EXCEPT ![a] = "onDisconnect"] /\ arg' = [arg EXCEPT ![a] = arg[a]]
    BY <2>1 DEF Goto
  <2>3. Connecting(p)' = Connecting(p) /\ Leaving(p)' = Leaving(p)
    BY <2>1, <2>2 DEF Working, TypeOK
  <2> QED BY <2>1, <2>3 DEF registry, hooks
<1> QED
  BY <1>3, <1>4, <1>5, <1>5a, <1>6, <1>7, <1>8, <1>9 DEF Next, Call, RunnerStep, Continue

\* One account of HookInv.
Balanced(p) ==
  connects[p] + Cardinality(Connecting(p))
    = disconnects[p] + Cardinality(Leaving(p)) + (IF p \in peers THEN 1 ELSE 0)

AccountInv(p) == Balanced(p) /\ IsFiniteSet(Connecting(p)) /\ IsFiniteSet(Leaving(p))

LEMMA HookInvIsAccounts == HookInv <=> \A p \in Peers : AccountInv(p)
BY DEF HookInv, HookAccounting, AccountInv, Balanced, Connecting, Leaving

LEMMA AccountStill ==
  ASSUME NEW p \in Peers, AccountInv(p), HooksStill(p)
  PROVE  AccountInv(p)'
BY DEF AccountInv, Balanced, HooksStill

\* An agent starts or ends its work on a hook.
LEMMA OneMore ==
  ASSUME NEW S, IsFiniteSet(S), NEW a
  PROVE  /\ Cardinality(S) \in Nat
         /\ IsFiniteSet(S \cup {a}) /\ (a \notin S => Cardinality(S \cup {a}) = Cardinality(S) + 1)
         /\ IsFiniteSet(S \ {a}) /\ (a \in S => Cardinality(S \ {a}) = Cardinality(S) - 1)
         /\ a \notin S => S \ {a} = S
BY FS_AddElement, FS_RemoveElement, FS_CardinalityType

LEMMA HookStep == TypeOK /\ HookInv /\ [Next]_vars => HookInv'
<1> SUFFICES ASSUME TypeOK, HookInv, [Next]_vars, NEW p \in Peers PROVE AccountInv(p)'
  BY HookInvIsAccounts DEF HookInv, HookAccounting, AccountInv, Balanced, Connecting, Leaving
<1> USE DEF At, Return
<1>1. AccountInv(p) /\ connects[p] \in Nat /\ disconnects[p] \in Nat
  BY HookInvIsAccounts DEF TypeOK
<1>2. CASE HooksStill(p)
  BY <1>1, <1>2, AccountStill
<1>3. /\ Cardinality(Connecting(p)) \in Nat /\ Cardinality(Leaving(p)) \in Nat
      /\ IsFiniteSet(Connecting(p)) /\ IsFiniteSet(Leaving(p)) /\ Balanced(p)
  BY <1>1, OneMore DEF AccountInv
<1>4. ASSUME NEW a \in Agents, NEW l, NEW q, Goto(a, l, q)
      PROVE  /\ l = "onConnect" /\ q = p => Connecting(p)' = Connecting(p) \cup {a}
             /\ l # "onConnect" \/ q # p => Connecting(p)' = Connecting(p) \ {a}
             /\ l = "close" /\ q = p => Leaving(p)' = Leaving(p) \cup {a}
             /\ l \notin {"close", "onDisconnect"} \/ q # p => Leaving(p)' = Leaving(p) \ {a}
             /\ a \notin Connecting(p) => Connecting(p) \ {a} = Connecting(p)
             /\ a \notin Leaving(p) => Leaving(p) \ {a} = Leaving(p)
  <2>1. /\ a \notin Connecting(p) => Connecting(p) \ {a} = Connecting(p)
        /\ a \notin Leaving(p) => Leaving(p) \ {a} = Leaving(p)
    OBVIOUS
  <2> QED BY <1>4, <2>1, WorkingMoves DEF Connecting, Leaving
<1>5. ASSUME NEW a \in Agents, addPeer(a) PROVE AccountInv(p)'
  <2>1. pc[a] = "addPeer" /\ arg[a] # NoPeer /\ UNCHANGED hooks /\ a \notin Leaving(p) \cup Connecting(p)
    BY <1>5 DEF addPeer, TypeOK, Leaving, Connecting, Working
  <2>2. CASE Return(a) /\ UNCHANGED peers
    <3>1. Goto(a, "idle", NoPeer) /\ NoPeer # p
      BY <2>2, HubPeersAssumption
    <3>2. Connecting(p)' = Connecting(p) /\ Leaving(p)' = Leaving(p)
      BY <1>4, <2>1, <3>1
    <3> QED BY <1>2, <2>1, <2>2, <3>2 DEF HooksStill, hooks
  <2>3. CASE arg[a] \notin peers /\ peers' = peers \cup {arg[a]} /\ Goto(a, "onConnect", arg[a])
    <3>1. CASE arg[a] = p
      <4>1. Connecting(p)' = Connecting(p) \cup {a} /\ Leaving(p)' = Leaving(p)
        BY <1>4, <2>1, <2>3, <3>1
      <4>2. /\ Cardinality(Connecting(p)') = Cardinality(Connecting(p)) + 1
            /\ IsFiniteSet(Connecting(p)')
        BY <1>3, <2>1, <4>1, OneMore
      <4>3. UNCHANGED <<connects, disconnects>> /\ p \notin peers /\ p \in peers'
        BY <2>1, <2>3, <3>1 DEF hooks
      <4> QED BY <1>1, <1>3, <4>1, <4>2, <4>3 DEF AccountInv, Balanced
    <3>2. CASE arg[a] # p
      BY <1>2, <1>3, <1>4, <2>1, <2>3, <3>2, OneMore DEF HooksStill, hooks
    <3> QED BY <3>1, <3>2
  <2> QED BY <1>5, <2>2, <2>3 DEF addPeer
<1>6. ASSUME NEW a \in Agents, removePeer(a) PROVE AccountInv(p)'
  <2>1. pc[a] = "removePeer" /\ arg[a] # NoPeer /\ UNCHANGED hooks
        /\ a \notin Leaving(p) \cup Connecting(p)
    BY <1>6 DEF removePeer, TypeOK, Leaving, Connecting, Working
  <2>2. CASE Return(a) /\ UNCHANGED peers
    <3>1. Goto(a, "idle", NoPeer) /\ NoPeer # p
      BY <2>2, HubPeersAssumption
    <3>2. Connecting(p)' = Connecting(p) /\ Leaving(p)' = Leaving(p)
      BY <1>4, <2>1, <3>1
    <3> QED BY <1>2, <2>1, <2>2, <3>2 DEF HooksStill, hooks
  <2>3. CASE arg[a] \in peers /\ peers' = peers \ {arg[a]} /\ Goto(a, "close", arg[a])
    <3>1. CASE arg[a] = p
      <4>1. Leaving(p)' = Leaving(p) \cup {a} /\ Connecting(p)' = Connecting(p)
        BY <1>4, <2>1, <2>3, <3>1
      <4>2. /\ Cardinality(Leaving(p)') = Cardinality(Leaving(p)) + 1
            /\ IsFiniteSet(Leaving(p)')
        BY <1>3, <2>1, <4>1, OneMore
      <4>3. UNCHANGED <<connects, disconnects>> /\ p \in peers /\ p \notin peers'
        BY <2>1, <2>3, <3>1 DEF hooks
      <4> QED BY <1>1, <1>3, <4>1, <4>2, <4>3 DEF AccountInv, Balanced
    <3>2. CASE arg[a] # p
      BY <1>2, <1>3, <1>4, <2>1, <2>3, <3>2, OneMore DEF HooksStill, hooks
    <3> QED BY <3>1, <3>2
  <2> QED BY <1>6, <2>2, <2>3 DEF removePeer, registry
<1>7. ASSUME NEW a \in Agents, OnConnect(a) PROVE AccountInv(p)'
  <2>1. /\ pc[a] = "onConnect" /\ Goto(a, "idle", NoPeer) /\ arg[a] \in Peers
        /\ connects' = [connects EXCEPT ![arg[a]] = @ + 1] /\ UNCHANGED <<peers, disconnects>>
        /\ a \notin Leaving(p) /\ p # NoPeer
    BY <1>7, ArgIsPeer, HubPeersAssumption DEF OnConnect, registry, Leaving, Working
  <2>2. Leaving(p)' = Leaving(p) /\ Connecting(p)' = Connecting(p) \ {a}
    BY <1>4, <2>1
  <2>3. CASE arg[a] = p
    <3>1. connects'[p] = connects[p] + 1
      BY <2>1, <2>3 DEF TypeOK
    <3>2. a \in Connecting(p)
      BY <2>1, <2>3 DEF Connecting, Working
    <3>3. /\ Cardinality(Connecting(p)') = Cardinality(Connecting(p)) - 1
          /\ IsFiniteSet(Connecting(p)')
      BY <1>3, <2>2, <3>2, OneMore
    <3> QED BY <1>1, <1>3, <2>1, <2>2, <3>1, <3>3 DEF AccountInv, Balanced
  <2>4. CASE arg[a] # p
    <3>1. connects'[p] = connects[p] /\ a \notin Connecting(p)
      BY <2>1, <2>4 DEF TypeOK, Connecting, Working
    <3> QED BY <1>2, <1>3, <2>1, <2>2, <3>1, OneMore DEF HooksStill
  <2> QED BY <2>3, <2>4
<1>8. ASSUME NEW a \in Agents, OnDisconnect(a) PROVE AccountInv(p)'
  <2>1. /\ pc[a] = "onDisconnect" /\ Goto(a, "idle", NoPeer) /\ arg[a] \in Peers
        /\ disconnects' = [disconnects EXCEPT ![arg[a]] = @ + 1] /\ UNCHANGED <<peers, connects>>
        /\ a \notin Connecting(p) /\ p # NoPeer
    BY <1>8, ArgIsPeer, HubPeersAssumption DEF OnDisconnect, registry, Connecting, Working
  <2>2. Connecting(p)' = Connecting(p) /\ Leaving(p)' = Leaving(p) \ {a}
    BY <1>4, <2>1
  <2>3. CASE arg[a] = p
    <3>1. disconnects'[p] = disconnects[p] + 1
      BY <2>1, <2>3 DEF TypeOK
    <3>2. a \in Leaving(p)
      BY <2>1, <2>3 DEF Leaving, Working
    <3>3. /\ Cardinality(Leaving(p)') = Cardinality(Leaving(p)) - 1
          /\ IsFiniteSet(Leaving(p)')
      BY <1>3, <2>2, <3>2, OneMore
    <3> QED BY <1>1, <1>3, <2>1, <2>2, <3>1, <3>3 DEF AccountInv, Balanced
  <2>4. CASE arg[a] # p
    <3>1. disconnects'[p] = disconnects[p] /\ a \notin Leaving(p)
      BY <2>1, <2>4 DEF TypeOK, Leaving, Working
    <3> QED BY <1>2, <1>3, <2>1, <2>2, <3>1, OneMore DEF HooksStill
  <2> QED BY <2>3, <2>4
<1> QED BY <1>2, <1>5, <1>6, <1>7, <1>8, HooksFrame

\* For any number of goroutines, every change of the registry is told once: what
\* OnConnect and OnDisconnect were called for, or are about to be, adds up to
\* who is registered.
THEOREM HooksAddUp == Spec => []HookAccounting
<1>1. Init => HookInv
  <2> SUFFICES ASSUME Init, NEW p \in Peers PROVE AccountInv(p)
    BY HookInvIsAccounts
  <2>1. Connecting(p) = {} /\ Leaving(p) = {}
    BY DEF Init, Connecting, Leaving, Working
  <2>2. connects[p] = 0 /\ disconnects[p] = 0 /\ p \notin peers
    BY DEF Init
  <2> QED BY <2>1, <2>2, FS_EmptySet DEF AccountInv, Balanced
<1>2. HookInv => HookAccounting
  BY DEF HookInv
<1>3. QED
  BY <1>1, <1>2, HookStep, TypeCorrect, PTL DEF Spec

-----------------------------------------------------------------------------
(* An added peer that nobody asked to remove is on its way or registered.    *)

Queued(p) == \E i \in DOMAIN register : register[i] = p
InHand(p) == \E a \in Agents : pc[a] \in {"register", "addPeer"} /\ arg[a] = p

StayInv == \A p \in Invited \ Asked : p \in peers \/ Queued(p) \/ InHand(p)

\* The step that takes p out of an agent's hand puts it into the queue or the
\* registry.
LEMMA InHandMoves ==
  ASSUME TypeOK, [Next]_vars, NEW p \in Peers, InHand(p)
  PROVE  InHand(p)' \/ Queued(p)' \/ p \in peers'
<1> USE DEF Goto, Return, At
<1>0. /\ pc \in [Agents -> Places] /\ arg \in [Agents -> Peers \cup {NoPeer}]
      /\ register \in Seq(Peers) /\ Callers \subseteq Agents /\ Runners \subseteq Agents
  BY DEF TypeOK, Agents
<1>1. PICK a \in Agents : pc[a] \in {"register", "addPeer"} /\ arg[a] = p
  BY DEF InHand
<1>2. CASE pc'[a] = pc[a] /\ arg'[a] = arg[a]
  BY <1>1, <1>2 DEF InHand
<1>3. CASE UNCHANGED vars
  BY <1>2, <1>3 DEF vars
<1>4. ASSUME NEW c \in Callers, Call(c) PROVE pc'[a] = pc[a] /\ arg'[a] = arg[a]
  BY <1>0, <1>1, <1>4 DEF Call, AddPeer, RemovePeer, PeerClose, SubscribePeer,
     UnsubscribePeer
<1>5. ASSUME NEW r \in Runners, RunnerStep(r) PROVE pc'[a] = pc[a] /\ arg'[a] = arg[a]
  BY <1>0, <1>1, <1>5 DEF RunnerStep, Run, StopLoop, FinishRun, Cancel, Selecting,
     ServeRegister, ServeUnregister, DrainPeer
<1>6. ASSUME NEW b \in Agents, Continue(b), b # a PROVE pc'[a] = pc[a] /\ arg'[a] = arg[a]
  BY <1>0, <1>1, <1>6 DEF Continue, QueueRegister, RegisterFull, QueueUnregister,
     UnregisterFull, addPeer, OnConnect, removePeer, Close, OnDisconnect
<1>7. CASE QueueRegister(a)
  <2>1. register'[Len(register) + 1] = p /\ Len(register) + 1 \in DOMAIN register'
    BY <1>0, <1>1, <1>7 DEF QueueRegister
  <2> QED BY <2>1 DEF Queued
<1>8. CASE RegisterFull(a)
  BY <1>0, <1>1, <1>8 DEF RegisterFull, InHand
<1>9. CASE addPeer(a)
  BY <1>1, <1>9 DEF addPeer
<1>10. CASE Continue(a)
  BY <1>1, <1>7, <1>8, <1>9, <1>10 DEF Continue, QueueUnregister, UnregisterFull, OnConnect,
     removePeer, Close, OnDisconnect
<1> QED BY <1>2, <1>3, <1>4, <1>5, <1>6, <1>10 DEF Next

\* Only QueueRegister and ServeRegister write hub.register.
LEMMA RegisterFrame ==
  ASSUME [Next]_vars
  PROVE  \/ UNCHANGED register
         \/ \E a \in Agents : QueueRegister(a)
         \/ \E r \in Runners : ServeRegister(r)
BY DEF Next, Call, RunnerStep, Continue, vars, queues, AddPeer, RemovePeer, PeerClose,
       SubscribePeer, UnsubscribePeer, RegisterFull, QueueUnregister, UnregisterFull, addPeer,
       OnConnect, removePeer, Close, OnDisconnect, Run, StopLoop, FinishRun, Cancel,
       ServeUnregister, DrainPeer

\* The loop takes p out of the queue into its hand.
LEMMA QueuedMoves ==
  ASSUME TypeOK, [Next]_vars, NEW p \in Peers, Queued(p)
  PROVE  Queued(p)' \/ InHand(p)'
<1>0. register \in Seq(Peers)
  BY DEF TypeOK
<1>1. PICK i \in DOMAIN register : register[i] = p
  BY DEF Queued
<1>2. CASE UNCHANGED register
  BY <1>2 DEF Queued
<1>3. ASSUME NEW a \in Agents, QueueRegister(a) PROVE Queued(p)'
  <2>1. arg[a] \in Peers
    BY <1>3, ArgIsPeer DEF QueueRegister, At
  <2>2. i \in DOMAIN register' /\ register'[i] = p
    BY <1>0, <1>1, <1>3, <2>1 DEF QueueRegister
  <2> QED BY <2>2 DEF Queued
<1>4. ASSUME NEW r \in Runners, ServeRegister(r) PROVE Queued(p)' \/ InHand(p)'
  <2>1. r \in Agents /\ register' = Tail(register) /\ Goto(r, "addPeer", Head(register))
    BY <1>4 DEF ServeRegister, Agents
  <2>2. CASE i = 1
    <3>1. Head(register) = p
      BY <1>0, <1>1, <2>2
    <3>2. pc'[r] = "addPeer" /\ arg'[r] = p
      BY <2>1, <3>1 DEF Goto, TypeOK
    <3> QED BY <2>1, <3>2 DEF InHand
  <2>3. CASE i # 1
    <3>1. i - 1 \in DOMAIN register' /\ register'[i - 1] = p
      BY <1>0, <1>1, <2>1, <2>3
    <3> QED BY <3>1 DEF Queued
  <2> QED BY <2>2, <2>3
<1> QED BY <1>2, <1>3, <1>4, RegisterFrame

LEMMA StayStep == TypeOK /\ ShutdownInv /\ HeldInv /\ StayInv /\ [Next]_vars => StayInv'
<1> SUFFICES ASSUME TypeOK, ShutdownInv, HeldInv, StayInv, [Next]_vars,
                    NEW p \in Invited', p \notin Asked'
             PROVE  p \in peers' \/ Queued(p)' \/ InHand(p)'
  BY DEF StayInv
<1>1. p \in Peers /\ p \notin Asked
  BY RequestsStay DEF Invited
<1>2. CASE p \in Invited
  <2>1. p \in peers => p \in peers'
    <3>1. ASSUME NEW a \in Agents, removePeer(a) PROVE arg[a] # p
      BY <1>1, <3>1 DEF HeldInv, removePeer, At
    <3>2. ASSUME NEW a \in Agents, addPeer(a), p \in peers PROVE p \in peers'
      BY <3>2 DEF addPeer
    <3>3. ASSUME NEW a \in Agents, removePeer(a), p \in peers PROVE p \in peers'
      BY <3>1, <3>3 DEF removePeer, registry
    <3> QED BY <3>2, <3>3, PeersFrame
  <2> QED BY <1>1, <1>2, <2>1, InHandMoves, QueuedMoves DEF StayInv
<1>3. CASE p \notin Invited
  <2>1. PICK c \in Callers, q \in Peers : AddPeer(c, q)
    BY <1>3, RequestsFrame, StopLoopAsks, RemovePeerAsks, <1>1 DEF Invited, Asked
  <2>2. q = p
    BY <1>3, <2>1, AddPeerInvites
  <2>3. c \in Agents /\ pc'[c] \in {"register", "addPeer"} /\ arg'[c] = p
    BY <2>1, <2>2 DEF AddPeer, Goto, TypeOK, Agents
  <2> QED BY <2>3 DEF InHand
<1> QED BY <1>2, <1>3

\* While nobody asks for its removal, a peer that was added is in a queue, in
\* somebody's hand or in the registry, however the loop, the callers and the
\* fallbacks of full queues interleave: none gets lost on the way.
THEOREM AddedPeersAreKept == Spec => []AddedPeersStay
<1>1. Init => StayInv
  BY DEF Init, StayInv, Invited
<1>2. HeldInv /\ StayInv => AddedPeersStay
  <2> SUFFICES ASSUME StayInv, Settled, running, NEW p \in Peers, p \in Invited, p \notin Asked
               PROVE  p \in peers
    BY DEF AddedPeersStay, Invited, Asked
  <2>1. register = << >> /\ \A a \in Agents : pc[a] = "idle"
    BY DEF Settled, At
  <2> QED BY <2>1 DEF StayInv, Queued, InHand
<1>3. QED
  BY <1>1, <1>2, StayStep, ShutdownInit, ShutdownStep, HeldInit, HeldStep, TypeCorrect, PTL
     DEF Spec

-----------------------------------------------------------------------------
(* Each step of HubPeers is a step of PeerRegistry or changes nothing there. *)

\* An agent that moves pays what it owed at its old place and owes what its
\* new place stands for.
LEMMA OwedAfterGoto ==
  ASSUME TypeOK, NEW a \in Agents, NEW l \in Places, NEW p, Goto(a, l, p)
  PROVE  Owed' = (Owed \ {<<a, arg[a], pc[a]>>})
                   \cup {t \in {<<a, p, l>>} : l \in HookPlaces}
<1> USE DEF HookPlaces
<1>1. \A b \in Agents : /\ pc'[b] = IF b = a THEN l ELSE pc[b]
                        /\ arg'[b] = IF b = a THEN p ELSE arg[b]
  BY DEF Goto, TypeOK
<1>2. ASSUME NEW t \in Owed'
      PROVE  t \in (Owed \ {<<a, arg[a], pc[a]>>}) \cup {u \in {<<a, p, l>>} : l \in HookPlaces}
  <2>1. PICK b \in Agents : pc'[b] \in HookPlaces /\ t = <<b, arg'[b], pc'[b]>>
    BY DEF Owed
  <2> QED BY <1>1, <2>1 DEF Owed
<1>3. ASSUME NEW t \in Owed, t # <<a, arg[a], pc[a]>> PROVE t \in Owed'
  <2>1. PICK b \in Agents : pc[b] \in HookPlaces /\ t = <<b, arg[b], pc[b]>>
    BY DEF Owed
  <2>2. b # a
    BY <1>3, <2>1
  <2> QED BY <1>1, <2>1, <2>2 DEF Owed
<1>4. ASSUME l \in HookPlaces PROVE <<a, p, l>> \in Owed'
  BY <1>1, <1>4 DEF Owed
<1> QED BY <1>2, <1>3, <1>4

\* Moving between places that are no hooks' leaves the duties as they are.
LEMMA OwedAsBefore ==
  ASSUME TypeOK, NEW a \in Agents, NEW l \in Places \ HookPlaces, NEW p, Goto(a, l, p),
         pc[a] \notin HookPlaces
  PROVE  Owed' = Owed
<1>1. <<a, arg[a], pc[a]>> \notin Owed
  BY DEF Owed, HookPlaces
<1> QED BY <1>1, OwedAfterGoto

\* An agent that is at no hook's place owes nothing.
LEMMA OwesNothing ==
  ASSUME NEW a \in Agents, pc[a] \notin HookPlaces
  PROVE  Registry!Free(a)
BY DEF Registry!Free, Owed, HookPlaces

\* What the abstract registry sees of a step that touches neither the
\* requests nor the index.
LEMMA SameRequests ==
  ASSUME UNCHANGED <<adds, removes, snapshot>>
  PROVE  Invited' = Invited /\ Asked' = Asked
BY DEF Invited, Asked

LEMMA SameFollows ==
  ASSUME UNCHANGED channels
  PROVE  Follows' = Follows
BY DEF Follows, Subscribers

LEMMA SameOwed ==
  ASSUME UNCHANGED <<pc, arg>>
  PROVE  Owed' = Owed
BY DEF Owed

LEMMA SimulationInit == Init => Registry!Init
<1> SUFFICES ASSUME Init PROVE Registry!Init
  OBVIOUS
<1>1. Invited = {} /\ Asked = {}
  BY DEF Init, Invited, Asked
<1>2. Follows = {}
  BY DEF Init, Follows, Subscribers
<1>3. Owed = {}
  BY DEF Init, Owed
<1> QED BY <1>1, <1>2, <1>3 DEF Init, Registry!Init

\* A removal takes the peer out of everything it follows.
LEMMA RemovalUnfollows ==
  ASSUME TypeOK, RegistryInv, NEW p \in Peers,
         channels' = ChannelsWithout(p, DOMAIN channels)
  PROVE  Follows' = {f \in Follows : f[1] # p}
<1>1. \A q \in Peers, ch \in Channels :
        q \in Subscribers(ch)' <=> q \in Subscribers(ch) /\ ~(q = p /\ ch \in DOMAIN channels)
  BY ChannelsWithoutSubscribers DEF RegistryInv
<1>2. \A q \in Peers, ch \in Channels :
        q \in Subscribers(ch)' <=> q \in Subscribers(ch) /\ q # p
  BY <1>1 DEF Subscribers
<1> QED BY <1>2 DEF Follows

LEMMA Simulation ==
  RefinementInv /\ [Next]_vars => [Registry!Next]_(Registry!state)
<1> SUFFICES ASSUME RefinementInv, [Next]_vars
             PROVE  Registry!Next \/ UNCHANGED Registry!state
  OBVIOUS
<1> USE DEF RefinementInv, At, registry, queues, runState, calls, hooks
<1>0. Callers \subseteq Agents /\ Runners \subseteq Agents
  BY DEF Agents
<1>1. CASE UNCHANGED vars
  BY <1>1, SameRequests, SameFollows, SameOwed DEF vars, Registry!state
<1>2. ASSUME NEW c \in Callers, NEW p \in Peers, AddPeer(c, p) PROVE Registry!Next
  <2>1. Owed' = Owed
    BY <1>0, <1>2, OwedAsBefore DEF AddPeer, Places, HookPlaces
  <2>2. Registry!Invite(p)
    BY <1>2, <2>1, AddPeerInvites, SameFollows DEF AddPeer, Registry!Invite
  <2> QED BY <2>2 DEF Registry!Next
<1>3. ASSUME NEW c \in Callers, NEW p \in Peers, RemovePeer(c, p) PROVE Registry!Next
  <2>1. Owed' = Owed
    BY <1>0, <1>3, OwedAsBefore DEF RemovePeer, Places, HookPlaces
  <2>2. Registry!Ask(p)
    BY <1>3, <2>1, RemovePeerAsks, SameFollows DEF RemovePeer, Registry!Ask
  <2> QED BY <2>2 DEF Registry!Next
<1>4. ASSUME NEW c \in Callers, NEW p \in Peers, PeerClose(c, p) PROVE Registry!Next
  <2>1. Registry!CloseOwn(p)
    BY <1>4, SameRequests, SameFollows, SameOwed DEF PeerClose, Registry!CloseOwn
  <2> QED BY <2>1 DEF Registry!Next
<1>5. ASSUME NEW c \in Callers, NEW p \in Peers, NEW ch \in Channels, SubscribePeer(c, p, ch)
      PROVE  Registry!Next
  <2>1. \A q \in Peers, x \in Channels :
          q \in Subscribers(x)' <=> q \in Subscribers(x) \/ (q = p /\ x = ch)
    BY <1>5 DEF SubscribePeer, Subscribers
  <2>2. Follows' = Follows \cup {<<p, ch>>}
    BY <2>1 DEF Follows
  <2>3. <<p, ch>> \in Permitted
    BY <1>5 DEF SubscribePeer, Permitted
  <2>4. Registry!Follow(<<p, ch>>)
    BY <1>5, <2>2, <2>3, SameRequests, SameOwed DEF SubscribePeer, Registry!Follow
  <2> QED BY <2>3, <2>4 DEF Registry!Next
<1>6. ASSUME NEW c \in Callers, NEW p \in Peers, NEW ch \in Channels, UnsubscribePeer(c, p, ch)
      PROVE  Registry!Next \/ UNCHANGED Registry!state
  <2>1. \A q \in Peers, x \in Channels :
          q \in Subscribers(x)' <=> q \in Subscribers(x) /\ ~(q = p /\ x \in {ch})
    BY <1>6, ChannelsWithoutSubscribers DEF UnsubscribePeer, RegistryInv
  <2>2. Follows' = Follows \ {<<p, ch>>}
    BY <2>1 DEF Follows
  <2>3. /\ UNCHANGED <<running, peers, closed>>
        /\ Invited' = Invited /\ Asked' = Asked /\ Owed' = Owed
    BY <1>6, SameRequests, SameOwed DEF UnsubscribePeer
  <2>4. CASE <<p, ch>> \in Follows
    BY <2>2, <2>3, <2>4 DEF Registry!Unfollow, Registry!Next
  <2>5. CASE <<p, ch>> \notin Follows
    BY <2>2, <2>3, <2>5 DEF Registry!state
  <2> QED BY <2>4, <2>5
<1>7. ASSUME NEW a \in Agents,
             QueueRegister(a) \/ QueueUnregister(a) \/ RegisterFull(a) \/ UnregisterFull(a)
      PROVE  UNCHANGED Registry!state
  <2>1. Owed' = Owed
    <3>1. pc[a] \in {"register", "unregister"}
      BY <1>7 DEF QueueRegister, QueueUnregister, RegisterFull, UnregisterFull
    <3>2. \E l \in {"idle", "addPeer", "removePeer"}, p \in Peers \cup {NoPeer} : Goto(a, l, p)
      BY <1>7, <3>1, ArgIsPeer
         DEF QueueRegister, QueueUnregister, RegisterFull, UnregisterFull, Return
    <3> QED BY <3>1, <3>2, OwedAsBefore DEF Places, HookPlaces
  <2> QED
    BY <1>7, <2>1, SameRequests, SameFollows
       DEF QueueRegister, QueueUnregister, RegisterFull, UnregisterFull, Registry!state
<1>8. ASSUME NEW a \in Agents, addPeer(a) PROVE Registry!Next \/ UNCHANGED Registry!state
  <2>0. Registry!Free(a) /\ pc[a] = "addPeer" /\ arg[a] \in Peers
    BY <1>8, OwesNothing, ArgIsPeer DEF addPeer, HookPlaces
  <2>1. Invited' = Invited /\ Asked' = Asked /\ Follows' = Follows /\ arg[a] \in Invited
    BY <1>8, SameRequests, SameFollows DEF addPeer, HeldInv
  <2>2. CASE arg[a] \in peers
    <3>1. Owed' = Owed
      BY <1>8, <2>0, <2>2, OwedAsBefore DEF addPeer, Return, Places, HookPlaces
    <3> QED BY <1>8, <2>1, <2>2, <3>1 DEF addPeer, Registry!state
  <2>3. CASE arg[a] \notin peers
    <3>1. Owed' = Owed \cup {<<a, arg[a], "onConnect">>}
      <4>1. <<a, arg[a], pc[a]>> \notin Owed
        BY <2>0 DEF Owed
      <4> QED BY <1>8, <2>0, <2>3, <4>1, OwedAfterGoto DEF addPeer, Places, HookPlaces
    <3>2. Registry!Join(a, arg[a])
      BY <1>8, <2>0, <2>1, <2>3, <3>1 DEF addPeer, Registry!Join
    <3> QED BY <2>0, <3>2 DEF Registry!Next
  <2> QED BY <2>2, <2>3
<1>9. ASSUME NEW a \in Agents, removePeer(a) PROVE Registry!Next \/ UNCHANGED Registry!state
  <2>0. Registry!Free(a) /\ pc[a] = "removePeer" /\ arg[a] \in Peers
    BY <1>9, OwesNothing, ArgIsPeer DEF removePeer, HookPlaces
  <2>1. Invited' = Invited /\ Asked' = Asked /\ arg[a] \in Asked
    BY <1>9, SameRequests DEF removePeer, HeldInv
  <2>2. CASE arg[a] \notin peers
    <3>1. Owed' = Owed
      BY <1>9, <2>0, <2>2, OwedAsBefore DEF removePeer, Return, Places, HookPlaces
    <3>2. Follows' = Follows
      BY <1>9, <2>2, SameFollows DEF removePeer
    <3> QED BY <1>9, <2>1, <2>2, <3>1, <3>2 DEF removePeer, Registry!state
  <2>3. CASE arg[a] \in peers
    <3>1. Owed' = Owed \cup {<<a, arg[a], "close">>}
      <4>1. <<a, arg[a], pc[a]>> \notin Owed
        BY <2>0 DEF Owed
      <4> QED BY <1>9, <2>0, <2>3, <4>1, OwedAfterGoto DEF removePeer, Places, HookPlaces
    <3>2. Follows' = {f \in Follows : f[1] # arg[a]}
      BY <1>9, <2>0, <2>3, RemovalUnfollows DEF removePeer
    <3>3. Registry!Leave(a, arg[a])
      BY <1>9, <2>0, <2>1, <2>3, <3>1, <3>2 DEF removePeer, Registry!Leave
    <3> QED BY <2>0, <3>3 DEF Registry!Next
  <2> QED BY <2>2, <2>3
<1>10. ASSUME NEW a \in Agents, OnConnect(a) PROVE Registry!Next
  <2>0. pc[a] = "onConnect" /\ arg[a] \in Peers
    BY <1>10, ArgIsPeer DEF OnConnect
  <2>1. /\ <<a, arg[a], "onConnect">> \in Owed
        /\ Owed' = Owed \ {<<a, arg[a], "onConnect">>}
    BY <1>10, <2>0, OwedAfterGoto DEF OnConnect, Return, Places, HookPlaces, Owed
  <2>2. Registry!Greet(a, arg[a])
    BY <1>10, <2>1, SameRequests, SameFollows DEF OnConnect, Registry!Greet, Registry!Pay
  <2> QED BY <2>0, <2>2 DEF Registry!Next
<1>11. ASSUME NEW a \in Agents, Close(a) PROVE Registry!Next
  <2>0. pc[a] = "close" /\ arg[a] \in Peers
    BY <1>11, ArgIsPeer DEF Close
  <2>1. /\ <<a, arg[a], "close">> \in Owed
        /\ Owed' = (Owed \ {<<a, arg[a], "close">>}) \cup {<<a, arg[a], "onDisconnect">>}
    BY <1>11, <2>0, OwedAfterGoto DEF Close, Places, HookPlaces, Owed
  <2>2. Registry!ClosePeer(a, arg[a])
    BY <1>11, <2>1, SameRequests, SameFollows DEF Close, Registry!ClosePeer, Registry!Pay
  <2> QED BY <2>0, <2>2 DEF Registry!Next
<1>12. ASSUME NEW a \in Agents, OnDisconnect(a) PROVE Registry!Next
  <2>0. pc[a] = "onDisconnect" /\ arg[a] \in Peers /\ arg[a] \in closed
    BY <1>12, ArgIsPeer DEF OnDisconnect, ClosedInv
  <2>1. /\ <<a, arg[a], "onDisconnect">> \in Owed
        /\ Owed' = Owed \ {<<a, arg[a], "onDisconnect">>}
    BY <1>12, <2>0, OwedAfterGoto DEF OnDisconnect, Return, Places, HookPlaces, Owed
  <2>2. Registry!Part(a, arg[a])
    BY <1>12, <2>0, <2>1, SameRequests, SameFollows
       DEF OnDisconnect, Registry!Part, Registry!Pay
  <2> QED BY <2>0, <2>2 DEF Registry!Next
<1>13. ASSUME NEW r \in Runners, Run(r) PROVE Registry!Next \/ UNCHANGED Registry!state
  <2>1. /\ UNCHANGED <<peers, closed>> /\ Follows' = Follows
        /\ Invited' = Invited /\ Asked' = Asked /\ Owed' = Owed
    BY <1>13, SameRequests, SameFollows, SameOwed DEF Run
  <2>2. CASE running
    BY <1>13, <2>1, <2>2 DEF Run, Registry!state
  <2>3. CASE ~running
    BY <1>13, <2>1, <2>3 DEF Run, Registry!Open, Registry!Next
  <2> QED BY <2>2, <2>3
<1>14. ASSUME NEW r \in Runners, Cancel(r) \/ FinishRun(r) PROVE UNCHANGED Registry!state
  BY <1>14, SameRequests, SameFollows, SameOwed DEF Cancel, FinishRun, Registry!state
<1>15. ASSUME NEW r \in Runners, ServeRegister(r) \/ ServeUnregister(r) \/ DrainPeer(r)
       PROVE  UNCHANGED Registry!state
  <2>1. Owed' = Owed
    <3>1. r \in Agents /\ pc[r] = "idle"
      BY <1>0, <1>15 DEF ServeRegister, ServeUnregister, DrainPeer, Selecting
    <3>2. \E l \in {"addPeer", "removePeer"} : \E p : Goto(r, l, p)
      BY <1>15 DEF ServeRegister, ServeUnregister, DrainPeer
    <3> QED BY <3>1, <3>2, OwedAsBefore DEF Places, HookPlaces
  <2> QED
    BY <1>15, <2>1, SameRequests, SameFollows
       DEF ServeRegister, ServeUnregister, DrainPeer, Registry!state
<1>16. ASSUME NEW r \in Runners, StopLoop(r) PROVE Registry!Next
  <2>1. running
    BY <1>16 DEF StopLoop, Selecting, OneEventLoop
  <2>2. Registry!Shut
    BY <1>16, <2>1, StopLoopAsks, SameFollows, SameOwed DEF StopLoop, Registry!Shut
  <2> QED BY <2>2 DEF Registry!Next
<1> QED
  BY <1>1, <1>2, <1>3, <1>4, <1>5, <1>6, <1>7, <1>8, <1>9, <1>10, <1>11, <1>12, <1>13,
     <1>14, <1>15, <1>16 DEF Next, Call, RunnerStep, Continue

\* The event loop, its queues with their fallbacks, and the deferred shutdown
\* implement the registry of PeerRegistry, with any number of goroutines in
\* every exported method and in Run.
THEOREM RegistryImplemented == Spec => ImplementsRegistry
<1>1. Init => OneEventLoop /\ ShutdownInv /\ ClosedInv /\ RegistryInv
  BY DEF Init, OneEventLoop, ShutdownInv, ListInv, ClosedInv, RegistryInv, SubscriptionMirror,
     NoEmptyChannel, Subscribers
<1>2. Init => RefinementInv
  BY <1>1, TypeInit, HeldInit DEF RefinementInv
<1>3. RefinementInv /\ [Next]_vars => RefinementInv'
  BY TypeStep, OneEventLoopStep, RegistryStep, ShutdownStep, ClosedStep, HeldStep
     DEF RefinementInv
<1>4. QED
  BY <1>2, <1>3, SimulationInit, Simulation, PTL DEF Spec, ImplementsRegistry, Registry!Spec

-----------------------------------------------------------------------------
(* The configuration.                                                       *)

\* A normalised configuration has durations again (hub_config.go:52-66).
THEOREM NormalizeType ==
  ASSUME NEW config \in Config
  PROVE  normalizeHubConfig(config) \in Config
BY SMT DEF Config, normalizeHubConfig, OrDefault, DefaultHubConfig, Twice, Duration,
       HalfRange, Second

\* A ws peer has time for its pong: a heartbeat that is not negative, and
\* shorter than 146 years, comes before the read deadline that it renews
\* (hub_config.go:60-62, ws.go:168-176, 268-284).  For other heartbeats the
\* doubled one may be the earlier.
THEOREM PongFollowsHeartbeat ==
  ASSUME NEW config \in Config, 0 <= config.heartbeat, config.heartbeat < HalfRange
  PROVE  LET normal == normalizeHubConfig(config)
         IN  0 < normal.heartbeat /\ normal.heartbeat < normal.pong
BY SMT DEF Config, normalizeHubConfig, OrDefault, DefaultHubConfig, Twice, Duration,
       HalfRange, Second

\* Such a configuration is normal after one call: hub.Config() returns what
\* NewHubWithConfig made of it (hub.go:52-58, 73-82).
THEOREM NormalizeOnce ==
  ASSUME NEW config \in Config, 0 <= config.heartbeat, config.heartbeat < HalfRange
  PROVE  normalizeHubConfig(normalizeHubConfig(config)) = normalizeHubConfig(config)
<1> DEFINE normal == normalizeHubConfig(config)
<1>1. normal \in [heartbeat : Int, pong : Int]
  BY NormalizeType DEF Config, Duration
<1>2. 0 < normal.heartbeat /\ normal.heartbeat < normal.pong
  BY PongFollowsHeartbeat
<1> HIDE DEF normal
<1>3. normalizeHubConfig(normal) = [heartbeat |-> normal.heartbeat, pong |-> normal.pong]
  BY <1>1, <1>2, SMT DEF normalizeHubConfig, OrDefault
<1>4. normal = [heartbeat |-> normal.heartbeat, pong |-> normal.pong]
  BY <1>1, SMT
<1> QED  BY <1>3, <1>4 DEF normal

==============================================================================
