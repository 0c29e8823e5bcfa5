---------------------------- MODULE PipesProofs ----------------------------
(* The type of Pipes, and what its loops hold, for any network of pipes.    *)
EXTENDS Pipes, TLAPS

LEMMA InitType == Init => TypeOK
BY PipesAssumption DEF Init, TypeOK, Kinds

\* What a hub does with a frame leaves its queues sets of frames.
LEMMA ArriveType ==
  ASSUME TypeOK, NEW h \in Hubs, NEW f \in Frames, Arrive(h, f)
  PROVE  queue' \in [Hubs -> SUBSET Frames] /\ waiting' \in [Hubs -> SUBSET Frames]
BY DEF TypeOK, Arrive

LEMMA NextType == TypeOK /\ [Next]_vars => TypeOK'
<1> SUFFICES ASSUME TypeOK, [Next]_vars PROVE TypeOK'
  OBVIOUS
<1>1. ASSUME NEW h \in Hubs, OnStartup(h) \/ Run(h) \/ OnShutdown(h) \/ RunEnds(h) PROVE TypeOK'
  BY <1>1 DEF TypeOK, OnStartup, Run, OnShutdown, RunEnds, Becomes, pipes, traffic
<1>2. ASSUME NEW h \in Hubs, NEW f \in Frames, Send(h, f) PROVE TypeOK'
  <2>1. queue' \in [Hubs -> SUBSET Frames] /\ waiting' \in [Hubs -> SUBSET Frames]
    BY <1>2, ArriveType DEF Send
  <2> QED  BY <1>2, <2>1 DEF TypeOK, Send, hubs, pipes
<1>3. ASSUME NEW h \in Hubs, NEW f \in Frames, Enqueue(h, f) \/ GiveUp(h, f) PROVE TypeOK'
  BY <1>3 DEF TypeOK, Enqueue, GiveUp, hubs, pipes
<1>4. ASSUME NEW h \in Hubs, NEW f \in Frames, Take(h, f) PROVE TypeOK'
  BY <1>4 DEF TypeOK, Take, Takers, hubs, pipes
<1>5. ASSUME NEW h \in Hubs, NEW p \in Pipes, Forward(h, p) PROVE TypeOK'
  <2>1. PICK f \in frame[h] : Arrive(Dst[p], f)
    BY <1>5 DEF Forward
  <2>2. f \in Frames /\ Dst[p] \in Hubs
    BY <2>1, PipesAssumption DEF TypeOK
  <2>3. queue' \in [Hubs -> SUBSET Frames] /\ waiting' \in [Hubs -> SUBSET Frames]
    BY <2>1, <2>2, ArriveType
  <2> QED  BY <1>5, <2>3 DEF TypeOK, Forward, hubs, pipes
<1>6. ASSUME NEW p \in Pipes,
             \/ SubscribePublished(p) \/ SubscribeBroadcast(p)
             \/ UnsubscribeBroadcast(p) \/ UnsubscribePublished(p)
      PROVE  TypeOK'
  BY <1>6 DEF TypeOK, SubscribePublished, SubscribeBroadcast, UnsubscribeBroadcast,
              UnsubscribePublished, Moves, Kinds, hubs, traffic
<1>7. CASE UNCHANGED vars
  BY <1>7 DEF TypeOK, vars, hubs, pipes, traffic
<1> QED  BY <1>1, <1>2, <1>3, <1>4, <1>5, <1>6, <1>7 DEF Next

\* Whatever the network, and whichever loops are in the middle of calls on each
\* other, frames, pipes and hubs stay what they are.
THEOREM TypeCorrect == Spec => []TypeOK
<1>1. Init => TypeOK
  BY InitType
<1>2. TypeOK /\ [Next]_vars => TypeOK'
  BY NextType
<1> QED  BY <1>1, <1>2, PTL DEF Spec

-----------------------------------------------------------------------------

\* Only Take and Forward touch what a loop holds: Take fills frame and todo
\* together, Forward empties them together.
LEMMA LoopStep == TypeOK /\ LoopGoesOn /\ [Next]_vars => LoopGoesOn'
<1> SUFFICES ASSUME TypeOK, LoopGoesOn, [Next]_vars PROVE LoopGoesOn'
  OBVIOUS
<1>1. ASSUME NEW h \in Hubs, NEW f \in Frames, Take(h, f) PROVE LoopGoesOn'
  BY <1>1 DEF TypeOK, LoopGoesOn, Take, Takers
<1>2. ASSUME NEW h \in Hubs, NEW p \in Pipes, Forward(h, p) PROVE LoopGoesOn'
  BY <1>2 DEF TypeOK, LoopGoesOn, Forward
<1>3. CASE UNCHANGED <<frame, todo>>
  BY <1>3 DEF LoopGoesOn
<1> QED
  BY <1>1, <1>2, <1>3
  DEF Next, vars, hubs, pipes, traffic, OnStartup, Run, OnShutdown, RunEnds, Send, Enqueue,
      GiveUp, SubscribePublished, SubscribeBroadcast, UnsubscribeBroadcast, UnsubscribePublished

\* In any network, whatever is joined and stopped beside it, a loop that holds a
\* frame has a function left to call with it.
THEOREM LoopsGoOn == Spec => []LoopGoesOn
<1>1. Init => LoopGoesOn
  BY DEF Init, LoopGoesOn
<1> QED  BY <1>1, TypeCorrect, LoopStep, PTL DEF Spec

=============================================================================
