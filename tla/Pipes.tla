------------------------------- MODULE Pipes -------------------------------
(***************************************************************************)
(* Hubs joined by stream.Pipe (src/go/stream.go), each run by a Service    *)
(* (src/go/service.go).  A pipe subscribes two functions to its source,    *)
(* one for published frames and one for broadcasts, which publish and      *)
(* broadcast at its destination; the loop of the source calls them.  So    *)
(* a loop makes calls on other hubs, in a ring of pipes on hubs whose      *)
(* loops make calls on it, and nothing takes a frame out of a ring.        *)
(*                                                                         *)
(* The delivery within a hub is HubDelivery's.  Here a call of Publish or  *)
(* Broadcast is one step, and a queue holds the frames without their order *)
(* and without the further copies of a frame; the capacity and the         *)
(* goroutine that waits for room are kept.  No function is subscribed at a *)
(* hub but those of the pipes.                                             *)
(***************************************************************************)
EXTENDS Naturals, FiniteSets

CONSTANTS
  Hubs,
  Pipes,      \* calls of Pipe
  Src, Dst,   \* [Pipes -> Hubs]
  Frames,
  Batches,    \* the sets of frames that may be sent, each frame once
  KindOf,     \* [Frames -> {"published", "broadcast"}]
  QueueCap    \* capacity of publishQueue and of broadcastQueue (256)

Kinds == {"published", "broadcast"}

ASSUME PipesAssumption ==
  /\ Src \in [Pipes -> Hubs] /\ Dst \in [Pipes -> Hubs]
  /\ \A p \in Pipes : Src[p] # Dst[p]
  /\ Batches \subseteq SUBSET Frames
  /\ KindOf \in [Frames -> Kinds]
  /\ QueueCap \in Nat \ {0}

VARIABLES
  life,       \* a hub is new, starting (OnStartup has spawned Run), running or stopped
  cancelled,  \* hubs whose context OnShutdown has cancelled
  pipe,       \* a pipe is none, joining, joined, parting or parted
  taps,       \* kinds of frames whose function is subscribed, of each pipe
  unsent,     \* frames that are yet to be sent
  queue,      \* frames in the two queues of a hub
  waiting,    \* frames of the goroutines that wait for room in a queue
  frame,      \* what the loop of a hub is handling, a set of at most one frame
  todo        \* pipes whose function the loop has yet to call with it

hubs == <<life, cancelled>>
pipes == <<pipe, taps>>
traffic == <<unsent, queue, waiting, frame, todo>>
vars == <<hubs, pipes, traffic>>

Init ==
  /\ life = [h \in Hubs |-> "new"] /\ cancelled = {}
  /\ pipe = [p \in Pipes |-> "none"] /\ taps = [p \in Pipes |-> {}]
  /\ unsent \in Batches
  /\ queue = [h \in Hubs |-> {}] /\ waiting = [h \in Hubs |-> {}]
  /\ frame = [h \in Hubs |-> {}] /\ todo = [h \in Hubs |-> {}]

-----------------------------------------------------------------------------
(* Service and Run.                                                         *)

Becomes(h, from, to) == life[h] = from /\ life' = [life EXCEPT ![h] = to]

\* OnStartup, the first time; after that it reports success and does nothing.
OnStartup(h) ==
  /\ Becomes(h, "new", "starting")
  /\ UNCHANGED <<cancelled, pipes, traffic>>

\* Run in its goroutine, whose context may be done already.
Run(h) ==
  /\ Becomes(h, "starting", "running")
  /\ UNCHANGED <<cancelled, pipes, traffic>>

\* OnShutdown; before OnStartup there is nothing to cancel.
OnShutdown(h) ==
  /\ life[h] # "new" /\ h \notin cancelled
  /\ cancelled' = cancelled \cup {h}
  /\ UNCHANGED <<life, pipes, traffic>>

\* The select of the loop finds the context done.
Idle(h) == frame[h] = {}
RunEnds(h) ==
  /\ h \in cancelled /\ Idle(h)
  /\ Becomes(h, "running", "stopped")
  /\ UNCHANGED <<cancelled, pipes, traffic>>

-----------------------------------------------------------------------------
(* Pipe and the function that it returns.                                   *)

Moves(p, from, to) == pipe[p] = from /\ pipe' = [pipe EXCEPT ![p] = to]

SubscribePublished(p) ==
  /\ Moves(p, "none", "joining")
  /\ taps' = [taps EXCEPT ![p] = @ \cup {"published"}]
  /\ UNCHANGED <<hubs, traffic>>

SubscribeBroadcast(p) ==
  /\ Moves(p, "joining", "joined")
  /\ taps' = [taps EXCEPT ![p] = @ \cup {"broadcast"}]
  /\ UNCHANGED <<hubs, traffic>>

\* stop(): the functions leave in the opposite order.
UnsubscribeBroadcast(p) ==
  /\ Moves(p, "joined", "parting")
  /\ taps' = [taps EXCEPT ![p] = @ \ {"broadcast"}]
  /\ UNCHANGED <<hubs, traffic>>

\* Mutant: stop() ends with the broadcast function.
Mut_UnsubscribePublished(p) ==
  /\ Moves(p, "parting", "parted")
  /\ UNCHANGED <<hubs, taps, traffic>>

UnsubscribePublished(p) ==
  /\ Moves(p, "parting", "parted")
  /\ taps' = [taps EXCEPT ![p] = @ \ {"published"}]
  /\ UNCHANGED <<hubs, traffic>>

-----------------------------------------------------------------------------
(* Frames.                                                                  *)

Room(h, f) == Cardinality({g \in queue[h] : KindOf[g] = KindOf[f]}) < QueueCap

\* The pipes that take a frame on from h.
Takers(h, f) == {p \in Pipes : Src[p] = h /\ KindOf[f] \in taps[p]}

\* Publish does not queue a frame for which the hub has no function.
Wanted(h, f) == KindOf[f] = "broadcast" \/ Takers(h, f) # {}

\* Mutant: Publish and Broadcast wait for room in the queue, also in that of a
\* hub that has stopped meanwhile.
Mut_ArriveWaits(h, f) ==
  /\ life[h] # "new" /\ Wanted(h, f) => Room(h, f)
  /\ queue' = IF life[h] = "running" /\ Wanted(h, f)
              THEN [queue EXCEPT ![h] = @ \cup {f}] ELSE queue
  /\ UNCHANGED waiting

\* Mutant: a frame that finds the queue full is dropped.
Mut_ArriveDrops(h, f) ==
  /\ queue' = IF life[h] = "running" /\ Wanted(h, f) /\ Room(h, f)
              THEN [queue EXCEPT ![h] = @ \cup {f}] ELSE queue
  /\ UNCHANGED waiting

\* Publish or Broadcast at h: refused by a hub that does not run, and otherwise
\* into the queue, or into a goroutine that waits for room.
Arrive(h, f) ==
  IF life[h] # "running" \/ ~Wanted(h, f) THEN UNCHANGED <<queue, waiting>>
  ELSE IF Room(h, f) THEN queue' = [queue EXCEPT ![h] = @ \cup {f}] /\ UNCHANGED waiting
  ELSE waiting' = [waiting EXCEPT ![h] = @ \cup {f}] /\ UNCHANGED queue

\* The actions stream.publish, stream.send_channel and stream.broadcast.
Send(h, f) ==
  /\ f \in unsent /\ life[h] # "new"
  /\ unsent' = unsent \ {f}
  /\ Arrive(h, f)
  /\ UNCHANGED <<hubs, pipes, frame, todo>>

\* The goroutine finds room ...
Enqueue(h, f) ==
  /\ f \in waiting[h] /\ Room(h, f)
  /\ waiting' = [waiting EXCEPT ![h] = @ \ {f}]
  /\ queue' = [queue EXCEPT ![h] = @ \cup {f}]
  /\ UNCHANGED <<hubs, pipes, unsent, frame, todo>>

\* ... or hub.done closed.
GiveUp(h, f) ==
  /\ f \in waiting[h] /\ life[h] = "stopped"
  /\ waiting' = [waiting EXCEPT ![h] = @ \ {f}]
  /\ UNCHANGED <<hubs, pipes, unsent, queue, frame, todo>>

\* The loop takes a frame, and a copy of the functions subscribed by now.
Take(h, f) ==
  /\ life[h] = "running" /\ Idle(h) /\ f \in queue[h]
  /\ queue' = [queue EXCEPT ![h] = @ \ {f}]
  /\ todo' = [todo EXCEPT ![h] = Takers(h, f)]
  /\ frame' = [frame EXCEPT ![h] = IF Takers(h, f) = {} THEN {} ELSE {f}]
  /\ UNCHANGED <<hubs, pipes, unsent, waiting>>

\* It calls one of them: Publish or Broadcast at the destination, whose result
\* is ignored.
Forward(h, p) ==
  /\ p \in todo[h]
  /\ todo' = [todo EXCEPT ![h] = @ \ {p}]
  /\ frame' = [frame EXCEPT ![h] = IF todo[h] = {p} THEN {} ELSE @]
  /\ \E f \in frame[h] : Arrive(Dst[p], f)
  /\ UNCHANGED <<hubs, pipes, unsent>>

-----------------------------------------------------------------------------

Next ==
  \/ \E h \in Hubs :
       \/ OnStartup(h) \/ Run(h) \/ OnShutdown(h) \/ RunEnds(h)
       \/ \E f \in Frames : Send(h, f) \/ Enqueue(h, f) \/ GiveUp(h, f) \/ Take(h, f)
       \/ \E p \in Pipes : Forward(h, p)
  \/ \E p \in Pipes :
       \/ SubscribePublished(p) \/ SubscribeBroadcast(p)
       \/ UnsubscribeBroadcast(p) \/ UnsubscribePublished(p)

Spec == Init /\ [][Next]_vars

\* Goroutines run.  Go's select chooses at random among the cases that are
\* ready, so it does not pass over the context for ever though frames keep
\* coming (SF); nor does a queue pass over those that wait for room in it.
Fairness ==
  \A h \in Hubs :
    /\ WF_vars(Run(h)) /\ SF_vars(RunEnds(h))
    /\ WF_vars(\E f \in Frames : Take(h, f))
    /\ SF_vars(\E f \in Frames : Enqueue(h, f))
    /\ WF_vars(\E p \in Pipes : Forward(h, p))

FairSpec == Spec /\ Fairness

-----------------------------------------------------------------------------
(* Properties.                                                              *)

\* The type invariant.
TypeOK ==
  /\ life \in [Hubs -> {"new", "starting", "running", "stopped"}]
  /\ cancelled \subseteq Hubs
  /\ pipe \in [Pipes -> {"none", "joining", "joined", "parting", "parted"}]
  /\ taps \in [Pipes -> SUBSET Kinds]
  /\ unsent \subseteq Frames
  /\ queue \in [Hubs -> SUBSET Frames] /\ waiting \in [Hubs -> SUBSET Frames]
  /\ frame \in [Hubs -> SUBSET Frames] /\ todo \in [Hubs -> SUBSET Pipes]

Holds(h, f) == f \in queue[h] \cup waiting[h] \cup frame[h]

\* A loop that holds a frame has a pipe of its own hub to call with it, and a
\* loop that holds none calls no pipe, though pipes are joined and stopped in the
\* middle of it: what a loop is busy with comes to an end (stream.go:243-272).
LoopGoesOn ==
  \A h \in Hubs : (frame[h] = {} <=> todo[h] = {}) /\ \A p \in todo[h] : Src[p] = h

\* OnShutdown ends the loop of its hub, though a ring of pipes keeps the queues
\* full and every loop of the ring is calling the next hub (hub.go:793-797,
\* service.go:76-85).
ServiceStops == \A h \in Hubs : h \in cancelled ~> life[h] = "stopped"

\* A frame that goes round a ring stops doing so when one pipe of the ring has
\* been stopped: nothing is left in a hub that runs (stream.go:268-272).
RingDrains ==
  (\E p \in Pipes : pipe[p] = "parted")
    ~> \A h \in Hubs, f \in Frames : life[h] = "running" => ~Holds(h, f)

\* A frame at the source of a pipe gets to its destination, as what it was sent,
\* unless nobody there takes it, or the pipe or one of the hubs has been stopped
\* or is not there yet (stream.go:243-258).
Forwarded ==
  \A p \in Pipes, f \in Frames :
    Holds(Src[p], f) ~> \/ Holds(Dst[p], f) \/ ~Wanted(Dst[p], f) \/ pipe[p] # "joined"
                        \/ life[Src[p]] # "running" \/ life[Dst[p]] # "running"

=============================================================================
