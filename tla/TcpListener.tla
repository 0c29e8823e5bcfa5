---------------------------- MODULE TcpListener ----------------------------
(***************************************************************************)
(* Adapter.Listen (src/go/adapter/tcp/tcp.go) on top of Connections: the   *)
(* calls of Listen on one adapter, the listener that they share through    *)
(* adapter.listener, and their contexts, which end the tcp connections     *)
(* that they accepted.  A tcp connection takes its first step when a       *)
(* Listen accepts it; the other kinds are as in Connections.               *)
(*                                                                         *)
(* A listener bears the name of the call that opened it.                   *)
(***************************************************************************)
EXTENDS Connections

CONSTANTS
  Calls,  \* calls of Listen on the adapter
  None

ASSUME TcpListenerAssumption == None \notin Calls

VARIABLES
  place,      \* place of each call
  uses,       \* the listener of each call
  listener,   \* adapter.listener
  open,       \* listeners that have not been closed
  over,       \* calls whose context is done
  by          \* the call that accepted a connection

lvars == <<place, uses, listener, open, over, by>>

\* A Listen is looked at together with connections for it to accept.
LInit ==
  /\ Init
  /\ place = [l \in Calls |-> IF \E c \in Conns : kind[c] = "tcp" THEN "idle" ELSE "ended"]
  /\ uses = [l \in Calls |-> None] /\ listener = None /\ open = {}
  /\ over = {}
  /\ by = [c \in Conns |-> None]

MovesTo(l, here, next) == place[l] = here /\ place' = [place EXCEPT ![l] = next]

\* Mutant: listen() does not look whether there is a listener.
Mut_Listen(l) ==
  /\ MovesTo(l, "idle", "accept")
  /\ listener' = l
  /\ open' = open \cup {l}
  /\ uses' = [uses EXCEPT ![l] = listener']
  /\ UNCHANGED <<vars, over, by>>

\* listen(), under adapter.mutex: the listener there is, or a new one.
Listen(l) ==
  /\ MovesTo(l, "idle", "accept")
  /\ listener' = IF listener = None THEN l ELSE listener
  /\ open' = IF listener = None THEN open \cup {l} ELSE open
  /\ uses' = [uses EXCEPT ![l] = listener']
  /\ UNCHANGED <<vars, over, by>>

\* The address is taken, or is none.
ListenRefused(l) ==
  /\ listener = None
  /\ MovesTo(l, "idle", "ended")
  /\ UNCHANGED <<vars, uses, listener, open, over, by>>

\* go adapter.handleConn(ctx, conn, adapter.hub), whose context may be done.
Accept(l, c) ==
  /\ place[l] = "accept" /\ uses[l] \in open
  /\ kind[c] = "tcp" /\ by[c] = None
  /\ by' = [by EXCEPT ![c] = l]
  /\ context' = IF l \in over THEN context \cup {c} ELSE context
  /\ UNCHANGED <<kind, pc, socket, watched, pump, peer, hub, left,
                 place, uses, listener, open, over>>

\* Accept fails: on a closed listener always, on an open one at times.  Listen
\* then returns, with what matters to nothing here.
AcceptFails(l) ==
  /\ MovesTo(l, "accept", "close")
  /\ UNCHANGED <<vars, uses, listener, open, over, by>>

\* The deferred function: a second Close fails, and then it does no more.
Close(l) ==
  /\ place[l] = "close"
  /\ place' = [place EXCEPT ![l] = IF uses[l] \in open THEN "forget" ELSE "ended"]
  /\ open' = open \ {uses[l]}
  /\ UNCHANGED <<vars, uses, listener, over, by>>

Forget(l) ==
  /\ MovesTo(l, "forget", "ended")
  /\ listener' = IF listener = uses[l] THEN None ELSE listener
  /\ UNCHANGED <<vars, uses, open, over, by>>

\* The context of a call ends, and with it that of its connections.
EndContext(l) ==
  /\ place[l] # "idle" /\ uses[l] # None /\ l \notin over
  /\ over' = over \cup {l}
  /\ context' = context \cup {c \in Conns : by[c] = l}
  /\ UNCHANGED <<kind, pc, socket, watched, pump, peer, hub, left,
                 place, uses, listener, open, by>>

\* Mutant: the goroutine of a call closes only the listener that the call opened.
Mut_CloseWithContext(l) ==
  /\ l \in over /\ uses[l] \in open
  /\ open' = open \ {l}
  /\ UNCHANGED <<vars, place, uses, listener, over, by>>

\* The goroutine that waits for the context; a Close that fails is of no effect.
CloseWithContext(l) ==
  /\ l \in over /\ uses[l] \in open
  /\ open' = open \ {uses[l]}
  /\ UNCHANGED <<vars, place, uses, listener, over, by>>

-----------------------------------------------------------------------------

Accepted(c) == kind[c] = "tcp" => by[c] # None

\* Connections' Next, once the connection is accepted.
Connection(c) ==
  /\ Accepted(c)
  /\ \/ Step(c) \/ FrameRefused(c) \/ AnswerRefused(c) \/ ReadFail(c)
     \/ Write(c) \/ Flushed(c) \/ Done(c)
     \/ PumpEnds(c) \/ CloseWatched(c) \/ StopReading(c) \/ HangUp(c)
     \/ ServeRegister(c) \/ ServeUnregister(c) \/ Drain(c)
     \/ kind[c] # "tcp" /\ ContextEnds(c)
  /\ UNCHANGED lvars

ListenStep(l) == AcceptFails(l) \/ Close(l) \/ Forget(l) \/ CloseWithContext(l)

LNext ==
  \/ \E c \in Conns : Connection(c)
  \/ Shutdown /\ UNCHANGED lvars
  \/ \E l \in Calls :
       \/ Listen(l) \/ ListenRefused(l) \/ ListenStep(l) \/ EndContext(l)
       \/ \E c \in Conns : Accept(l, c)

LSpec == LInit /\ [][LNext]_<<vars, lvars>>

\* Connections' fairness, and that Accept returns on a closed listener.
LFairness ==
  /\ \A c \in Conns :
       /\ WF_vars(Accepted(c) /\ Step(c))
       /\ WF_vars(Accepted(c) /\ socket[c] # "open" /\ ReadFail(c))
       /\ WF_vars(socket[c] # "unread" /\ Flushed(c)) /\ SF_vars(Done(c))
       /\ WF_vars(PumpMustEnd(c) /\ PumpEnds(c))
       /\ WF_vars(Accepted(c) /\ CloseWatched(c)) /\ WF_vars(Drain(c))
       /\ WF_vars(ServeRegister(c)) /\ WF_vars(ServeUnregister(c))
  /\ \A l \in Calls :
       /\ WF_lvars(uses[l] \notin open /\ AcceptFails(l))
       /\ WF_lvars(Close(l) \/ Forget(l)) /\ WF_lvars(CloseWithContext(l))

LFairSpec == LSpec /\ LFairness

-----------------------------------------------------------------------------
(* Properties.                                                              *)

\* The adapter has one listener at a time, and an open one is in the hands of a
\* Listen that accepts from it or is about to close it: the port is free when
\* every Listen has returned, whichever of their contexts and errors ended them
\* (tcp.go:97-113, 187-207).  A Listen that finds its listener closed before its
\* own context is done ("Blocks until ctx cancelled", docs/RFC.md:965) owes it to
\* another one with the same listener, that is over or has closed it.
ListenersOwned ==
  /\ \A o \in open :
       listener = o /\ \E l \in Calls : uses[l] = o /\ place[l] \in {"accept", "close"}
  /\ \A l \in Calls : place[l] = "accept" /\ uses[l] \notin open /\ l \notin over =>
       \E k \in Calls \ {l} : uses[k] = uses[l] /\ (k \in over \/ place[k] \in {"forget", "ended"})

\* A Listen returns when its context is done, with whomever it shares the
\* listener (tcp.go:108-126).
ListenEnds == \A l \in Calls : l \in over ~> place[l] = "ended"
=============================================================================
