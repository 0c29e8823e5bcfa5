----------------------------- MODULE ZmqAdapter -----------------------------
(***************************************************************************)
(* The ZeroMQ adapter (src/go/adapter/zmq/zmq.go): calls of Start, one     *)
(* after the other or overlapping, each with a socket and a peer of its    *)
(* own but one set of fields between them; Stop and Publish beside them;   *)
(* and the hub, which closes the socket of a peer it removes.              *)
(*                                                                         *)
(* Sections under adapter.mutex are one step, except that Publish holds    *)
(* the read lock across Send.  The zmq4 library is external: a socket may  *)
(* fail to connect or break, Recv fails once its socket is closed or its   *)
(* context done, and Send may block until then.                            *)
(*                                                                         *)
(* Left out: what the messages say (a message that does not decode is      *)
(* passed over), nil receivers, and invalid configurations, which return   *)
(* before any state changes; of the hub, the queues that AddPeer and       *)
(* RemovePeer go through (HubPeers).                                       *)
(***************************************************************************)
EXTENDS Naturals, FiniteSets

CONSTANTS
  MaxStarts,   \* bound: calls of Start, numbered in the order they begin
  Publishers,  \* goroutines that call Publish
  MaxStops     \* bound: calls of Stop

ASSUME ZmqAdapterAssumption == MaxStarts \in Nat /\ MaxStops \in Nat

Starts == 1 .. MaxStarts
None == 0

VARIABLES
  \* The configuration.
  receiver,       \* isReceiver(): subscriber or puller
  authenticates,  \* a ConnAuthenticator is set, which only a receiver looks at
  timed,          \* HandshakeTimeout is positive, which the authenticator's Recv asks
  \* The adapter's fields.
  running,        \* adapter.running
  held,           \* the call whose socket and cancel the adapter holds
  \* A call of Start.
  pc,             \* its place
  ctx,            \* calls whose runContext is done
  socket,         \* its socket: none, open or closed
  receive,        \* the goroutine of recvWithTimeout: none, reading, or what it got
  result,         \* what a call on its way out will return: "refused" when it
                  \* fails before it has a peer, and "none" once it has returned
  \* Stop and Publish.
  stopper,        \* place of the call of Stop
  target,         \* the call whose fields it took
  stops,          \* calls of Stop so far
  sending,        \* the call on whose socket a publisher is in Send
  \* The hub.
  hubRunning,     \* hub.running
  members,        \* hub.peers
  listed,         \* peers that the hub's shutdown has yet to remove
  \* History.
  broken          \* calls whose socket failed by itself

config == <<receiver, authenticates, timed>>
fields == <<running, held>>
start == <<pc, ctx, socket, receive, result>>
stop == <<stopper, target, stops>>
hub == <<hubRunning, members, listed>>
vars == <<config, fields, start, stop, sending, hub, broken>>

Init ==
  /\ receiver \in BOOLEAN /\ authenticates \in (IF receiver THEN BOOLEAN ELSE {FALSE})
  /\ timed \in (IF authenticates THEN BOOLEAN ELSE {TRUE})
  /\ running = FALSE /\ held = None
  /\ pc = [s \in Starts |-> "idle"] /\ ctx = {}
  /\ socket = [s \in Starts |-> "none"] /\ receive = [s \in Starts |-> "none"]
  /\ result = [s \in Starts |-> "none"]
  /\ stopper = "idle" /\ target = None /\ stops = 0
  /\ sending = [c \in Publishers |-> None]
  /\ hubRunning = TRUE /\ members = {} /\ listed = {}
  /\ broken = {}

At(s, here, next) == pc[s] = here /\ pc' = [pc EXCEPT ![s] = next]
Finish(s, here, next, r) == At(s, here, next) /\ result' = [result EXCEPT ![s] = r]
CloseSocket(s) == socket' = [socket EXCEPT ![s] = "closed"]

\* Places of a call that has returned; "unset" is that of one that left its socket.
Over == {"returned", "unset"}

\* The write lock is free: nobody is in Send under the read lock.
Lock == \A c \in Publishers : sending[c] = None

\* socket.Recv() returns an error.
RecvFails(s) == s \in ctx \/ s \in broken \/ socket[s] = "closed"

-----------------------------------------------------------------------------
(* Start.                                                                   *)

\* newSocket and connectSocket; a socket that does not connect is closed, but a
\* subscriber's that refuses a topic is not.
Start(s) ==
  /\ \A t \in Starts : t < s => pc[t] # "idle"
  /\ \/ At(s, "idle", "store") /\ socket' = [socket EXCEPT ![s] = "open"]
        /\ UNCHANGED ctx
     \/ At(s, "idle", "returned") /\ CloseSocket(s) /\ ctx' = ctx \cup {s}
     \/ /\ receiver /\ At(s, "idle", "unset")
        /\ socket' = [socket EXCEPT ![s] = "open"] /\ ctx' = ctx \cup {s}
  /\ UNCHANGED <<config, fields, receive, result, stop, sending, hub, broken>>

AfterStore == IF authenticates THEN "handshake" ELSE "register"

\* Mutant: running is not looked at.
Mut_Store(s) ==
  /\ Lock
  /\ At(s, "store", AfterStore) /\ running' = TRUE /\ held' = s
  /\ UNCHANGED <<config, ctx, socket, receive, result, stop, sending, hub, broken>>

\* The running check and the fields, in one section under the mutex.
Store(s) ==
  /\ Lock
  /\ IF running THEN At(s, "store", "reject") /\ UNCHANGED fields
     ELSE At(s, "store", AfterStore) /\ running' = TRUE /\ held' = s
  /\ UNCHANGED <<config, ctx, socket, receive, result, stop, sending, hub, broken>>

\* Mutant: the surplus socket stays open.
Mut_Reject(s) ==
  /\ At(s, "reject", "returned") /\ ctx' = ctx \cup {s}
  /\ UNCHANGED <<config, fields, socket, receive, result, stop, sending, hub, broken>>

\* The adapter runs already: the second socket is closed.
Reject(s) ==
  /\ At(s, "reject", "returned") /\ CloseSocket(s) /\ ctx' = ctx \cup {s}
  /\ UNCHANGED <<config, fields, receive, result, stop, sending, hub, broken>>

\* recvWithTimeout leaves the receiving to a goroutine, or without a timeout does
\* it itself ...
Handshake(s) ==
  /\ At(s, "handshake", "awaitFirst")
  /\ receive' = [receive EXCEPT ![s] = "reading"]
  /\ UNCHANGED <<config, fields, ctx, socket, result, stop, sending, hub, broken>>

RecvFirst(s) ==
  /\ receive[s] = "reading"
  /\ receive' = [receive EXCEPT ![s] = IF pc[s] # "awaitFirst" THEN "none"
                                      ELSE IF RecvFails(s) THEN "error" ELSE "message"]
  /\ RecvFails(s) \/ pc[s] = "awaitFirst"
  /\ UNCHANGED <<config, fields, pc, ctx, socket, result, stop, sending, hub, broken>>

\* ... and returns with what it got, accepted or refused by the authenticator, or
\* an error, which is no failure when it is the context's,
FirstMessage(s) ==
  /\ \/ receive[s] = "message" /\ At(s, "awaitFirst", "register") /\ UNCHANGED result
     \/ receive[s] \in {"message", "error"} /\ Finish(s, "awaitFirst", "cleanup", "refused")
     \/ receive[s] = "error" /\ s \in ctx /\ Finish(s, "awaitFirst", "cleanup", "ok")
  /\ receive' = [receive EXCEPT ![s] = "none"]
  /\ UNCHANGED <<config, fields, ctx, socket, stop, sending, hub, broken>>

\* or closes the socket, at the end of the context or of HandshakeTimeout.
HandshakeOver(s) ==
  /\ timed
  /\ \/ s \in ctx /\ Finish(s, "awaitFirst", "cleanup", "ok")
     \/ Finish(s, "awaitFirst", "cleanup", "refused")
  /\ CloseSocket(s)
  /\ receive' = [receive EXCEPT ![s] = IF @ = "reading" THEN @ ELSE "none"]
  /\ UNCHANGED <<config, fields, ctx, stop, sending, hub, broken>>

\* registerPeer, with a close hook that closes the socket.
Register(s) ==
  /\ At(s, "register", IF receiver THEN "receive" ELSE "await")
  /\ members' = members \cup {s}
  /\ UNCHANGED <<config, fields, ctx, socket, receive, result, stop, sending, hubRunning, listed,
                 broken>>

\* A sender: <-runContext.Done()
Await(s) ==
  /\ s \in ctx /\ Finish(s, "await", "remove", "ok")
  /\ UNCHANGED <<config, fields, ctx, socket, receive, stop, sending, hub, broken>>

Receive(s) ==
  /\ ~RecvFails(s) /\ At(s, "receive", "dispatch")
  /\ UNCHANGED <<config, fields, ctx, socket, receive, result, stop, sending, hub,
                 broken>>

ReceiveFails(s) ==
  /\ RecvFails(s) /\ Finish(s, "receive", "remove", IF s \in ctx THEN "ok" ELSE "fail")
  /\ UNCHANGED <<config, fields, ctx, socket, receive, stop, sending, hub, broken>>

\* hub.Publish or hub.Broadcast, refused by a hub that does not run.
Dispatch(s) ==
  /\ IF hubRunning THEN At(s, "dispatch", "receive") /\ UNCHANGED result
     ELSE Finish(s, "dispatch", "remove", "fail")
  /\ UNCHANGED <<config, fields, ctx, socket, receive, stop, sending, hub, broken>>

\* The deferred RemovePeer, which comes before the deferred function: the
\* peer's hook closes the socket.
Remove(s) ==
  /\ At(s, "remove", "cleanup")
  /\ members' = members \ {s}
  /\ IF s \in members THEN CloseSocket(s) ELSE UNCHANGED socket
  /\ UNCHANGED <<config, fields, ctx, receive, result, stop, sending, hubRunning, listed, broken>>

\* The deferred function clears the fields, whosever they are by now, ...
Cleanup(s) ==
  /\ Lock
  /\ At(s, "cleanup", "release") /\ running' = FALSE /\ held' = None
  /\ UNCHANGED <<config, ctx, socket, receive, result, stop, sending, hub, broken>>

\* ... and lets go of its own context and socket.
Release(s) ==
  /\ Finish(s, "release", "returned", "none") /\ ctx' = ctx \cup {s} /\ CloseSocket(s)
  /\ broken' = broken \ {s}
  /\ UNCHANGED <<config, fields, receive, stop, sending, hub>>

-----------------------------------------------------------------------------
(* Stop, Publish, and the caller's context.                                 *)

\* Mutant: the fields are taken under the read lock.
Mut_Stop ==
  /\ stopper = "idle" /\ stops < MaxStops
  /\ stopper' = "cancel" /\ target' = held /\ stops' = stops + 1
  /\ running' = FALSE /\ held' = None
  /\ UNCHANGED <<config, start, sending, hub, broken>>

Stop ==
  /\ stopper = "idle" /\ stops < MaxStops /\ Lock
  /\ stopper' = "cancel" /\ target' = held /\ stops' = stops + 1
  /\ running' = FALSE /\ held' = None
  /\ UNCHANGED <<config, start, sending, hub, broken>>

\* Mutant: the socket is closed first, and the cancel is forgotten.
Mut_StopCancel ==
  /\ stopper = "cancel" /\ stopper' = "close"
  /\ socket' = IF target = None THEN socket ELSE [socket EXCEPT ![target] = "closed"]
  /\ UNCHANGED <<config, fields, pc, ctx, receive, result, target, stops, sending, hub,
                 broken>>

StopCancel ==
  /\ stopper = "cancel" /\ stopper' = "close"
  /\ ctx' = ctx \cup ({target} \ {None})
  /\ UNCHANGED <<config, fields, pc, socket, receive, result, target, stops, sending,
                 hub, broken>>

StopClose ==
  /\ stopper = "close" /\ stopper' = "idle" /\ target' = None
  /\ socket' = IF target = None THEN socket ELSE [socket EXCEPT ![target] = "closed"]
  /\ UNCHANGED <<config, fields, pc, ctx, receive, result, stops, sending, hub, broken>>

\* A sender's Publish takes the read lock and is in Send; one without a socket
\* is refused and changes nothing.
Publish(c) ==
  /\ ~receiver /\ running /\ held # None /\ sending[c] = None
  /\ sending' = [sending EXCEPT ![c] = held]
  /\ UNCHANGED <<config, fields, start, stop, hub, broken>>

SendReturns(c) ==
  /\ sending[c] # None
  /\ sending' = [sending EXCEPT ![c] = None]
  /\ UNCHANGED <<config, fields, start, stop, hub, broken>>

\* A Send that fails, which it does once its socket or its context is done.
SendFails(c) ==
  /\ sending[c] # None /\ (sending[c] \in ctx \/ socket[sending[c]] = "closed")
  /\ SendReturns(c)

\* The caller of Start cancels its context.
Cancel(s) ==
  /\ pc[s] \notin {"idle"} \cup Over /\ s \notin ctx
  /\ ctx' = ctx \cup {s}
  /\ UNCHANGED <<config, fields, pc, socket, receive, result, stop, sending, hub, broken>>

\* zmq4 gives up on a socket; only Recv finds out.
Break(s) ==
  /\ pc[s] \in {"awaitFirst", "receive"} /\ s \notin broken /\ broken' = broken \cup {s}
  /\ UNCHANGED <<config, fields, start, stop, sending, hub>>

-----------------------------------------------------------------------------
(* The hub's shutdown removes the peers that it has by then, and their hooks  *)
(* close the sockets.                                                        *)

HubStops ==
  /\ hubRunning /\ hubRunning' = FALSE /\ listed' = members
  /\ UNCHANGED <<config, fields, start, stop, sending, members, broken>>

DrainPeer(s) ==
  /\ s \in listed /\ listed' = listed \ {s}
  /\ members' = members \ {s}
  /\ IF s \in members THEN CloseSocket(s) ELSE UNCHANGED socket
  /\ UNCHANGED <<config, fields, pc, ctx, receive, result, stop, sending, hubRunning,
                 broken>>

-----------------------------------------------------------------------------

StartStep(s) ==
  \/ Store(s) \/ Reject(s)
  \/ Handshake(s) \/ FirstMessage(s) \/ HandshakeOver(s)
  \/ Register(s) \/ Await(s) \/ ReceiveFails(s) \/ Dispatch(s)
  \/ Remove(s) \/ Cleanup(s) \/ Release(s)

Next ==
  \/ \E s \in Starts :
       \/ Start(s) \/ StartStep(s) \/ RecvFirst(s) \/ Receive(s) \/ Cancel(s) \/ Break(s)
       \/ DrainPeer(s)
  \/ \E c \in Publishers : Publish(c) \/ SendReturns(c)
  \/ Stop \/ StopCancel \/ StopClose \/ HubStops

Spec == Init /\ [][Next]_vars

\* Goroutines that can go on do, and a lock that is free again and again is
\* got.  Nothing obliges Send to return, nor a message to come, while the
\* socket and its context live.
Fairness ==
  /\ \A s \in Starts : SF_vars(StartStep(s)) /\ WF_vars(RecvFails(s) /\ RecvFirst(s))
  /\ \A c \in Publishers : WF_vars(SendFails(c))
  /\ WF_vars(StopCancel)

FairSpec == Spec /\ Fairness

-----------------------------------------------------------------------------
(* Properties.                                                              *)

\* Every variable has its type.
TypeOK ==
  /\ {receiver, authenticates, timed, running} \subseteq BOOLEAN
  /\ held \in Starts \cup {None} /\ target \in Starts \cup {None}
  /\ pc \in [Starts -> {"idle", "store", "reject", "handshake", "awaitFirst", "register",
                        "await", "receive", "dispatch", "remove", "cleanup", "release",
                        "returned", "unset"}]
  /\ ctx \subseteq Starts /\ broken \subseteq Starts
  /\ socket \in [Starts -> {"none", "open", "closed"}]
  /\ receive \in [Starts -> {"none", "reading", "message", "error"}]
  /\ result \in [Starts -> {"none", "ok", "refused", "fail"}]
  /\ stopper \in {"idle", "cancel", "close"} /\ stops \in 0 .. MaxStops
  /\ sending \in [Publishers -> Starts \cup {None}]
  /\ hubRunning \in BOOLEAN
  /\ members \subseteq Starts /\ listed \subseteq Starts

\* Places of a call that has passed the running check and has not cleaned up.
Stored == {"handshake", "awaitFirst", "register", "await", "receive", "dispatch", "remove",
           "cleanup"}

\* As long as nobody calls Stop, the adapter's fields belong to the call that
\* runs, and there is one at most: overlapping calls of Start leave one that
\* Publish and a later Stop will find.  (After a Stop, the deferred function of
\* the stopped call may clear the fields of its successor.)
FieldsAreOwned ==
  stops = 0 => \A s \in Starts : pc[s] \in Stored => running /\ held = s

\* Stop and Start's own end never close a socket while Publish is in Send on
\* it: only the hub does, through the close hook of a peer it removes.
SendHasSocket ==
  \A c \in Publishers : sending[c] # None =>
    \/ socket[sending[c]] = "open"
    \/ pc[sending[c]] # "register" /\ sending[c] \notin members

\* Once every call of Start has returned and no Stop is on its way, the
\* adapter holds no socket and can be started again; only a subscriber that fails
\* to set its topics leaves the socket it made to its ended context.  A Start that had a peer
\* reports a failure only when its socket broke or the hub stopped under it: the
\* receive loop tells being stopped from failing, as Stop cancels before it
\* closes.
NothingLeft ==
  /\ (\A s \in Starts : pc[s] \in {"idle"} \cup Over) /\ stopper = "idle" =>
       /\ ~running /\ held = None
       /\ \A s \in Starts : socket[s] = "open" => pc[s] = "unset"
  /\ \A s \in Starts : result[s] = "fail" => s \in broken \/ ~hubRunning

\* Whoever ends it, by Stop or by the context, and wherever it is, a call of
\* Start returns, and the goroutine it left in Recv ends, though a Publish may
\* be blocked in Send on its socket under the lock that the call needs: the
\* end of its context ends Send.  What may keep it is a Publish in Send on the
\* socket of another call.
Ended ==
  \A s \in Starts :
    target = s \/ s \in ctx
      ~> \/ pc[s] \in Over /\ receive[s] # "reading"
         \/ \E c \in Publishers : sending[c] \notin {None, s}

=============================================================================
