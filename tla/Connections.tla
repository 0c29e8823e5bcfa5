---------------------------- MODULE Connections ----------------------------
(***************************************************************************)
(* What a connection of a server adapter goes through (src/go/adapter/tcp, *)
(* ws, sse): the goroutine that handles it, the write pump it spawns, the  *)
(* peer it puts into the hub, the hub's loop and shutdown, the end of the  *)
(* context, and the client, each of which can end it.                      *)
(*                                                                         *)
(* kind tells the handlers apart: "tcp" is Adapter.handleConn, "dial" is   *)
(* Adapter.Dial with pipePeer, "ws" and "sse" are the HTTP handlers.  They *)
(* differ in the order in which they check, subscribe, register, set the   *)
(* peer's close hook and watch the context, and in the order of their      *)
(* deferred calls; that order is what this module is about.                *)
(*                                                                         *)
(* The hub is HubPeers' in one Run: its register and unregister queues     *)
(* have room, and a removal and the closing of its peer are one step.  The *)
(* frames are left out (a client sends some whenever it likes), and so are *)
(* the channel index and the dialling and handshake of Dial, which are in  *)
(* HubPeers and Reconnect.  HeartbeatInterval and WriteTimeout are         *)
(* positive, as their defaults are: the ws pump sends pings, PongTimeout   *)
(* and the write deadlines of both pumps apply.                            *)
(***************************************************************************)
EXTENDS FiniteSets

CONSTANTS
  Conns,  \* connections, each with its handler and its peer
  Kinds   \* the handlers looked at

ASSUME ConnectionsAssumption == Kinds \subseteq {"tcp", "dial", "ws", "sse"}

VARIABLES
  kind,       \* [Conns -> Kinds]
  pc,         \* place of the handler
  socket,     \* none yet, open, unread (the client has stopped reading for good),
              \* gone (the client hung up) or closed
  context,    \* connections whose context is done: Listen's, Dial's, the request's
  watched,    \* connections whose context closes them (context.AfterFunc)
  pump,       \* the write pump: none, running or done
  \* The peer.
  hook,       \* peers whose close hook is set
  closed,     \* peers that have been closed: the send queue, and the hook run
  \* The hub.
  running,    \* hub.running
  members,    \* hub.peers
  registering,    \* peers in the queue hub.register
  unregistering,  \* peers in the queue hub.unregister
  draining,   \* peers that the end of Run still has to remove
  \* History.
  left        \* peers that were members when their handler removed them

conn == <<kind, socket, context, watched>>
peer == <<hook, closed>>
hub == <<running, members, registering, unregistering, draining>>
vars == <<conn, pc, pump, peer, hub, left>>

Places == {"accepted", "authenticate", "checkRunning", "upgrade", "add", "register",
           "setHook", "subscribe", "greet", "serve", "write", "closePeer", "closeSocket", "remove",
           "unregister", "returned", "refused"}
Over == {"returned", "refused"}
Tcp(c) == kind[c] \in {"tcp", "dial"}

Init ==
  /\ kind \in [Conns -> Kinds]
  /\ pc = [c \in Conns |-> CASE kind[c] = "tcp" -> "accepted"
                             [] kind[c] = "dial" -> "checkRunning"
                             [] OTHER -> "authenticate"]
  /\ socket = [c \in Conns |-> IF kind[c] = "ws" THEN "none" ELSE "open"]
  /\ context = {} /\ watched = {c \in Conns : kind[c] = "tcp"}
  /\ pump = [c \in Conns |-> "none"]
  /\ hook = {c \in Conns : kind[c] # "ws"} /\ closed = {} 
  /\ running = TRUE /\ members = {} /\ registering = {} /\ unregistering = {}
  /\ draining = {} /\ left = {}

At(c, here, next) == pc[c] = here /\ pc' = [pc EXCEPT ![c] = next]

\* conn.Close(); a socket may be closed twice.
Closing(c, s) == [s EXCEPT ![c] = IF @ = "none" THEN @ ELSE "closed"]

\* Peer.Close: once, and with the hook that is set by then.  An sse hook ends
\* the handler, which sees it through closed.
ClosePeer(c) ==
  /\ closed' = closed \cup {c}
  /\ socket' = IF c \in hook \ closed /\ kind[c] # "sse" THEN Closing(c, socket) ELSE socket

-----------------------------------------------------------------------------
(* The handler, up to the read loop.                                        *)

\* tcp: the first frame, within HandshakeTimeout; then ConnAuthenticator.
Handshake(c) ==
  /\ \/ socket[c] = "open" /\ At(c, "accepted", "authenticate")
     \/ At(c, "accepted", "closeSocket")
  /\ UNCHANGED <<conn, pump, peer, hub, left>>

\* Authenticate, and CanSubscribePeer for ws and sse; a refusal closes what is
\* open.
Authenticate(c) ==
  /\ \/ At(c, "authenticate", "checkRunning")
     \/ At(c, "authenticate", IF kind[c] = "tcp" THEN "closeSocket" ELSE "returned")
  /\ socket' = IF pc'[c] = "returned" THEN Closing(c, socket) ELSE socket
  /\ UNCHANGED <<kind, context, watched, pump, peer, hub, left>>

AfterCheck(c) ==
  CASE kind[c] = "ws" -> "upgrade" [] kind[c] = "sse" -> "subscribe" [] OTHER -> "add"

\* hub.Running()
CheckRunning(c) ==
  /\ At(c, "checkRunning", IF running THEN AfterCheck(c)
                           ELSE IF Tcp(c) THEN "closeSocket" ELSE "returned")
  /\ socket' = IF pc'[c] = "returned" THEN Closing(c, socket) ELSE socket
  /\ UNCHANGED <<kind, context, watched, pump, peer, hub, left>>

\* ws: upgrader.Upgrade takes the connection over, or fails.
Upgrade(c) ==
  /\ \/ At(c, "upgrade", "add") /\ socket' = [socket EXCEPT ![c] = "open"]
     \/ At(c, "upgrade", "returned") /\ UNCHANGED socket
  /\ UNCHANGED <<kind, context, watched, pump, peer, hub, left>>

AfterAdd(c) == IF Tcp(c) THEN "subscribe" ELSE IF kind[c] = "ws" THEN "setHook" ELSE "serve"

\* hub.AddPeer: into the queue if the hub runs ...
Add(c) ==
  /\ running
  /\ At(c, "add", "register")
  /\ UNCHANGED <<conn, pump, peer, hub, left>>

Register(c) ==
  /\ At(c, "register", AfterAdd(c))
  /\ registering' = registering \cup {c}
  /\ UNCHANGED <<conn, pump, peer, running, members, unregistering, draining, left>>

\* ... and otherwise into the map.
AddDirectly(c) ==
  /\ ~running
  /\ At(c, "add", AfterAdd(c))
  /\ members' = members \cup {c}
  /\ UNCHANGED <<conn, pump, peer, running, registering, unregistering, draining,
                 left>>

\* ws: peer.SetCloseHook, on a peer that the hub may have closed already.
SetHook(c) ==
  /\ At(c, "setHook", "subscribe")
  /\ hook' = hook \cup {c}
  /\ UNCHANGED <<conn, pump, closed, hub, left>>

\* hub.SubscribePeer; then ws and dial begin to watch the context and all but
\* sse spawn the pump.  A read deadline that ws cannot set ends as ReadFail does.
Subscribe(c) ==
  /\ At(c, "subscribe", IF kind[c] = "sse" THEN "greet" ELSE "serve")
  /\ IF kind[c] = "sse" THEN UNCHANGED <<watched, pump>>
     ELSE /\ watched' = watched \cup {c}
          /\ pump' = [pump EXCEPT ![c] = "running"]
  /\ UNCHANGED <<kind, socket, context, peer, hub, left>>

\* The authoriser has changed its mind since CanSubscribePeer.  It is not asked
\* about "*", the channel of tcp.
SubscribeRefused(c) ==
  /\ kind[c] \in {"ws", "sse"}
  /\ At(c, "subscribe", IF kind[c] = "ws" THEN "remove" ELSE "returned")
  /\ IF kind[c] = "ws" THEN ClosePeer(c)
     ELSE socket' = Closing(c, socket) /\ UNCHANGED closed
  /\ UNCHANGED <<kind, context, watched, pump, hook, hub, left>>

-----------------------------------------------------------------------------
(* The read loop, and the deferred calls.                                   *)

\* tcp and dial: RemovePeer, stopClose(), conn.Close();
\* ws: peer.Close(), stopClose(), conn.Close(), RemovePeer; sse: RemovePeer.
Leaving(c) == CASE Tcp(c) -> "remove" [] kind[c] = "ws" -> "closePeer" [] OTHER -> "remove"

\* A frame for a hub that does not run ends the loop; ws returns past peer.Close().
FrameRefused(c) ==
  /\ ~running /\ kind[c] # "sse"
  /\ At(c, "serve", IF kind[c] = "ws" THEN "closeSocket" ELSE "remove")
  /\ UNCHANGED <<conn, pump, peer, hub, left>>

\* So does, for ws, an answer that does not fit into the send queue.
AnswerRefused(c) ==
  /\ kind[c] = "ws"
  /\ At(c, "serve", "closeSocket")
  /\ UNCHANGED <<conn, pump, peer, hub, left>>

\* The socket has been closed by one side, or sends what is not a frame.
ReadFail(c) ==
  /\ kind[c] # "sse"
  /\ At(c, "serve", Leaving(c))
  /\ UNCHANGED <<conn, pump, peer, hub, left>>

\* Mutant: PongTimeout sets no read deadline.
Mut_PongTimeout(c) == FALSE

\* ws: no pong within PongTimeout, certainly when nothing sends pings any more.
PongTimeout(c) ==
  /\ kind[c] = "ws" /\ pump[c] = "done"
  /\ At(c, "serve", Leaving(c))
  /\ UNCHANGED <<conn, pump, peer, hub, left>>

\* sse: a frame of the send queue, or a heartbeat, ...
Write(c) ==
  /\ kind[c] = "sse"
  /\ At(c, "serve", "write")
  /\ UNCHANGED <<conn, pump, peer, hub, left>>

\* ... which is written and flushed without a deadline, as is the retry line
\* before AddPeer: for a client that does not read this may take for ever.  The
\* close hook and the context do not reach a handler in here.
Flushed(c) ==
  /\ At(c, "greet", "add") \/ At(c, "write", "serve")
  /\ UNCHANGED <<conn, pump, peer, hub, left>>

\* sse: done is closed, the send queue is closed, or the request is over.
Done(c) ==
  /\ kind[c] = "sse" /\ (c \in closed \/ c \in context)
  /\ At(c, "serve", Leaving(c))
  /\ UNCHANGED <<conn, pump, peer, hub, left>>

CloseOwnPeer(c) ==
  /\ At(c, "closePeer", "closeSocket")
  /\ ClosePeer(c)
  /\ UNCHANGED <<kind, context, watched, pump, hook, hub, left>>

\* Mutant: tcp leaves the socket to the peer's close hook.
Mut_CloseSocket(c) ==
  /\ At(c, "closeSocket", IF kind[c] = "ws" THEN "remove" ELSE "returned")
  /\ watched' = watched \ {c}
  /\ socket' = IF Tcp(c) THEN socket ELSE Closing(c, socket)
  /\ UNCHANGED <<kind, context, pump, peer, hub, left>>

\* Mutant: the handler returns past stopClose().
Mut_CloseSocketWatched(c) ==
  /\ At(c, "closeSocket", IF kind[c] = "ws" THEN "remove" ELSE "returned")
  /\ socket' = Closing(c, socket)
  /\ UNCHANGED <<kind, context, watched, pump, peer, hub, left>>

\* stopClose() and conn.Close()
CloseSocket(c) ==
  /\ At(c, "closeSocket", IF kind[c] = "ws" THEN "remove" ELSE "returned")
  /\ watched' = watched \ {c}
  /\ socket' = Closing(c, socket)
  /\ UNCHANGED <<kind, context, pump, peer, hub, left>>

\* An sse handler ends its request when it returns.  A ws handler whose
\* subscription is refused has not deferred conn.Close() yet.
AfterRemove(c) ==
  IF Tcp(c) THEN "closeSocket"
  ELSE IF kind[c] = "ws" /\ socket[c] # "closed" THEN "refused"
  ELSE "returned"
EndRequest(c) == IF kind[c] = "sse" THEN Closing(c, socket) ELSE socket

\* hub.RemovePeer: by the queue ...
Remove(c) ==
  /\ running
  /\ At(c, "remove", "unregister")
  /\ left' = IF c \in members THEN left \cup {c} ELSE left
  /\ UNCHANGED <<conn, pump, peer, hub>>

Unregister(c) ==
  /\ At(c, "unregister", AfterRemove(c))
  /\ unregistering' = unregistering \cup {c}
  /\ socket' = EndRequest(c)
  /\ UNCHANGED <<kind, context, watched, pump, peer, running, members,
                 registering, draining, left>>

\* ... or at once; removePeer ignores a peer that is not a member.
RemoveDirectly(c) ==
  /\ ~running
  /\ At(c, "remove", AfterRemove(c))
  /\ IF c \in members
     THEN members' = members \ {c} /\ closed' = closed \cup {c}
     ELSE UNCHANGED <<members, closed>>
  /\ socket' = IF c \in (members \cap hook) \ closed /\ kind[c] # "sse"
               THEN Closing(c, socket) ELSE EndRequest(c)
  /\ UNCHANGED <<kind, context, watched, pump, hook, running, registering, unregistering,
                 draining, left>>

-----------------------------------------------------------------------------
(* The pump, the context, the client and the hub.                           *)

\* The pump ends with its queue, its context (tcp) or a failing write, which a
\* write deadline causes on an open socket as well.
PumpEnds(c) ==
  /\ pump[c] = "running"
  /\ pump' = [pump EXCEPT ![c] = "done"]
  /\ UNCHANGED <<conn, pc, peer, hub, left>>

\* What the pump does not wait for: its queue is closed, its context done, or
\* the next ping of ws fails.
PumpMustEnd(c) ==
  \/ c \in closed
  \/ Tcp(c) /\ c \in context
  \/ kind[c] = "ws" /\ socket[c] # "open"

\* The context is done: an end of Listen or Dial, of the server or the request.
ContextEnds(c) ==
  /\ c \notin context
  /\ context' = context \cup {c}
  /\ UNCHANGED <<kind, pc, socket, watched, pump, peer, hub, left>>

\* The function given to context.AfterFunc.
CloseWatched(c) ==
  /\ c \in context \cap watched
  /\ socket' = Closing(c, socket) /\ watched' = watched \ {c}
  /\ UNCHANGED <<kind, pc, context, pump, peer, hub, left>>

\* The client stops reading and keeps the connection.  It matters to sse: the
\* pumps of tcp and ws write with WriteTimeout.
StopReading(c) ==
  /\ kind[c] = "sse" /\ socket[c] = "open"
  /\ socket' = [socket EXCEPT ![c] = "unread"]
  /\ UNCHANGED <<kind, pc, context, watched, pump, peer, hub, left>>

\* The client hangs up; net/http ends the request of sse.
HangUp(c) ==
  /\ socket[c] \in {"open", "unread"}
  /\ socket' = [socket EXCEPT ![c] = "gone"]
  /\ context' = IF kind[c] = "sse" THEN context \cup {c} ELSE context
  /\ UNCHANGED <<kind, pc, watched, pump, peer, hub, left>>

ServeRegister(c) ==
  /\ running /\ c \in registering
  /\ registering' = registering \ {c} /\ members' = members \cup {c}
  /\ UNCHANGED <<conn, pc, pump, peer, running, unregistering, draining, left>>

\* Mutant: removePeer does not close the peer.
Mut_RemovePeer(c) ==
  IF c \in members
  THEN members' = members \ {c} /\ UNCHANGED <<closed, socket>>
  ELSE UNCHANGED <<members, closed, socket>>

\* removePeer and Peer.Close
RemovePeer(c) ==
  IF c \in members
  THEN members' = members \ {c} /\ ClosePeer(c)
  ELSE UNCHANGED <<members, closed, socket>>

ServeUnregister(c) ==
  /\ running /\ c \in unregistering
  /\ unregistering' = unregistering \ {c}
  /\ RemovePeer(c)
  /\ UNCHANGED <<kind, pc, context, watched, pump, hook, running, registering, draining, left>>

\* The hub's context ends: the section of Run's deferred function ...
Shutdown ==
  /\ running
  /\ running' = FALSE /\ draining' = members
  /\ UNCHANGED <<conn, pc, pump, peer, members, registering, unregistering, left>>

\* ... and the removal of the peers it listed.
Drain(c) ==
  /\ c \in draining
  /\ draining' = draining \ {c}
  /\ RemovePeer(c)
  /\ UNCHANGED <<kind, pc, context, watched, pump, hook, running, registering, unregistering,
                 left>>

-----------------------------------------------------------------------------

\* Steps for which the handler waits for nobody.
Step(c) ==
  \/ Handshake(c) \/ Authenticate(c) \/ CheckRunning(c) \/ Upgrade(c)
  \/ Add(c) \/ Register(c) \/ AddDirectly(c) \/ SetHook(c) \/ Subscribe(c)
  \/ SubscribeRefused(c) \/ PongTimeout(c) \/ CloseOwnPeer(c) \/ CloseSocket(c)
  \/ Remove(c) \/ Unregister(c) \/ RemoveDirectly(c)

Next ==
  \/ \E c \in Conns :
       \/ Step(c) \/ FrameRefused(c) \/ AnswerRefused(c) \/ ReadFail(c)
       \/ Write(c) \/ Flushed(c) \/ Done(c)
       \/ PumpEnds(c) \/ ContextEnds(c) \/ CloseWatched(c) \/ StopReading(c) \/ HangUp(c)
       \/ ServeRegister(c) \/ ServeUnregister(c) \/ Drain(c)
  \/ Shutdown

Spec == Init /\ [][Next]_vars

\* Goroutines run and the hub's select is fair to its queues.  A read of a
\* socket that is closed fails; the client need never send, read or hang up.  An
\* sse handler that comes back to its select again and again takes the case of
\* its end once (strong fairness, for between two writes it is not enabled); a
\* write ends unless the client has stopped reading.
Fairness ==
  /\ \A c \in Conns :
       /\ WF_vars(Step(c))
       /\ WF_vars(socket[c] # "open" /\ ReadFail(c))
       /\ WF_vars(socket[c] # "unread" /\ Flushed(c)) /\ SF_vars(Done(c))
       /\ WF_vars(PumpMustEnd(c) /\ PumpEnds(c))
       /\ WF_vars(CloseWatched(c)) /\ WF_vars(Drain(c))
       /\ WF_vars(ServeRegister(c)) /\ WF_vars(ServeUnregister(c))

FairSpec == Spec /\ Fairness

-----------------------------------------------------------------------------
(* Properties.                                                              *)

\* The type invariant.  A handler that is over watches no context: a function
\* left with context.AfterFunc keeps the connection in memory for as long as
\* the context of the whole server lives.
TypeOK ==
  /\ kind \in [Conns -> Kinds] /\ pc \in [Conns -> Places]
  /\ socket \in [Conns -> {"none", "open", "unread", "gone", "closed"}]
  /\ pump \in [Conns -> {"none", "running", "done"}]
  /\ running \in BOOLEAN
  /\ {context, watched, hook, closed, members, registering, unregistering, draining, left}
       \subseteq SUBSET Conns
  /\ \A c \in watched : pc[c] \notin Over
  /\ running => draining = {}

\* A handler leaves no socket open behind, whichever check sends it away and
\* whoever closed the peer before.  There is one exception: a shutdown closes
\* the peer of a ws handler between AddPeer and SetCloseHook (ws.go:136-145),
\* and then the subscription is refused; Peer.Close does nothing the second
\* time and conn.Close() is not deferred yet.
HandlerClosesSocket ==
  \A c \in Conns :
    /\ pc[c] = "returned" => socket[c] \in {"none", "closed"}
    /\ pc[c] = "refused" => ~running /\ c \in closed

\* A connection whose peer the hub has closed, whose context is done or whose
\* client hung up ends its handler, in whatever order these meet the steps of
\* the handler.  For ws it takes PongTimeout (ws.go:168-176): a peer closed
\* before SetCloseHook leaves its handler reading an open socket.  The exception
\* is sse (sse.go:125-129, 180-184): its hook closes no socket and its writes
\* have no deadline, so that the removal of the peer and the end of the server's
\* context reach no handler in a write to a client that has stopped reading.
HandlerEnds ==
  \A c \in Conns :
    (c \in closed \cup context \/ socket[c] \in {"gone", "closed"}) ~>
      (pc[c] \in Over \/ [](pc[c] \in {"greet", "write"} /\ socket[c] = "unread"))

\* A peer that was registered when its handler removed it leaves the hub and
\* loses its write pump, also if the shutdown overtakes the queue unregister
\* (hub.go:109-120, 589-604).
RemovedPeerLeaves ==
  \A c \in Conns : c \in left ~> (c \notin members /\ pump[c] # "running")

=============================================================================
