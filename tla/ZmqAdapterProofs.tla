-------------------------- MODULE ZmqAdapterProofs --------------------------
(* Theorems about ZmqAdapter, for any number of calls of Start and of Stop  *)
(* and every set of publishers.                                             *)
EXTENDS ZmqAdapter, TLAPS

LEMMA TypeInit == Init => TypeOK
<1> SUFFICES ASSUME Init PROVE TypeOK
  OBVIOUS
<1> USE ZmqAdapterAssumption DEF Init
<1>1. {receiver, authenticates, timed, running} \subseteq BOOLEAN /\ hubRunning \in BOOLEAN
  OBVIOUS
<1>2. stops \in 0 .. MaxStops
  OBVIOUS
<1> QED BY <1>1, <1>2 DEF TypeOK

LEMMA TypeStep == TypeOK /\ [Next]_vars => TypeOK'
<1> SUFFICES ASSUME TypeOK, [Next]_vars PROVE TypeOK'
  OBVIOUS
<1> USE ZmqAdapterAssumption
    DEF TypeOK, config, fields, start, stop, hub, At, Finish, CloseSocket, RecvFails, Over
<1>1. CASE UNCHANGED vars
  BY <1>1 DEF vars
<1>2. ASSUME NEW s \in Starts, Start(s) \/ Store(s) \/ Reject(s) \/ Handshake(s)
      PROVE  TypeOK'
  BY <1>2 DEF Start, Store, AfterStore, Reject, Handshake
<1>3. ASSUME NEW s \in Starts, RecvFirst(s) \/ FirstMessage(s) \/ HandshakeOver(s)
      PROVE  TypeOK'
  BY <1>3 DEF RecvFirst, FirstMessage, HandshakeOver
<1>4. ASSUME NEW s \in Starts, Register(s) \/ Await(s) \/ Receive(s)
      PROVE  TypeOK'
  BY <1>4 DEF Register, Await, Receive
<1>5. ASSUME NEW s \in Starts, ReceiveFails(s) \/ Dispatch(s) \/ Remove(s)
      PROVE  TypeOK'
  BY <1>5 DEF ReceiveFails, Dispatch, Remove
<1>6. ASSUME NEW s \in Starts, Cleanup(s) \/ Release(s)
      PROVE  TypeOK'
  BY <1>6 DEF Cleanup, Release
<1>7. ASSUME NEW s \in Starts, Cancel(s) \/ Break(s) \/ DrainPeer(s)
      PROVE  TypeOK'
  BY <1>7 DEF Cancel, Break, DrainPeer
<1>8. ASSUME NEW c \in Publishers, Publish(c) \/ SendReturns(c) PROVE TypeOK'
  BY <1>8 DEF Publish, SendReturns
<1>9. CASE Stop
  <2>1. stops' \in 0 .. MaxStops
    BY <1>9 DEF Stop
  <2> QED BY <1>9, <2>1 DEF Stop
<1>10. CASE StopCancel \/ HubStops
  BY <1>10 DEF StopCancel, HubStops
<1>11. CASE StopClose
  <2>1. socket' \in [Starts -> {"none", "open", "closed"}]
    BY <1>11 DEF StopClose
  <2> QED BY <1>11, <2>1 DEF StopClose
<1> QED
  BY <1>1, <1>2, <1>3, <1>4, <1>5, <1>6, <1>7, <1>8, <1>9, <1>10, <1>11 DEF Next, StartStep

\* Every variable keeps its type.
THEOREM TypeCorrect == Spec => []TypeOK
<1>1. QED
  BY TypeInit, TypeStep, PTL DEF Spec

-----------------------------------------------------------------------------
(* Ownership of the fields.                                                 *)

\* A step moves one call of Start at most, within Stored, into it by Store or
\* out of it by Cleanup, or it is a Stop.
LEMMA StoredFrame ==
  ASSUME TypeOK, [Next]_vars
  PROVE  \/ Stop
         \/ \E s \in Starts : Store(s) \/ Cleanup(s)
         \/ /\ UNCHANGED <<running, held, stops>>
            /\ \A s \in Starts : pc'[s] \in Stored => pc[s] \in Stored
<1> USE DEF fields, start, stop, At, Finish, TypeOK, Stored
<1>1. CASE UNCHANGED vars
  BY <1>1 DEF vars
<1>2. ASSUME NEW s \in Starts, StartStep(s) \/ RecvFirst(s), ~Store(s), ~Cleanup(s)
      PROVE  /\ UNCHANGED <<running, held, stops>>
             /\ \A t \in Starts : pc'[t] \in Stored => pc[t] \in Stored
  BY <1>2 DEF StartStep, Reject, Handshake, RecvFirst, FirstMessage, HandshakeOver, Register,
     Await, ReceiveFails, Dispatch, Remove, Release
<1>3. ASSUME NEW s \in Starts,
             Start(s) \/ Receive(s) \/ Cancel(s) \/ Break(s) \/ DrainPeer(s)
      PROVE  /\ UNCHANGED <<running, held, stops>>
             /\ \A t \in Starts : pc'[t] \in Stored => pc[t] \in Stored
  BY <1>3 DEF Start, Receive, Cancel, Break, DrainPeer
<1>4. ASSUME NEW c \in Publishers, Publish(c) \/ SendReturns(c)
      PROVE  UNCHANGED <<running, held, stops, pc>>
  BY <1>4 DEF Publish, SendReturns
<1>5. CASE StopCancel \/ StopClose \/ HubStops
  BY <1>5 DEF StopCancel, StopClose, HubStops
<1> QED
  BY <1>1, <1>2, <1>3, <1>4, <1>5 DEF Next

LEMMA OwnedStep == TypeOK /\ FieldsAreOwned /\ [Next]_vars => FieldsAreOwned'
<1> SUFFICES ASSUME TypeOK, FieldsAreOwned, [Next]_vars,
                    stops' = 0, NEW t \in Starts, pc'[t] \in Stored
             PROVE  running' /\ held' = t
  BY DEF FieldsAreOwned
<1>0. pc \in [Starts -> {"idle", "store", "reject", "handshake", "awaitFirst", "register",
                         "await", "receive", "dispatch", "remove", "cleanup", "release",
                         "returned", "unset"}]
      /\ stops \in Nat
  BY DEF TypeOK
<1>1. CASE Stop
  BY <1>0, <1>1 DEF Stop
<1>2. ASSUME NEW s \in Starts, Store(s) PROVE running' /\ held' = t
  <2>1. stops = 0
    BY <1>2 DEF Store, stop
  <2>2. CASE running
    BY <1>0, <1>2, <2>1, <2>2 DEF Store, At, fields, FieldsAreOwned, Stored
  <2>3. CASE ~running
    <3>1. running' /\ held' = s /\ pc' = [pc EXCEPT ![s] = AfterStore]
      BY <1>2, <2>3 DEF Store, At
    <3>2. t # s => pc[t] \in Stored
      BY <1>0, <3>1
    <3> QED BY <2>1, <2>3, <3>1, <3>2 DEF FieldsAreOwned
  <2> QED BY <2>2, <2>3
<1>3. ASSUME NEW s \in Starts, Cleanup(s) PROVE running' /\ held' = t
  <2>1. stops = 0 /\ pc[s] = "cleanup" /\ pc' = [pc EXCEPT ![s] = "release"]
    BY <1>3 DEF Cleanup, At, stop
  <2>2. t # s /\ pc[t] \in Stored
    BY <1>0, <2>1 DEF Stored
  <2>3. held = s /\ held = t
    BY <2>1, <2>2 DEF FieldsAreOwned, Stored
  <2> QED BY <2>2, <2>3
<1>4. CASE /\ UNCHANGED <<running, held, stops>>
           /\ \A s \in Starts : pc'[s] \in Stored => pc[s] \in Stored
  BY <1>4 DEF FieldsAreOwned
<1> QED
  BY <1>1, <1>2, <1>3, <1>4, StoredFrame

\* As long as nobody calls Stop, one call of Start is past the running check
\* at most, however many there are, and the fields are that call's.
THEOREM StartOwnsFields == Spec => []FieldsAreOwned
<1>1. Init => FieldsAreOwned
  BY DEF Init, FieldsAreOwned, Stored
<1>2. QED
  BY <1>1, OwnedStep, TypeCorrect, PTL DEF Spec

-----------------------------------------------------------------------------
(* Sockets.  The fields name the call that may be found: a Publish in Send  *)
(* keeps them still, and a Stop on its way has the socket of another call.  *)

\* The fields, the call that a Stop took from them, and Publish.
FieldInv ==
  /\ running <=> held # None
  /\ held # None => pc[held] \in Stored
  /\ stopper = "idle" => target = None
  /\ stopper = "close" /\ target # None => target \in ctx
  /\ target # None => target # held /\ pc[target] \notin {"idle", "store", "reject"}
  /\ \A c \in Publishers : sending[c] # None => sending[c] = held /\ ~receiver

\* Who is where: a sender never receives, and a peer is there between Register
\* and Remove.
PlaceInv ==
  /\ authenticates => receiver
  /\ \A s \in Starts : pc[s] \in {"handshake", "awaitFirst", "receive", "dispatch"} => receiver
  /\ \A s \in members : pc[s] \in {"await", "receive", "dispatch", "remove"}
  /\ hubRunning => listed = {}

\* A call whose socket is nobody's but the adapter's: before it stores it, and
\* while the fields are its own and it has its peer or has none yet.
KeepsSocket(s) ==
  \/ pc[s] = "store"
  \/ s = held /\ (pc[s] \in {"handshake", "awaitFirst", "register"} \/ s \in members)

\* Places of a call that has not begun to end.
Working == {"store", "handshake", "awaitFirst", "register", "await", "receive", "dispatch"}

SocketInv ==
  \A s \in Starts :
    /\ pc[s] = "idle" => socket[s] = "none"
    /\ pc[s] = "returned" => socket[s] = "closed"
    /\ KeepsSocket(s) => socket[s] = "open"
    /\ pc[s] \in Working /\ socket[s] = "closed" => s \in ctx \/ ~hubRunning
    /\ result[s] = "fail" => s \in broken \/ ~hubRunning

AdapterInv == FieldInv /\ PlaceInv /\ SocketInv

LEMMA NoneIsNoStart == None \notin Starts
BY ZmqAdapterAssumption DEF None, Starts

LEMMA SocketStep ==
  ASSUME TypeOK, AdapterInv, [Next]_vars
  PROVE  AdapterInv'
<1> USE DEF config, fields, start, stop, hub, At, Finish, CloseSocket, TypeOK, AdapterInv,
            Stored, Working, KeepsSocket, Lock
<1>1. CASE UNCHANGED vars
  BY <1>1 DEF vars, FieldInv, PlaceInv, SocketInv
<1>2. ASSUME NEW s \in Starts, Start(s) PROVE AdapterInv'
  <2>1. FieldInv'
    BY <1>2 DEF Start, FieldInv, PlaceInv
  <2>2. PlaceInv'
    BY <1>2 DEF Start, PlaceInv
  <2>3. SocketInv'
    BY <1>2 DEF Start, FieldInv, PlaceInv, SocketInv
  <2> QED BY <2>1, <2>2, <2>3
<1>3. ASSUME NEW s \in Starts, Store(s) PROVE AdapterInv'
  <2>1. FieldInv'
    <3>1. CASE running
      BY <1>3, <3>1 DEF Store, FieldInv
    <3>2. CASE ~running
      <4>1. /\ running' = TRUE /\ held' = s /\ pc' = [pc EXCEPT ![s] = AfterStore]
            /\ UNCHANGED <<stopper, target, ctx, sending>> /\ pc[s] = "store"
            /\ \A c \in Publishers : sending[c] = None
        BY <1>3, <3>2 DEF Store
      <4>2. target # None => target # s
        BY <4>1 DEF FieldInv
      <4> QED BY <4>1, <4>2, NoneIsNoStart DEF FieldInv, AfterStore
    <3> QED BY <3>1, <3>2
  <2>2. PlaceInv'
    BY <1>3 DEF Store, AfterStore, PlaceInv
  <2>3. SocketInv'
    BY <1>3 DEF Store, AfterStore, FieldInv, PlaceInv, SocketInv
  <2> QED BY <2>1, <2>2, <2>3
<1>4. ASSUME NEW s \in Starts, Reject(s) PROVE AdapterInv'
  <2>1. FieldInv'
    BY <1>4 DEF Reject, FieldInv, PlaceInv
  <2>2. PlaceInv'
    BY <1>4 DEF Reject, PlaceInv
  <2>3. SocketInv'
    BY <1>4 DEF Reject, FieldInv, PlaceInv, SocketInv
  <2> QED BY <2>1, <2>2, <2>3
<1>5. ASSUME NEW s \in Starts, Handshake(s) PROVE AdapterInv'
  <2>1. FieldInv'
    BY <1>5 DEF Handshake, FieldInv, PlaceInv
  <2>2. PlaceInv'
    BY <1>5 DEF Handshake, PlaceInv
  <2>3. SocketInv'
    BY <1>5 DEF Handshake, FieldInv, PlaceInv, SocketInv
  <2> QED BY <2>1, <2>2, <2>3
<1>6. ASSUME NEW s \in Starts, RecvFirst(s) PROVE AdapterInv'
  <2>1. FieldInv'
    BY <1>6 DEF RecvFirst, FieldInv, PlaceInv
  <2>2. PlaceInv'
    BY <1>6 DEF RecvFirst, PlaceInv
  <2>3. SocketInv'
    BY <1>6 DEF RecvFirst, FieldInv, PlaceInv, SocketInv
  <2> QED BY <2>1, <2>2, <2>3
<1>7. ASSUME NEW s \in Starts, FirstMessage(s) PROVE AdapterInv'
  <2>1. FieldInv'
    BY <1>7 DEF FirstMessage, FieldInv, PlaceInv
  <2>2. PlaceInv'
    BY <1>7 DEF FirstMessage, PlaceInv
  <2>3. SocketInv'
    BY <1>7 DEF FirstMessage, FieldInv, PlaceInv, SocketInv
  <2> QED BY <2>1, <2>2, <2>3
<1>8. ASSUME NEW s \in Starts, HandshakeOver(s) PROVE AdapterInv'
  <2>1. FieldInv'
    BY <1>8 DEF HandshakeOver, FieldInv, PlaceInv
  <2>2. PlaceInv'
    BY <1>8 DEF HandshakeOver, PlaceInv
  <2>3. SocketInv'
    BY <1>8 DEF HandshakeOver, FieldInv, PlaceInv, SocketInv
  <2> QED BY <2>1, <2>2, <2>3
<1>9. ASSUME NEW s \in Starts, Register(s) PROVE AdapterInv'
  <2>1. FieldInv'
    BY <1>9 DEF Register, FieldInv, PlaceInv
  <2>2. PlaceInv'
    BY <1>9 DEF Register, PlaceInv
  <2>3. SocketInv'
    BY <1>9 DEF Register, FieldInv, PlaceInv, SocketInv
  <2> QED BY <2>1, <2>2, <2>3
<1>10. ASSUME NEW s \in Starts, Await(s) PROVE AdapterInv'
  <2>1. FieldInv'
    BY <1>10 DEF Await, FieldInv, PlaceInv
  <2>2. PlaceInv'
    BY <1>10 DEF Await, PlaceInv
  <2>3. SocketInv'
    BY <1>10 DEF Await, FieldInv, PlaceInv, SocketInv
  <2> QED BY <2>1, <2>2, <2>3
<1>11. ASSUME NEW s \in Starts, Receive(s) PROVE AdapterInv'
  <2>1. FieldInv'
    BY <1>11 DEF Receive, FieldInv, PlaceInv
  <2>2. PlaceInv'
    BY <1>11 DEF Receive, PlaceInv
  <2>3. SocketInv'
    BY <1>11 DEF Receive, FieldInv, PlaceInv, SocketInv
  <2> QED BY <2>1, <2>2, <2>3
<1>12. ASSUME NEW s \in Starts, ReceiveFails(s) PROVE AdapterInv'
  <2>1. FieldInv'
    BY <1>12 DEF ReceiveFails, RecvFails, FieldInv, PlaceInv
  <2>2. PlaceInv'
    BY <1>12 DEF ReceiveFails, RecvFails, PlaceInv
  <2>3. SocketInv'
    BY <1>12 DEF ReceiveFails, RecvFails, FieldInv, PlaceInv, SocketInv
  <2> QED BY <2>1, <2>2, <2>3
<1>13. ASSUME NEW s \in Starts, Dispatch(s) PROVE AdapterInv'
  <2>1. FieldInv'
    BY <1>13 DEF Dispatch, FieldInv, PlaceInv
  <2>2. PlaceInv'
    BY <1>13 DEF Dispatch, PlaceInv
  <2>3. SocketInv'
    BY <1>13 DEF Dispatch, FieldInv, PlaceInv, SocketInv
  <2> QED BY <2>1, <2>2, <2>3
<1>14. ASSUME NEW s \in Starts, Remove(s) PROVE AdapterInv'
  <2>1. FieldInv'
    BY <1>14 DEF Remove, FieldInv, PlaceInv
  <2>2. PlaceInv'
    BY <1>14 DEF Remove, PlaceInv
  <2>3. SocketInv'
    BY <1>14 DEF Remove, FieldInv, PlaceInv, SocketInv
  <2> QED BY <2>1, <2>2, <2>3
<1>15. ASSUME NEW s \in Starts, Cleanup(s) PROVE AdapterInv'
  <2>1. FieldInv'
    BY <1>15 DEF Cleanup, Lock, FieldInv, PlaceInv
  <2>2. PlaceInv'
    BY <1>15 DEF Cleanup, Lock, PlaceInv
  <2>3. SocketInv'
    BY <1>15, NoneIsNoStart DEF Cleanup, SocketInv
  <2> QED BY <2>1, <2>2, <2>3
<1>16. ASSUME NEW s \in Starts, Release(s) PROVE AdapterInv'
  <2>1. FieldInv'
    BY <1>16 DEF Release, FieldInv, PlaceInv
  <2>2. PlaceInv'
    BY <1>16 DEF Release, PlaceInv
  <2>3. SocketInv'
    BY <1>16 DEF Release, FieldInv, PlaceInv, SocketInv
  <2> QED BY <2>1, <2>2, <2>3
<1>17. ASSUME NEW s \in Starts, Cancel(s) PROVE AdapterInv'
  <2>1. FieldInv'
    BY <1>17 DEF Cancel, FieldInv, PlaceInv
  <2>2. PlaceInv'
    BY <1>17 DEF Cancel, PlaceInv
  <2>3. SocketInv'
    BY <1>17 DEF Cancel, FieldInv, PlaceInv, SocketInv
  <2> QED BY <2>1, <2>2, <2>3
<1>18. ASSUME NEW s \in Starts, Break(s) PROVE AdapterInv'
  <2>1. FieldInv'
    BY <1>18 DEF Break, FieldInv, PlaceInv
  <2>2. PlaceInv'
    BY <1>18 DEF Break, PlaceInv
  <2>3. SocketInv'
    BY <1>18 DEF Break, FieldInv, PlaceInv, SocketInv
  <2> QED BY <2>1, <2>2, <2>3
<1>19. ASSUME NEW s \in Starts, DrainPeer(s) PROVE AdapterInv'
  <2>1. FieldInv'
    BY <1>19 DEF DrainPeer, FieldInv, PlaceInv
  <2>2. PlaceInv'
    BY <1>19 DEF DrainPeer, PlaceInv
  <2>3. SocketInv'
    BY <1>19 DEF DrainPeer, FieldInv, PlaceInv, SocketInv
  <2> QED BY <2>1, <2>2, <2>3
<1>20. ASSUME NEW c \in Publishers, Publish(c) \/ SendReturns(c) PROVE AdapterInv'
  BY <1>20 DEF Publish, SendReturns, FieldInv, PlaceInv, SocketInv
<1>21. CASE Stop
  <2>1. FieldInv'
    BY <1>21 DEF Stop, FieldInv
  <2>2. PlaceInv'
    BY <1>21 DEF Stop, PlaceInv
  <2>3. SocketInv'
    BY <1>21, NoneIsNoStart DEF Stop, SocketInv
  <2> QED BY <2>1, <2>2, <2>3
<1>22. CASE StopCancel
  <2>1. FieldInv'
    BY <1>22 DEF StopCancel, FieldInv
  <2>2. PlaceInv'
    BY <1>22 DEF StopCancel, PlaceInv
  <2>3. SocketInv'
    BY <1>22 DEF StopCancel, FieldInv, PlaceInv, SocketInv
  <2> QED BY <2>1, <2>2, <2>3
<1>23. CASE StopClose
  <2>1. FieldInv'
    BY <1>23 DEF StopClose, FieldInv
  <2>2. PlaceInv'
    BY <1>23 DEF StopClose, PlaceInv
  <2>3. SocketInv'
    BY <1>23 DEF StopClose, FieldInv, PlaceInv, SocketInv
  <2> QED BY <2>1, <2>2, <2>3
<1>24. CASE HubStops
  <2>1. FieldInv'
    BY <1>24 DEF HubStops, FieldInv
  <2>2. PlaceInv'
    BY <1>24 DEF HubStops, PlaceInv
  <2>3. SocketInv'
    BY <1>24 DEF HubStops, FieldInv, PlaceInv, SocketInv
  <2> QED BY <2>1, <2>2, <2>3
<1> QED
  BY <1>1, <1>2, <1>3, <1>4, <1>5, <1>6, <1>7, <1>8, <1>9, <1>10, <1>11, <1>12, <1>13, <1>14, <1>15, <1>16, <1>17, <1>18, <1>19, <1>20, <1>21, <1>22, <1>23, <1>24 DEF Next, StartStep

LEMMA AdapterInit == Init => AdapterInv
BY NoneIsNoStart DEF Init, AdapterInv, FieldInv, PlaceInv, SocketInv, KeepsSocket, Working

LEMMA AdapterInvariant == Spec => [](TypeOK /\ AdapterInv)
<1>1. QED
  BY TypeInit, TypeStep, AdapterInit, SocketStep, PTL DEF Spec

\* Publish never finds the socket it is in Send on closed by Stop or by the end
\* of Start: they need the lock that Publish reads under before the fields
\* change, so that the call in the fields is past Store and before Cleanup, and
\* only the close hook of its peer closes its socket (zmq.go, Publish and Stop).
THEOREM SendKeepsSocket == Spec => []SendHasSocket
<1>1. TypeOK /\ AdapterInv => SendHasSocket
  <2> SUFFICES ASSUME TypeOK, AdapterInv, NEW c \in Publishers, sending[c] # None,
                      pc[sending[c]] = "register" \/ sending[c] \in members
               PROVE  socket[sending[c]] = "open"
    BY DEF SendHasSocket
  <2>1. sending[c] = held /\ sending[c] \in Starts
    BY DEF AdapterInv, FieldInv, TypeOK
  <2> QED BY <2>1 DEF AdapterInv, SocketInv, KeepsSocket
<1>2. QED
  BY <1>1, AdapterInvariant, PTL

\* Whatever calls of Start, Stop and Publish overlap, the last one to return
\* leaves no socket open, a subscriber's that refused a topic aside, and an adapter
\* that can be started again, and a Start that had a peer fails only because its
\* socket broke or the hub stopped (zmq.go, Start's deferred function and receive
\* loop, newSocket and Stop).
THEOREM NothingIsLeft == Spec => []NothingLeft
<1>1. TypeOK /\ AdapterInv => NothingLeft
  <2> SUFFICES ASSUME TypeOK, AdapterInv PROVE NothingLeft
    OBVIOUS
  <2>1. ASSUME \A s \in Starts : pc[s] \in {"idle", "returned", "unset"}
        PROVE  /\ ~running /\ held = None
               /\ \A s \in Starts : socket[s] = "open" => pc[s] = "unset"
    <3>1. held = None
      BY <2>1 DEF AdapterInv, FieldInv, TypeOK, Stored
    <3> QED BY <2>1, <3>1 DEF AdapterInv, FieldInv, SocketInv, TypeOK
  <2>2. ASSUME NEW s \in Starts, result[s] = "fail" PROVE s \in broken \/ ~hubRunning
    BY <2>2 DEF AdapterInv, SocketInv
  <2> QED BY <2>1, <2>2 DEF NothingLeft, Over
<1>2. QED
  BY <1>1, AdapterInvariant, PTL

=============================================================================
