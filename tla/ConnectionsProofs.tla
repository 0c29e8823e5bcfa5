------------------------- MODULE ConnectionsProofs -------------------------
(* Theorems about Connections and TcpListener, for any number of connections *)
(* and of calls of Listen, and any choice of the handlers.                  *)
EXTENDS TcpListener, TLAPS

-----------------------------------------------------------------------------
(* The handlers.                                                            *)

\* Where the handlers of each kind may be.
PlacesOf(k) ==
  CASE k = "tcp" -> {"accepted", "authenticate", "checkRunning", "add", "register", "subscribe",
                     "serve", "remove", "unregister", "closeSocket", "returned"}
    [] k = "dial" -> {"checkRunning", "add", "register", "subscribe", "serve", "remove",
                      "unregister", "closeSocket", "returned"}
    [] k = "ws" -> {"authenticate", "checkRunning", "upgrade", "add", "register", "setHook",
                    "subscribe", "serve", "closePeer", "closeSocket", "remove", "unregister",
                    "returned", "refused"}
    [] k = "sse" -> {"authenticate", "checkRunning", "subscribe", "greet", "add", "register",
                     "serve", "write", "remove", "unregister", "returned"}

HandlerInv ==
  \A c \in Conns :
    /\ pc[c] \in PlacesOf(kind[c])
    /\ c \in watched => \/ Tcp(c)
                        \/ kind[c] = "ws" /\ pc[c] \in {"serve", "closePeer", "closeSocket"}

\* Sockets of ws: there is one from the upgrade on; the hook closes it from
\* setHook on; and a peer that is closed before the handler has subscribed was
\* closed by the shutdown, for the handler has not asked for its removal.
Upgraded == {"add", "register", "setHook", "subscribe", "serve", "closePeer", "closeSocket",
             "remove", "unregister"}
WsInv ==
  \A c \in Conns : kind[c] = "ws" =>
    /\ pc[c] \in {"authenticate", "checkRunning", "upgrade"} => socket[c] = "none"
    /\ pc[c] \in Upgraded => socket[c] # "none"
    /\ pc[c] = "subscribe" => c \in hook
    /\ c \in unregistering => pc[c] \in Over
    /\ c \in closed => ~running \/ pc[c] \in {"serve", "closePeer", "closeSocket", "remove",
                                                "unregister", "returned", "refused"}
    /\ pc[c] \in {"remove", "unregister"} /\ socket[c] # "closed" => ~running /\ c \in closed

ConnInv == TypeOK /\ HandlerInv /\ WsInv /\ HandlerClosesSocket

LEMMA KindsAre ==
  ASSUME TypeOK, NEW c \in Conns
  PROVE  kind[c] \in {"tcp", "dial", "ws", "sse"}
BY ConnectionsAssumption DEF TypeOK

LEMMA ConnStep ==
  ASSUME ConnInv, [Next]_vars
  PROVE  ConnInv'
<1> USE KindsAre
    DEF ConnInv, conn, peer, hub, At, Closing, Tcp, Over, Places
<1>1. ASSUME NEW c \in Conns, Handshake(c) PROVE ConnInv'
  <2>1. TypeOK'
    BY <1>1 DEF Handshake, TypeOK, HandlerInv, PlacesOf
  <2>2. HandlerInv'
    BY <1>1 DEF Handshake, TypeOK, HandlerInv, PlacesOf
  <2>3. WsInv'
    BY <1>1 DEF Handshake, TypeOK, HandlerInv, PlacesOf, WsInv, Upgraded
  <2>4. HandlerClosesSocket'
    BY <1>1 DEF Handshake, TypeOK, HandlerInv, PlacesOf, WsInv, Upgraded, HandlerClosesSocket
  <2> QED BY <2>1, <2>2, <2>3, <2>4
<1>2. ASSUME NEW c \in Conns, Authenticate(c) PROVE ConnInv'
  <2>1. TypeOK'
    BY <1>2 DEF Authenticate, TypeOK, HandlerInv, PlacesOf
  <2>2. HandlerInv'
    BY <1>2 DEF Authenticate, TypeOK, HandlerInv, PlacesOf
  <2>3. WsInv'
    BY <1>2 DEF Authenticate, TypeOK, WsInv, Upgraded
  <2>4. HandlerClosesSocket'
    BY <1>2 DEF Authenticate, TypeOK, HandlerInv, PlacesOf, WsInv, Upgraded, HandlerClosesSocket
  <2> QED BY <2>1, <2>2, <2>3, <2>4
<1>3. ASSUME NEW c \in Conns, CheckRunning(c) PROVE ConnInv'
  <2>1. TypeOK'
    BY <1>3 DEF CheckRunning, AfterCheck, TypeOK, HandlerInv, PlacesOf
  <2>2. HandlerInv'
    BY <1>3 DEF CheckRunning, AfterCheck, TypeOK, HandlerInv, PlacesOf
  <2>3. WsInv'
    BY <1>3 DEF CheckRunning, AfterCheck, TypeOK, WsInv, Upgraded
  <2>4. HandlerClosesSocket'
    BY <1>3 DEF CheckRunning, AfterCheck, TypeOK, HandlerInv, PlacesOf, WsInv, Upgraded, HandlerClosesSocket
  <2> QED BY <2>1, <2>2, <2>3, <2>4
<1>4. ASSUME NEW c \in Conns, Upgrade(c) PROVE ConnInv'
  <2>1. TypeOK'
    BY <1>4 DEF Upgrade, TypeOK, HandlerInv, PlacesOf
  <2>2. HandlerInv'
    BY <1>4 DEF Upgrade, TypeOK, HandlerInv, PlacesOf
  <2>3. WsInv'
    BY <1>4 DEF Upgrade, TypeOK, HandlerInv, PlacesOf, WsInv, Upgraded
  <2>4. HandlerClosesSocket'
    BY <1>4 DEF Upgrade, TypeOK, HandlerInv, PlacesOf, WsInv, Upgraded, HandlerClosesSocket
  <2> QED BY <2>1, <2>2, <2>3, <2>4
<1>5. ASSUME NEW c \in Conns, Add(c) PROVE ConnInv'
  <2>1. TypeOK'
    BY <1>5 DEF Add, TypeOK, HandlerInv, PlacesOf
  <2>2. HandlerInv'
    BY <1>5 DEF Add, TypeOK, HandlerInv, PlacesOf
  <2>3. WsInv'
    BY <1>5 DEF Add, TypeOK, WsInv, Upgraded
  <2>4. HandlerClosesSocket'
    BY <1>5 DEF Add, TypeOK, HandlerInv, PlacesOf, WsInv, Upgraded, HandlerClosesSocket
  <2> QED BY <2>1, <2>2, <2>3, <2>4
<1>6. ASSUME NEW c \in Conns, Register(c) PROVE ConnInv'
  <2>1. TypeOK'
    BY <1>6 DEF Register, AfterAdd, TypeOK, HandlerInv, PlacesOf
  <2>2. HandlerInv'
    BY <1>6 DEF Register, AfterAdd, TypeOK, HandlerInv, PlacesOf
  <2>3. WsInv'
    BY <1>6 DEF Register, AfterAdd, TypeOK, WsInv, Upgraded
  <2>4. HandlerClosesSocket'
    BY <1>6 DEF Register, AfterAdd, TypeOK, HandlerInv, PlacesOf, WsInv, Upgraded, HandlerClosesSocket
  <2> QED BY <2>1, <2>2, <2>3, <2>4
<1>7. ASSUME NEW c \in Conns, AddDirectly(c) PROVE ConnInv'
  <2>1. TypeOK'
    BY <1>7 DEF AddDirectly, AfterAdd, TypeOK, HandlerInv, PlacesOf
  <2>2. HandlerInv'
    BY <1>7 DEF AddDirectly, AfterAdd, TypeOK, HandlerInv, PlacesOf
  <2>3. WsInv'
    BY <1>7 DEF AddDirectly, AfterAdd, TypeOK, WsInv, Upgraded
  <2>4. HandlerClosesSocket'
    BY <1>7 DEF AddDirectly, AfterAdd, TypeOK, HandlerInv, PlacesOf, WsInv, Upgraded, HandlerClosesSocket
  <2> QED BY <2>1, <2>2, <2>3, <2>4
<1>8. ASSUME NEW c \in Conns, SetHook(c) PROVE ConnInv'
  <2>1. TypeOK'
    BY <1>8 DEF SetHook, TypeOK, HandlerInv, PlacesOf
  <2>2. HandlerInv'
    BY <1>8 DEF SetHook, TypeOK, HandlerInv, PlacesOf
  <2>3. WsInv'
    BY <1>8 DEF SetHook, TypeOK, WsInv, Upgraded
  <2>4. HandlerClosesSocket'
    BY <1>8 DEF SetHook, TypeOK, HandlerInv, PlacesOf, WsInv, Upgraded, HandlerClosesSocket
  <2> QED BY <2>1, <2>2, <2>3, <2>4
<1>9. ASSUME NEW c \in Conns, Subscribe(c) PROVE ConnInv'
  <2>1. TypeOK'
    BY <1>9 DEF Subscribe, TypeOK, HandlerInv, PlacesOf
  <2>2. HandlerInv'
    BY <1>9 DEF Subscribe, TypeOK, HandlerInv, PlacesOf
  <2>3. WsInv'
    BY <1>9 DEF Subscribe, TypeOK, WsInv, Upgraded
  <2>4. HandlerClosesSocket'
    BY <1>9 DEF Subscribe, TypeOK, HandlerInv, PlacesOf, WsInv, Upgraded, HandlerClosesSocket
  <2> QED BY <2>1, <2>2, <2>3, <2>4
<1>10. ASSUME NEW c \in Conns, SubscribeRefused(c) PROVE ConnInv'
  <2>1. TypeOK'
    BY <1>10 DEF SubscribeRefused, ClosePeer, TypeOK, HandlerInv, PlacesOf
  <2>2. HandlerInv'
    BY <1>10 DEF SubscribeRefused, ClosePeer, TypeOK, HandlerInv, PlacesOf
  <2>3. WsInv'
    BY <1>10 DEF SubscribeRefused, ClosePeer, TypeOK, WsInv, Upgraded
  <2>4. HandlerClosesSocket'
    BY <1>10 DEF SubscribeRefused, ClosePeer, TypeOK, HandlerInv, PlacesOf, WsInv, Upgraded, HandlerClosesSocket
  <2> QED BY <2>1, <2>2, <2>3, <2>4
<1>11. ASSUME NEW c \in Conns, PongTimeout(c) PROVE ConnInv'
  <2>1. TypeOK'
    BY <1>11 DEF PongTimeout, Leaving, TypeOK, HandlerInv, PlacesOf
  <2>2. HandlerInv'
    BY <1>11 DEF PongTimeout, Leaving, TypeOK, HandlerInv, PlacesOf
  <2>3. WsInv'
    BY <1>11 DEF PongTimeout, Leaving, TypeOK, WsInv, Upgraded
  <2>4. HandlerClosesSocket'
    BY <1>11 DEF PongTimeout, Leaving, TypeOK, HandlerInv, PlacesOf, WsInv, Upgraded, HandlerClosesSocket
  <2> QED BY <2>1, <2>2, <2>3, <2>4
<1>12. ASSUME NEW c \in Conns, Done(c) PROVE ConnInv'
  <2>1. TypeOK'
    BY <1>12 DEF Done, Leaving, TypeOK, HandlerInv, PlacesOf
  <2>2. HandlerInv'
    BY <1>12 DEF Done, Leaving, TypeOK, HandlerInv, PlacesOf
  <2>3. WsInv'
    BY <1>12 DEF Done, Leaving, TypeOK, WsInv, Upgraded
  <2>4. HandlerClosesSocket'
    BY <1>12 DEF Done, Leaving, TypeOK, HandlerInv, PlacesOf, WsInv, Upgraded, HandlerClosesSocket
  <2> QED BY <2>1, <2>2, <2>3, <2>4
<1>13. ASSUME NEW c \in Conns, CloseOwnPeer(c) PROVE ConnInv'
  <2>1. TypeOK'
    BY <1>13 DEF CloseOwnPeer, ClosePeer, TypeOK, HandlerInv, PlacesOf
  <2>2. HandlerInv'
    BY <1>13 DEF CloseOwnPeer, ClosePeer, TypeOK, HandlerInv, PlacesOf
  <2>3. WsInv'
    BY <1>13 DEF CloseOwnPeer, ClosePeer, TypeOK, WsInv, Upgraded
  <2>4. HandlerClosesSocket'
    BY <1>13 DEF CloseOwnPeer, ClosePeer, TypeOK, HandlerInv, PlacesOf, WsInv, Upgraded, HandlerClosesSocket
  <2> QED BY <2>1, <2>2, <2>3, <2>4
<1>14. ASSUME NEW c \in Conns, CloseSocket(c) PROVE ConnInv'
  <2>1. TypeOK'
    BY <1>14 DEF CloseSocket, TypeOK, HandlerInv, PlacesOf
  <2>2. HandlerInv'
    BY <1>14 DEF CloseSocket, TypeOK, HandlerInv, PlacesOf
  <2>3. WsInv'
    BY <1>14 DEF CloseSocket, TypeOK, WsInv, Upgraded
  <2>4. HandlerClosesSocket'
    BY <1>14 DEF CloseSocket, TypeOK, HandlerInv, PlacesOf, WsInv, Upgraded, HandlerClosesSocket
  <2> QED BY <2>1, <2>2, <2>3, <2>4
<1>15. ASSUME NEW c \in Conns, Remove(c) PROVE ConnInv'
  <2>1. TypeOK'
    BY <1>15 DEF Remove, TypeOK, HandlerInv, PlacesOf
  <2>2. HandlerInv'
    BY <1>15 DEF Remove, TypeOK, HandlerInv, PlacesOf
  <2>3. WsInv'
    BY <1>15 DEF Remove, TypeOK, WsInv, Upgraded
  <2>4. HandlerClosesSocket'
    BY <1>15 DEF Remove, TypeOK, HandlerInv, PlacesOf, WsInv, Upgraded, HandlerClosesSocket
  <2> QED BY <2>1, <2>2, <2>3, <2>4
<1>16. ASSUME NEW c \in Conns, Unregister(c) PROVE ConnInv'
  <2>1. TypeOK'
    BY <1>16 DEF Unregister, AfterRemove, EndRequest, TypeOK, HandlerInv, PlacesOf
  <2>2. HandlerInv'
    BY <1>16 DEF Unregister, AfterRemove, EndRequest, TypeOK, HandlerInv, PlacesOf
  <2>3. WsInv'
    BY <1>16 DEF Unregister, AfterRemove, EndRequest, TypeOK, WsInv, Upgraded
  <2>4. HandlerClosesSocket'
    BY <1>16 DEF Unregister, AfterRemove, EndRequest, TypeOK, HandlerInv, PlacesOf, WsInv, Upgraded, HandlerClosesSocket
  <2> QED BY <2>1, <2>2, <2>3, <2>4
<1>17. ASSUME NEW c \in Conns, RemoveDirectly(c) PROVE ConnInv'
  <2>1. TypeOK'
    BY <1>17 DEF RemoveDirectly, AfterRemove, EndRequest, TypeOK, HandlerInv, PlacesOf
  <2>2. HandlerInv'
    BY <1>17 DEF RemoveDirectly, AfterRemove, EndRequest, TypeOK, HandlerInv, PlacesOf
  <2>3. WsInv'
    BY <1>17 DEF RemoveDirectly, AfterRemove, EndRequest, TypeOK, WsInv, Upgraded
  <2>4. HandlerClosesSocket'
    BY <1>17 DEF RemoveDirectly, AfterRemove, EndRequest, TypeOK, HandlerInv, PlacesOf, WsInv, Upgraded, HandlerClosesSocket
  <2> QED BY <2>1, <2>2, <2>3, <2>4
<1>18. ASSUME NEW c \in Conns, FrameRefused(c) PROVE ConnInv'
  <2>1. TypeOK'
    BY <1>18 DEF FrameRefused, TypeOK, HandlerInv, PlacesOf
  <2>2. HandlerInv'
    BY <1>18 DEF FrameRefused, TypeOK, HandlerInv, PlacesOf
  <2>3. WsInv'
    BY <1>18 DEF FrameRefused, TypeOK, WsInv, Upgraded
  <2>4. HandlerClosesSocket'
    BY <1>18 DEF FrameRefused, TypeOK, HandlerInv, PlacesOf, WsInv, Upgraded, HandlerClosesSocket
  <2> QED BY <2>1, <2>2, <2>3, <2>4
<1>19. ASSUME NEW c \in Conns, AnswerRefused(c) PROVE ConnInv'
  <2>1. TypeOK'
    BY <1>19 DEF AnswerRefused, TypeOK, HandlerInv, PlacesOf
  <2>2. HandlerInv'
    BY <1>19 DEF AnswerRefused, TypeOK, HandlerInv, PlacesOf
  <2>3. WsInv'
    BY <1>19 DEF AnswerRefused, TypeOK, WsInv, Upgraded
  <2>4. HandlerClosesSocket'
    BY <1>19 DEF AnswerRefused, TypeOK, HandlerInv, PlacesOf, WsInv, Upgraded, HandlerClosesSocket
  <2> QED BY <2>1, <2>2, <2>3, <2>4
<1>20. ASSUME NEW c \in Conns, ReadFail(c) PROVE ConnInv'
  <2>1. TypeOK'
    BY <1>20 DEF ReadFail, Leaving, TypeOK, HandlerInv, PlacesOf
  <2>2. HandlerInv'
    BY <1>20 DEF ReadFail, Leaving, TypeOK, HandlerInv, PlacesOf
  <2>3. WsInv'
    BY <1>20 DEF ReadFail, Leaving, TypeOK, WsInv, Upgraded
  <2>4. HandlerClosesSocket'
    BY <1>20 DEF ReadFail, Leaving, TypeOK, HandlerInv, PlacesOf, WsInv, Upgraded, HandlerClosesSocket
  <2> QED BY <2>1, <2>2, <2>3, <2>4
<1>21. ASSUME NEW c \in Conns, PumpEnds(c) PROVE ConnInv'
  <2>1. TypeOK'
    BY <1>21 DEF PumpEnds, TypeOK, HandlerInv, PlacesOf
  <2>2. HandlerInv'
    BY <1>21 DEF PumpEnds, TypeOK, HandlerInv, PlacesOf
  <2>3. WsInv'
    BY <1>21 DEF PumpEnds, TypeOK, WsInv, Upgraded
  <2>4. HandlerClosesSocket'
    BY <1>21 DEF PumpEnds, TypeOK, HandlerInv, PlacesOf, WsInv, Upgraded, HandlerClosesSocket
  <2> QED BY <2>1, <2>2, <2>3, <2>4
<1>22. ASSUME NEW c \in Conns, ContextEnds(c) PROVE ConnInv'
  <2>1. TypeOK'
    BY <1>22 DEF ContextEnds, TypeOK, HandlerInv, PlacesOf
  <2>2. HandlerInv'
    BY <1>22 DEF ContextEnds, TypeOK, HandlerInv, PlacesOf
  <2>3. WsInv'
    BY <1>22 DEF ContextEnds, TypeOK, WsInv, Upgraded
  <2>4. HandlerClosesSocket'
    BY <1>22 DEF ContextEnds, TypeOK, HandlerInv, PlacesOf, WsInv, Upgraded, HandlerClosesSocket
  <2> QED BY <2>1, <2>2, <2>3, <2>4
<1>23. ASSUME NEW c \in Conns, CloseWatched(c) PROVE ConnInv'
  <2>1. TypeOK'
    BY <1>23 DEF CloseWatched, TypeOK, HandlerInv, PlacesOf
  <2>2. HandlerInv'
    BY <1>23 DEF CloseWatched, TypeOK, HandlerInv, PlacesOf
  <2>3. WsInv'
    BY <1>23 DEF CloseWatched, TypeOK, WsInv, Upgraded
  <2>4. HandlerClosesSocket'
    BY <1>23 DEF CloseWatched, TypeOK, HandlerInv, PlacesOf, WsInv, Upgraded, HandlerClosesSocket
  <2> QED BY <2>1, <2>2, <2>3, <2>4
<1>24. ASSUME NEW c \in Conns, HangUp(c) PROVE ConnInv'
  <2>1. TypeOK'
    BY <1>24 DEF HangUp, TypeOK, HandlerInv, PlacesOf
  <2>2. HandlerInv'
    BY <1>24 DEF HangUp, TypeOK, HandlerInv, PlacesOf
  <2>3. WsInv'
    BY <1>24 DEF HangUp, TypeOK, WsInv, Upgraded
  <2>4. HandlerClosesSocket'
    BY <1>24 DEF HangUp, TypeOK, HandlerInv, PlacesOf, WsInv, Upgraded, HandlerClosesSocket
  <2> QED BY <2>1, <2>2, <2>3, <2>4
<1>25. ASSUME NEW c \in Conns, ServeRegister(c) PROVE ConnInv'
  <2>1. TypeOK'
    BY <1>25 DEF ServeRegister, TypeOK, HandlerInv, PlacesOf
  <2>2. HandlerInv'
    BY <1>25 DEF ServeRegister, TypeOK, HandlerInv, PlacesOf
  <2>3. WsInv'
    BY <1>25 DEF ServeRegister, TypeOK, WsInv, Upgraded
  <2>4. HandlerClosesSocket'
    BY <1>25 DEF ServeRegister, TypeOK, HandlerInv, PlacesOf, WsInv, Upgraded, HandlerClosesSocket
  <2> QED BY <2>1, <2>2, <2>3, <2>4
<1>26. ASSUME NEW c \in Conns, ServeUnregister(c) PROVE ConnInv'
  <2>1. TypeOK'
    BY <1>26 DEF ServeUnregister, RemovePeer, ClosePeer, TypeOK, HandlerInv, PlacesOf
  <2>2. HandlerInv'
    BY <1>26 DEF ServeUnregister, RemovePeer, ClosePeer, TypeOK, HandlerInv, PlacesOf
  <2>3. WsInv'
    BY <1>26 DEF ServeUnregister, RemovePeer, ClosePeer, TypeOK, WsInv, Upgraded
  <2>4. HandlerClosesSocket'
    BY <1>26 DEF ServeUnregister, RemovePeer, ClosePeer, TypeOK, HandlerInv, PlacesOf, WsInv, Upgraded, HandlerClosesSocket
  <2> QED BY <2>1, <2>2, <2>3, <2>4
<1>27. ASSUME NEW c \in Conns, Drain(c) PROVE ConnInv'
  <2>1. TypeOK'
    BY <1>27 DEF Drain, RemovePeer, ClosePeer, TypeOK, HandlerInv, PlacesOf
  <2>2. HandlerInv'
    BY <1>27 DEF Drain, RemovePeer, ClosePeer, TypeOK, HandlerInv, PlacesOf
  <2>3. WsInv'
    BY <1>27 DEF Drain, RemovePeer, ClosePeer, TypeOK, WsInv, Upgraded
  <2>4. HandlerClosesSocket'
    BY <1>27 DEF Drain, RemovePeer, ClosePeer, TypeOK, HandlerInv, PlacesOf, WsInv, Upgraded, HandlerClosesSocket
  <2> QED BY <2>1, <2>2, <2>3, <2>4
<1>28. CASE Shutdown
  <2>1. TypeOK'
    <3>1. running' = FALSE /\ draining' \subseteq Conns
      BY <1>28 DEF Shutdown, TypeOK
    <3>2. UNCHANGED <<kind, pc, socket, context, watched, pump, hook, closed, members,
                      registering, unregistering, left>>
      BY <1>28 DEF Shutdown
    <3> QED BY <3>1, <3>2 DEF TypeOK
  <2>2. HandlerInv' /\ WsInv' /\ HandlerClosesSocket'
    BY <1>28 DEF Shutdown, HandlerInv, WsInv, HandlerClosesSocket
  <2> QED BY <2>1, <2>2
<1>29. CASE UNCHANGED vars
  BY <1>29 DEF vars, TypeOK, HandlerInv, WsInv, HandlerClosesSocket
<1>30. ASSUME NEW c \in Conns, Write(c) PROVE ConnInv'
  <2>1. TypeOK'
    BY <1>30 DEF Write, TypeOK, HandlerInv, PlacesOf
  <2>2. HandlerInv'
    BY <1>30 DEF Write, TypeOK, HandlerInv, PlacesOf
  <2>3. WsInv'
    BY <1>30 DEF Write, TypeOK, HandlerInv, PlacesOf, WsInv, Upgraded
  <2>4. HandlerClosesSocket'
    BY <1>30 DEF Write, TypeOK, HandlerInv, PlacesOf, WsInv, Upgraded, HandlerClosesSocket
  <2> QED BY <2>1, <2>2, <2>3, <2>4
<1>31. ASSUME NEW c \in Conns, Flushed(c) PROVE ConnInv'
  <2>1. TypeOK'
    BY <1>31 DEF Flushed, TypeOK, HandlerInv, PlacesOf
  <2>2. HandlerInv'
    BY <1>31 DEF Flushed, TypeOK, HandlerInv, PlacesOf
  <2>3. WsInv'
    BY <1>31 DEF Flushed, TypeOK, HandlerInv, PlacesOf, WsInv, Upgraded
  <2>4. HandlerClosesSocket'
    BY <1>31 DEF Flushed, TypeOK, HandlerInv, PlacesOf, WsInv, Upgraded, HandlerClosesSocket
  <2> QED BY <2>1, <2>2, <2>3, <2>4
<1>32. ASSUME NEW c \in Conns, StopReading(c) PROVE ConnInv'
  <2>1. TypeOK'
    BY <1>32 DEF StopReading, TypeOK, HandlerInv, PlacesOf
  <2>2. HandlerInv'
    BY <1>32 DEF StopReading, TypeOK, HandlerInv, PlacesOf
  <2>3. WsInv'
    BY <1>32 DEF StopReading, TypeOK, HandlerInv, PlacesOf, WsInv, Upgraded
  <2>4. HandlerClosesSocket'
    BY <1>32 DEF StopReading, TypeOK, HandlerInv, PlacesOf, WsInv, Upgraded, HandlerClosesSocket
  <2> QED BY <2>1, <2>2, <2>3, <2>4
<1> QED
  BY <1>1, <1>2, <1>3, <1>4, <1>5, <1>6, <1>7, <1>8, <1>9, <1>10, <1>11, <1>12, <1>13, <1>14, <1>15, <1>16, <1>17, <1>18, <1>19, <1>20, <1>21, <1>22, <1>23, <1>24, <1>25, <1>26, <1>27, <1>28, <1>29,
     <1>30, <1>31, <1>32 DEF Next, Step

-----------------------------------------------------------------------------
(* The calls of Listen.                                                     *)

LTypeOK ==
  /\ place \in [Calls -> {"idle", "accept", "close", "forget", "ended"}]
  /\ uses \in [Calls -> Calls \cup {None}] /\ listener \in Calls \cup {None}
  /\ open \subseteq Calls /\ over \subseteq Calls /\ by \in [Conns -> Calls \cup {None}]

\* A listener that is closed, and why: a call that used it is over or closed it.
ClosedBy(o) == \E k \in Calls : uses[k] = o /\ (k \in over \/ place[k] \in {"forget", "ended"})

ListenerInv ==
  /\ \A l \in Calls : place[l] = "idle" => uses[l] = None
  /\ \A l \in Calls : place[l] \in {"accept", "close", "forget"} => uses[l] # None
  /\ \A l \in Calls : uses[l] # None => place[uses[l]] # "idle"
  /\ listener # None => place[listener] # "idle"
  /\ \A l \in Calls : place[l] = "forget" => uses[l] \notin open
  /\ listener \notin open \cup {None} => ClosedBy(listener)

\* What a call of Listen does to the connections: it ends the context of some.
LEMMA ContextStep ==
  ASSUME ConnInv, context' \subseteq Conns,
         UNCHANGED <<kind, pc, socket, watched, pump, hook, closed, running, members, registering,
                     unregistering, draining, left>>
  PROVE  ConnInv'
<1>1. TypeOK'
  BY DEF ConnInv, TypeOK
<1>2. HandlerInv' /\ WsInv' /\ HandlerClosesSocket'
  BY DEF ConnInv, HandlerInv, WsInv, HandlerClosesSocket, Tcp
<1> QED BY <1>1, <1>2 DEF ConnInv

LEMMA ListenConnStep ==
  ASSUME ConnInv, LTypeOK, [LNext]_<<vars, lvars>>
  PROVE  ConnInv'
<1>1. CASE [Next]_vars
  BY <1>1, ConnStep
<1>2. ASSUME NEW l \in Calls, NEW c \in Conns, Accept(l, c) PROVE ConnInv'
  <2>1. context' \subseteq Conns
    BY <1>2 DEF Accept, ConnInv, TypeOK
  <2> QED BY <1>2, <2>1, ContextStep DEF Accept, peer, hub
<1>3. ASSUME NEW l \in Calls, EndContext(l) PROVE ConnInv'
  <2>1. context' \subseteq Conns
    BY <1>3 DEF EndContext, ConnInv, TypeOK
  <2> QED BY <1>3, <2>1, ContextStep DEF EndContext, peer, hub
<1>4. ASSUME NEW c \in Conns, Connection(c) PROVE Next
  BY <1>4 DEF Connection, Next
<1>5. ASSUME NEW l \in Calls, Listen(l) \/ ListenRefused(l) \/ ListenStep(l)
      PROVE  UNCHANGED vars
  BY <1>5 DEF Listen, ListenRefused, ListenStep, AcceptFails, Close, Forget, CloseWithContext
<1> QED
  BY <1>1, <1>2, <1>3, <1>4, <1>5 DEF LNext, Next

\* The variables of the calls of Listen: what each kind of step changes.
LEMMA ListenFrame ==
  ASSUME [LNext]_<<vars, lvars>>
  PROVE  \/ UNCHANGED <<place, uses, listener, open, over>>
              /\ (by' = by \/ \E l \in Calls, c \in Conns : by' = [by EXCEPT ![c] = l])
         \/ \E l \in Calls : \/ Listen(l) \/ ListenRefused(l) \/ AcceptFails(l) \/ Close(l)
                             \/ Forget(l) \/ CloseWithContext(l) \/ EndContext(l)
BY DEF LNext, Connection, Accept, lvars, ListenStep

ListenInv == LTypeOK /\ ListenerInv /\ ListenersOwned

LEMMA ListenInvStep ==
  ASSUME ListenInv, [LNext]_<<vars, lvars>>
  PROVE  ListenInv'
<1> USE TcpListenerAssumption DEF ListenInv, MovesTo
<1>1. CASE /\ UNCHANGED <<place, uses, listener, open, over>>
           /\ (by' = by \/ \E l \in Calls, c \in Conns : by' = [by EXCEPT ![c] = l])
  BY <1>1 DEF LTypeOK, ListenerInv, ListenersOwned, ClosedBy
<1>2. ASSUME NEW l \in Calls, Listen(l) PROVE ListenInv'
  <2>1. LTypeOK'
    BY <1>2 DEF Listen, LTypeOK
  <2>2. ListenerInv'
    BY <1>2 DEF Listen, LTypeOK, ListenerInv, ListenersOwned, ClosedBy
  <2>3. ListenersOwned'
    BY <1>2 DEF Listen, LTypeOK, ListenerInv, ListenersOwned, ClosedBy
  <2> QED BY <2>1, <2>2, <2>3
<1>3. ASSUME NEW l \in Calls, ListenRefused(l) PROVE ListenInv'
  <2>1. LTypeOK'
    BY <1>3 DEF ListenRefused, LTypeOK
  <2>2. ListenerInv'
    BY <1>3 DEF ListenRefused, LTypeOK, ListenerInv, ListenersOwned, ClosedBy
  <2>3. ListenersOwned'
    BY <1>3 DEF ListenRefused, LTypeOK, ListenerInv, ListenersOwned, ClosedBy
  <2> QED BY <2>1, <2>2, <2>3
<1>4. ASSUME NEW l \in Calls, AcceptFails(l) PROVE ListenInv'
  <2>1. LTypeOK'
    BY <1>4 DEF AcceptFails, LTypeOK
  <2>2. ListenerInv'
    BY <1>4 DEF AcceptFails, LTypeOK, ListenerInv, ListenersOwned, ClosedBy
  <2>3. ListenersOwned'
    BY <1>4 DEF AcceptFails, LTypeOK, ListenerInv, ListenersOwned, ClosedBy
  <2> QED BY <2>1, <2>2, <2>3
<1>5. ASSUME NEW l \in Calls, Close(l) PROVE ListenInv'
  <2>1. LTypeOK'
    BY <1>5 DEF Close, LTypeOK
  <2>2. ListenerInv'
    BY <1>5 DEF Close, LTypeOK, ListenerInv, ListenersOwned, ClosedBy
  <2>3. ListenersOwned'
    BY <1>5 DEF Close, LTypeOK, ListenerInv, ListenersOwned, ClosedBy
  <2> QED BY <2>1, <2>2, <2>3
<1>6. ASSUME NEW l \in Calls, Forget(l) PROVE ListenInv'
  <2>1. LTypeOK'
    BY <1>6 DEF Forget, LTypeOK
  <2>2. ListenerInv'
    BY <1>6 DEF Forget, LTypeOK, ListenerInv, ListenersOwned, ClosedBy
  <2>3. ListenersOwned'
    BY <1>6 DEF Forget, LTypeOK, ListenerInv, ListenersOwned, ClosedBy
  <2> QED BY <2>1, <2>2, <2>3
<1>7. ASSUME NEW l \in Calls, CloseWithContext(l) PROVE ListenInv'
  <2>1. LTypeOK'
    BY <1>7 DEF CloseWithContext, LTypeOK
  <2>2. ListenerInv'
    BY <1>7 DEF CloseWithContext, LTypeOK, ListenerInv, ListenersOwned, ClosedBy
  <2>3. ListenersOwned'
    BY <1>7 DEF CloseWithContext, LTypeOK, ListenerInv, ListenersOwned, ClosedBy
  <2> QED BY <2>1, <2>2, <2>3
<1>8. ASSUME NEW l \in Calls, EndContext(l) PROVE ListenInv'
  <2>1. LTypeOK'
    BY <1>8 DEF EndContext, LTypeOK
  <2>2. ListenerInv'
    BY <1>8 DEF EndContext, LTypeOK, ListenerInv, ListenersOwned, ClosedBy
  <2>3. ListenersOwned'
    BY <1>8 DEF EndContext, LTypeOK, ListenerInv, ListenersOwned, ClosedBy
  <2> QED BY <2>1, <2>2, <2>3
<1> QED
  BY <1>1, <1>2, <1>3, <1>4, <1>5, <1>6, <1>7, <1>8, ListenFrame

LEMMA ConnInit == Init => ConnInv
<1> SUFFICES ASSUME Init PROVE ConnInv
  OBVIOUS
<1> USE ConnectionsAssumption DEF Init
<1>1. \A c \in Conns : kind[c] \in {"tcp", "dial", "ws", "sse"} /\ pc[c] \in PlacesOf(kind[c])
  BY DEF PlacesOf
<1>2. pc \in [Conns -> Places] /\ \A c \in Conns : pc[c] \notin Over
  BY <1>1 DEF Places, Over
<1>3. TypeOK
  BY <1>2 DEF TypeOK
<1>4. HandlerInv /\ HandlerClosesSocket
  BY <1>1, <1>2 DEF HandlerInv, HandlerClosesSocket, Tcp, Over
<1>5. WsInv
  BY <1>1, <1>2 DEF WsInv, Upgraded, Over
<1> QED BY <1>3, <1>4, <1>5 DEF ConnInv

LEMMA ListenInit == LInit => ListenInv
BY TcpListenerAssumption DEF LInit, ListenInv, LTypeOK, ListenerInv, ListenersOwned, ClosedBy

LEMMA ConnInvariant == (Spec => []ConnInv) /\ (LSpec => [](ConnInv /\ ListenInv))
<1>1. Spec => []ConnInv
  BY ConnInit, ConnStep, PTL DEF Spec
<1>2. ListenInv => LTypeOK
  BY DEF ListenInv
<1>3. LSpec => []ListenInv
  BY ListenInit, ListenInvStep, PTL DEF LSpec
<1>4. LInit => ConnInv
  BY ConnInit DEF LInit
<1>5. LSpec => []ConnInv
  BY <1>2, <1>3, <1>4, ListenConnStep, PTL DEF LSpec
<1> QED BY <1>1, <1>3, <1>5, PTL

-----------------------------------------------------------------------------
(* The theorems, for connections alone and for those that calls of Listen   *)
(* accept and end.                                                          *)

\* Every variable keeps its type, and a handler that is over has given back
\* what it left with context.AfterFunc (tcp.go and ws.go, stopClose).
THEOREM TypeCorrect == (Spec => []TypeOK) /\ (LSpec => []TypeOK)
<1>1. ConnInv => TypeOK
  BY DEF ConnInv
<1> QED BY <1>1, ConnInvariant, PTL

\* No handler returns from an open socket, wherever it fails, whoever closes
\* its peer and in whatever order the hub, the context and the client come:
\* the exception is a ws handler whose subscription is refused after a shutdown
\* has closed its peer before SetCloseHook (ws.go:136-165).
THEOREM SocketsGetClosed == (Spec => []HandlerClosesSocket) /\ (LSpec => []HandlerClosesSocket)
<1>1. ConnInv => HandlerClosesSocket
  BY DEF ConnInv
<1> QED BY <1>1, ConnInvariant, PTL

\* However many calls of Listen share an adapter, one listener is open at a
\* time, and it belongs to a call that accepts from it or is about to close it
\* (tcp.go:97-126, 187-207).
THEOREM ListenersHaveOwners == LSpec => []ListenersOwned
<1>1. ListenInv => ListenersOwned
  BY DEF ListenInv
<1> QED BY <1>1, ConnInvariant, PTL

=============================================================================
