SPECIFICATION LFairSpec
CONSTANTS
  Conns = {c1}
  Kinds = {"tcp", "dial", "ws", "sse"}
  Calls = {l1, l2}
  None = none
INVARIANTS
  TypeOK
  HandlerClosesSocket
  ListenersOwned
PROPERTIES
  HandlerEnds
  RemovedPeerLeaves
  ListenEnds
CHECK_DEADLOCK FALSE
