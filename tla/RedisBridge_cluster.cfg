SPECIFICATION FairSpec
CONSTANTS
  bridgeA = bridgeA
  bridgeB = bridgeB
  a1 = a1
  a2 = a2
  b1 = b1
  None = None
  Bridges = {bridgeA, bridgeB}
  Starts = {a1, b1}
  Owner <- MCOwner
  MaxFrames = 1
  SentKinds = {"publish", "broadcast"}
  MaxStops <- MCNoStop
INVARIANTS
  AtMostOnce
PROPERTIES
  MessageArrives
CHECK_DEADLOCK FALSE
