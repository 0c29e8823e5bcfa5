SPECIFICATION FairSpec
CONSTANTS
  bridgeA = bridgeA
  bridgeB = bridgeB
  a1 = a1
  a2 = a2
  b1 = b1
  None = None
  Bridges = {bridgeA}
  Starts = {a1, a2}
  Owner <- MCOwner
  MaxFrames = 1
  SentKinds = {"publish"}
  MaxStops <- MCOneStop
INVARIANTS
  OneStart
  NothingLeft
PROPERTIES
  StopEndsFound
CHECK_DEADLOCK FALSE
