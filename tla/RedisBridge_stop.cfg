SPECIFICATION FairSpec
CONSTANTS
  bridgeA = bridgeA
  bridgeB = bridgeB
  a1 = a1
  a2 = a2
  b1 = b1
  None = None
  Bridges = {bridgeA}
  Starts = {a1}
  Owner <- MCOwner
  MaxFrames = 0
  SentKinds = {}
  MaxStops <- MCOneStop
PROPERTIES
  StopEndsStart
CHECK_DEADLOCK FALSE
