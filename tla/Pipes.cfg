SPECIFICATION FairSpec
CONSTANTS
  a = a
  b = b
  there = there
  back = back
  p1 = p1
  p2 = p2
  b1 = b1
  Hubs <- MCHubs
  Pipes <- MCPipes
  Src <- MCSrc
  Dst <- MCDst
  Frames <- MCFrames
  Batches <- MCBatches
  KindOf <- MCKindOf
  QueueCap = 1
PROPERTIES
  ServiceStops
  RingDrains
  Forwarded
CHECK_DEADLOCK FALSE
