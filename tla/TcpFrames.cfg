SPECIFICATION FairSpec
CONSTANTS
  Senders = {w1, w2}
  ServerPump = serverPump
  ClientPump = clientPump
  Dialler = dialler
  Sizes = {1, 2, 3}
  MaxHandshakeSize = 1
  MaxFrameSize = 2
  MaxFrames = 2
INVARIANTS FramesIntact LegalFramesPass
PROPERTIES FramesArrive
CHECK_DEADLOCK FALSE
