SPECIFICATION FairSpec
CONSTANTS
  c1 = c1
  c2 = c2
  p1 = p1
  named = named
  star = star
  none = none
  onNamed = onNamed
  onStar = onStar
  onPublished = onPublished
  onBroadcast = onBroadcast
  Callers = {c1}
  Peers = {p1}
  Handlers = {onNamed, onStar, onPublished, onBroadcast}
  Channels <- MCChannels
  Wildcard = star
  NoChannel = none
  HandlerOf <- MCHandlerOf
  PeerChannels <- MCPeerChannels
  QueueCap = 1
  SendCap = 1
  MaxFrames = 3
  Bounds <- MCBounds
INVARIANTS
  AtMostOnce
  HandlersInOrder
  NothingLost
  LateDeliveryBounded
PROPERTIES
  Delivery
  NoGoroutineLeak
  ImplementsService
CHECK_DEADLOCK FALSE
