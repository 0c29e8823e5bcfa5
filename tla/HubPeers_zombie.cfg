SPECIFICATION Spec
CONSTANTS
  p1 = p1
  p2 = p2
  named = named
  star = star
  Peers = {p1}
  NoPeer = NoPeer
  Channels <- MCChannels
  Wildcard = star
  Authorised <- MCAuthorised
  Callers = {c1}
  Runners = {r1}
  QueueCap = 1
  MaxCalls = 1
SYMMETRY MCSymmetry
INVARIANTS
  RemovedPeerIsGone
