SPECIFICATION Spec
CONSTANTS
  p1 = p1
  p2 = p2
  named = named
  star = star
  Peers = {p1, p2}
  NoPeer = NoPeer
  Channels <- MCChannels
  Wildcard = star
  Authorised <- MCAuthorised
  Callers = {c1, c2}
  Runners = {r1}
  QueueCap = 1
  MaxCalls = 1
SYMMETRY MCSymmetry
INVARIANTS
  SubscriptionMirror
  QueriesAgree
  HookAccounting
  AddedPeersStay
