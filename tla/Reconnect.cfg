SPECIFICATION FairSpec
CONSTANTS
  Transports = {"tcp", "ws"}
  Handshake = TRUE
  MaxRetries = 3
  Durations <- MCDurations
  InitialBackoff = 2
  MaxBackoff = 5
  Growths <- MCGrowths
  MaxConns = 3
INVARIANTS
  NoSocketLeak
  RetryBudget
  BackoffSchedule
PROPERTIES
  CancelReturns
