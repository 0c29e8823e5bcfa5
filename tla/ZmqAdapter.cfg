SPECIFICATION FairSpec
CONSTANTS
  MaxStarts = 2
  Publishers = {c1}
  MaxStops = 1
INVARIANTS FieldsAreOwned SendHasSocket NothingLeft
PROPERTIES Ended
CHECK_DEADLOCK FALSE
