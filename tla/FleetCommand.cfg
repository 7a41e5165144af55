SPECIFICATION CommandSpec
CONSTANTS
  Peers = {p1}
  MaxRollouts = 2
  FailedBefore = {}
  MaxTries = 2
INVARIANT ExitTellsTruth
CHECK_DEADLOCK FALSE
