SPECIFICATION RolloutFairSpec
CONSTANTS
  Peers = {p1, p2}
  MaxRollouts = 2
  FailedBefore = {p1}
  MaxTries = 3
CONSTRAINT Bounded
INVARIANTS OneNodeAtRisk
PROPERTIES FailureIsFresh SurfaceFrees
