SPECIFICATION FairSpec
CONSTANTS
  Updaters = {u1, u2}
  MaxPid = 4
  UserStarts = 2
CONSTRAINT Bounded
INVARIANTS LockCoversUpgrade OutcomeTruthful
PROPERTY UpgradeSettles
CHECK_DEADLOCK FALSE
