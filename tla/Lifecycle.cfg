SPECIFICATION FairSpec
CONSTANTS
  Procs = {p1, p2}
  Cmds = {c1}
  Signalled = {p1}
  MaxSignals = 2
INVARIANTS TokenMatchesListener StopTruthful
PROPERTY CommandsEnd
CHECK_DEADLOCK FALSE
