CONSTANTS
  Jobs = {j1, j2}
  Watched = j1
  Peers = {p1}
  MaxConcurrentJobs = 1
  MaxQueuedJobs = 1
  MaxRetainedJobs = 1
  MaxEmits = 1
  Conns = {c1, c2}
SPECIFICATION FairStreamSpec
INVARIANTS
  ReadsExactlyOnceInOrder
PROPERTIES
  TerminalIsFinal
  EveryJobEnds
  StreamEnds
CHECK_DEADLOCK FALSE
