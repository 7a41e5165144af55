CONSTANTS
  Jobs = {j1, j2, j3}
  Peers = {p1}
  MaxConcurrentJobs = 2
  MaxQueuedJobs = 1
  MaxRetainedJobs = 2
  MaxEmits = 1
SPECIFICATION Spec
SYMMETRY JobSymmetry
INVARIANTS
  SlotsRespected
  NoActiveJobLost
  RecordsAccountedFor
PROPERTIES
  ImplementsLifecycle
CHECK_DEADLOCK FALSE
