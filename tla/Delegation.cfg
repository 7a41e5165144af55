CONSTANTS
  Jobs = {j1}
  Calls = {c1, c2}
  MaxRuns = 2
  MaxTracked = 1
SPECIFICATION Spec
INVARIANTS
  DeliverablesAccountedFor
  AppliedIsVerified
  RoutesHonest
PROPERTIES
  ToolCallsAnswer
CHECK_DEADLOCK FALSE
