SPECIFICATION Spec
CONSTANTS
  Devices = {d1, d2}
  Calls = {q1, q2, q3}
  MaxWindows = 2
  MaxFailures = 2
INVARIANTS OneDevicePerCode DisagreementExplained
PROPERTIES ImplementsDurableStore
