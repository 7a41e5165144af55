SPECIFICATION FairDiscoverySpec
CONSTANTS
  d1 = d1  d2 = d2  e1 = e1  e2 = e2  e3 = e3
  Calls = {k1, k2}
  Devices = {d1, d2}
  Places <- MCPlaces
  Paired = {d1}
  Nobody = Nobody
  Statics <- MCStatics
  MaxEntries = 2
  MaxClock = 2
INVARIANTS LatestEndpoint StopIsClean
PROPERTIES ImplementsDurableStore StopReturnsAtLast
