SPECIFICATION FairSpec
CONSTANTS
  Callers = {c1, c2}
  Nobody = Nobody
  Capacity = 1
  MaxCalls = 2
  MaxTicks = 1
INVARIANTS RefreshIsFresh ResultIsThere EveryWaiterIsServed
PROPERTIES RefreshReturns ThreadEnds
CHECK_DEADLOCK FALSE
