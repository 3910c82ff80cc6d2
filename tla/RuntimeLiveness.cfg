SPECIFICATION FairSpec
CONSTANTS
  Callers = {c1}
  Nobody = Nobody
  Controls = {"SetQuery"}
  Capacity = 1
  MaxCalls = 1
  MaxTicks = 2
  MaxFailures = 1
PROPERTY Follows
CHECK_DEADLOCK FALSE
