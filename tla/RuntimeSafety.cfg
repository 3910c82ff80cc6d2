SPECIFICATION Spec
CONSTANTS
  Callers = {c1, c2}
  Nobody = Nobody
  Controls = {"Pause", "Resume", "SetSampleInterval"}
  Capacity = 1
  MaxCalls = 2
  MaxTicks = 1
  MaxFailures = 1
SYMMETRY Symmetry
INVARIANTS RefreshIsFresh AnswerIsNew EveryWaiterIsServed
PROPERTY PausedHolds
CHECK_DEADLOCK FALSE
