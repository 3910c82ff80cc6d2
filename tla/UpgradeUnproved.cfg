SPECIFICATION Spec
CONSTANTS
  Images = {v0, v1}
  Broken = {}
  Targets = {v1}
  Initial = {v0}
  MaxAttempts = 2
  MaxFaults = 3
  None = None
  Torn = Torn
INVARIANT AcceptedIsProved
CHECK_DEADLOCK FALSE
