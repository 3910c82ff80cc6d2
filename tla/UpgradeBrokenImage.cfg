SPECIFICATION Spec
CONSTANTS
  Images = {v0, v1}
  Broken = {v0}
  Targets = {v1}
  Initial = {v0}
  MaxAttempts = 1
  MaxFaults = 0
  None = None
  Torn = Torn
INVARIANT BrokenImageIsReplaced
CHECK_DEADLOCK FALSE
