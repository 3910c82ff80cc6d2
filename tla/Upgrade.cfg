SPECIFICATION Spec
CONSTANTS
  Images = {v0, v1, v2, v3}
  Broken = {v3}
  Targets = {v1, v2, v3}
  Initial = {v0, None}
  MaxAttempts = 4
  MaxFaults = 5
  None = None
  Torn = Torn
SYMMETRY SoundTargets
INVARIANTS ImageIsNotLost CleanAttemptSucceeds RejectedIsRolledBack
PROPERTY SuccessIsComplete
CHECK_DEADLOCK FALSE
