SPECIFICATION Spec
CONSTANTS
  Values = {a}
  Absent = Absent
  RootCheck = {"verified", "unverified"}
  Capacity = 1
  MaxSubmits = 2
INVARIANTS HealthIsTruthful FlushIsTruthful BreakerIsVisible NoWakeupIsLost
PROPERTY RejectionKeepsAccepted
CHECK_DEADLOCK FALSE
