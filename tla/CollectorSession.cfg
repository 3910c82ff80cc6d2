CONSTANTS
  MaxClients = 2
  MaxRequests = 4
  RenewAfter = 3
  IdleTimeout = 4
  RenewIdle = 2
  OperationTimeout = 1
  MaxInstances = 2
  MaxRevision = 2
  MaxFaults = 3
SPECIFICATION Spec
INVARIANTS
  LimitsAreForeseen
  RevokedStaysRevoked
PROPERTIES
  OnlyInvalidIsIncompatible
  SamplesAreCurrent
  RestartsAreNoticed
  ServiceIsUsed
