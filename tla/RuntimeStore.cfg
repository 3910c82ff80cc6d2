\* A session ends (or is killed) and is started again on the same files.
SPECIFICATION Spec
CONSTANTS
  Prefs = {p0}
  DefaultPrefs = p0
  UserQueries = {q0}
  DefaultQuery = q0
  RuntimeQueries = {r}
  Instances = {i1, i2}
  Local = Local
  NoRows = NoRows
  Held = Held
  None = None
  Absent = Absent
  Garbled = Garbled
  Legacy = Legacy
  Elevations = {"Standard", "Elevated"}
  CacheInterval = 2
  Capacity = 1
  MaxFaults = 1
SYMMETRY InstanceSymmetry
CHECK_DEADLOCK FALSE
INVARIANTS
  UnreadSettingsAreSafe
  PrivilegedRowsAreNotStored
  RatesHaveOneSource
  OnlyUserQueriesAreStored
  ShutdownIsTruthful
