SPECIFICATION FairSpec
CONSTANTS
  g1 = g1
  g2 = g2
  g3 = g3
  i1 = i1
  i2 = i2
  Procs = {p1, p2, p3}
  Boots = {b1, b2, b3}
  Generations = {g1, g2}
  Identities = {i1, i2, other}
  SessionOf <- Configured
  ForeignIdentity = other
  InitialLeases = {Absent, Corrupt, Untrusted}
  External = TRUE
  MaxDisturbances = 3
  Absent = Absent
  Unavailable = Unavailable
  Corrupt = Corrupt
  Untrusted = Untrusted
  NoProc = NoProc
  Reused = Reused
INVARIANT SessionIsLeased
PROPERTIES LiveSessionIsSpared ForeignSessionIsSpared RefusedLeaseIsKept RecoversAtOnce
CHECK_DEADLOCK FALSE
