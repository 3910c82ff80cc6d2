SPECIFICATION Spec
CONSTANTS
  a = a
  i3 = i3
  l2 = l2
  Texts = {none, a}
  NoText = none
  Intervals = {i1, i2, i3}
  Offered = {i1, i2}
  DefaultInterval = i1
  Themes = {t1, t2}
  DefaultTheme = t1
  Lengths = {l1, l2}
  DefaultLength = l1
  None = None
  Installations <- MCInstallations
  Capacity = 2
  MaxChanges = 2
  MaxFaults = 1
INVARIANTS ControlsAgree PreferencesAreKept
PROPERTY ControlsSettle
