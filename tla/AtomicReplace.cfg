SPECIFICATION ReplaceSpec
CONSTANTS
  Writers = {w1, w2}
  Values = {a, b}
  Absent = Absent
  Torn = Torn
  WriteThrough = FALSE
INVARIANT ResultIsTruthful
PROPERTY ImplementsCell
