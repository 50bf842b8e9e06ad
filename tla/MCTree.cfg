SPECIFICATION Spec
CONSTANTS
  NULL = NULL
  Proc = {p1, p2, p3, p4}
  USem = {mutex}
  Port <- NoPort
  TrapType = {"PROGTRAP"}
  SemBound = 3
SYMMETRY ProcSymmetry
INVARIANTS
  ProcAccounting
  OnePlace
  TreeOK
