SPECIFICATION Spec
CONSTANTS
  NULL = NULL
  Proc = {p1, p2, p3}
  USem = {mutex}
  Port <- NoPort
  TrapType = {"PROGTRAP"}
  SemBound = 2
SYMMETRY ProcSymmetry
INVARIANT NoOrphans
