SPECIFICATION Spec
CONSTANTS
  NULL = NULL
  Proc = {p1, p2}
  USem = {mutex}
  Port <- Terminal0
  TrapType = {"PROGTRAP"}
  SemBound = 2
SYMMETRY ProcSymmetry
PROPERTY WokenByOwnDevice
