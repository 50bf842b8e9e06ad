SPECIFICATION Spec
CONSTANTS
  NULL = NULL
  Proc = {p1, p2, p3}
  USem = {mutex}
  Port <- OneDisk
  TrapType = {"PROGTRAP"}
  SemBound = 3
SYMMETRY ProcSymmetry
INVARIANTS
  TypeOK
  ProcAccounting
  SoftBlockAccounting
  OnePlace
  SemValue
  StopReason
  TreeOK
PROPERTY CompletionWakes
