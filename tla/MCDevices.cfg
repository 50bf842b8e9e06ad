SPECIFICATION Spec
CONSTANTS
  NULL = NULL
  Proc = {p1, p2}
  USem = {mutex}
  Port <- ThreeDevices
  TrapType = {"PROGTRAP", "SYSTRAP"}
  SemBound = 2
SYMMETRY ProcSymmetry
PROPERTY WokenByOwnDevice
