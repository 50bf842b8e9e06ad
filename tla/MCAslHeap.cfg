SPECIFICATION Spec
CONSTANTS
  NULL = 99
  Sem = {10, 20, 30}
  Proc = {p1, p2, p3, p4}
  MAXPROC = 2
  Trap = Trap
INVARIANT AslOK
PROPERTY ImplementsSemQueues
