SPECIFICATION Spec
CONSTANTS
  NULL = 99
  NPcb = 4
  Queue = {readyQue, s_procQ0}
  NSemd = 2
  Sem = {10, 20, 30}
  Proc = {p1, p2, p3, p4}
  Trap = Trap
INVARIANTS
  RingsOK
  NoLeak
  AslOK
  ListsMatchParents
PROPERTIES
  ImplementsProcQueues
  ImplementsSemQueues
  ImplementsProcTree
