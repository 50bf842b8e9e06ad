SPECIFICATION Spec
CONSTANTS
  NULL = NULL
  Pcb = {p1, p2, p3, p4}
  Reinsert = FALSE
INVARIANT ListsMatchParents
PROPERTY ImplementsProcTree
