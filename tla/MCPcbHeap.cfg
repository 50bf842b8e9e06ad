SPECIFICATION Spec
CONSTANTS
  NULL = NULL
  MAXPROC = 4
  Queue = {readyQue, s_procQ}
INVARIANTS
  RingsOK
  NoLeak
PROPERTY ImplementsProcQueues
