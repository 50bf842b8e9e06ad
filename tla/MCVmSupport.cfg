SPECIFICATION Spec
CONSTANTS
  NULL = NULL
  MAXUPROC = 2
  POOLSIZE = 2
  Page = {0, 262143}
  Data = {262143}
  Segment = {2}
  Blocks = 1
  TapeStatus = {1, 4}
  DiskStatus = {1, 4}
CHECK_DEADLOCK FALSE
INVARIANTS
  TypeOK
  SwapPoolOK
  DmaSafe
  ArmInPlace
  GracefulEnd
PROPERTIES
  ImplementsVirtualMemory
  FaultResolved
