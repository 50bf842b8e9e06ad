SPECIFICATION FairSpec
CONSTANTS
  NULL = NULL
  MAXUPROC = 2
  POOLSIZE = 1
  Page = {0}
  Data = {0}
  Segment = {2}
  Blocks = 1
  TapeStatus = {1}
  DiskStatus = {1, 4}
CHECK_DEADLOCK FALSE
PROPERTY
  TerminateEnds
