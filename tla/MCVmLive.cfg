SPECIFICATION FairSpec
CONSTANTS
  NULL = NULL
  MAXUPROC = 2
  POOLSIZE = 1
  Page = {0, 262143}
  Data = {0, 262143}
  Segment = {2}
  Blocks = 1
  TapeStatus = {1}
  DiskStatus = {1}
PROPERTIES
  FaultEnds
  TerminateEnds
