SPECIFICATION FairSpec
CONSTANTS
  NULL = NULL
  Proc = {p1, p2, p3}
  USem = {}
  Port <- OneDisk
  TrapType = {"PROGTRAP"}
  SemBound = 2
PROPERTY DeviceWakes
