SPECIFICATION FairSpec
CONSTANTS
  NULL = NULL
  Proc = {p1, p2}
  USem = {mutex}
  Port <- ThreeDevices
  TrapType = {"PROGTRAP"}
  SemBound = 1
PROPERTIES
  WokenByOwnDevice
  DeviceWakes
