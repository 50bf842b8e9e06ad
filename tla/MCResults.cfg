SPECIFICATION FairSpec
CONSTANTS
  NULL = NULL
  Reader = {r1, r2, r3}
  Masker = {r1, r2}
  Status8 = {1, 4}
  Proc = {p1, p2}
  WIDTH = 32
  Start = {0, 29}
  SPAN = 6
  Address = {537133055, 537133056}
  Text = {1, 2, 3, 129}
  Negated = {1}
  Status10 = {4, 5}
  ScreenMax = 8
INVARIANTS
  StatusDelivered
  MaskedStatusPrivate
  DeviceSemaphore
  NeverUndercharged
  ChargedWhatItRan
  PrefixWritten
PROPERTIES
  ResultTellsFailure
  CallEnds
