SPECIFICATION Spec
CONSTANTS
  NULL = NULL
  Proc = {p1, p2}
  WIDTH = 32
  Start = {0, 29}
  SPAN = 7
INVARIANTS
  NeverUndercharged
  ChargedWhatItRan
CHECK_DEADLOCK FALSE
