SPECIFICATION FairSpec
CONSTANTS
  NULL = NULL
  Proc = {p1, p2, p3}
  USem = {mutex}
  Port <- NoPort
  TrapType = {"PROGTRAP"}
  SemBound = 2
PROPERTIES ReadyRuns KillEnds ClockWakes TickWakesAll
