SPECIFICATION Spec
CONSTANTS
  Address = {537133056}
  Length = {0, 1, 2}
  Status = {4, 5}
  ScreenMax = 4
PROPERTY ResultTellsFailure
