SPECIFICATION Spec
CONSTANTS
  NULL = NULL
  Proc = {p1, p2, p3}
  Masking = {p1, p2}
  Status = {1, 4}
INVARIANT AlwaysDelivered
