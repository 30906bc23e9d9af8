SPECIFICATION Spec
CONSTANTS
  c1 = c1
  c2 = c2
  c3 = c3
  Users <- MCUsers
  MaxInstances = 4
  MayFail = TRUE
  MayThrow = TRUE
SYMMETRY Symmetry
INVARIANT HeldIsLive
INVARIANT NothingLeaks
CHECK_DEADLOCK FALSE
