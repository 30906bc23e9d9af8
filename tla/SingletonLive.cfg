SPECIFICATION Spec
CONSTANTS
  c1 = c1
  c2 = c2
  c3 = c3
  Users <- MCUsers
  MaxInstances = 3
  MayFail = TRUE
  MayThrow = FALSE
PROPERTY NextUseCreates
PROPERTY WaitersSettle
CHECK_DEADLOCK FALSE
