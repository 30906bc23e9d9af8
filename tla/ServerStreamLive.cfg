SPECIFICATION FairSpec
CONSTANTS
  Window = 2
  MaxOutputs = 4
  MaxFaults = 0
  Timers = FALSE
  Events = {"abandon", "fail"}
PROPERTY CallCompletes
\* A call that is stuck violates CallCompletes, which says more than a deadlock.
CHECK_DEADLOCK FALSE
