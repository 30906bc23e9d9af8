SPECIFICATION FairSpec
CONSTANTS
  Window = 2
  MaxOutputs = 3
  MaxFaults = 1
  Timers = TRUE
  Events = {"abandon", "clientClose", "hostClose", "unregister", "fail", "throw"}
INVARIANT CreditConservation
INVARIANT NoSilentTruncation
INVARIANT RecordedHonestly
INVARIANT AgreeOnSuccess
PROPERTY NoOutputAfterAbort
PROPERTY ImplementsStream
PROPERTY TornDown
\* A call that is stuck violates TornDown, which says more than a deadlock.
CHECK_DEADLOCK FALSE
