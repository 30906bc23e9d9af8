SPECIFICATION FairSpec
CONSTANT
  Calls <- MCCalls
INVARIANT WindowsConserved
INVARIANT InputsInOrder
INVARIANT SuccessIsTheHosts
PROPERTY CallEnds
PROPERTY CallCompletes
CHECK_DEADLOCK FALSE
