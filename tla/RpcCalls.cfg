SPECIFICATION FairSpec
CONSTANTS
  None = None
  h1 = h1
  h2 = h2
  c1 = c1
  c2 = c2
  Hosts <- MCHosts
  Calls <- MCCalls
  Setups <- MCSetups
  MaxItems = 2
INVARIANT RegistryIsHosts
INVARIANT AnswerMatchesCause
INVARIANT SpansTellTheOutcome
INVARIANT StatsAgree
PROPERTY CallSettles
CHECK_DEADLOCK FALSE
