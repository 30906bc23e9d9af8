SPECIFICATION Spec
CONSTANTS
  None = None
  h1 = h1
  h2 = h2
  c1 = c1
  c2 = c2
  Hosts <- MCHosts
  Calls <- MCCalls
  Setups <- Logged
  MaxItems = 2
INVARIANT OrdinaryMiddlewareKeepsStreams
CHECK_DEADLOCK FALSE
