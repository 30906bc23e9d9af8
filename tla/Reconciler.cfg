SPECIFICATION Spec
CONSTANTS
  p = p
  q = q
  o1 = o1
  o2 = o2
  Paths <- MCPaths
  Configs <- Two
  Replicas <- Two
  Operators <- TwoOperators
  Declarations <- MCDeclarations
  MaxDrifts = 1
  Interleavings = {"none", "pass", "apply"}
  AuditMayFail = TRUE
INVARIANT OutcomeIsAudited
PROPERTY NothingClobbered
PROPERTY LoopKeepsToItsPaths
PROPERTY DriftHeals
PROPERTY IntentIsReviewed
CHECK_DEADLOCK FALSE
