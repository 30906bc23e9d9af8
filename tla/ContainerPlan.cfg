SPECIFICATION PlanSpec
CONSTANTS
  Names = {a, b, c}
  MaxGiven = 4
  MaxDeferred = 2
SYMMETRY SameNames
INVARIANT ExpandsWhatIsNeeded
INVARIANT OrderIsTopological
INVARIANT LevelsAreTight
INVARIANT ManifestIsThePlan
