SPECIFICATION Spec
CONSTANTS
  None = None
  Absent = Absent
  Broken = Broken
  Missing = Missing
  Corrupt = Corrupt
  Platform <- MCPlatform
  Registered <- MCRegistered
  Provision = "auto"
  Files <- MCFiles
  DevDisks <- MCDevDisks
  ScriptDisks <- MCScriptDisks
  Contents <- MCContents
  Environments = {"dev", "Dev", "production"}
  MaxSaves = 2
  MaxInterrupts = 1
INVARIANT EveryServiceIsDeployed
INVARIANT CallsAreGranted
INVARIANT FloorsHold
PROPERTY SnapshotSurvives
PROPERTY FilesFollowed
CHECK_DEADLOCK FALSE
