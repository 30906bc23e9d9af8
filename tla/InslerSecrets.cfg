SPECIFICATION Spec
CONSTANTS
  None = None
  Absent = Absent
  Broken = Broken
  Missing = Missing
  Corrupt = Corrupt
  Platform <- MCPlatform
  Registered <- MCRegistered
  Provision = "bind"
  Files <- MCFiles
  DevDisks = {}
  ScriptDisks <- MCScriptDisks
  Contents <- MCContents
  Environments = {"dev", "production"}
  MaxSaves = 0
  MaxInterrupts = 0
INVARIANT SecretsAreBound
CHECK_DEADLOCK FALSE
