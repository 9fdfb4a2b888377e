SPECIFICATION Spec
CONSTANTS
  Platform = "linux"
  MaxApps = 3
  MaxCores = 2
  MaxPulls = 2
  MaxCrashes = 2
CHECK_DEADLOCK FALSE
INVARIANT OneStartAtAll
