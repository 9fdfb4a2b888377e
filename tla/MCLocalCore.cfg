SPECIFICATION Spec
CONSTANTS
  Platform = "linux"
  MaxApps = 3
  MaxCores = 2
  MaxPulls = 2
  MaxCrashes = 2
INVARIANTS TypeOK OneStartPerPull
PROPERTIES OldLibraryKept MappingsFit OrphansEnd
CHECK_DEADLOCK FALSE
