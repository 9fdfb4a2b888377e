SPECIFICATION Spec
CONSTANTS
  Dirs = {d1, d2}
  NoDir = NoDir
  Scan = Scan
  MaxRows = 3
  MaxQueue = 3
  Budget = 2
  Overlap = {}
SYMMETRY Symmetry
INVARIANTS
  TypeOK
  InSyncWhenQuiet
  
  PendingIsScheduled
CHECK_DEADLOCK FALSE
