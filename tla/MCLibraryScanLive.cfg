SPECIFICATION FairSpec
CONSTANTS
  Dirs = {d1}
  NoDir = NoDir
  Scan = Scan
  MaxRows = 3
  MaxQueue = 4
  Budget = 4
  Overlap = {}
PROPERTIES
  VideosGetRows
CHECK_DEADLOCK FALSE
