SPECIFICATION FairSpec
CONSTANTS
  Reqs = {r1, r2}
  Folders = {f1}
  NoFolder = NoFolder
  MaxSteps = 3
  StepLimit = 1
  ResolveLimit = 1
  AddLimit = 1
  GiveUp = 2
  CheckInterval = 1
  RescanInterval = 2
  LateDelay = 2
  UnpackTime = 1
  MaxOps = 1
INVARIANTS FinishedIsFollowedUp
PROPERTIES ListKeepsItsWord FilesGetScanned
