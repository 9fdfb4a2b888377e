SPECIFICATION Spec
CONSTANTS
  Shells = {a, b}
  Nobody = Nobody
  MaxCodeAttempts = 2
  MaxPairingCodes = 2
  MaxJoinRequests = 1
  MaxKeys = 2
  MaxCodes = 3
  MaxStops = 2
INVARIANTS TypeOK KeyFits CodesOnce
PROPERTIES AdminStays WaitEnds
CHECK_DEADLOCK FALSE
