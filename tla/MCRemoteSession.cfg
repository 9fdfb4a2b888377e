SPECIFICATION Spec
CONSTANTS
  r1 = r1
  r2 = r2
  Requests <- MCRequests
  Kinds <- MCKinds
  HasInternet = FALSE
  MaxTokens = 2
  MaxEvents = 1
INVARIANTS TypeOK AtMostOnce
PROPERTIES RefusedForCause RevokedStaysOut RequestsEnd
CHECK_DEADLOCK TRUE
