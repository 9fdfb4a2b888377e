SPECIFICATION FairSpec
CONSTANTS
  Work = {a1}
  Wishes = {}
  NoAid = NoAid
  Worker = worker
  Handlers = {h1}
  MinInterval = 1
  DailyCap = 1
  DayLength = 3
  Threshold = 2
  Cooldown = 2
  BanCooldown = 3
  CheckInterval = 2
  MaxTries = 2
INVARIANTS
  TypeOK
  DailyCapHeld
  BanRefusalsNoticed
PROPERTIES
  NoNewFetchInBan
  FetchesEnd
