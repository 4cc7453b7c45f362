SPECIFICATION FairSpec
CONSTANTS
  e1 = e1
  e2 = e2
  k1 = k1
  x = x
  External = x
  Tokens = {t1}
  Engines <- TwoEngines
  Cleaners <- Timer
  Host <- TimerHost
  Stamp <- SameStamp
  TTL = 1
  MaxFiles = 1
  MaxTime = 3
  MaxBoot = 2
INVARIANTS TypeOK ClaimsTellTheTruth AudioHasAReason SettledFilesSurvive
PROPERTIES ResidueCollected ClaimsCollected
CHECK_DEADLOCK FALSE
