CONSTANTS
  Scripts = {s1, s2}
  Crons <- Hourly
  Clients = {c1}
  Loop = Loop
  Faults = TRUE
  MaxDelay = 2
  MaxTime = 1
  MaxRequests = 2
  MaxCrashes = 1
SPECIFICATION FairSpec
INVARIANTS TypeOK NoOversleep OncePerInstant StopReachesAll
PROPERTIES ClearedStaysCleared DueIsStarted
