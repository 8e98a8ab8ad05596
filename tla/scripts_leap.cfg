CONSTANTS
  Scripts = {s1}
  Crons <- Leap
  Clients = {c1}
  Loop = Loop
  Faults = FALSE
  MaxDelay = 2
  MaxTime = 2
  MaxRequests = 1
  MaxCrashes = 0
SPECIFICATION Spec
INVARIANTS OncePerInstant
