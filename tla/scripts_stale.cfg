CONSTANTS
  Scripts = {s1}
  Crons <- Regular
  Clients = {c1, c2}
  Loop = Loop
  Faults = FALSE
  MaxDelay = 2
  MaxTime = 1
  MaxRequests = 2
  MaxCrashes = 0
SPECIFICATION Spec
INVARIANTS Persisted
SYMMETRY Alike
