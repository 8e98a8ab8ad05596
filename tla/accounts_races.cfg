CONSTANTS
  alice = alice
  bob = bob
  Openids = {alice, bob, carol}
  Scannable = {alice, carol}
  MaxId = 3
  MaxGen = 1
  Workers = {}
  Requests = {q1, q2}
  Startup = {}
  MaxFaults = 0
  MaxRestarts = 0
  NoRow = NoRow
  NoCred = NoCred
  Nobody = Nobody
  InitialRows <- Pair
SPECIFICATION Spec
CHECK_DEADLOCK FALSE
INVARIANTS TypeOK  
PROPERTIES ExpiredLeftOnlyByScan
SYMMETRY Interchangeable
