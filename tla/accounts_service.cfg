CONSTANTS
  alice = alice
  bob = bob
  Openids = {alice, bob}
  Scannable = {}
  MaxId = 2
  MaxGen = 1
  Workers = {w1, w2}
  Requests = {q1}
  Startup = {s1}
  MaxFaults = 0
  MaxRestarts = 1
  NoRow = NoRow
  NoCred = NoCred
  Nobody = Nobody
  InitialRows <- OneAccount
SPECIFICATION Spec
INVARIANTS BackoffRespected
PROPERTIES StartupDeletesOnlyExpired
