CONSTANTS
  alice = alice
  bob = bob
  Openids = {alice}
  Scannable = {}
  MaxId = 2
  MaxGen = 1
  Workers = {}
  Requests = {q1}
  Startup = {s1}
  MaxFaults = 1
  MaxRestarts = 0
  NoRow = NoRow
  NoCred = NoCred
  Nobody = Nobody
  InitialRows <- Alice
SPECIFICATION Spec
PROPERTIES StartupKeepsUsable
CHECK_DEADLOCK FALSE
