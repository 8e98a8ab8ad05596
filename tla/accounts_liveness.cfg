CONSTANTS
  alice = alice
  bob = bob
  Openids = {alice}
  Scannable = {alice}
  MaxId = 1
  MaxGen = 1
  Workers = {w1}
  Requests = {q1}
  Startup = {}
  MaxFaults = 1
  MaxRestarts = 0
  NoRow = NoRow
  NoCred = NoCred
  Nobody = Nobody
  InitialRows <- Alice
SPECIFICATION FairSpec
PROPERTIES RefreshReturns DueIsAttempted
