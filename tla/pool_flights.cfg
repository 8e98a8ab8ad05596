CONSTANTS
  Ids = {1}
  Openids = {alice}
  Calls = {c1, c2}
  Proxied = TRUE
  MaxLogin = 1
  MaxSessions = 2
  NoSession = NoSession
  Nobody = Nobody
SPECIFICATION Spec
INVARIANTS TypeOK NoWastedLogin NothingKept  
PROPERTIES PromiseKept
SYMMETRY CallsAlike
