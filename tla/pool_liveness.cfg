CONSTANTS
  Ids = {1}
  Openids = {alice}
  Calls = {c1, c2}
  Proxied = TRUE
  MaxLogin = 1
  MaxSessions = 0
  NoSession = NoSession
  Nobody = Nobody
SPECIFICATION FairSpec
PROPERTIES CallEnds
