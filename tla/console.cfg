CONSTANTS
  Requests = {r1, r2}
  Ips = {ip1}
  Tokens = {t1, t2}
  Limit = 2
  s2 = s2
  Sids = {s1, s2}
  Nobody = Nobody
SPECIFICATION ConsoleSpec
CHECK_DEADLOCK FALSE
INVARIANTS TypeOK BoundedGuesses RedeemedOnce AuthorizedKept ImageKept
 
SYMMETRY Alike
