CONSTANTS
  l1 = l1
  l2 = l2
  l3 = l3
  Logins = {l1, l2, l3}
  Servers = 2
  TTL = 1
  FallbackDirect = TRUE
  Slots = 1
  MaxTime = 2
  Width = 29
  Minutes = 2
  Hours = 2
  MonthDays <- TwoYears
  MaxDay = 3
  Weekdays = 3
  Limit = 24
SPECIFICATION ProtocolSpec
CHECK_DEADLOCK FALSE
INVARIANTS TypeOK InStep ConnsClosed FreshAnswers  TargetsOrdered NextIsFirst
SYMMETRY Alike
