SPECIFICATION Spec
CONSTANTS
  t1 = t1  t2 = t2  signin = signin  reset = reset  other = other
  Threads = {t1, t2}
  Keys = {signin, reset, other}
  Limit <- Limits
  Window <- Windows
  MaxTracked = 1
  PurgeInterval = 2
  MaxClock = 3
  MaxServed = 5
  Nothing = Nothing
INVARIANTS Bounded BlockedJustly BurstBounded
SYMMETRY Symmetry
CHECK_DEADLOCK FALSE
