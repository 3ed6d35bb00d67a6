\* Nothing changes; the intervals in the order of the code's, 20 s < 25 s < 30 s.
CONSTANTS
  RelayAfter = 1
  KeepAlive = 3
  Fresh = 4
  PairChanges = 0
SPECIFICATION PairSpec
INVARIANTS
  HealthyStaysDirect
CHECK_DEADLOCK FALSE
