SPECIFICATION Spec
CONSTANTS
  Goroutines = {g1, g2}
  MaxSubs = 2
  MaxEvents = 4
INVARIANT PaidUntilPeriodEnds
CHECK_DEADLOCK FALSE
