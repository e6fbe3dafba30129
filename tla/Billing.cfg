SPECIFICATION MCSpec
CONSTANTS
  Goroutines = {g1, g2}
  MaxSubs = 2
  MaxEvents = 3

  Second = 2
  MaxDuration = 2
  MaxSegments = 2
INVARIANTS TypesOK AppliedOnce PlanWasSold DetectedAreCuttable
PROPERTY EventsSettle
CHECK_DEADLOCK FALSE
