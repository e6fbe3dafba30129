SPECIFICATION Spec
CONSTANTS
  Videos = {v1}
  NoVideo = NoVideo
  Replicas = {r1, r2}
  Derived <- MCDerived
  StuckAfter = 1
  MaxRequests = 2
INVARIANT NewTranscriptionMade
CHECK_DEADLOCK FALSE
