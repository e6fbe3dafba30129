SPECIFICATION Spec
CONSTANTS
  v1 = v1
  t1 = t1
  t2 = t2
  Videos = {v1}
  NoVideo = NoVideo
  Tasks = {t1, t2}
  JobTimeout = 1
  StuckAfter = 2
  MaxTranscodeAttempts = 1
  MaxEdits = 1
SYMMETRY Symmetry
INVARIANT AbandonedRowIsIntact
CHECK_DEADLOCK FALSE
