SPECIFICATION WorkersSpec
CONSTANTS
  Videos = {v1}
  NoVideo = NoVideo
  Replicas = {r1, r2}
  Derived <- MCDerived
  StuckAfter = 1
  MaxRequests = 2

  Recordings = {v1, v2}
  Creators = {u1}
  Spaces = {s1}
  NoSpace = NoSpace
  Never = Never
  CreatorOf <- MCCreatorOf
  Choices = {0, 1}
  Grace = 1
  Batch = 1
  MailWorks = TRUE
  LastDay = 3
INVARIANTS TypesOK ClaimsDistinct DerivedHaveTranscript WarnedBeforeDeleted
PROPERTIES ExpiredIsDeleted RequestsSettle
CHECK_DEADLOCK FALSE
