SPECIFICATION SafetySpec
CONSTANTS
  v1 = v1
  t1 = t1
  t2 = t2
  Videos = {v1}
  NoVideo = NoVideo
  Tasks = {t1, t2}
  JobTimeout = 1
  StuckAfter = 2
  MaxTranscodeAttempts = 2
  MaxEdits = 2

  People = {a, b}
  Addresses = {a1, a2}
  Providers = {google, acme}
  Subjects = {s1}
  Workspace = acme
  Calls = {t1, t2}
  Absent = Absent

  Owners = {a, b}
  Teams = {o1}
  Clips = {v1}
  Folders = {f1}
  Tags = {1, 2}
  Edits = {t1, t2}
  Nowhere = Nowhere
  MaxFolders = 1
  MaxTagsPerClip = 1

  Lists = {p1}
  Films = {a, b}
  Changes = {t1, t2}
  Unlisted = Unlisted
  MaxLists = 1
  MaxPosition = 3

  Audience = {t1, t2}
  Watched = {a, b}
  NoReport = NoReport
  Ranges = {2}
  LastDay = 2
  MaxRows = 2
SYMMETRY Interchangeable
VIEW AllObserved
INVARIANTS TypeOK OneEditor ReadyHasNoWebcam PlayableUntilDeleted AttemptsBounded
           TypesOK PasswordlessAreVerified FolderInReach LabelsBounded  ReportsAddUp
PROPERTIES ImplementsLease IdentityStays
CHECK_DEADLOCK FALSE
