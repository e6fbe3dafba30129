SPECIFICATION RetentionSpec
CONSTANTS
  Recordings = {v1}
  Creators = {u1}
  Spaces = {}
  NoSpace = NoSpace
  Never = Never
  CreatorOf <- MCCreatorOf
  Choices = {0, 1}
  Grace = 1
  Batch = 1
  MailWorks = TRUE
  LastDay = 4
PROPERTY DeletesOnlyWhereEnabled
CHECK_DEADLOCK FALSE
