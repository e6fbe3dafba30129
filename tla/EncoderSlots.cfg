SPECIFICATION PagesSpec
CONSTANTS
  Encodes = {e1, e2, e3}
  Limits <- MCLimits
  MaxSwaps = 2

  Viewers = {a1}
  Mails = {m1, m2}
  VideoLinks = {s1}
  PlaylistLinks = {s2}
  NoMail = NoMail
  MaxSharePasswords = 2

  Events = {i1}
  NoEvent = NoEvent
INVARIANTS TypesOK TokensAreEncodes EncodesBounded  GateIsRecorded ToldOnce
PROPERTY WaitsEnd
