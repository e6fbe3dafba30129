SPECIFICATION PeopleSpec
CONSTANTS
  Users = {u1, u2}
  Orgs = {o1}
  Emails = {e1, e2, e3}
  Invites = {i1}
  Goroutines = {g1, g2}
  NoUser = NoUser
  Paid = {}
  MaxOrgsOwned = 1
  GivenRoles = {"admin"}

  Holders = {h1}
  Requests = {g1, g2}
  Links = {l1}
  Tokens = {1, 2, 3}
  Keys = {1, 2}
  None = None
  MaxAPIKeys = 1
  MaxPasswords = 2
SYMMETRY Interchangeable
VIEW AllObserved
INVARIANTS TypesOK RolesWereGiven OldPasswordsEnd RotationConserves KeysBounded
PROPERTY OwnerStays
CHECK_DEADLOCK FALSE
