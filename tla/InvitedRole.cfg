SPECIFICATION Spec
CONSTANTS
  Users = {u1, u2}
  Orgs = {o1}
  Emails = {e1, e2}
  Invites = {i1}
  Goroutines = {g1}
  NoUser = NoUser
  Paid = {}
  MaxOrgsOwned = 1
  GivenRoles = {"admin"}
PROPERTY InviteGivesRole
CHECK_DEADLOCK FALSE
