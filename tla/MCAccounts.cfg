SPECIFICATION Access
CONSTANTS
  Users = {u1, u2}
  Emails = {e1, e2}
  Invites = {i1}
  Links = {l1, l2}
  Requests = {r1, r2}
  None = none
  Purposes = {"verify", "reset", "change"}
  MaxPw = 1
  MaxEvents = 5
  NumGroups = 2
  NumPolicies = 2
  NumImages = 1
  Admins = {r1, r2}
  Endpoints = {"end", "other"}
  Edits <- MCEdits
  Limit = 1
  MaxEdits = 4
SYMMETRY Symmetry
CHECK_DEADLOCK FALSE
INVARIANTS AccessTypeOK  OneAdministrator  RulesHold
