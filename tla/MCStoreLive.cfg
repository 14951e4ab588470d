SPECIFICATION FairSpec
CONSTANTS
  Users = {u1}
  Guest = guest
  GuestUploads = FALSE
  Hashes = {h1}
  Images = {i1}
  Paths = {p1, p2}
  Workers = {w1, w2}
  None = none
  Quota = 0
  Routes = {"owner"}
  Switching = TRUE
  Expiries = {"never"}
  Thumbnails = TRUE
  ForeignKeys = TRUE
  MaxFaults = 0
CHECK_DEADLOCK FALSE
PROPERTY StrayObjectsDeleted
