SPECIFICATION Spec
CONSTANTS
  Users = {u1}
  Guest = guest
  GuestUploads = TRUE
  Hashes = {h1}
  Images = {i1, i2}
  Paths = {p1, p2}
  Workers = {w1, w2}
  None = none
  Quota = 1
  Routes = {"owner", "empty", "admin", "force", "sweepExpired", "sweepTrash", "account"}
  Switching = FALSE
  Expiries = {"later"}
  Thumbnails = FALSE
  ForeignKeys = FALSE
  MaxFaults = 1
SYMMETRY Symmetry
CHECK_DEADLOCK FALSE
INVARIANTS TypeOK QuotaRespected
PROPERTY LiveImagePurgedOnlyWhenDue
