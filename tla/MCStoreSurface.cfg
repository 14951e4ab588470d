SPECIFICATION Spec
CONSTANTS
  Users = {u1}
  Guest = guest
  GuestUploads = FALSE
  Hashes = {h1}
  Images = {i1}
  Paths = {p1, p2}
  Workers = {w1, w2}
  None = none
  Quota = 0
  Routes = {"owner"}
  Switching = TRUE
  Expiries = {"never"}
  Thumbnails = FALSE
  ForeignKeys = FALSE
  MaxFaults = 0
SYMMETRY Symmetry
CHECK_DEADLOCK FALSE
INVARIANT SurfaceAgrees
