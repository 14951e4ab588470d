SPECIFICATION Spec
CONSTANTS
  Users = {u1}
  Guest = guest
  GuestUploads = FALSE
  Hashes = {h1, h2}
  Images = {i1, i2}
  Paths = {p1, p2, p3}
  Workers = {w1, w2}
  None = none
  Quota = 0
  Routes = {"owner", "account"}
  Switching = TRUE
  Expiries = {"never"}
  Thumbnails = FALSE
  ForeignKeys = FALSE
  MaxFaults = 0
SYMMETRY Symmetry
CHECK_DEADLOCK FALSE
INVARIANTS RefCountExact UsedExact DeletionsAreDead
PROPERTY ImplementsLibrary
