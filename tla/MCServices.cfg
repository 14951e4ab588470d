SPECIFICATION Services
CONSTANTS
  Writers = {p1, p2}
  Readers = {r1}
  Servers = {s1, s2}
  Patches <- MCPatches
  MaxEvents = 2
  MaxFaults = 1
  Backends = {"local", "ftp", "webdav", "s3"}
  Clients = {p1, p2}
  Sizes <- MCSizes
  MaxPool = 1
  MaxCalls = 3
  Mishaps = 1
  Absent = absent
  NumImages = 2
  NumAlbums = 1
  Requests = {p1, p2}
  MaxRequests = 3
  MaxErrors = 1
  NumRows = 3
  MaxSecond = 1
  MaxValue = 1
  Lists = {"date", "position", "hot", "profile", "trash", "albums", "shelf", "table"}
  MaxChanges = 2
  Releases = {2, 3}
  MaxUpgrades = 3
  MaxBreaks = 2
  Policies = {1, 2}
  Endpoints = {e1, e2}
  MaxEdits = 1
SYMMETRY Symmetry
CHECK_DEADLOCK FALSE
INVARIANTS
  ServicesTypeOK
   ViewsConserved
  DriversHold AlbumsHold  BinaryIsKept
