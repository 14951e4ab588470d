SPECIFICATION Moderating
CONSTANTS
  Owners = {o1}
  Guest = guest
  Hashes = {h1}
  Nsfw = {h1}
  Worded = {h1}
  Images = {i1, i2}
  Sampled = {}
  Uploads = {u1}
  Admins = {a1}
  None = none
  Configs <- MCConfigs
  Runners = 1
  MaxTries = 1
  MaxEdits = 1
  MaxFaults = 1
SYMMETRY Symmetry
CHECK_DEADLOCK FALSE
INVARIANTS TypeOK NormalIsAccountedFor
PROPERTY DecisionsStand
