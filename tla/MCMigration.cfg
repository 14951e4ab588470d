SPECIFICATION Moving
CONSTANTS
  p1 = p1
  p2 = p2
  Policies = {p1, p2}
  MaxFile = 2
  Seeded = 1
  Jobs = {j1, j2}
  Options <- MCOptions
  Batch = 1
  None = none
  MaxEvents = 1
SYMMETRY Symmetry
CHECK_DEADLOCK FALSE
INVARIANTS TypeOK ObjectAtPolicyUnlessCrossed DoneMeansVisited
PROPERTY EndedStays
