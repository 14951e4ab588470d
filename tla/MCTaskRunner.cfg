SPECIFICATION Process
CONSTANTS
  NumTasks = 2
  Workers = {w1, w2}
  None = none
  MaxAttempts = 3
  Handled <- OnlyFirst
  MaxFaults = 2
  MaxStarts = 3
  MaxEdits = 2
CHECK_DEADLOCK FALSE
INVARIANTS TypeOK ExclusiveUnlessOverrun NoLostWakeup RetriesBounded 
PROPERTIES ImplementsQueue EveryTaskSettles
