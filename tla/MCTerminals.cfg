SPECIFICATION Spec
CHECK_DEADLOCK FALSE
CONSTANTS
  MaxTerminals = 2
  MaxGen = 2
  MaxRequests = 1
  MaxMoves = 3
  MaxSpawns = 2
  MaxRuns = 1
  Capacity = 1
INVARIANTS
  TabTellsTheTruth
  WorkerFollowsTheModel
  CancelIsUnderWay
