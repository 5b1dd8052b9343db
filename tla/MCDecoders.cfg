CONSTANTS
  K = 2
  Gens <- K2Gens
  Depth = 3
  ExpectedLock = 5
  ExpectedUnlock = 9
  Kinds = {"maxir", "hybrid", "vindel"}
  MaxDrift = 1
  CostMatch = 1
  CostMiss = 12
  CostErase = 15
  CostBit <- Bits
  CostKeep = 1
  CostIns <- InsertCosts
  CostInsert = 9
  CostDel = 9
  FirstCapacity = 4
  Streams <- MCStreams
  Length = 5
  Pieces = {1, 5}
  Rooms = {1, 2}
SPECIFICATION Spec
INVARIANTS WindowKept
PROPERTIES DecidesBest Reacquires Cadence
CHECK_DEADLOCK FALSE
