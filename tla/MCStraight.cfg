CONSTANTS
  K = 2
  Gens <- K2Gens
  Depth = 2
  ExpectedLock = 5
  ExpectedUnlock = 9
  Kinds = {"bcjr", "maxir", "hybrid", "vindel"}
  MaxDrift = 0
  CostMatch = 1
  CostMiss = 12
  CostErase = 15
  CostBit <- Bits
  CostKeep = 1
  CostIns <- Never
  CostInsert <- NeverInserted
  CostDel <- NeverDeleted
  FirstCapacity = 4
  Streams <- MCStreams
  Length = 3
  Pieces = {1, 5}
  Rooms = {1, 2}
SPECIFICATION FairSpec
INVARIANTS WindowKept
PROPERTIES DecidesBest CallsReturn
CHECK_DEADLOCK FALSE
