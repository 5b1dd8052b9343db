CONSTANTS
  K = 3
  Gens <- K3Rate12
  Depth = 3
  MaxInfo = 3
  MaxFaults = 2
  MaxPiece = 2
  MaxRoom = 2
SPECIFICATION Spec
INVARIANTS RingHolds CostsBounded FaultsCorrected
PROPERTIES DecidesNearest
CHECK_DEADLOCK FALSE
