CONSTANTS
  N = 3
  MaxInfo = 4
  TailBits = 2
  SpareRoom = 0
  EncEdgeRoom = 1
  EncSlack = 1
  Depth = 2
  DecRoom = 1
  DecEdgeRoom = 2
  DecSlack = 1
  LateFailure = TRUE
SPECIFICATION Spec
PROPERTIES ImplementsDelayLine
CHECK_DEADLOCK FALSE
