CONSTANTS
  Run = 2
  Others = {erasure}
  MaxRoom = 1
  MaxQueue = 0
  Backlog = 0
  MaxIn = 1
SPECIFICATION LinkSpec
PROPERTIES UnmatchedRefused
