CONSTANTS
  FrameLen = 2
  Symbol = {a, b}
  Reserve = 4
  EdgeRoom = 4
  Slack = 0
  MaxBacklog = 0
  MaxIn = 3
  MaxOut = 1
SPECIFICATION Spec
PROPERTIES HandlersKeepBits
