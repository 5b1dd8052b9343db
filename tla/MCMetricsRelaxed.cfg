CONSTANTS
  N = 3
  MaxInfo = 4
  TailBits = 2
  SpareRoom = 0
  EncEdgeRoom = 1
  EncSlack = 1
  Depth = 2
  DecRoom = 1
  DecEdgeRoom = 2
  DecSlack = 1
  LateFailure = FALSE
  Parts = {"sweep"}
  Run = 1
  Others = {}
  MaxRoom = 2
  MaxQueue = 3
  Reserve = 1
  EdgeRoom = 4
  Slack = 1
  MaxBacklog = 1
  MaxReceived = 4
  MaxCopied = 0
  Threads = {t1, t2, t3}
  Axes <- MCAxes
  Rates = 1
  Trials = 2
  Relaxed = TRUE
  Objects = {1, 2, 3}
  FirstCap = 1
SPECIFICATION MCSpec
INVARIANTS RowsMatchSerial
CHECK_DEADLOCK FALSE
