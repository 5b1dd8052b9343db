CONSTANTS
  Run = 1
  Others = {}
  Reserve = 1
  Slack = 0
  EdgeRoom = 4
  MaxReceived = 4
  MaxBacklog = 0
  MaxCopied = 0
SPECIFICATION PipeSpec
PROPERTIES StopsAtEveryChange
