CONSTANTS
  Val = {a, b}
  Junk = junk
  FirstCap = 1
  IntMax = 2
  MaxCap = 4
  MaxChunk = 3
  Run = 2
  Others = {"erasure"}
  MaxRoom = 2
  MaxQueue = 0
  Backlog = 0
  MaxIn = 1
  Prime = 5
  Base = 6
  Codes <- MCCodes
  Blocks <- MCBlocks
  Trusts <- MCTrusts
  Width = 2
  Strides = {2, 3}
  Margin = 0
  Span = 6
  MinSpan = 4
  Step = 2
  Floor <- MCFloor
  Streams <- MCStreams
  FirstHold = 4
  Chunk = 2
  MaxFeed = 5
  MaxAsk = 3
  MaxFails = 2
  Families <- MCFamilies
  Samples <- MCSamples
  Parts = {"fifo", "naive", "rs", "detector", "life", "search", "link", "soft", "edit"}
  FrameLen = 2
  LoopSymbol = {a, b}
  MaxOffer = 3
  SoftRoom = 1
  SoftQueue = 0
  Records <- MCRecords
  Texts <- MCTexts
  FirstBand = 1
  Infinite = 99
SPECIFICATION MCSpec
INVARIANTS LiveIsWritten FramesTile SettledIsStarved RsExact DetSettled AllOrNothing NothingStray ScoreIsFreeDistance PresetsDistinct HeldBack EditExact
PROPERTIES GrowthNeeded ImplementsQueue DetComplete ImplementsFrameLink SoftFollowsHard
CHECK_DEADLOCK FALSE
