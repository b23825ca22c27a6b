SPECIFICATION MCSpec
CONSTANTS
  Tracks = {"video", "audio"}
  Tolerance = 1
  Discard <- DiscardAt
  Threshold = 3
  Jitter = 1
  MinInt <- Lowest
  MaxInt = 8
  PtsValues <- Pts
  MaxNow = 4
  None = None
  FrameTicks = 2
  SampleTicks = 1
  SilenceSamples = 3
  BatchLimit = 2
  Hold = 3
  Poll = 1
  Pause = 1
  InitialTimeout = 4
  Timeout = 2
  MaxDiff = 2
  MaxRefusals = 1
  Plans <- SyncerPlans
  Advances = {3}
  LastInstant = 12
  Capacity = 2
  Period = 2
  HalfSecond = 2
  MaxInputs = 4
  Times <- RateTimes
PROPERTIES
  OffsetRaisedOnlyByJump DeadlineKept Continuous  Grid
CHECK_DEADLOCK FALSE
