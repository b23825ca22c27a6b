SPECIFICATION MCSpec
CONSTANTS
  None = None
  push = push
  Tracks = {"video", "audio"}
  Frames = 1
  MaxGap = 2
  ProbePackets = 3
  MaxSessions = 2
  MaxRequests = 1
  MaxFaults = 2
  Plans <- MCPlans
  OfflineFaults = 1
  RemuxSessions = 1
INVARIANTS RootCause StopReaches EndedComplete SessionsServed
PROPERTIES Implements OfflineImplements CallsReturn
CHECK_DEADLOCK FALSE
