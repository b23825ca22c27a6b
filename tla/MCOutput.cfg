SPECIFICATION MCSpec
CONSTANTS
  Plans <- MCPlans
  Delta = 6
  Unit = 2
  Outputs = {push, mp4}
  Files = {mp4}
  MaxFaults = 1
  push = push
  mp4 = mp4
  None = None
  FrameCapacity = 1
  Delay = 1
  MaxFrames = 3
  MaxSessions = 2
  MaxEncoderFaults = 2
INVARIANTS Interleaved DrainsComplete Served FailsForCause
PROPERTIES CallsReturn
CHECK_DEADLOCK FALSE
