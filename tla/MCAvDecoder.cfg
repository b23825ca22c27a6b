SPECIFICATION Spec
CONSTANTS
  PacketCapacity = 1
  FrameCapacity = 1
  Delay = 1
  MaxItems = 3
INVARIANTS EofAfterFrames
PROPERTIES StopSilences CallsServed
CHECK_DEADLOCK FALSE
