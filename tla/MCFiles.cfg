SPECIFICATION MCSpec
CONSTANTS
  Tracks = {video, audio}
  Adts = {audio}
  Tick <- MCTick
  Size <- MCSize
  MaxBytes = 3
  MaxPackets = 2
  MaxSessions = 2
  MaxFaults = 1
  Capacity = 1
  MaxCancels = 1
  MaxSkipped = 1
  video = video
  audio = audio
INVARIANTS NothingLost RelativeTimingKept
PROPERTIES CancelSilences CallsReturn
CHECK_DEADLOCK FALSE
