SPECIFICATION Spec
CONSTANTS
  Tracks <- BothTracks
  Capacity = 1
  Plans <- SourcePlans
INVARIANTS EpochsSeparated EndTruthful
PROPERTIES Settles
CHECK_DEADLOCK FALSE
