SPECIFICATION Spec
CONSTANTS
  None = None
  push = push
  Plans <- MCPlans
  MaxGap = 2
  ProbePackets = 3
  MaxSessions = 1

PROPERTY FailedPersists
CHECK_DEADLOCK FALSE
