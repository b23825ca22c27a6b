CONSTANTS
  Plans <- StopPlans
  Eofs <- FinalEof
  MaxInput = 1
  ConvCapacity = 1
  MaxCopies = 0
  OutCapacity = 1
  MaxFills = 0
  MaxDefers = 0
  DiscardBatch = 1
  MaxFaults = 2
  MaxStarts = 2
  MaxStops = 1
SPECIFICATION FairSpec
CHECK_DEADLOCK FALSE
INVARIANTS
  ErrorReportedOnce
PROPERTIES
  StopReturns
