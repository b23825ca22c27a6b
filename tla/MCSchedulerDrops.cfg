CONSTANTS
  Plans <- DropPlans
  Eofs <- FinalEof
  MaxInput = 2
  ConvCapacity = 1
  MaxCopies = 1
  OutCapacity = 1
  MaxFills = 0
  MaxDefers = 0
  DiscardBatch = 1
  MaxFaults = 0
  MaxStarts = 1
  MaxStops = 0
SPECIFICATION FairSpec
CHECK_DEADLOCK FALSE
INVARIANTS
  ConversionDrained
