CONSTANTS
  Plans <- FlowPlans
  Eofs <- FinalEof
  MaxInput = 2
  ConvCapacity = 1
  MaxCopies = 1
  OutCapacity = 1
  MaxFills = 1
  MaxDefers = 1
  DiscardBatch = 1
  MaxFaults = 0
  MaxStarts = 1
  MaxStops = 0
SPECIFICATION FairSpec
CHECK_DEADLOCK FALSE
INVARIANTS
  InputsConserved ResultsConserved
PROPERTIES
  EverythingDelivered
