CONSTANTS
  q1 = q1
  c1 = c1
  c2 = c2
  s1 = s1
  Owner = owner
  Producers <- MCPollers
  Timed <- MCPollers
  Pollers <- MCPollers
  Consumers <- MCConsumers
  Selectors <- MCSelectors
  Installed = {"read", "write"}
  Capacity = 1
  MaxItems = 2
  MaxFaults = 1
SPECIFICATION MCSpec
INVARIANTS
  FifoNoLoss NoLostWakeup NoLostSignal
PROPERTIES
  CallsServed
CHECK_DEADLOCK FALSE
