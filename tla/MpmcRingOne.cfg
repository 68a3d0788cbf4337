SPECIFICATION Spec
CONSTANTS
  Producers = {p1, p2}
  Consumers = {c1, c2}
  Drainer = c1
  Cap = 1
  MaxPushes = 1
  Nothing = Nothing
INVARIANT CapacityHolds
