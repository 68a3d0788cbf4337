SPECIFICATION Spec
CONSTANTS
  Tasks = {p, c, z}
  Sems = {"space", "items"}
  Producers = {p}
  Consumers = {c}
  Closer = z
  Cap = 1
  Flood = 2
  MaxCalls = 1
  MaxBulk = 1
  CloseRaces = TRUE
INVARIANT PermitHasItem
CHECK_DEADLOCK FALSE
