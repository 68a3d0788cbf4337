SPECIFICATION Spec
CONSTANTS
  Producers = {t1, t2}
  Consumers = {t3, t4}
  Producer = t1
  Consumer = t3
  Nothing = Nothing
  RingCap = 2
  PairCap = 4
  DequeCap = 2
  MaxPushes = 3
  MaxBatch = 3
  MaxPairItems = 9
  MaxDequeItems = 5
INVARIANTS
  TypeOK MemoryUsable NeverOverfull EmptyAgreed
PROPERTIES
  ImplementsQueue RefusalsJustified BatchesInOrder ImplementsDeque
