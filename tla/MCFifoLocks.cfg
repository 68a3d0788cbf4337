SPECIFICATION FairSpec
CONSTANTS
  t1 = t1
  t2 = t2
  t3 = t3
  Null = Null
INVARIANTS
  TypeOK QueueIntact NodesSafe
PROPERTIES
  ImplementsFifo EveryoneServed
