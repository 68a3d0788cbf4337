SPECIFICATION FairSpec
CONSTANTS
  t1 = t1
  t2 = t2
  t3 = t3
  t4 = t4
  Null = Null
  Free = Free
  IsSet = IsSet
INVARIANTS
  TypeOK NobodyStranded Accounted AwaitsKept
PROPERTIES
  ImplementsRWLock EveryoneResumed
CHECK_DEADLOCK FALSE
