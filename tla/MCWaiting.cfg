SPECIFICATION FairSpec
CONSTANTS
  t1 = t1
  t2 = t2
  t3 = t3
  Nobody = Nobody
INVARIANTS
  TypeOK BooksBalance NobodyOversleeps PassesJustified
PROPERTY
  EveryoneReturns
CHECK_DEADLOCK FALSE
