CONSTANTS
  Threads = {t1, t2, t3}
  MaxThreads = 2
  WeakAt = {"try"}
SPECIFICATION Spec
SYMMETRY Symmetry
INVARIANTS TypeOK NodesAccounted ChainMatchesQueue
PROPERTY ImplementsFifo
