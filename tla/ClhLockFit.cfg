CONSTANTS
  Threads = {t1, t2, t3}
  MaxThreads = 3
  WeakAt = {}
SPECIFICATION LockersSpec
SYMMETRY Symmetry
INVARIANT ThreadsThatFitAreServed
