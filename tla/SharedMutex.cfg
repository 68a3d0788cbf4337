SPECIFICATION FairSpec
CONSTANTS
  Readers = {r1, r2}
  Writers = {w1, w2}
  Wr = 4
  MaxStrays = 0
INVARIANTS TypeOK WordTruthful SleepersJustified
PROPERTIES ImplementsRWLock WritersNotStarved
