SPECIFICATION StraySpec
CONSTANTS
  Readers = {r1, r2}
  Writers = {w1}
  Wr = 4
  MaxStrays = 1
INVARIANT StrayLeavesUsable
