\* Every expression of the set, optimized once.
CONSTANTS
  MaxFinite = 8
  Expressions <- Every
  Times = 1
  MaxPasses = 32
SPECIFICATION OptSpec
INVARIANT BitsPreserved
CHECK_DEADLOCK FALSE
