\* A few expressions with shared subterms, and what they are optimized to optimized again.
\* With Expressions <- Sums, Times = 1, MaxPasses = 4 and the invariant Saturates: a sum of
\* constants that is extracted before all of it is folded.
CONSTANTS
  MaxFinite = 8
  Expressions <- Twice
  Times = 2
  MaxPasses = 32
SPECIFICATION OptSpec
INVARIANT Idempotent
CHECK_DEADLOCK FALSE
