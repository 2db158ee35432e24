CONSTANTS
  lo <- MCLo
  hi = 3
  Limit = 14
  At3 = 3
  Modules <- RecursiveModules
  Whos <- MCWhos
SPECIFICATION StackSpec
INVARIANT NoRecursion
CHECK_DEADLOCK FALSE
