CONSTANTS
  lo <- MCLo
  hi = 3
  Limit = 14
  At3 = 3
  Modules <- MCModules
  Whos <- MCWhos
SPECIFICATION StackSpec
INVARIANTS LocalsAreSet StackAgrees AcceptedMeetsOtherwise
PROPERTIES CallersKept ThreadEnds
CHECK_DEADLOCK FALSE
