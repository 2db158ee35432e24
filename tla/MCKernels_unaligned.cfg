CONSTANTS
  lo <- MCLo
  hi = 3
  Limit = 14
  At3 = 3
  Modules <- UnalignedModules
  Whos <- MCWhos
SPECIFICATION StackSpec
INVARIANT AcceptedMeets
CHECK_DEADLOCK FALSE
