\* Every lift, blocks of up to four threads, two rows.
CONSTANTS
  Jobs <- MCJobs
  Rows = 2
SPECIFICATION LiftSpec
INVARIANT NoRace
INVARIANT NeverUnset
INVARIANT OutputsRight
INVARIANT DocumentedOrder
PROPERTY RowsComplete
CHECK_DEADLOCK FALSE
