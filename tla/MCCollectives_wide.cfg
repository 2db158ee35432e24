CONSTANTS
  Bits = 3
  LongBits = 4
  MaskBits = 3
  BlockSize = 4
  Types <- MCTypes
  OperandTypes <- MCOperandTypes
  GroupSizes <- MCGroupSizes
SPECIFICATION CollectiveSpec
INVARIANTS RulesAreTheOracles
CHECK_DEADLOCK FALSE
