--------------------------- MODULE MCCollectives ---------------------------
(***************************************************************************)
(* A block of three or four threads in groups that do and do not divide    *)
(* it; ints of 3 bits beside long longs of 4.                              *)
(***************************************************************************)
EXTENDS Collectives

MCTypes == {IntType(TRUE, Bits), IntType(FALSE, Bits), IntType(TRUE, LongBits), IntType(FALSE, LongBits), Float}
MCOperandTypes == {IntType(TRUE, Bits), IntType(FALSE, Bits), IntType(TRUE, LongBits), IntType(FALSE, LongBits)}
MCGroupSizes == 1 .. BlockSize
=============================================================================
