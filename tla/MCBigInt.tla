------------------------------ MODULE MCBigInt ------------------------------
(* BigIntHooks for TLC: bytes of four values and an int64 of two bytes, so *)
(* that every number reached is at a boundary of some encoding.            *)
EXTENDS BigIntHooks

MCSmalls == {-1, 2}
MCStrings == {<<>>, <<2>>, <<1, 0, 0>>}
MCShifts == {-1, 1}
=============================================================================
