------------------------------ MODULE MCHooks ------------------------------
(* VMHooks for TLC: a byte has four values and an int32 two bytes, so that  *)
(* offsets, lengths and counts wrap.                                       *)
EXTENDS VMHooks

MCOffsets == {-1, 0, 2, 7}
MCPlaces == {-1, 1}
MCAddresses == {<<1>>}
MCStrings == {<<1, 1>>}
=============================================================================
