------------------------------ MODULE MCTokens ------------------------------
(* TokenTransfers for TLC: two contracts, a user, an account abroad.       *)
EXTENDS TokenTransfers

MCSupply == [k \in Kinds |-> 1]
=============================================================================
