------------------------------ MODULE MCDriver ------------------------------
(* VMDriver for TLC: two threads, two or three operations.                 *)
EXTENDS VMDriver, TLC

Symmetry == Permutations(Threads)
=============================================================================
