------------------------------ MODULE MCStorage ------------------------------
(* Storage for TLC: values of zero, one and two bytes; a plain key, here    *)
(* the empty one, a key that the node protects and the locks of both.       *)
EXTENDS Storage, TLC

MCBaseKeys == {<<>>, <<"NUMBAT">>}
MCLength == 0 :> 0 @@ 1 :> 1 @@ 2 :> 2
MCTimestamps == {-1, 0}
=============================================================================
