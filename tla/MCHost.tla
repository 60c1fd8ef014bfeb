------------------------------- MODULE MCHost -------------------------------
(* HostExecution for TLC: a user, two contracts and the addresses of the     *)
(* contracts that "a" and the user may create.  "b" owns "a" and "a" owns    *)
(* "b".                                                                      *)
EXTENDS HostExecution

MCAddresses == {"u", "a", "b", "n0", "n1", "m"}
MCBalance == [u |-> 1, a |-> 1, b |-> 0]
MCChainCode == [a |-> "codeA", b |-> "codeB"]
MCChainNonce == [u |-> 1, a |-> 0, b |-> 0]
MCOwner == [a |-> "b", b |-> "a"]
MCNewAddr == <<"a", 0>> :> "n0" @@ <<"a", 1>> :> "n1" @@ <<"u", 0>> :> "m"
=============================================================================
