------------------------------- MODULE MCIPC -------------------------------
(* IPCHooks for TLC: two accounts, one of them with empty fields, two       *)
(* storage keys, and outputs with accounts, updates and transfers.          *)
EXTENDS IPCHooks

MCAccount(x) ==
  [Address |-> x, OutputTransfers |-> <<<<"first", x>>, <<"second", x>>>>,
   StorageUpdates |-> [k \in Keys |-> [Offset |-> k, Data |-> <<x, k>>]]]
MCOutputs ==
  {Nil} \cup {[ReturnCode |-> c, OutputAccounts |-> [x \in s |-> MCAccount(x)]] :
              c \in {0, 4}, s \in {{}, {"a", "b"}}}
============================================================================
