----------------------------- MODULE MCMetering -----------------------------
(* Metering for TLC: two contracts and one that may be created.            *)
EXTENDS Metering, TLC

MCCodeCost == "a" :> 1 @@ "b" :> 1 @@ "n" :> 1

(* Nested and cross-shard calls of every call type, and short transactions *)
(* of all the host calls, with enough gas to lock some for a callback.     *)
MCWorkloads ==
  {[hostCalls |-> {"use", "dest", "transferExecute", "same", "asyncSend"}, maxOps |-> 4,
    callTypes |-> {"direct", "deploy", "async", "callback"}, provided |-> {9}, dataCosts |-> {0}],
   [hostCalls |-> CallKinds \cup {"use", "transfer", "asyncSend"}, maxOps |-> 3,
    callTypes |-> {"direct"}, provided |-> {14}, dataCosts |-> {0, 1, 4}]}
=============================================================================
