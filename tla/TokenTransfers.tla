--------------------------- MODULE TokenTransfers ---------------------------
(***************************************************************************)
(* Transfers of tokens (DCDT) by contracts, with the calls that they pay   *)
(* for: transferDCDTExecute and executeOnDestContext (vmhooks/baseOps.go,  *)
(* TransferDCDT of contexts/output.go), built-in transfers by asyncCall    *)
(* and their callbacks (hostCore/execution.go, hostCore/asyncCall.go).     *)
(*                                                                         *)
(* Tokens move in the node's accounts at once, by ProcessBuiltInFunction;  *)
(* when the call that a transfer pays for fails, the host moves them back  *)
(* with a second built-in call, which the node may refuse; a call by       *)
(* asyncCall that fails between the transfer and the execution, or after   *)
(* the execution, is not reverted.  Transfers to other shards leave in the *)
(* OutputTransfers of the VMOutput, which is dropped when a call fails.    *)
(* One transaction is modelled; contracts are arbitrary and gas may run    *)
(* out wherever the code checks it.                                        *)
(***************************************************************************)
EXTENDS Integers, Sequences, FiniteSets, SequencesExt, Functions

CONSTANTS
  Contracts,     \* contracts of this shard
  Users,         \* other accounts of this shard
  Remote,        \* accounts of other shards
  Root,          \* the contract that the transaction calls
  Nonce,         \* nonce of the token that has one
  Amounts,       \* amounts that contracts send
  Supply,        \* tokens of each kind that each contract owns at first
  AsyncNFTAbroad, \* whether contracts send tokens with a nonce abroad by asyncCall
  MaxNest,       \* bound: nested calls
  MaxTransfers   \* bound: transfers by contracts

Local == Contracts \cup Users
Accounts == Local \cup Remote
Kinds == {"DCDTTransfer", "DCDTNFTTransfer"}

ASSUME TokensAssumption ==
  /\ IsFiniteSet(Local) /\ IsFiniteSet(Remote)
  /\ Contracts \cap Users = {} /\ Local \cap Remote = {} /\ Root \in Contracts
  /\ Amounts \subseteq Nat \ {0} /\ Nonce \in Nat \ {0}
  /\ Supply \in [Kinds -> Nat] /\ AsyncNFTAbroad \in BOOLEAN
  /\ MaxNest \in Nat /\ MaxTransfers \in Nat

VARIABLES
  bal,           \* tokens of every kind and local account, in the node
  outTransfers,  \* OutputTransfers of every account
  nest,          \* the nested calls
  outcome,       \* of the last frame: "running", "ended", "failed" or "late" (failed
                 \* outside executeSmartContractCall); or "done"
  made,          \* transfers so far
  refused,       \* ghost: the last step's RevertDCDTTransfer was refused
  dirty          \* ghost: a call that had sent tokens has failed, or one that
                 \* carried them abroad

tokenVars == <<bal, outTransfers, nest, outcome, made, refused, dirty>>

-----------------------------------------------------------------------------
(* Arguments of the two built-in functions.                                *)

MinLenArguments(function) == IF function = "DCDTTransfer" THEN 2 ELSE 4

Arguments(function, value, dest) ==
  IF function = "DCDTTransfer" THEN <<"token", value>>
  ELSE <<"token", Nonce, value, dest>>

HasCall(in) == Len(in.args) > MinLenArguments(in.function)

-----------------------------------------------------------------------------
(* ProcessBuiltInFunction of the node.  The sender of a token with a nonce *)
(* calls itself; the node may refuse any transfer.                         *)

Amount(in) == IF in.function = "DCDTTransfer" THEN in.args[2] ELSE in.args[3]
Receiver(in) == IF in.function = "DCDTTransfer" THEN in.recipient ELSE in.args[4]

Accepts(in) ==
  /\ bal[in.function][in.caller] >= Amount(in)
  /\ in.function = "DCDTNFTTransfer" => in.recipient = in.caller

Moved(in) ==
  [bal EXCEPT ![in.function] = [a \in Local |->
     bal[in.function][a] - (IF a = in.caller THEN Amount(in) ELSE 0)
                         + (IF a = Receiver(in) THEN Amount(in) ELSE 0)]]

(* Mutant: the value is always the second argument.                        *)
OutputTransferOfSecond(in) == [function |-> in.function, value |-> in.args[2], sender |-> in.caller]

OutputTransfer(in) == [function |-> in.function, value |-> Amount(in), sender |-> in.caller]

Spent(in) == IF in.caller = Receiver(in) THEN 0 ELSE Amount(in)

-----------------------------------------------------------------------------
(* OutputTransfers (contexts/output.go).                                   *)

AddOutputTransfer(o, a, transfer) == [o EXCEPT ![a] = Append(@, transfer)]

(* Mutant: all transfers of the callee are appended, also the ones that it *)
(* began with.                                                             *)
MergeAll(left, right) == left \o right

\* mergeOutputAccounts: what the right one has more than the left one.
mergeOutputAccounts(left, right) ==
  IF Len(right) > Len(left) THEN left \o SubSeq(right, Len(left) + 1, Len(right))
  ELSE left

PopMergeActiveState(saved) ==
  [a \in Accounts |-> mergeOutputAccounts(saved[a], outTransfers[a])]

-----------------------------------------------------------------------------
(* Inputs of built-in calls.                                               *)

\* ExecuteDCDTTransfer.
DCDTTransferInput(destination, sender, function, value) ==
  [function |-> function, caller |-> sender,
   recipient |-> IF function = "DCDTNFTTransfer" THEN sender ELSE destination,
   args |-> Arguments(function, value, destination)]

(* Mutant: the receiver of a token with a nonce is taken for its caller.   *)
RevertToRecipient(in) ==
  [function |-> in.function, caller |-> in.recipient, recipient |-> in.caller,
   args |-> SubSeq(in.args, 1, MinLenArguments(in.function))]

\* RevertDCDTTransfer: the same transfer with sender and receiver exchanged.
revertInput(in) ==
  IF in.function = "DCDTNFTTransfer"
    THEN [in EXCEPT !.caller = in.args[4], !.recipient = in.args[4],
                    !.args = SubSeq(in.args, 1, 3) \o <<in.caller>>]
    ELSE [in EXCEPT !.caller = in.recipient, !.recipient = in.caller,
                    !.args = SubSeq(in.args, 1, 2)]

(* Mutant: the value is always the second argument.                        *)
FillFromSecondArgument(in) == [function |-> in.function, value |-> in.args[2]]

\* fillWithDCDTValue: what the callee sees.
fillWithDCDTValue(in) ==
  [function |-> in.function,
   value |-> IF in.function = "DCDTNFTTransfer" THEN in.args[3] ELSE in.args[2]]

NoTransfer == [function |-> "none", value |-> 0]

-----------------------------------------------------------------------------
(* Frames.                                                                 *)

Top == Last(nest)
Self == Top.self

\* in: the built-in call that paid for this call; attached: DCDTTransfers of
\* the VMInput; finish: the transfer in ReturnData[0]; ghosts: whether tokens
\* moved, what the sender had before, whether the sender or the receiver had
\* other transfers since, and how many transfers the call made that stand.
NewFrame(self, kind, caller, in, attached) ==
  [self |-> self, kind |-> kind, caller |-> caller, in |-> in, out |-> outTransfers,
   attached |-> attached, finish |-> <<>>, ran |-> FALSE, moved |-> FALSE,
   before |-> bal[in.function][in.caller], touched |-> FALSE, used |-> FALSE, sent |-> 0]

\* The frames after a transfer.
Touched(fs, in) ==
  LET Party(f, a) == f.in.function = in.function /\ a \in {in.caller, Receiver(in)}
  IN  [i \in DOMAIN fs |->
         [fs[i] EXCEPT !.touched = @ \/ Party(fs[i], fs[i].in.caller),
                       !.used = @ \/ Party(fs[i], fs[i].self)]]

Sent(fs, n) == [fs EXCEPT ![Len(fs)].sent = @ + n]

Fails == outcome' = "failed"
NoGhosts == refused' = FALSE /\ UNCHANGED dirty

-----------------------------------------------------------------------------
(* transferDCDTExecute, transferDCDTNFTExecute and, as "sync", the         *)
(* transfers that executeOnDestContext recognises.                         *)

\* After the tokens have moved the gas may not suffice: the caller fails.
TransferDCDT(in) ==
  \/ /\ Accepts(in) /\ bal' = Moved(in) /\ Fails
     /\ nest' = Sent(Touched(nest, in), 1) /\ UNCHANGED outTransfers
  \/ Fails /\ UNCHANGED <<bal, outTransfers, nest>>

\* The call that the transfer pays for.
StartExecution(kind, in) ==
  LET fs == Touched(nest, in)
      dest == Receiver(in)
      new == NewFrame(dest, kind, Self, in, [function |-> in.function, value |-> Amount(in)])
      recorded == AddOutputTransfer(outTransfers, dest, OutputTransfer(in))
  IN  /\ Accepts(in) /\ bal' = Moved(in) /\ outTransfers' = recorded
      /\ outcome' = "running"
      /\ nest' = Append(fs, [new EXCEPT !.out = recorded, !.moved = TRUE, !.ran = TRUE])

TransferOnly(in) ==
  /\ Accepts(in) /\ bal' = Moved(in)
  /\ outTransfers' = AddOutputTransfer(outTransfers, Receiver(in), OutputTransfer(in))
  /\ nest' = Sent(Touched(nest, in), 1) /\ UNCHANGED outcome

Transfers == outcome = "running" /\ made < MaxTransfers /\ made' = made + 1

transferDCDTNFTExecute ==
  /\ Transfers /\ NoGhosts
  /\ \E function \in Kinds, dest \in Accounts, v \in Amounts :
       LET in == DCDTTransferInput(dest, Self, function, v)
       IN  \/ TransferDCDT(in)
           \/ TransferOnly(in)
           \/ /\ dest \in Contracts /\ Len(nest) <= MaxNest
              /\ StartExecution("hook", in)

\* Only within the shard; the receiver in the arguments must be the
\* destination.
doDCDTTransferAndExecuteSynchronously ==
  /\ Transfers /\ NoGhosts
  /\ \E function \in Kinds, dest \in Local, v \in Amounts :
       LET in == DCDTTransferInput(dest, Self, function, v)
       IN  \/ TransferDCDT(in)
           \/ TransferOnly(in)
           \/ /\ dest \in Contracts /\ Len(nest) <= MaxNest
              /\ StartExecution("sync", in)

-----------------------------------------------------------------------------
(* Built-in transfers by asyncCall.                                        *)

\* callBuiltinFunction in a new frame of ExecuteOnDestContext: the contract
\* that receives the tokens runs if the arguments name a function.  The
\* node's OutputTransfer of a receiver abroad carries the tokens; within the
\* shard the transfer is recorded, judged by the recipient of the call.
callBuiltinFunction(fs, frame, in) ==
  LET runs == Receiver(in) \in Contracts /\ HasCall(in)
      after == [frame EXCEPT !.moved = TRUE, !.ran = runs,
                  !.self = IF runs THEN Receiver(in) ELSE frame.self,
                  !.attached = IF runs THEN fillWithDCDTValue(in) ELSE NoTransfer]
      sentAbroad == IF Receiver(in) \in Remote
                      THEN AddOutputTransfer(frame.out, Receiver(in), OutputTransfer(in))
                      ELSE frame.out
      recorded == in.recipient \in Local
                  /\ (in.function = "DCDTNFTTransfer" => Len(in.args) = 4)
  IN  \/ /\ Accepts(in) /\ bal' = Moved(in)
         /\ outTransfers' = IF recorded
                     THEN AddOutputTransfer(sentAbroad, Receiver(in), OutputTransfer(in))
                     ELSE sentAbroad
         /\ outcome' = IF runs THEN "running" ELSE "ended"
         /\ nest' = Append(Touched(fs, in), after)
      \/ \* isSCExecutionAfterBuiltInFunc cannot parse the call: the tokens stay
         /\ runs /\ Accepts(in) /\ bal' = Moved(in) /\ outcome' = "late"
         /\ nest' = Append(Touched(fs, in), [frame EXCEPT !.moved = TRUE])
         /\ outTransfers' = frame.out
      \/ \* refused, or out of gas
         /\ Fails /\ nest' = Append(fs, frame) /\ outTransfers' = frame.out /\ UNCHANGED bal

AsyncInputs ==
  {in \in {[function |-> f, caller |-> Self, recipient |-> r,
            args |-> Arguments(f, v, d) \o c] :
             f \in Kinds, r \in Accounts, v \in Amounts, d \in Accounts,
             c \in {<<>>, <<"call">>}} :
     ~ AsyncNFTAbroad => in.function = "DCDTTransfer" \/ in.args[4] \in Local}

\* An asynchronously called contract that sends tokens to its caller: the
\* transfer becomes the first result, and the callback makes it.
DCDTTransferOnCallBack(in) ==
  Top.kind = "async" /\ in.recipient = Top.caller /\ in.recipient \in Local

asyncCall ==
  /\ Transfers /\ NoGhosts
  /\ \E in \in AsyncInputs :
       IF DCDTTransferOnCallBack(in)
         THEN /\ nest' = [nest EXCEPT ![Len(nest)].finish = <<in>>]
              /\ outcome' = "ended" /\ UNCHANGED <<bal, outTransfers>>
         ELSE LET kind == IF in.recipient \in Local THEN "async" ELSE "cross"
              IN  /\ Len(nest) <= MaxNest
                  /\ callBuiltinFunction(nest, NewFrame(Self, kind, Self, in, NoTransfer), in)

-----------------------------------------------------------------------------
(* The end of a call.                                                      *)

Return == outcome = "running" /\ outcome' = "ended" /\ NoGhosts
          /\ UNCHANGED <<bal, outTransfers, nest, made>>
FailExecution == outcome = "running" /\ Fails /\ NoGhosts
                 /\ UNCHANGED <<bal, outTransfers, nest, made>>

\* ExecuteOnDestContext after execute has succeeded: processAsyncInfo fails,
\* or GetVMOutput finds too little gas.
FailLate == outcome = "ended" /\ outcome' = "late" /\ NoGhosts
            /\ UNCHANGED <<bal, outTransfers, nest, made>>

Failed == outcome \in {"failed", "late"}
Ends(kinds) == Top.kind \in kinds /\ UNCHANGED made

\* The callers of a call that succeeded.
Merged == Sent(Front(nest), Top.sent + (IF Top.moved THEN 1 ELSE 0))
Dropped ==
  dirty' = (dirty \/ Top.sent > 0 \/ (Top.moved /\ Receiver(Top.in) \in Remote))

\* finishExecuteOnDestContext of a call that a hook waits for.
FinishCall ==
  /\ outcome = "ended" /\ Ends({"hook", "sync"}) /\ NoGhosts
  /\ outTransfers' = PopMergeActiveState(Top.out) /\ nest' = Merged
  /\ outcome' = "running" /\ UNCHANGED bal

\* isRevert: the tokens go back to the caller.
ReturnTokens(in, fs) ==
  Accepts(in) /\ bal' = Moved(in) /\ nest' = Touched(fs, in)
KeepTokens(fs) == UNCHANGED bal /\ nest' = fs

(* Mutant: the caller goes on although the tokens were not returned.       *)
FailHookIgnoresRevert ==
  /\ Failed /\ Ends({"hook"}) /\ refused' = FALSE /\ Dropped /\ outTransfers' = Top.out
  /\ LET back == DCDTTransferInput(Top.in.caller, Top.self, Top.in.function, Amount(Top.in))
     IN  (ReturnTokens(back, Front(nest)) \/ KeepTokens(Front(nest)))
         /\ outcome' = "running"

\* The caller of transferDCDTNFTExecute goes on, unless the revert fails.
FailHook ==
  /\ Failed /\ Ends({"hook"}) /\ refused' = FALSE /\ Dropped /\ outTransfers' = Top.out
  /\ LET back == DCDTTransferInput(Top.in.caller, Top.self, Top.in.function, Amount(Top.in))
     IN  \/ ReturnTokens(back, Front(nest)) /\ outcome' = "running"
         \/ KeepTokens(Front(nest)) /\ Fails

\* The caller of executeOnDestContext fails in any case.
FailSync ==
  /\ Failed /\ Ends({"sync"}) /\ refused' = FALSE /\ Dropped /\ outTransfers' = Top.out /\ Fails
  /\ LET back == DCDTTransferInput(Top.in.caller, Top.self, Top.in.function, Amount(Top.in))
     IN  ReturnTokens(back, Front(nest)) \/ KeepTokens(Front(nest))

\* executeSyncCallbackCall: with the result of the destination, or with the
\* transfer that the destination returned; without the gas there is none.
Callback(fs, o) ==
  LET caller == Last(fs).self
      dest == Top.in.recipient
      plain == [NewFrame(caller, "callback", dest, Top.in, NoTransfer) EXCEPT !.out = o]
  IN  \/ outcome' = "ended" /\ nest' = fs /\ outTransfers' = o
      \/ outcome' = "running" /\ nest' = Append(fs, plain) /\ outTransfers' = o

\* isDCDTTransferOnReturnDataWithNoAdditionalData.
CallbackWithTransfer(fs, o) ==
  LET caller == Last(fs).self
      asked == Top.finish[1]
      in == [function |-> asked.function, caller |-> Top.in.recipient, recipient |-> caller,
             args |-> asked.args \o <<"callBack">>]
      frame == [NewFrame(caller, "callback", in.caller, in, NoTransfer) EXCEPT !.out = o]
  IN  callBuiltinFunction(fs, frame, in)

FinishAsync ==
  /\ outcome = "ended" /\ Ends({"async"}) /\ NoGhosts
  /\ LET o == PopMergeActiveState(Top.out)
     IN  IF Top.finish # <<>> /\ ~ HasCall(Top.finish[1])
           THEN CallbackWithTransfer(Merged, o)
           ELSE Callback(Merged, o) /\ UNCHANGED bal

\* execute: RevertDCDTTransfer, if the contract ran and did not fail late.
\* That it was refused is recorded in the state of the call that fails
\* anyway.  The callback runs in any case.
FailAsync ==
  /\ Failed /\ Ends({"async"}) /\ Dropped
  /\ \/ /\ Top.ran /\ outcome = "failed"
        /\ Accepts(revertInput(Top.in)) /\ bal' = Moved(revertInput(Top.in))
        /\ refused' = FALSE
        /\ Callback(Touched(Front(nest), revertInput(Top.in)), Top.out)
     \/ /\ UNCHANGED bal /\ refused' = (Top.ran /\ outcome = "failed")
        /\ Callback(Front(nest), Top.out)

\* A built-in call to another shard has no callback here.
FinishCross ==
  /\ outcome = "ended" /\ Ends({"cross"}) /\ NoGhosts
  /\ outTransfers' = PopMergeActiveState(Top.out) /\ nest' = Merged
  /\ UNCHANGED <<outcome, bal>>

FailCross ==
  /\ Failed /\ Ends({"cross"}) /\ refused' = FALSE /\ Dropped
  /\ outTransfers' = Top.out /\ nest' = Front(nest) /\ Fails /\ UNCHANGED bal

\* processCallbackVMOutput: the caller succeeds, whatever the callback did;
\* tokens that came with a failed callback are not returned.
FinishCallback ==
  /\ outcome = "ended" /\ Ends({"callback"}) /\ NoGhosts
  /\ outTransfers' = PopMergeActiveState(Top.out) /\ nest' = Merged
  /\ UNCHANGED <<outcome, bal>>

FailCallback ==
  /\ Failed /\ Ends({"callback"}) /\ refused' = FALSE /\ Dropped
  /\ outTransfers' = Top.out /\ nest' = Front(nest) /\ outcome' = "ended" /\ UNCHANGED bal

InitialBalances ==
  [k \in Kinds |-> [a \in Local |-> IF a \in Contracts THEN Supply[k] ELSE 0]]

NoOutput == [a \in Accounts |-> <<>>]

\* A failed transaction leaves nothing in the node.
EndTransfers ==
  /\ outcome = "ended" \/ Failed
  /\ Ends({"root"}) /\ outcome' = "done"
  /\ bal' = IF outcome = "ended" THEN bal ELSE InitialBalances
  /\ outTransfers' = IF outcome = "ended" THEN outTransfers ELSE NoOutput
  /\ dirty' = (dirty /\ outcome = "ended") /\ refused' = FALSE /\ UNCHANGED nest

Done == outcome = "done" /\ UNCHANGED tokenVars

TokensInit ==
  /\ bal = InitialBalances /\ outTransfers = NoOutput /\ outcome = "running" /\ made = 0
  /\ refused = FALSE /\ dirty = FALSE
  /\ nest = <<[self |-> Root, kind |-> "root", caller |-> Root, out |-> NoOutput,
                 in |-> [function |-> "none", caller |-> Root, recipient |-> Root, args |-> <<>>],
                 attached |-> NoTransfer, finish |-> <<>>, ran |-> FALSE, moved |-> FALSE,
                 before |-> 0, touched |-> FALSE, used |-> FALSE, sent |-> 0]>>

TokensNext ==
  \/ transferDCDTNFTExecute \/ doDCDTTransferAndExecuteSynchronously \/ asyncCall
  \/ Return \/ FailExecution \/ FailLate \/ FinishCall \/ FailHook \/ FailSync
  \/ FinishAsync \/ FailAsync \/ FinishCross \/ FailCross
  \/ FinishCallback \/ FailCallback \/ EndTransfers \/ Done

TokensSpec == TokensInit /\ [][TokensNext]_tokenVars

-----------------------------------------------------------------------------
(* Balances are never negative and the nest is bounded.                    *)
TokensTypeOK ==
  /\ bal \in [Kinds -> [Local -> Nat]]
  /\ \A a \in Accounts : \A i \in DOMAIN outTransfers[a] :
       outTransfers[a][i].function \in Kinds /\ outTransfers[a][i].value \in Amounts
  /\ Len(nest) \in 1 .. MaxNest + 1 /\ made \in 0 .. MaxTransfers
  /\ outcome \in {"running", "ended", "failed", "late", "done"}

\* The tokens of the accounts of this shard, and the ones in transfers abroad.
Held(b, k) == SumFunction(b[k])
Carries(t, k) == IF t.function = k THEN t.value ELSE 0
CarriedTo(o, k, a) == SumFunction([i \in DOMAIN o[a] |-> Carries(o[a][i], k)])
Carried(o, k) == SumFunction([a \in Remote |-> CarriedTo(o, k, a)])

(* No token is made or lost: what left the accounts of this shard is in    *)
(* exactly one OutputTransfer to another shard, through all merging and    *)
(* dropping of outputs (TransferDCDT, callBuiltinFunction,                 *)
(* AddToActiveState, mergeOutputAccounts).  It is claimed unless a call    *)
(* failed after it had sent tokens itself, or after it had carried tokens  *)
(* abroad (its output is dropped), and its caller went on.                 *)
TokensConserved ==
  /\ TokensTypeOK
  /\ outcome # "failed" /\ ~ dirty =>
       \A k \in Kinds :
         Held(bal, k) + Carried(outTransfers, k) = Held(InitialBalances, k)

(* Whoever goes on after a call that it paid for has failed has its tokens *)
(* back, whatever the callee did with them: either the revert succeeded or *)
(* the caller fails too (transferDCDTNFTExecute, ExecuteDCDTTransfer,      *)
(* RevertDCDTTransfer).  After asyncCall there are two exceptions, and the *)
(* caller goes on with its callback in both.  The node refused the revert. *)
(* Or the call failed late, where execute reverts nothing, and the caller  *)
(* is without exactly what it sent: the data of the transfer could not be  *)
(* parsed (isSCExecutionAfterBuiltInFunc), or processAsyncInfo or the gas  *)
(* check of GetVMOutput failed after the execution.                        *)
FailedTransfersAreReturned ==
  [][(/\ Failed /\ Top.kind \in {"hook", "sync", "async"}
      /\ Top.moved /\ ~ Top.touched /\ outcome' # "failed" /\ ~ refused')
     => bal'[Top.in.function][Top.in.caller] =
          Top.before - (IF Top.kind = "async" /\ outcome = "late"
                          THEN Spent(Top.in) ELSE 0)]_tokenVars

(* The tokens that a contract sees attached to its call are the ones that  *)
(* its caller has sent to it by the same call, and it owns them as long as *)
(* nobody has made another transfer from or to it (fillWithDCDTValue,      *)
(* TransferDCDT).                                                          *)
AttachedTokensAreOwned ==
  \A i \in DOMAIN nest :
    LET f == nest[i]
    IN  f.attached # NoTransfer =>
          /\ f.moved /\ f.self = Receiver(f.in)
          /\ f.attached = [function |-> f.in.function, value |-> Amount(f.in)]
          /\ i = Len(nest) /\ outcome = "running" /\ ~ f.used =>
               bal[f.attached.function][f.self] >= f.attached.value
=============================================================================
