----------------------------- MODULE AsyncCalls -----------------------------
(***************************************************************************)
(* asyncCall (src/vmhost/hostCore/asyncCall.go) across shards: the         *)
(* destination is called within the transaction when its code is in this   *)
(* shard, otherwise by a message, and the caller gets a callback, within   *)
(* the transaction or by a message.                                        *)
(*                                                                         *)
(* Shards have no state in common and a transaction changes the state of   *)
(* one shard at once, so that the VMs of all shards are modelled as one    *)
(* that runs their transactions one at a time, in any order.  The node     *)
(* delivers a message once, in any order, and answers a call that failed   *)
(* with a callback that reports the error.  Contracts are arbitrary and    *)
(* may fail at any time.  Built-in functions are in TokenTransfers, gas in *)
(* Metering.  Calls of an async context are left out: the hook that        *)
(* creates them is not among the imports of a contract.                    *)
(***************************************************************************)
EXTENDS Integers, Sequences, FiniteSets, SequencesExt

CONSTANTS
  Contracts,
  ShardOf,       \* shard of every contract
  HasCallback,   \* contracts that export callBack
  Values,        \* values that contracts send
  MaxCalls,      \* bound: asynchronous calls
  MaxTxs,        \* bound: transactions of users
  MaxDepth,      \* bound: nested calls
  MaxHooks       \* bound: hooks of a transaction, which its gas bounds

Ids == 1 .. MaxCalls

ASSUME AsyncAssumption ==
  /\ HasCallback \subseteq Contracts /\ DOMAIN ShardOf = Contracts
  /\ Values \subseteq Nat \ {0}
  /\ {MaxCalls, MaxTxs, MaxHooks} \subseteq Nat /\ MaxDepth \in Nat \ {0}

VARIABLES
  st,      \* what a failure undoes: messages, output and ghosts
  frames,  \* the nest of calls of the transaction that runs
  phase,   \* "idle"; of the last frame "running", "ended", "failed"
  gas,     \* hooks that the transaction may still call
  ids,     \* asynchronous calls so far
  txs      \* transactions of users so far

vars == <<st, frames, phase, gas, ids, txs>>

-----------------------------------------------------------------------------
(* The state of a transaction.  out has the OutputTransfers of every       *)
(* contract, data says whether there is ReturnData.  The ghosts: calls     *)
(* that were made, by which call, calls whose effects stand, and answers.  *)

NoOutput == [c \in Contracts |-> <<>>]

Top == Last(frames)

\* id: the call that a frame executes or answers; within: ghost, the
\* asynchronous call that undoes the frame when it fails.
Frame(kind, type, self, caller, id, within, value, saved) ==
  [kind |-> kind, type |-> type, self |-> self, caller |-> caller, id |-> id,
   within |-> within, value |-> value, saved |-> saved]

\* CensorVMOutput: the OutputTransfers stay.
Censored(s) == [s EXCEPT !.data = FALSE]

(* Mutant: the output of a failed call is merged too.                      *)
PopAlways(frame, ok) == [st EXCEPT !.data = @ \/ frame.saved.data]

\* finishExecuteOnDestContext: PopMergeActiveState or PopSetActiveState.
Pop(frame, ok) ==
  IF ok THEN [st EXCEPT !.data = @ \/ frame.saved.data] ELSE frame.saved

Push(frame) == frames' = Append(frames, frame) /\ st' = Censored(frame.saved)

Message(type, id, from, to, ok) ==
  [type |-> type, id |-> id, from |-> from, to |-> to, ok |-> ok]

Send(s, m) == [s EXCEPT !.net = @ \cup {m}]
Answer(s, id, ok) == [s EXCEPT !.answers = @ \cup {[id |-> id, ok |-> ok]}]
TakesEffect(s, id) == [s EXCEPT !.effects = @ \cup {id}]

-----------------------------------------------------------------------------
(* What contracts do.                                                      *)

CallsHook == phase = "running" /\ gas > 0 /\ gas' = gas - 1

\* transferValue, with or without data.
Transfer ==
  /\ CallsHook
  /\ \E to \in Contracts, v \in Values, data \in BOOLEAN :
       st' = [st EXCEPT !.out[to] = Append(@, [value |-> v, data |-> data])]
  /\ UNCHANGED <<frames, phase, ids, txs>>

returnData ==
  /\ CallsHook /\ st' = [st EXCEPT !.data = TRUE]
  /\ UNCHANGED <<frames, phase, ids, txs>>

\* executeOnDestContext, transferValueExecute: a direct call.
ExecuteOnDestContext ==
  /\ CallsHook /\ Len(frames) < MaxDepth
  /\ \E c \in Contracts :
       /\ ShardOf[c] = ShardOf[Top.self]
       /\ Push(Frame("nested", "direct", c, Top.self, 0, Top.within, 0, st))
  /\ UNCHANGED <<phase, ids, txs>>

\* Return of the function, or its failure: signalError, no gas, an
\* asyncCall that cannot be paid for or whose data is no call.
Return ==
  phase = "running" /\ phase' = "ended" /\ UNCHANGED <<st, frames, gas, ids, txs>>
FailExecution ==
  phase = "running" /\ phase' = "failed" /\ UNCHANGED <<st, frames, gas, ids, txs>>

(* Mutant: calls within the shard are sent, too.                           *)
SyncCallNever(dest) == FALSE

\* determineAsyncCallExecutionMode: the node knows the code of contracts of
\* this shard.
SyncCall(dest) == ShardOf[dest] = ShardOf[Top.self]

createDestinationContractCallInput(dest, saved) ==
  Frame("dest", "async", dest, Top.self, ids', ids', 0, saved)

sendAsyncCallToDestination(s, dest) ==
  Send(s, Message("call", ids', Top.self, dest, TRUE))

\* asyncCall and upgradeContract stop the function; the breakpoint handler
\* calls the destination or sends the call.
asyncCall ==
  /\ CallsHook /\ ids < MaxCalls /\ ids' = ids + 1
  /\ \E dest \in Contracts :
       LET made == [st EXCEPT !.issued = @ \cup {ids'},
                             !.made = @ \cup {[id |-> ids', within |-> Top.within]}]
       IN  IF SyncCall(dest)
             THEN /\ Len(frames) < MaxDepth /\ UNCHANGED phase
                  /\ Push(createDestinationContractCallInput(dest, made))
             ELSE /\ st' = sendAsyncCallToDestination(made, dest)
                  /\ phase' = "ended" /\ UNCHANGED frames
  /\ UNCHANGED txs

-----------------------------------------------------------------------------
(* The end of a call within the transaction.                               *)

Ends(kind) == phase \in {"ended", "failed"} /\ Top.kind = kind
Ok == phase = "ended"

\* transferValueExecute lets its caller go on after a failure.
FinishNested ==
  /\ Ends("nested") /\ frames' = Front(frames) /\ st' = Pop(Top, Ok)
  /\ phase' \in (IF Ok THEN {"running"} ELSE {"running", "failed"})
  /\ UNCHANGED <<gas, ids, txs>>

\* The last transfer to the caller, if it has no data and nothing was
\* returned; none after an error.
computeCallValueFromLastOutputTransfer(ok) ==
  LET transfers == st.out[Top.caller]
  IN  IF ~ ok \/ st.data \/ transfers = <<>> \/ Last(transfers).data THEN 0
      ELSE Last(transfers).value

\* The callback of the caller, a call by the destination.
createCallbackContractCallInput(saved) ==
  Frame("callback", "callback", Top.caller, Top.self, Top.id, Last(Front(frames)).within,
        computeCallValueFromLastOutputTransfer(Ok), saved)

\* executeSyncCallbackCall: without the gas there is no callback; one that
\* the caller does not export does nothing.
FinishDest ==
  /\ Ends("dest")
  /\ LET after == IF Ok THEN TakesEffect(Pop(Top, Ok), Top.id) ELSE Pop(Top, Ok)
         told == Answer(after, Top.id, Ok)
     IN  \/ st' = told /\ frames' = Front(frames) /\ phase' = "ended"
         \/ /\ frames' = Append(Front(frames), createCallbackContractCallInput(told))
            /\ st' = Censored(told)
            /\ phase' = IF Top.caller \in HasCallback THEN "running" ELSE "ended"
  /\ UNCHANGED <<gas, ids, txs>>

\* processCallbackVMOutput: the caller succeeds whatever the callback did.
FinishCallback ==
  /\ Ends("callback") /\ frames' = Front(frames) /\ st' = Pop(Top, Ok)
  /\ phase' = "ended" /\ UNCHANGED <<gas, ids, txs>>

-----------------------------------------------------------------------------
(* Transactions.                                                           *)

RunDirect ==
  /\ phase = "idle" /\ gas' = MaxHooks /\ txs < MaxTxs /\ txs' = txs + 1
  /\ \E c \in Contracts : frames' = <<Frame("root", "direct", c, c, 0, 0, 0, st)>>
  /\ phase' = "running" /\ UNCHANGED <<st, ids>>

(* Mutant: callbacks are never delivered.                                  *)
DeliverCallsOnly ==
  /\ phase = "idle" /\ gas' = MaxHooks /\ phase' = "running"
  /\ \E m \in st.net :
       /\ m.type = "call" /\ st' = [st EXCEPT !.net = @ \ {m}]
       /\ frames' = <<Frame("root", "async", m.to, m.from, m.id, m.id, 0, st')>>
  /\ UNCHANGED <<ids, txs>>

\* getFunctionByCallType: without the export a callback does nothing.
Deliver ==
  /\ phase = "idle" /\ gas' = MaxHooks
  /\ \E m \in st.net :
       LET taken == [st EXCEPT !.net = @ \ {m}]
       IN  \/ /\ m.type = "call" /\ st' = taken /\ phase' = "running"
              /\ frames' = <<Frame("root", "async", m.to, m.from, m.id, m.id, 0, taken)>>
           \/ /\ m.type = "callback" /\ st' = Answer(taken, m.id, m.ok)
              /\ frames' = <<Frame("root", "callback", m.to, m.from, m.id, 0, 0, st')>>
              /\ phase' = IF m.to \in HasCallback THEN "running" ELSE "ended"
  /\ UNCHANGED <<ids, txs>>

Commit(s) ==
  /\ st' = [s EXCEPT !.out = NoOutput, !.data = FALSE]
  /\ frames' = <<>> /\ phase' = "idle" /\ gas' = 0 /\ UNCHANGED <<ids, txs>>

FinishDirect == Ends("root") /\ Top.type \in {"direct", "callback"} /\ Commit(Pop(Top, Ok))

(* Mutant: no callback when the contract has itself sent a call.           *)
SendCallbackUnlessCalling ==
  /\ Ends("root") /\ Top.type = "async" /\ Ok
  /\ LET s == TakesEffect(Pop(Top, TRUE), Top.id)
     IN  Commit(IF s.net # Top.saved.net THEN s
                ELSE Send(s, Message("callback", Top.id, Top.self, Top.caller, TRUE)))

\* sendCallbackToCurrentCaller, unless it fails for lack of funds.
sendCallbackToCurrentCaller ==
  /\ Ends("root") /\ Top.type = "async" /\ Ok
  /\ Commit(Send(TakesEffect(Pop(Top, TRUE), Top.id),
                 Message("callback", Top.id, Top.self, Top.caller, TRUE)))

\* The node reports the failure of an asynchronous call.
FailAsync ==
  /\ Ends("root") /\ Top.type = "async"
  /\ Commit(Send(Pop(Top, FALSE), Message("callback", Top.id, Top.self, Top.caller, FALSE)))

Idle == phase = "idle" /\ UNCHANGED vars

Init ==
  /\ st = [net |-> {}, out |-> NoOutput, data |-> FALSE,
           issued |-> {}, made |-> {}, effects |-> {}, answers |-> {}]
  /\ frames = <<>> /\ phase = "idle" /\ gas = 0 /\ ids = 0 /\ txs = 0

Finish ==
  \/ FinishNested \/ FinishDest \/ FinishCallback
  \/ FinishDirect \/ sendCallbackToCurrentCaller \/ FailAsync

Next ==
  \/ Transfer \/ returnData \/ ExecuteOnDestContext \/ asyncCall
  \/ Return \/ FailExecution \/ Finish \/ RunDirect \/ Deliver \/ Idle

\* The node delivers messages, and executions end: gas is bounded.
Fairness == WF_vars(Deliver) /\ WF_vars(Return \/ FailExecution \/ Finish)

Spec == Init /\ [][Next]_vars /\ Fairness

-----------------------------------------------------------------------------
(* Messages, answers and frames name calls that were made.                 *)
TypeOK ==
  /\ st.issued \subseteq 1 .. ids /\ st.effects \subseteq st.issued
  /\ \A m \in st.net : m.id \in st.issued /\ ShardOf[m.from] # ShardOf[m.to]
  /\ \A a \in st.answers : a.id \in st.issued
  /\ Len(frames) <= MaxDepth /\ (phase = "idle" <=> frames = <<>>)

(* Between transactions every call that was made is under way, being       *)
(* answered or answered, exactly one of these: none is lost and none is    *)
(* executed and also sent, whatever failed (handleAsyncCallBreakpoint,     *)
(* sendCallbackToCurrentCaller).                                           *)
CallsAreAnsweredOnce ==
  /\ TypeOK
  /\ phase = "idle" =>
       \A id \in st.issued :
         Cardinality({m \in st.net : m.id = id})
           + Cardinality({a \in st.answers : a.id = id}) = 1

(* A callback reports success just when the effects of the call stand:     *)
(* however calls nest and fail, a destination whose failure is reported    *)
(* has left nothing, no call or answer either (finishExecuteOnDestContext, *)
(* createCallbackContractCallInput).                                       *)
AnswersTellOutcome ==
  /\ \A a \in st.answers : a.ok <=> a.id \in st.effects
  /\ \A a \in st.answers : ~ a.ok => ~ \E c \in st.made : c.within = a.id
  /\ \A m \in st.net : m.type = "callback" => (m.ok <=> m.id \in st.effects)
  /\ \A m \in st.net : m.type = "call" => m.id \notin st.effects

(* A call whose transaction has succeeded is answered, when the node       *)
(* delivers messages and executions end.                                   *)
CallsAreAnswered ==
  \A id \in Ids : (phase = "idle" /\ id \in st.issued)
                    ~> (\E a \in st.answers : a.id = id)
=============================================================================
