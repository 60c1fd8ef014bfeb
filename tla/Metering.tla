------------------------------ MODULE Metering ------------------------------
(***************************************************************************)
(* The gas of one transaction (vmhost/contexts/metering.go) through the    *)
(* nest of calls that it makes: the points counter of every instance, the  *)
(* gas each call is given and gives back (execution.go), the gas that      *)
(* output transfers take to other shards, the GasUsed records of the       *)
(* output accounts and the check made on them (output.go), and the gas     *)
(* that asyncCall locks for its callback (asyncCall.go).                   *)
(*                                                                         *)
(* A frame is one execution: the fields of the metering context that       *)
(* PushState saves, the points of its Wasmer instance and the output state *)
(* that was pushed when it began.  Forwarded and returned gas are kept per *)
(* contract for the whole transaction and are never popped.                *)
(*                                                                         *)
(* What contracts do is arbitrary; built-in functions and what a call does *)
(* besides gas are left out.  All activation flags are on.                 *)
(***************************************************************************)
EXTENDS Integers, Sequences, SequencesExt, Functions, FiniteSets

CONSTANTS
  Contracts,             \* the contracts of this shard
  NewContract,           \* the one that a contract may create
  HasCallback,           \* contracts that export callBack
  GetCode,               \* BaseOperationCost.GetCode
  CodeCost,              \* cost per byte times the length of each code
  ApiCost,               \* cost of a call, create or transfer hook
  AsyncCallStep,         \* BaseOpsAPICost.AsyncCallStep
  AsyncCallbackGasLock,  \* BaseOpsAPICost.AsyncCallbackGasLock
  Limits,                \* gas limits that contracts ask for
  MaxInt64,              \* largest points counter of an instance
  MaxUint64,             \* largest machine integer
  Workloads              \* what transactions do, see WorkloadType

CallKinds == {"dest", "transferExecute", "same", "create", "async"}

(* A workload: the host calls that contracts make and how many, what starts *)
(* the transaction and the gas it may be given, and what the data given to  *)
(* a callback may cost.                                                     *)
WorkloadType ==
  [hostCalls : SUBSET (CallKinds \cup {"use", "transfer", "asyncSend"}), maxOps : Nat,
   callTypes : SUBSET {"direct", "deploy", "async", "callback"},
   provided : SUBSET (0 .. MaxInt64), dataCosts : SUBSET (0 .. MaxInt64)]

ASSUME MeteringAssumption ==
  /\ IsFiniteSet(Contracts)
  /\ NewContract \in Contracts /\ HasCallback \subseteq Contracts
  /\ GetCode \in Nat /\ CodeCost \in [Contracts -> Nat]
  /\ ApiCost \in Nat /\ AsyncCallStep \in Nat /\ AsyncCallbackGasLock \in Nat
  /\ MaxInt64 \in Nat /\ MaxUint64 \in Nat /\ MaxInt64 < MaxUint64
  /\ Limits \subseteq 0 .. MaxUint64
  /\ \A w \in Workloads : w \in WorkloadType

VARIABLES
  phase,    \* "idle", "running" or "done"
  tx,       \* the transaction: workload, call type, contract, gas with what is unlocked
  host,     \* frames, output, gas states and previous total of the contexts
  result,   \* return code and GasRemaining of the VMOutput
  ops       \* bounded counter

vars == <<phase, tx, host, result, ops>>

-----------------------------------------------------------------------------
(* math/overflow.go: additions saturate, a subtraction returns what is     *)
(* missing as a second value.                                              *)

(* Mutant: an underflow is not caught.                                     *)
SubUnderflows(a, b) == <<a - b, 0>>

AddUint64(a, b) == IF a + b <= MaxUint64 THEN a + b ELSE MaxUint64
SubUint64(a, b) == IF a >= b THEN <<a - b, 0>> ELSE <<0, b - a>>
Smaller(a, b) == IF a <= b THEN a ELSE b

-----------------------------------------------------------------------------
(* Gas of the running frame.                                               *)

Running(h) == h.frames[Len(h.frames)]
SetRunning(h, f) == [h EXCEPT !.frames[Len(h.frames)] = f]

FrameGasLeft(f) == SubUint64(f.gasForExecution, f.points)[1]
GasLeft(h) == FrameGasLeft(Running(h))

SetPointsUsed(h, points) ==
  SetRunning(h, [Running(h) EXCEPT !.points = Smaller(points, MaxInt64)])
UseGas(h, gas) == SetPointsUsed(h, AddUint64(Running(h).points, gas))
RestoreGas(h, gas) ==
  IF gas <= Running(h).points THEN SetPointsUsed(h, Running(h).points - gas)
                              ELSE h

(* Gas burnt by the frame; the history counts what it could pay for.       *)
Burn(h, gas) ==
  [UseGas(h, gas) EXCEPT !.burnt = @ + Smaller(gas, GasLeft(h))]

(* Mutant: the limit asked for is granted.                                 *)
GasLimitUnbound(h, limit) == limit

BoundGasLimit(h, limit) == Smaller(GasLeft(h), limit)

FailExecution(h) == SetRunning(h, [Running(h) EXCEPT !.phase = "failed"])
EndFunction(h) == SetRunning(h, [Running(h) EXCEPT !.phase = "ended"])

-----------------------------------------------------------------------------
(* Gas forwarded between contracts and gas reported in the output.         *)

OnTheStack(h, a) == \E i \in 1 .. Len(h.frames) - 1 : h.frames[i].address = a

ForwardGas(h, source, dest, gas) ==
  LET forwarded == [h EXCEPT !.gasStates[source].forwarded = AddUint64(@, gas)]
  IN  IF dest = source \/ OnTheStack(h, dest)
        THEN [forwarded EXCEPT !.gasStates[dest].returned = AddUint64(@, gas)]
        ELSE forwarded

GasSpentByContract(h) == AddUint64(Running(h).initialCost, Running(h).points)

GasUsedByContract(h) ==
  LET gasState == h.gasStates[Running(h).address]
  IN  SubUint64(GasSpentByContract(h),
                SubUint64(gasState.forwarded, gasState.returned)[1])

GasUsedForExecution(h) ==
  SubUint64(GasUsedByContract(h)[1], Running(h).initialCost)[1]

(* GasUsed of all accounts and the gas of all transfers.                   *)
CurrentTotalUsedGas(out) ==
  AddUint64(SumFunction(out.gasUsed), out.sent)

(* Mutant: the used gas is not compared with the provided gas.             *)
GasNotChecked(total, provided) == TRUE

GasMatches(total, provided) == total <= provided

(* GetVMOutput and checkGas, for an execution that returned Ok.            *)
GetVMOutput(h) ==
  LET used == GasUsedByContract(h)
      out == [h.output EXCEPT !.gasUsed[Running(h).address] = used[1]]
      remaining == SubUint64(GasLeft(h), used[2])
      total == SubUint64(SubUint64(AddUint64(CurrentTotalUsedGas(out), remaining[1]),
                                   remaining[2])[1], h.totalUsedGas)[1]
      ok == GasMatches(total, Running(h).provided)
  IN  [ok |-> ok, output |-> out, remaining |-> IF ok THEN remaining[1] ELSE 0]

CreateVMOutputInCaseOfError(h) ==
  [ok |-> FALSE, output |-> h.output, remaining |-> 0]

-----------------------------------------------------------------------------
(* Calls.                                                                  *)

ExecutionCost(a) == GetCode + CodeCost[a]

(* deductInitialGas, on a frame that was provided with gas.                *)
DeductInitialGas(f, cost) ==
  [f EXCEPT !.initialCost = cost, !.gasForExecution = f.provided - cost]

NewFrame(kind, a, gas, out) ==
  [kind |-> kind, address |-> a, provided |-> gas, initialCost |-> 0,
   gasForExecution |-> gas, points |-> 0, phase |-> "running",
   gasLocked |-> 0, gasConsumed |-> 0, destinationOk |-> FALSE, pushed |-> out]

(* The callee begins to run, or fails before its first instruction: value  *)
(* or code is missing, or the gas does not cover the initial cost.         *)
Begin(f, start) ==
  IF start # "ok" \/ ExecutionCost(f.address) > f.provided
    THEN [f EXCEPT !.phase = "failed"]
    ELSE DeductInitialGas(f, ExecutionCost(f.address))

(* The states are pushed, the value is transferred, then all the gas of    *)
(* the call is used on the instance of the caller.                         *)
Call(h, kind, a, gas, start) ==
  LET f == Begin(NewFrame(kind, a, gas, h.output), start)
      paid == IF start = "noFunds" THEN h ELSE UseGas(h, gas)
  IN  [paid EXCEPT !.frames = Append(@, f), !.burnt = @ + f.initialCost]

ExecuteOnDestContext(h, kind, a, gas, start) ==
  [Call(h, kind, a, gas, start) EXCEPT
     !.totalUsedGas = CurrentTotalUsedGas(h.output)]

ExecuteOnSameContext(h, a, gas, start) == Call(h, "same", a, gas, start)

(* The callee's states are popped, its remaining gas is restored to the    *)
(* caller's instance and what it spent counts as forwarded.                *)
ReturnGas(h, vmOutput) ==
  LET popped == [h EXCEPT !.frames = Front(@)]
      spent == IF vmOutput.ok THEN GasSpentByContract(h) ELSE 0
  IN  ForwardGas(RestoreGas(popped, vmOutput.remaining),
                 Running(popped).address, Running(h).address, spent)

(* Mutant: the output of a failed call keeps its remaining gas.            *)
FinishRestoresOnFailure(h, vmOutput) ==
  [ReturnGas(h, [vmOutput EXCEPT !.remaining = GasLeft(h)]) EXCEPT
     !.output = IF vmOutput.ok THEN vmOutput.output ELSE Running(h).pushed,
     !.totalUsedGas = 0]

FinishExecuteOnDestContext(h, vmOutput) ==
  [ReturnGas(h, vmOutput) EXCEPT
     !.output = IF vmOutput.ok THEN vmOutput.output ELSE Running(h).pushed,
     !.totalUsedGas = 0]

(* A failed call gives nothing back; a gas mismatch is not a failure here. *)
FinishExecuteOnSameContext(h, ok) ==
  LET vmOutput == GetVMOutput(h)
  IN  IF ok
        THEN [ReturnGas(h, vmOutput) EXCEPT !.output = vmOutput.output]
        ELSE [h EXCEPT !.frames = Front(@), !.output = Running(h).pushed]

-----------------------------------------------------------------------------
(* Asynchronous calls.                                                     *)

ComputeGasLockedForAsync(a) ==
  AddUint64(CodeCost[a], AddUint64(AsyncCallStep, AsyncCallbackGasLock))
GasToLock(a) == IF a \in HasCallback THEN ComputeGasLockedForAsync(a) ELSE 0

(* asyncCall and ExecuteAsyncCall: the step is paid twice, by the hook and *)
(* by UseGasForAsyncStep, and the gas of the callback is set aside.        *)
CanPayAsyncCall(h) ==
  LET a == Running(h).address
      hook == Burn(h, AsyncCallStep)
      step == Burn(hook, AsyncCallStep)
  IN  /\ GasLeft(hook) > AsyncCallStep
      /\ a \in HasCallback => GasLeft(step) > GasToLock(a)

ExecuteAsyncCall(h) ==
  LET lock == GasToLock(Running(h).address)
      paid == UseGas(Burn(Burn(h, AsyncCallStep), AsyncCallStep), lock)
  IN  SetRunning(paid, [Running(paid) EXCEPT !.gasLocked = lock])

(* The call leaves the shard with all the gas and the locked gas.          *)
SendAsyncCallToDestination(h) ==
  LET gas == GasLeft(h)
      lock == Running(h).gasLocked
      a == Running(h).address
      sent == [h EXCEPT !.output.sent = @ + gas + lock,
                        !.gasStates[a].forwarded = AddUint64(@, gas + lock)]
  IN  EndFunction(UseGas(sent, gas))

(* Mutant: the locked gas is not given to the callback.                    *)
CallbackGasNotUnlocked(h, vmOutput) == vmOutput.remaining

(* executeSyncCallbackCall, once the destination has finished: the         *)
(* callback gets what the destination left and the locked gas, less the    *)
(* cost of the step and of its data; it is skipped when that is too little.*)
CallbackGas(h, vmOutput) == vmOutput.remaining + Running(h).gasLocked
CallbackCost(dataCost) == AddUint64(AsyncCallStep, dataCost)

ExecuteSyncCallbackCall(h, vmOutput, dataCost, start) ==
  LET caller == [Running(h) EXCEPT !.gasConsumed = GasUsedForExecution(h),
                                   !.destinationOk = vmOutput.ok]
      called == ExecuteOnDestContext(SetPointsUsed(SetRunning(h, caller), 0), "callback",
                  caller.address, CallbackGas(h, vmOutput) - CallbackCost(dataCost),
                  start)
      charged == [called EXCEPT !.burnt = @ + CallbackCost(dataCost)]
  IN  IF CallbackGas(h, vmOutput) <= CallbackCost(dataCost) THEN EndFunction(h)
      ELSE IF caller.address \notin HasCallback /\ Running(called).phase = "running"
             THEN EndFunction(charged)
             ELSE charged

(* The gas used before the callback is used again if all went well.        *)
FinishCallback(h, vmOutput) ==
  LET f == Running(h)
  IN  EndFunction(IF vmOutput.ok /\ f.destinationOk THEN UseGas(h, f.gasConsumed)
                                                   ELSE h)

-----------------------------------------------------------------------------
(* The transaction.                                                        *)

NoTx(w) == [load |-> w, callType |-> "none", contract |-> "none", provided |-> 0]
NoResult == [code |-> "none", remaining |-> 0]
Failed == [code |-> "failed", remaining |-> 0]

NewHost ==
  [frames |-> <<>>,
   output |-> [gasUsed |-> [a \in Contracts |-> 0], sent |-> 0, created |-> {}],
   gasStates |-> [a \in Contracts |-> [forwarded |-> 0, returned |-> 0]],
   totalUsedGas |-> 0, burnt |-> 0]

Init ==
  /\ phase = "idle" /\ host = NewHost /\ result = NoResult
  /\ \E w \in Workloads : tx = NoTx(w)
  /\ ops = 0

(* DirectDeployment has the cost of the hook as base cost.                 *)
RootCost(callType, a) ==
  IF callType = "deploy" THEN ApiCost + CodeCost[a] ELSE ExecutionCost(a)

(* doRunSmartContractCall and doRunSmartContractCreate; the gas locked for *)
(* a callback is provided to it.                                           *)
RunSmartContract(callType, a, gas, locked) ==
  LET provided == IF callType = "callback" THEN AddUint64(gas, locked) ELSE gas
      f == NewFrame("root", a, provided, host.output)
      cost == RootCost(callType, a)
  IN  /\ phase = "idle"
      /\ tx' = [tx EXCEPT !.callType = callType, !.contract = a, !.provided = provided]
      /\ IF cost > provided
           THEN /\ phase' = "done" /\ result' = Failed
                /\ UNCHANGED host
           ELSE /\ phase' = "running"
                /\ host' = [host EXCEPT !.frames = <<DeductInitialGas(f, cost)>>,
                                        !.burnt = cost]
                /\ UNCHANGED result
      /\ UNCHANGED ops

(* A host call of the running contract.                                    *)
Hook(call) ==
  /\ phase = "running" /\ call \in tx.load.hostCalls
  /\ Running(host).phase = "running"
  /\ ops < tx.load.maxOps /\ ops' = ops + 1
  /\ UNCHANGED <<phase, tx, result>>

(* Instructions and cheap hooks; the hooks may use more than is left.      *)
Use(gas) ==
  /\ Hook("use")
  /\ host' = Burn(host, gas)

(* executeOnDestContext and its variants; transferValueExecute within the  *)
(* shard when the caller is to go on after a failure.                      *)
CallDest(call, a, limit, start) ==
  LET h == Burn(host, ApiCost)
  IN  /\ Hook(call)
      /\ host' = ExecuteOnDestContext(h, call, a, BoundGasLimit(h, limit), start)

CallSame(a, limit, start) ==
  LET h == Burn(host, ApiCost)
  IN  /\ Hook("same")
      /\ host' = ExecuteOnSameContext(h, a, BoundGasLimit(h, limit), start)

(* transferValueExecute to another shard: the transfer carries the limit.  *)
TransferValueExecute(limit) ==
  /\ Hook("transfer")
  /\ host' = [Burn(host, ApiCost) EXCEPT !.output.sent = @ + limit]

(* createContract and CreateNewContract: the deployment is deducted from   *)
(* the gas provided to the creator.                                        *)
CreateNewContract(limit, start) ==
  LET h == Burn(host, ApiCost)
      f == Running(h)
      gas == BoundGasLimit(h, limit)
      deducted == [SetRunning(h, DeductInitialGas(f, CodeCost[NewContract]))
                     EXCEPT !.burnt = @ + CodeCost[NewContract]]
      deployed == [deducted EXCEPT !.output.created = @ \cup {NewContract}]
  IN  /\ Hook("create")
      /\ \/ /\ CodeCost[NewContract] > f.provided
            /\ host' = h
         \/ /\ CodeCost[NewContract] <= f.provided
            /\ start = "refused" \/ NewContract \in host.output.created
            /\ host' = deducted
         \/ /\ CodeCost[NewContract] <= f.provided
            /\ start # "refused" /\ NewContract \notin host.output.created
            /\ host' = ExecuteOnDestContext(deployed, "create", NewContract, gas,
                                            start)

(* asyncCall ends the function; the breakpoint is handled at once.         *)
AsyncCall(a, mode, start) ==
  LET h == ExecuteAsyncCall(host)
  IN  /\ Hook(mode)
      /\ \/ /\ ~ CanPayAsyncCall(host)
            /\ host' = FailExecution(host)
         \/ /\ CanPayAsyncCall(host) /\ mode = "asyncSend"
            /\ host' = IF start = "noFunds" THEN FailExecution(h)
                                            ELSE SendAsyncCallToDestination(h)
         \/ /\ CanPayAsyncCall(host) /\ mode = "async"
            /\ host' = ExecuteOnDestContext(h, "async", a, GasLeft(h), start)

-----------------------------------------------------------------------------
(* The end of a frame.                                                     *)

(* What the caller does when a call on its own context has finished.       *)
Resume(h, kind, vmOutput, dataCost, start) ==
  CASE kind = "dest" -> IF vmOutput.ok THEN h ELSE FailExecution(h)
    [] kind = "transferExecute" -> h
    [] kind = "create" ->
         IF vmOutput.ok THEN h
         ELSE [h EXCEPT !.output.gasUsed[NewContract] = 0,
                        !.output.created = @ \ {NewContract}]
    [] kind = "async" -> ExecuteSyncCallbackCall(h, vmOutput, dataCost, start)
    [] kind = "callback" -> FinishCallback(h, vmOutput)

DestEnds(vmOutput, dataCost, start) ==
  /\ Running(host).kind \notin {"root", "same"}
  /\ host' = Resume(FinishExecuteOnDestContext(host, vmOutput),
                    Running(host).kind, vmOutput, dataCost, start)
  /\ UNCHANGED <<phase, result>>

(* A failed call on the same context fails its caller too.                 *)
SameEnds(ok) ==
  LET h == FinishExecuteOnSameContext(host, ok)
  IN  /\ Running(host).kind = "same"
      /\ host' = IF ok THEN h ELSE FailExecution(h)
      /\ UNCHANGED <<phase, result>>

(* sendCallbackToCurrentCaller, for a call that came from another shard.   *)
SendCallbackToCurrentCaller(h) ==
  LET gas == GasLeft(h)
      a == Running(h).address
  IN  UseGas([h EXCEPT !.output.sent = @ + gas,
                       !.gasStates[a].forwarded = AddUint64(@, gas)], gas)

RootEnds(ok) ==
  LET within == Running(host).points <= Running(host).gasForExecution
      h == IF tx.callType = "async" THEN SendCallbackToCurrentCaller(host) ELSE host
      vmOutput == IF ok /\ within THEN GetVMOutput(h)
                                  ELSE CreateVMOutputInCaseOfError(host)
  IN  /\ Running(host).kind = "root"
      /\ phase' = "done"
      /\ host' = [h EXCEPT !.frames = <<>>, !.output = vmOutput.output]
      /\ result' = IF vmOutput.ok THEN [code |-> "Ok", remaining |-> vmOutput.remaining]
                                  ELSE Failed

(* The function returns, or fails: it signals an error, traps, runs out of *)
(* gas or a host call failed.                                              *)
Return(dataCost, start) ==
  /\ phase = "running" /\ Running(host).phase # "failed"
  /\ DestEnds(GetVMOutput(host), dataCost, start) \/ SameEnds(TRUE) \/ RootEnds(TRUE)
  /\ UNCHANGED <<tx, ops>>

Fail(dataCost, start) ==
  /\ phase = "running" /\ Running(host).phase # "ended"
  /\ \/ DestEnds(CreateVMOutputInCaseOfError(host), dataCost, start)
     \/ SameEnds(FALSE)
     \/ RootEnds(FALSE)
  /\ UNCHANGED <<tx, ops>>

Starts == {"ok", "noFunds", "noCode"}

Next ==
  \/ \E t \in tx.load.callTypes, a \in Contracts \ {NewContract}, g, l \in tx.load.provided :
       RunSmartContract(t, a, g, l)
  \/ \E g \in 1 .. 2 : Use(g)
  \/ \E c \in {"dest", "transferExecute"}, a \in Contracts \ {NewContract} :
       \E l \in Limits, s \in Starts : CallDest(c, a, l, s)
  \/ \E a \in Contracts \ {NewContract}, l \in Limits, s \in Starts : CallSame(a, l, s)
  \/ \E l \in Limits : TransferValueExecute(l)
  \/ \E l \in Limits, s \in Starts \cup {"refused"} : CreateNewContract(l, s)
  \/ \E a \in Contracts \ {NewContract}, m \in {"async", "asyncSend"}, s \in Starts :
       AsyncCall(a, m, s)
  \/ \E d \in tx.load.dataCosts, s \in {"ok", "noCode"} : Return(d, s) \/ Fail(d, s)

Spec == Init /\ [][Next]_vars

-----------------------------------------------------------------------------
(* Type correctness.                                                       *)

OutputType ==
  [gasUsed : [Contracts -> Nat], sent : Nat, created : SUBSET Contracts]
FrameType ==
  [kind : CallKinds \cup {"root", "callback"}, address : Contracts,
   provided : Nat, initialCost : Nat, gasForExecution : Nat, points : Nat,
   phase : {"running", "failed", "ended"}, gasLocked : Nat, gasConsumed : Nat,
   destinationOk : BOOLEAN, pushed : OutputType]

(* Every context keeps its type; in particular no gas is negative.         *)
TypeOK ==
  /\ phase \in {"idle", "running", "done"}
  /\ tx.provided \in Nat
  /\ Range(host.frames) \subseteq FrameType
  /\ host.output \in OutputType
  /\ host.gasStates \in [Contracts -> [forwarded : Nat, returned : Nat]]
  /\ host.totalUsedGas \in Nat /\ host.burnt \in Nat
  /\ result.code \in {"none", "failed", "Ok"} /\ result.remaining \in Nat
  /\ (phase = "running") <=> (host.frames # <<>>)
  /\ ops \in 0 .. tx.load.maxOps

-----------------------------------------------------------------------------
(* Properties.                                                             *)

(* These calls are not paid for in full: a creation writes over the costs  *)
(* of its creator, gas sent to another shard by transferValueExecute is    *)
(* not used, and after a callback in the shard the caller gets back what   *)
(* the destination burnt.                                                  *)
UnpaidCalls == {"create", "transfer", "async"}

(* However calls nest, fail and re-enter, the gas that the frames of the   *)
(* stack may still use and the gas already burnt never exceed the gas of   *)
(* the transaction: a call hands out no gas that its caller keeps.         *)
UsableGas(f) == IF f.phase = "failed" THEN 0 ELSE FrameGasLeft(f)
Usable(frames) == SumFunction([i \in DOMAIN frames |-> UsableGas(frames[i])])
NoFreeGas ==
  /\ TypeOK
  /\ phase = "running" /\ tx.load.hostCalls \cap UnpaidCalls = {} =>
       host.burnt + Usable(host.frames) <= tx.provided

(* A successful transaction refunds, sends on and burns no more gas than   *)
(* it was provided with.                                                   *)
OutputGasIsPaid ==
  result.code = "Ok" /\ tx.load.hostCalls \cap UnpaidCalls = {} =>
    host.burnt + result.remaining + host.output.sent <= tx.provided

(* The VMOutput of a successful transaction adds up: GasUsed of all its    *)
(* accounts, the gas of its transfers and GasRemaining together are no     *)
(* more than the gas provided.  Calls that fail after they were re-entered *)
(* leave gas behind that counts as forwarded twice; if the contract thus   *)
(* forwarded more than it was provided with, checkGas lets the excess      *)
(* pass, and nothing remains.                                              *)
ExcessForwarded ==
  LET gasState == host.gasStates[tx.contract]
      net == SubUint64(gasState.forwarded, gasState.returned)[1]
  IN  SubUint64(net, tx.provided)[1]
ReportedGasIsProvided ==
  result.code = "Ok" =>
    /\ CurrentTotalUsedGas(host.output) + result.remaining <= tx.provided + ExcessForwarded
    /\ ExcessForwarded > 0 => result.remaining = 0

(* The gas of a successful transaction adds up, as it is reported and as   *)
(* it was burnt (GetVMOutput, checkGas).                                   *)
OutputGasAddsUp == OutputGasIsPaid /\ ReportedGasIsProvided

(* Gas locked for a callback starts it, even when the destination failed   *)
(* or used up everything, as long as the lock covers the callback's data   *)
(* and the reading of its code.                                            *)
LockedGasStartsCallback ==
  [][ \A d \in tx.load.dataCosts :
        (/\ Return(d, "ok") \/ Fail(d, "ok")
         /\ Running(host).kind = "async"
         /\ host.frames[Len(host.frames) - 1].gasLocked > 0
         /\ d + GetCode < AsyncCallbackGasLock) =>
           Running(host').kind = "callback" /\ Running(host').phase = "running"
    ]_vars
=============================================================================
