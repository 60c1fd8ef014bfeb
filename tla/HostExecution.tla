--------------------------- MODULE HostExecution ---------------------------
(***************************************************************************)
(* One transaction on the VM host (vmhost/hostCore/execution.go) with the  *)
(* contexts that hold its state (vmhost/contexts): output, runtime,        *)
(* storage and big integers.                                               *)
(*                                                                         *)
(* A contract runs inside a frame and calls the host: it writes storage,   *)
(* transfers value, calls other contracts on their own or on the same      *)
(* context, creates and upgrades contracts, and ends well or fails.  Every *)
(* context keeps a stack of its own; a call pushes on some of them and its *)
(* end pops them, keeping or undoing what the callee did.                  *)
(*                                                                         *)
(* What contracts do is arbitrary.  Gas, asynchronous calls, built-in      *)
(* functions and instances are left out: running out of gas is one of the  *)
(* reasons for which a frame may fail at any time.  All activation flags   *)
(* are on.                                                                 *)
(***************************************************************************)
EXTENDS Integers, Sequences, SequencesExt, FiniteSetsExt

CONSTANTS
  Addresses,     \* users, contracts and the addresses of future contracts
  Balance,       \* the chain: balance of each existing account
  ChainCode,     \* the chain: code of each existing contract
  ChainNonce,    \* the chain: nonce of each existing account
  Owner,         \* the chain: owner of each upgradeable contract
  Payable,       \* contracts that accept value sent along with gas
  NewAddr,       \* address of the contract a creator makes at a nonce
  Codes,         \* contract codes
  NewCodes,      \* the ones that contracts and users deploy
  Values,        \* amounts and stored values
  Targets,       \* addresses that contracts send value to
  InitTargets,   \* addresses that the init function of a new contract calls
  MaxInstances,  \* MaximumWasmerInstanceCount
  MaxOps         \* bound: host calls of the transaction

NoCode == "noCode"
NoUpdate == -1
NoAddress == "noAddress"

Existing == DOMAIN Balance
Contracts == DOMAIN ChainCode

ASSUME HostAssumption ==
  /\ Values \subseteq Nat /\ 0 \in Values /\ IsFiniteSet(Addresses)
  /\ Existing \subseteq Addresses /\ Balance \in [Existing -> Nat]
  /\ Contracts \subseteq Existing /\ ChainCode \in [Contracts -> Codes]
  /\ ChainNonce \in [Existing -> Nat]
  /\ DOMAIN Owner \subseteq Contracts /\ Owner \in [DOMAIN Owner -> Addresses]
  /\ \A p \in DOMAIN NewAddr :
       /\ NewAddr[p] \in Addresses \ Existing
       /\ \A q \in DOMAIN NewAddr : NewAddr[p] = NewAddr[q] => p = q
  /\ Targets \subseteq Addresses /\ InitTargets \subseteq Addresses
  /\ NewCodes \subseteq Codes
  /\ NoCode \notin Codes /\ NoUpdate \notin Values
  /\ MaxInstances \in Nat \ {0} /\ MaxOps \in Nat

VARIABLES
  phase,         \* "idle", "running", or "done" with vmOutput returned
  vmOutput,      \* the VMOutput of the transaction
  output,        \* outputContext.outputState
  outputStack,
  codeUpdates,   \* outputContext.codeUpdates
  runtime,       \* runtimeContext: scAddress, caller, callValue, readOnly
  runtimeStack,
  storageAddr,   \* storageContext.address
  storageStack,
  bigInts,       \* bigIntContext.values, one handle of them
  bigIntStack,
  calls,         \* the calls in progress, outermost first
  ret,           \* what the last host call returned to the contract
  history,       \* history: what the calls that did not fail have done
  ops            \* bounded counter

vars == <<phase, vmOutput, output, outputStack, codeUpdates, runtime,
          runtimeStack, storageAddr, storageStack, bigInts, bigIntStack,
          calls, ret, history, ops>>
contexts == <<output, outputStack, codeUpdates, runtime, runtimeStack,
              storageAddr, storageStack, bigInts, bigIntStack>>

Kinds == {"root", "dest", "same", "readOnly"}
EntryPoints == {"call", "create", "upgrade"}
ReturnCodes == {"Ok", "ExecutionFailed"}

-----------------------------------------------------------------------------
(* Output accounts.                                                        *)

NewVMOutputAccount ==
  [delta |-> 0, store |-> NoUpdate, code |-> NoCode, nonce |-> 0,
   transfers |-> <<>>]
NewVMOutput ==
  [accounts |-> [a \in Addresses |-> NewVMOutputAccount], listed |-> {},
   returnCode |-> "Ok"]

(* GetOutputAccount lists the account of an address that has none.         *)
SetAccount(out, a, account) ==
  [out EXCEPT !.accounts[a] = account, !.listed = @ \cup {a}]
GetOutputAccount(out, a) == [out EXCEPT !.listed = @ \cup {a}]

DeleteOutputAccount(out, a) ==
  [out EXCEPT !.accounts[a] = NewVMOutputAccount, !.listed = @ \ {a}]

SetReturnCode(out, code) == [out EXCEPT !.returnCode = code]

(* Mutants: balance deltas added up, transfers appended a second time.     *)
MergeAddsBalances(left, right) ==
  [right EXCEPT !.delta = left.delta + right.delta]
MergeRepeatsTransfers(left, right) ==
  [right EXCEPT !.transfers = left.transfers \o right.transfers]

(* mergeOutputAccounts: the right account wins; an absent storage update   *)
(* or code does not overwrite, the transfers that are new are appended.    *)
MergeOutputAccounts(left, right) ==
  [delta |-> right.delta,
   store |-> IF right.store = NoUpdate THEN left.store ELSE right.store,
   code |-> IF right.code = NoCode THEN left.code ELSE right.code,
   nonce |-> IF right.nonce > left.nonce THEN right.nonce ELSE left.nonce,
   transfers |->
     left.transfers \o SubSeq(right.transfers, Len(left.transfers) + 1,
                              Len(right.transfers))]

MergeVMOutputs(left, right) ==
  [accounts |-> [a \in Addresses |->
                   IF a \in right.listed
                   THEN MergeOutputAccounts(left.accounts[a], right.accounts[a])
                   ELSE left.accounts[a]],
   listed |-> left.listed \cup right.listed,
   returnCode |-> right.returnCode]

(* What PushState puts on the stack, and PopMergeActiveState's new state.  *)
Copy(out) == MergeVMOutputs(NewVMOutput, out)
PopMerge(out) == Copy(MergeVMOutputs(Last(outputStack), out))

(* Mutant: the balance on the chain, without what happened since.          *)
ChainBalanceOnly(out, a, value) == a \in Existing /\ Balance[a] >= value

(* GetBalanceBigInt knows nothing of an account that is not on the chain.  *)
HasSufficientBalance(out, a, value) ==
  IF a \in Existing THEN Balance[a] + out.accounts[a].delta >= value
  ELSE value = 0

TransferValueOnly(out, dest, sender, value) ==
  LET from == SetAccount(out, sender, [out.accounts[sender] EXCEPT !.delta = @ - value])
  IN SetAccount(from, dest, [from.accounts[dest] EXCEPT !.delta = @ + value])

AddTxValueToAccount(out, a, value) ==
  SetAccount(out, a, [out.accounts[a] EXCEPT !.delta = @ + value])

(* blockchainContext.GetCode: the output account first, then the chain.    *)
GetCode(out, a) ==
  IF out.accounts[a].code # NoCode THEN out.accounts[a].code
  ELSE IF a \in Contracts THEN ChainCode[a] ELSE NoCode

(* ... and what it found on the chain is kept in the output account.       *)
CacheCode(out, a) ==
  SetAccount(out, a, [out.accounts[a] EXCEPT !.code = GetCode(out, a)])

DeployCode(out, a, code) ==
  SetAccount(out, a, [out.accounts[a] EXCEPT !.code = code])

RemoveNonUpdatedCode(out, updates) ==
  [out EXCEPT !.accounts = [a \in Addresses |->
     IF a \in out.listed \ updates THEN [out.accounts[a] EXCEPT !.code = NoCode]
     ELSE out.accounts[a]]]

(* GetVMOutput, without its gas.                                           *)
GetVMOutput(out, a, updates) ==
  RemoveNonUpdatedCode(GetOutputAccount(out, a), updates)

GetNonce(out, a) ==
  IF out.accounts[a].nonce = 0 /\ a \in Existing THEN ChainNonce[a]
  ELSE out.accounts[a].nonce

(* Mutants: the creator's nonce stays, or goes the wrong way.              *)
NonceNotIncreased(out, a) == out
NonceDecreased(out, a) ==
  SetAccount(out, a, [out.accounts[a] EXCEPT !.nonce = GetNonce(out, a) - 1])

IncreaseNonce(out, a) ==
  SetAccount(out, a, [out.accounts[a] EXCEPT !.nonce = GetNonce(out, a) + 1])

(* NewAddress: the nonce of a user was increased before the transaction.   *)
CreationNonce(out, creator) ==
  LET nonce == GetNonce(out, creator)
  IN IF creator \notin Existing \/ creator \in Contracts \/ nonce = 0
     THEN nonce ELSE nonce - 1

-----------------------------------------------------------------------------
NoRuntime == [scAddress |-> NoAddress, caller |-> NoAddress, callValue |-> 0, readOnly |-> "no"]
NoHistory ==
  [transfers |-> [a \in Addresses |-> <<>>], created |-> [a \in Addresses |-> 0],
   deployed |-> [a \in Addresses |-> NoCode]]

Init ==
  /\ phase = "idle"
  /\ vmOutput = NewVMOutput
  /\ output = NewVMOutput /\ outputStack = <<>> /\ codeUpdates = {}
  /\ runtime = NoRuntime /\ runtimeStack = <<>>
  /\ storageAddr = NoAddress /\ storageStack = <<>>
  /\ bigInts = 0 /\ bigIntStack = <<>>
  /\ calls = <<>> /\ ret = "none" /\ history = NoHistory /\ ops = 0

-----------------------------------------------------------------------------
(* The transaction.                                                        *)

(* A call in progress.  "strict" marks the hooks that fail their caller    *)
(* when the call fails (WithFault); "before" and "history" are what the    *)
(* caller saw when it made the call.                                       *)
Frame(kind, fn, strict, caller, target, code) ==
  [kind |-> kind, fn |-> fn, strict |-> strict, caller |-> caller,
   target |-> target, code |-> code, history |-> history,
   before |-> [accounts |-> output.accounts, bigInts |-> bigInts,
               scAddress |-> runtime.scAddress, storageAddr |-> storageAddr]]

(* InitState, the contexts set up from the input, and the instance.        *)
StartTransaction(fn, caller, target, value, code, out) ==
  /\ phase' = "running"
  /\ output' = out
  /\ runtime' = [scAddress |-> target, caller |-> caller, callValue |-> value,
                 readOnly |-> "no"]
  /\ storageAddr' = target
  /\ calls' = <<Frame("root", fn, "no", caller, target, code)>>
  /\ UNCHANGED <<vmOutput, outputStack, codeUpdates, runtimeStack,
                 storageStack, bigInts, bigIntStack, ret, history, ops>>

(* doRunSmartContractCall; without code there is nothing to run.           *)
RunSmartContractCall(caller, target, value) ==
  LET out == AddTxValueToAccount(NewVMOutput, target, value) IN
  /\ phase = "idle"
  /\ IF GetCode(out, target) # NoCode
     THEN StartTransaction("call", caller, target, value, NoCode, CacheCode(out, target))
     ELSE /\ phase' = "done"
          /\ vmOutput' = SetReturnCode(NewVMOutput, "ExecutionFailed")
          /\ UNCHANGED <<contexts, calls, ret, history, ops>>

(* doRunSmartContractCreate.                                               *)
RunSmartContractCreate(caller, value, code) ==
  LET p == <<caller, CreationNonce(NewVMOutput, caller)>> IN
  /\ phase = "idle" /\ p \in DOMAIN NewAddr
  /\ StartTransaction("create", caller, NewAddr[p], value, code,
                      AddTxValueToAccount(NewVMOutput, NewAddr[p], value))

(* doRunSmartContractUpgrade; the node has checked the permission.         *)
RunSmartContractUpgrade(caller, target, value, code) ==
  /\ phase = "idle"
  /\ StartTransaction("upgrade", caller, target, value, code,
                      AddTxValueToAccount(NewVMOutput, target, value))

(* What becomes part of the transaction when the call f has succeeded.     *)
Commit(f) ==
  history' = [history EXCEPT
    !.created[f.target] = IF f.fn = "create" THEN @ + 1 ELSE @,
    !.deployed[f.target] = IF f.fn = "call" THEN @ ELSE f.code]

(* The end of the transaction: performCodeDeployment deploys the code once *)
(* init has run.  A failure returns an output without accounts.            *)
FinishTransaction(ok) ==
  /\ phase = "running" /\ Len(calls) = 1
  /\ ok => output.returnCode = "Ok"
  /\ LET f == calls[1]
         deploys == f.fn # "call"
         out == IF deploys THEN DeployCode(output, f.target, f.code) ELSE output
         updates == IF deploys THEN codeUpdates \cup {f.target} ELSE codeUpdates
     IN IF ok
        THEN vmOutput' = GetVMOutput(out, runtime.scAddress, updates) /\ Commit(f)
        ELSE /\ vmOutput' = SetReturnCode(NewVMOutput, "ExecutionFailed")
             /\ history' = NoHistory
  /\ phase' = "done" /\ calls' = <<>>
  /\ UNCHANGED <<contexts, ret, ops>>

-----------------------------------------------------------------------------
(* Host calls of the contract in the innermost frame.  FailExecution stops *)
(* the contract, so that it makes none once a return code is set.          *)

Executing == phase = "running" /\ output.returnCode = "Ok" /\ ops < MaxOps

(* storageStore: silently without effect in read-only mode.                *)
SetStorage(value) ==
  /\ Executing
  /\ output' = IF runtime.readOnly = "yes" THEN output
               ELSE SetAccount(output, storageAddr,
                      [output.accounts[storageAddr] EXCEPT !.store = value])
  /\ ops' = ops + 1 /\ ret' = "ok"
  /\ UNCHANGED <<phase, vmOutput, outputStack, codeUpdates, runtime, runtimeStack,
                 storageAddr, storageStack, bigInts, bigIntStack, calls, history>>

(* bigIntSet* and the other writers of a managed big integer.              *)
SetBigInt(value) ==
  /\ Executing
  /\ bigInts' = value
  /\ ops' = ops + 1 /\ ret' = "ok"
  /\ UNCHANGED <<phase, vmOutput, output, outputStack, codeUpdates, runtime,
                 runtimeStack, storageAddr, storageStack, bigIntStack, calls, history>>

(* outputContext.Transfer, for transferValue (no gas) and for              *)
(* transferValueExecute to a user or to another shard (with gas).          *)
TransferValue(dest, value, withGas) ==
  LET sender == runtime.scAddress
      moved == TransferValueOnly(output, dest, sender, value)
  IN
  /\ Executing
  /\ IF /\ HasSufficientBalance(output, sender, value)
        /\ withGas /\ value > 0 => dest \in Payable
     THEN /\ output' = SetAccount(moved, dest,
                         [moved.accounts[dest] EXCEPT !.transfers = Append(@, value)])
          /\ history' = [history EXCEPT !.transfers[dest] = Append(@, value)]
          /\ ret' = "ok"
     ELSE /\ output' = SetReturnCode(output, "ExecutionFailed")
          /\ ret' = "failed"
          /\ UNCHANGED history
  /\ ops' = ops + 1
  /\ UNCHANGED <<phase, vmOutput, outputStack, codeUpdates, runtime, runtimeStack,
                 storageAddr, storageStack, bigInts, bigIntStack, calls>>

(* What stops a call before the callee runs: the value transfer, the       *)
(* permission to upgrade, missing code, the limit of instances.            *)
Enters(out, fn, caller, target, value) ==
  /\ HasSufficientBalance(out, caller, value)
  /\ IF fn = "upgrade" THEN target \in DOMAIN Owner /\ Owner[target] = caller
     ELSE GetCode(out, target) # NoCode
  /\ Len(runtimeStack) + 1 < MaxInstances

(* The value moves, the code is fetched and the runtime is set up.         *)
EnterCallee(out, fn, caller, target, value, readOnly) ==
  /\ LET moved == TransferValueOnly(out, target, caller, value)
     IN output' = IF fn = "upgrade" THEN moved ELSE CacheCode(moved, target)
  /\ outputStack' = Append(outputStack, Copy(out))
  /\ runtimeStack' = Append(runtimeStack, [runtime EXCEPT !.readOnly = readOnly])
  /\ runtime' = [scAddress |-> target, caller |-> caller, callValue |-> value,
                 readOnly |-> readOnly]
  /\ bigIntStack' = Append(bigIntStack, bigInts)

EnterOnDestContext(out, fn, caller, target, value) ==
  /\ EnterCallee(out, fn, caller, target, value, runtime.readOnly)
  /\ bigInts' = 0
  /\ storageStack' = Append(storageStack, storageAddr) /\ storageAddr' = target

(* Mutant: the caller's output keeps what a failed callee did.             *)
MergeFailedCall(f) ==
  LET kept == PopMerge(output)
  IN IF f.strict = "yes" THEN SetReturnCode(kept, "ExecutionFailed")
     ELSE SetReturnCode(kept, "Ok")

(* The caller's output when a call has failed: the state pushed before it, *)
(* without the account of a contract that was not created.                 *)
OutputAfterFailure(f) ==
  LET prev == Last(outputStack)
      kept == IF f.fn = "create" THEN DeleteOutputAccount(prev, f.target) ELSE prev
  IN IF f.strict = "yes" THEN SetReturnCode(kept, "ExecutionFailed") ELSE kept

(* A call refused on entry is pushed and popped at once.                   *)
Refused(strict) ==
  /\ output' = IF strict = "yes" THEN SetReturnCode(output, "ExecutionFailed")
               ELSE output
  /\ ret' = "failed"
  /\ UNCHANGED <<outputStack, codeUpdates, runtimeStack, storageAddr,
                 storageStack, bigInts, bigIntStack, calls>>

(* Whom the contract calls: the init function of a new contract only       *)
(* InitTargets.                                                            *)
MayCall(target) ==
  Last(calls).fn = "create" => target \in InitTargets

(* A call that brings code asks for UpgradeFunctionName.                   *)
FunctionOf(code) == IF code = NoCode THEN "call" ELSE "upgrade"

(* executeOnDestContext (strict), transferValueExecute (not strict) and    *)
(* executeOnDestContextByCaller (strict, on behalf of the caller).         *)
ExecuteOnDestContext(strict, caller, target, value, code) ==
  LET fn == FunctionOf(code) IN
  /\ Executing /\ MayCall(target)
  /\ caller = runtime.scAddress \/ (caller = runtime.caller /\ strict = "yes")
  /\ IF Enters(output, fn, caller, target, value)
     THEN /\ EnterOnDestContext(output, fn, caller, target, value)
          /\ calls' = Append(calls, Frame("dest", fn, strict, caller, target, code))
          /\ UNCHANGED <<codeUpdates, ret>>
     ELSE Refused(strict) /\ UNCHANGED runtime
  /\ ops' = ops + 1
  /\ UNCHANGED <<phase, vmOutput, history>>

(* executeReadOnly clears the flag when its call is over.                  *)
AfterCall(kind, rt) == IF kind = "readOnly" THEN [rt EXCEPT !.readOnly = "no"] ELSE rt

(* executeOnSameContext, and with the caller's own call value              *)
(* delegateExecution and executeReadOnly.                                  *)
ExecuteOnSameContext(kind, target, value, code) ==
  LET fn == FunctionOf(code) IN
  /\ Executing /\ MayCall(target)
  /\ kind = "readOnly" => value = runtime.callValue
  /\ IF Enters(output, fn, runtime.scAddress, target, value)
     THEN /\ EnterCallee(output, fn, runtime.scAddress, target, value,
                         IF kind = "readOnly" THEN "yes" ELSE runtime.readOnly)
          /\ calls' = Append(calls, Frame(kind, fn, "yes", runtime.scAddress, target, code))
          /\ UNCHANGED <<codeUpdates, storageAddr, storageStack, bigInts, ret>>
     ELSE Refused("yes") /\ runtime' = AfterCall(kind, runtime)
  /\ ops' = ops + 1
  /\ UNCHANGED <<phase, vmOutput, history>>

(* CreateNewContract deploys the code, then runs init on its own context.  *)
CreateNewContract(value, code) ==
  LET creator == runtime.scAddress
      p == <<creator, CreationNonce(output, creator)>>
      new == NewAddr[p]
      out == DeployCode(output, new, code)
  IN
  /\ Executing /\ p \in DOMAIN NewAddr
  /\ \/ /\ runtime.readOnly = "yes"
        /\ Refused("no") /\ UNCHANGED runtime
     \/ /\ runtime.readOnly = "no" /\ Enters(out, "create", creator, new, value)
        /\ codeUpdates' = codeUpdates \cup {new}
        /\ EnterOnDestContext(out, "create", creator, new, value)
        /\ calls' = Append(calls, Frame("dest", "create", "no", creator, new, code))
        /\ UNCHANGED ret
     \/ /\ runtime.readOnly = "no" /\ ~ Enters(out, "create", creator, new, value)
        /\ output' = DeleteOutputAccount(out, new)
        /\ codeUpdates' = codeUpdates \ {new}
        /\ ret' = "failed"
        /\ UNCHANGED <<outputStack, runtime, runtimeStack, storageAddr,
                       storageStack, bigInts, bigIntStack, calls>>
  /\ ops' = ops + 1
  /\ UNCHANGED <<phase, vmOutput, history>>

-----------------------------------------------------------------------------
(* The end of a call.                                                      *)

InCall(kinds) ==
  phase = "running" /\ Len(calls) > 1 /\ Last(calls).kind \in kinds

(* Mutant: an upgrade that is not recorded as a code update.               *)
UpgradeNotRecorded(f) == codeUpdates

(* Code deployed when init of an upgrade has run (executeUpgrade).         *)
Upgraded(f) ==
  IF f.fn = "upgrade" THEN DeployCode(output, f.target, f.code) ELSE output
UpdatesAfter(f) ==
  IF f.fn = "upgrade" THEN codeUpdates \cup {f.target} ELSE codeUpdates

PopRuntime(f) ==
  /\ runtime' = AfterCall(f.kind, Last(runtimeStack))
  /\ runtimeStack' = Front(runtimeStack)

(* Mutant: storage stays on the callee's address.                          *)
StorageNotPopped == storageStack' = Front(storageStack) /\ UNCHANGED storageAddr

PopStorage ==
  /\ storageAddr' = Last(storageStack)
  /\ storageStack' = Front(storageStack)

(* finishExecuteOnDestContext with return code Ok: the callee's output is  *)
(* merged into the caller's.                                               *)
FinishExecuteOnDestContext ==
  LET f == Last(calls)
      merged == PopMerge(GetVMOutput(Upgraded(f), runtime.scAddress, UpdatesAfter(f)))
  IN
  /\ InCall({"dest"}) /\ output.returnCode = "Ok"
  /\ output' = IF f.fn = "create" THEN IncreaseNonce(merged, f.caller) ELSE merged
  /\ outputStack' = Front(outputStack)
  /\ codeUpdates' = UpdatesAfter(f)
  /\ bigInts' = Last(bigIntStack) /\ bigIntStack' = Front(bigIntStack)
  /\ PopRuntime(f) /\ PopStorage
  /\ Commit(f)
  /\ calls' = Front(calls) /\ ret' = "ok"
  /\ UNCHANGED <<phase, vmOutput, ops>>

(* finishExecuteOnSameContext: output and big integers of the callee stay. *)
FinishExecuteOnSameContext ==
  LET f == Last(calls) IN
  /\ InCall({"same", "readOnly"}) /\ output.returnCode = "Ok"
  /\ output' = GetVMOutput(Upgraded(f), runtime.scAddress, UpdatesAfter(f))
  /\ outputStack' = Front(outputStack)
  /\ codeUpdates' = UpdatesAfter(f)
  /\ bigIntStack' = Front(bigIntStack)
  /\ PopRuntime(f)
  /\ Commit(f)
  /\ calls' = Front(calls) /\ ret' = "ok"
  /\ UNCHANGED <<phase, vmOutput, storageAddr, storageStack, bigInts, ops>>

(* A call fails: the contract signals an error or runs out of gas, a host  *)
(* call of its own has failed it, or, after an upgrade was deployed, the   *)
(* gas check of GetVMOutput.                                               *)
FailCall ==
  LET f == Last(calls) IN
  /\ InCall({"dest", "same", "readOnly"})
  /\ output' = OutputAfterFailure(f)
  /\ outputStack' = Front(outputStack)
  /\ codeUpdates' \in IF f.fn = "create" THEN {codeUpdates \ {f.target}}
                      ELSE {codeUpdates, UpdatesAfter(f)}
  /\ bigInts' = Last(bigIntStack) /\ bigIntStack' = Front(bigIntStack)
  /\ PopRuntime(f)
  /\ IF f.kind = "dest" THEN PopStorage ELSE UNCHANGED <<storageAddr, storageStack>>
  /\ history' = f.history
  /\ calls' = Front(calls) /\ ret' = "failed"
  /\ UNCHANGED <<phase, vmOutput, ops>>

Next ==
  \/ \E c \in Addresses, a \in Addresses, v \in Values :
       c \in Existing \ Contracts /\ RunSmartContractCall(c, a, v)
  \/ \E c \in Addresses, v \in Values, code \in NewCodes :
       c \in Existing \ Contracts /\ RunSmartContractCreate(c, v, code)
  \/ \E c \in Addresses, a \in DOMAIN Owner, v \in Values, code \in NewCodes :
       c \in Existing \ Contracts /\ RunSmartContractUpgrade(c, a, v, code)
  \/ \E v \in Values : SetStorage(v) \/ SetBigInt(v)
  \/ \E a \in Targets, v \in Values, withGas \in BOOLEAN :
       TransferValue(a, v, withGas)
  \/ \E strict \in {"yes", "no"}, c \in Addresses, a \in Addresses,
        v \in Values, code \in NewCodes \cup {NoCode} :
       ExecuteOnDestContext(strict, c, a, v, code)
  \/ \E kind \in {"same", "readOnly"}, a \in Addresses, v \in Values,
        code \in NewCodes \cup {NoCode} :
       ExecuteOnSameContext(kind, a, v, code)
  \/ \E v \in Values, code \in NewCodes : CreateNewContract(v, code)
  \/ FinishExecuteOnDestContext \/ FinishExecuteOnSameContext \/ FailCall
  \/ \E ok \in BOOLEAN : FinishTransaction(ok)

Spec == Init /\ [][Next]_vars

-----------------------------------------------------------------------------
(* Types of the contexts and of the call stack (the struct fields of        *)
(* outputContext, runtimeContext, storageContext and bigIntContext).        *)
AccountType ==
  [delta : Int, store : Values \cup {NoUpdate}, code : Codes \cup {NoCode},
   nonce : Nat, transfers : Seq(Values)]
OutputType ==
  [accounts : [Addresses -> AccountType], listed : SUBSET Addresses,
   returnCode : ReturnCodes]
RuntimeType ==
  [scAddress : Addresses \cup {NoAddress}, caller : Addresses \cup {NoAddress},
   callValue : Values, readOnly : {"yes", "no"}]
HistoryType ==
  [transfers : [Addresses -> Seq(Values)], created : [Addresses -> Nat],
   deployed : [Addresses -> Codes \cup {NoCode}]]
FrameType ==
  [kind : Kinds, fn : EntryPoints, strict : {"yes", "no"}, caller : Addresses,
   target : Addresses, code : Codes \cup {NoCode}, history : HistoryType,
   before : [accounts : [Addresses -> AccountType], bigInts : Values,
             scAddress : Addresses \cup {NoAddress},
             storageAddr : Addresses \cup {NoAddress}]]

TypeOK ==
  /\ phase \in {"idle", "running", "done"}
  /\ vmOutput \in OutputType /\ output \in OutputType
  /\ outputStack \in Seq(OutputType)
  /\ codeUpdates \in SUBSET Addresses
  /\ runtime \in RuntimeType /\ runtimeStack \in Seq(RuntimeType)
  /\ storageAddr \in Addresses \cup {NoAddress}
  /\ storageStack \in Seq(Addresses \cup {NoAddress})
  /\ bigInts \in Values /\ bigIntStack \in Seq(Values)
  /\ calls \in Seq(FrameType)
  /\ ret \in {"none", "ok", "failed"}
  /\ history \in HistoryType
  /\ ops \in Nat

(* The value that entered with the transaction is what the output accounts  *)
(* gain in total, whatever was merged, discarded or undone on the way       *)
(* (TransferValueOnly, mergeOutputAccounts, DeleteOutputAccount).           *)
TotalDelta(out) == SumFunction([a \in Addresses |-> out.accounts[a].delta])
TxValue == (IF runtimeStack = <<>> THEN runtime ELSE runtimeStack[1]).callValue
BalancesConserved ==
  /\ TotalDelta(output) = TxValue
  /\ phase = "done" /\ vmOutput.returnCode = "Ok" => TotalDelta(vmOutput) = TxValue

(* The state is well typed and no account ever spends more than it has, not *)
(* even in a state that a later failure brings back (hasSufficientBalance). *)
Solvent(out) ==
  \A a \in Addresses :
    out.accounts[a].delta + (IF a \in Existing THEN Balance[a] ELSE 0) >= 0
NoOverdraft ==
  /\ TypeOK
  /\ Solvent(output) /\ \A i \in DOMAIN outputStack : Solvent(outputStack[i])

(* The five stacks describe the same nest of calls: every frame returns to  *)
(* the contract that made the call, and storage is that of the innermost    *)
(* call on its own context (PushState and Pop* of all contexts).            *)
OwnContext == {i \in DOMAIN calls : calls[i].kind \in {"root", "dest"}}
ContextsAligned ==
  phase = "running" =>
    /\ Len(runtimeStack) = Len(calls) - 1
    /\ Len(outputStack) = Len(calls) - 1 /\ Len(bigIntStack) = Len(calls) - 1
    /\ Len(storageStack) = Cardinality(OwnContext) - 1
    /\ runtime.scAddress = Last(calls).target
    /\ \A i \in DOMAIN runtimeStack : runtimeStack[i].scAddress = calls[i].target
    /\ storageAddr = calls[Max(OwnContext)].target

(* A failed call leaves no trace: the caller finds accounts, big integers,  *)
(* address and storage as they were when it made the call ("restore         *)
(* contexts as if the execution didn't happen").                            *)
FailedCallRestores ==
  [][phase = "running" /\ phase' = "running" /\ Len(calls') < Len(calls)
       /\ ret' = "failed" =>
       Last(calls).before =
         [accounts |-> output'.accounts, bigInts |-> bigInts',
          scAddress |-> runtime'.scAddress, storageAddr |-> storageAddr']]_vars

(* Every transfer made by calls that did not fail is in the output once and *)
(* in order (mergeOutputAccounts appends what is beyond the left length).   *)
TransfersReportedOnce ==
  phase = "running" =>
    \A a \in Addresses : output.accounts[a].transfers = history.transfers[a]

(* Two creations never end up at the same address (NewAddress,              *)
(* IncreaseNonce, "cannot deploy over existing account").                   *)
CreatedOnce == \A a \in Addresses : history.created[a] <= 1

Succeeded == phase = "done" /\ vmOutput.returnCode = "Ok"

(* Code deployed by calls that did not fail reaches the VMOutput            *)
(* (codeUpdates, removeNonUpdatedCode).                                     *)
DeployedCodeIsReported ==
  Succeeded => \A a \in Addresses :
    history.deployed[a] # NoCode => vmOutput.accounts[a].code = history.deployed[a]

(* The output reports what the calls that did not fail have done, no more   *)
(* and no less: their transfers, their creations and the code they deployed.*)
SuccessIsReported == TransfersReportedOnce /\ CreatedOnce /\ DeployedCodeIsReported
=============================================================================
