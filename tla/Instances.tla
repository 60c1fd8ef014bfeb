----------------------------- MODULE Instances -----------------------------
(***************************************************************************)
(* The Wasmer instances of the host (src/vmhost/contexts/runtime.go): when *)
(* one is made, from which code, on which stack it waits, when it is       *)
(* destroyed, and which contract code is verified before it is deployed.   *)
(* An instance lives in C memory: to run or to destroy a destroyed one is  *)
(* undefined behaviour of the process.                                     *)
(***************************************************************************)
EXTENDS Naturals, Sequences, SequencesExt, FiniteSets

CONSTANTS
  Contracts,            \* addresses with a contract before the first step
  NewContract,          \* the address the next deployment creates
  Codes,                \* contract codes, which stand for their hashes too
  Shape,                \* what the host sees in a code, see ShapeOf
  InitialCode,          \* the code of each contract of Contracts
  NewCodes,             \* codes that transactions deploy
  Reserved,             \* names of hooks and of built-in functions
  DCDTImports,          \* hooks that need the flag of the DCDT functions
  Settings,             \* hostParameters.UseWarmInstance and the flag of compiled code
  DCDTFunctions,        \* the flag of the DCDT functions
  maxWasmerInstances,   \* MaximumWasmerInstanceCount
  CallAfterUpgrade,     \* contracts are called in the transaction that upgrades them
  MaxTxs,               \* bound on transactions
  MaxSteps              \* bound on calls in a transaction

(* What the validator and the host look at in a code: whether Wasmer        *)
(* compiles it, its memory, its exports with their arities, its imports.    *)
ExportOf == [name : STRING, length : Nat, ascii : BOOLEAN, in : Nat, out : Nat]
ShapeOf == [compiles : BOOLEAN, memory : BOOLEAN, exports : SUBSET ExportOf, imports : SUBSET STRING]

ASSUME CodesAreShaped == DOMAIN Shape = Codes /\ \A k \in Codes : Shape[k] \in ShapeOf
ASSUME InitialCodeRuns ==
  /\ InitialCode \in [Contracts -> Codes]
  /\ \A c \in Contracts : Shape[InitialCode[c]].compiles /\ Shape[InitialCode[c]].memory
  /\ NewContract \notin Contracts
  /\ NewCodes \subseteq Codes
  /\ maxWasmerInstances \in Nat \ {0}
  /\ Settings \subseteq [useWarmInstance : BOOLEAN, aheadOfTime : BOOLEAN]
  /\ MaxTxs \in Nat /\ MaxSteps \in Nat

VARIABLES
  vm,         \* the runtime context and what it keeps in Wasmer and in the node
  committed,  \* the code of every address in the node
  code,       \* the code of every address as GetCode returns it
  created,    \* ghost: codes that contracts deployed with createContract
  frames,     \* the executions in progress, the running one last
  mode,       \* "idle", "run", or "panic" while a panic unwinds the calls
  txs, steps

vars == <<vm, committed, code, created, frames, mode, txs, steps>>

Addresses == Contracts \cup {NewContract}
NoCode == "none"
Nil == 0
NoAddress == "none"

ASSUME NamesAreReal == NoCode \notin Codes /\ NoAddress \notin Addresses

(* An instance is its place in vm.instances; it counts its destructions and *)
(* knows whether it was ever the warm one.                                  *)
InstanceOf == [contract : Addresses, code : Codes, cleans : Nat, warm : BOOLEAN]

(* A frame remembers what output.PushState saved and, for a deployment, the *)
(* code to deploy; runs is the code GetCode gave to it.                     *)
Frame == [contract : Addresses, kind : {"call", "upgrade", "create"},
          runs : Codes, saved : [Addresses -> Codes \cup {NoCode}],
          stage : {"run", "async", "done"}]

Init ==
  /\ \E s \in Settings :
       vm = [setting |-> s, instance |-> Nil, instanceStack |-> <<>>, warmInstance |-> Nil,
             warmInstanceAddress |-> NoAddress, verifyCode |-> FALSE,
             instances |-> <<>>, compiled |-> [k \in Codes |-> NoCode]]
  /\ committed = [c \in Addresses |-> IF c \in Contracts THEN InitialCode[c] ELSE NoCode]
  /\ code = committed
  /\ created = {}
  /\ frames = <<>>
  /\ mode = "idle"
  /\ txs = 0 /\ steps = 0

-----------------------------------------------------------------------------
(* Contract validation, src/vmhost/contexts/validator.go                    *)

UpgradeFunctionName == "upgradeContract"
MaxLengthOfFunctionName == 256

IsReserved(name) == name \in Reserved \cup {UpgradeFunctionName}

verifyValidFunctionName(f) ==
  /\ f.length > 0 /\ f.length < MaxLengthOfFunctionName
  /\ f.ascii
  /\ ~IsReserved(f.name)

verifyVoidFunction(f) == f.in = 0 /\ f.out = 0

verifyFunctions(k) ==
  \A f \in Shape[k].exports : verifyValidFunctionName(f) /\ verifyVoidFunction(f)

checkBackwardCompatibility(k) == DCDTFunctions \/ Shape[k].imports \cap DCDTImports = {}

VerifyContractCode(v, k) ==
  v.verifyCode => Shape[k].memory /\ verifyFunctions(k) /\ checkBackwardCompatibility(k)

-----------------------------------------------------------------------------
(* Instances                                                                *)

IsWarmInstance(v) == v.instance # Nil /\ v.instance = v.warmInstance

Clean(v, i) == [v EXCEPT !.instances[i].cleans = @ + 1]

CleanWasmerInstance(v) ==
  IF v.instance = Nil \/ IsWarmInstance(v)
  THEN v
  ELSE [Clean(v, v.instance) EXCEPT !.instance = Nil]

ResetWarmInstance(v) ==
  IF v.instance = Nil THEN v
  ELSE [Clean(v, v.instance) EXCEPT !.instance = Nil, !.warmInstance = Nil,
                                    !.warmInstanceAddress = NoAddress]

NewInstance(v, c, k) ==
  [v EXCEPT !.instances = Append(@, [contract |-> c, code |-> k, cleans |-> 0, warm |-> FALSE]),
            !.instance = Len(v.instances) + 1]

pushInstance(v) == [v EXCEPT !.instanceStack = Append(@, v.instance)]

(* Mutant: the caller's own instance is destroyed when nothing was started. *)
PopInstanceAlwaysCleans(v) ==
  IF v.instanceStack = <<>> THEN v
  ELSE [CleanWasmerInstance(v) EXCEPT !.instanceStack = Front(@),
                                      !.instance = Last(v.instanceStack)]

popInstance(v) ==
  IF v.instanceStack = <<>> THEN v
  ELSE LET popped == [v EXCEPT !.instanceStack = Front(@)]
           prev == Last(v.instanceStack)
       IN  IF prev = v.instance THEN popped
           ELSE [CleanWasmerInstance(popped) EXCEPT !.instance = prev]

Failed(v) == [vm |-> v, ok |-> FALSE]
Started(v) == [vm |-> v, ok |-> TRUE]

(* A reused instance keeps its memory; its points are reset.                *)
warmInstanceIsNeeded(v, c) == v.setting.useWarmInstance /\ v.warmInstanceAddress = c
setWarmInstance(v) == [v EXCEPT !.instance = v.warmInstance]

(* The node may have lost the compiled code, or Wasmer may not load it: the *)
(* set of outcomes is empty when the code is certainly not used.            *)
makeInstanceFromCompiledCode(v, c, hash, newCode) ==
  {Started([NewInstance(v, c, k) EXCEPT !.verifyCode = FALSE]) :
     k \in {v.compiled[h] : h \in {h \in {hash} \ {NoCode} : v.setting.aheadOfTime /\ ~newCode}} \ {NoCode}}

saveCompiledCode(v, hash, k) == [v EXCEPT !.compiled[hash] = k]

makeInstanceFromContractByteCode(v, c, k, hash, newCode) ==
  LET codeHash == IF newCode \/ hash = NoCode THEN k ELSE hash
      saved == saveCompiledCode(NewInstance(v, c, k), codeHash, k)
      verified == IF newCode THEN [saved EXCEPT !.verifyCode = FALSE] ELSE saved
  IN  IF ~Shape[k].compiles
      THEN Failed([v EXCEPT !.instance = Nil])
      ELSE IF newCode /\ ~VerifyContractCode(saved, k)
      THEN Failed(CleanWasmerInstance(verified))
      ELSE Started(IF v.setting.useWarmInstance
                   THEN [verified EXCEPT !.warmInstance = verified.instance,
                                         !.warmInstanceAddress = c,
                                         !.instances[verified.instance].warm = TRUE]
                   ELSE verified)

(* Mutant: the limit is only logged.                                        *)
StartWithoutLimit(v, c, k, newCode) ==
  makeInstanceFromCompiledCode(v, c, committed[c], newCode)
    \cup {makeInstanceFromContractByteCode(v, c, k, committed[c], newCode)}

(* GetCodeHash asks the node, while the code to run comes from the output   *)
(* account of the contract when it has one.                                 *)
StartWasmerInstance(v, c, k, newCode) ==
  IF Len(v.instanceStack) >= maxWasmerInstances
  THEN {Failed([v EXCEPT !.instance = Nil])}
  ELSE IF warmInstanceIsNeeded(v, c)
  THEN {Started(setWarmInstance(v))}
  ELSE makeInstanceFromCompiledCode(v, c, committed[c], newCode)
         \cup {makeInstanceFromContractByteCode(v, c, k, committed[c], newCode)}

MustVerifyNextContractCode(v) == [v EXCEPT !.verifyCode = TRUE]

-----------------------------------------------------------------------------
(* Transactions                                                             *)

(* Once every instance is destroyed their handles are used again.           *)
Forget(v) ==
  IF v.instance = Nil /\ \A i \in DOMAIN v.instances : v.instances[i].cleans = 1
  THEN [v EXCEPT !.instances = <<>>] ELSE v

InitState(v) == [Forget(v) EXCEPT !.verifyCode = FALSE]

NewFrame(c, kind, k) ==
  [contract |-> c, kind |-> kind, runs |-> k, saved |-> code, stage |-> "run"]

(* A transaction that ends before it starts an instance, or whose instance  *)
(* cannot be made, leaves through the deferred host.Clean().                *)
Refuse(v) ==
  /\ vm' = CleanWasmerInstance(v)
  /\ UNCHANGED <<committed, code, created, frames, mode>>

Begin(v, c, kind, k) ==
  /\ vm' = v
  /\ frames' = <<NewFrame(c, kind, k)>>
  /\ mode' = "run"
  /\ UNCHANGED <<committed, code, created>>

StartTransaction == mode = "idle" /\ txs < MaxTxs /\ txs' = txs + 1 /\ steps' = 0

doRunSmartContractCall(c) ==
  /\ StartTransaction
  /\ IF committed[c] = NoCode THEN Refuse(InitState(vm))
     ELSE \/ Refuse(InitState(vm))      \* not enough gas for the initial cost
          \/ \E o \in StartWasmerInstance(InitState(vm), c, committed[c], FALSE) :
               IF o.ok THEN Begin(o.vm, c, "call", committed[c]) ELSE Refuse(o.vm)

(* Mutant: code is deployed as it comes.                                    *)
PerformWithoutVerification(c, k, kind) ==
  \E o \in StartWasmerInstance(InitState(vm), c, k, TRUE) :
    IF o.ok THEN Begin(o.vm, c, kind, k) ELSE Refuse(o.vm)

performCodeDeployment(c, k, kind) ==
  \E o \in StartWasmerInstance(MustVerifyNextContractCode(InitState(vm)), c, k, TRUE) :
    IF o.ok THEN Begin(o.vm, c, kind, k) ELSE Refuse(o.vm)

doRunSmartContractCreate(k) ==
  /\ StartTransaction
  /\ committed[NewContract] = NoCode
  /\ performCodeDeployment(NewContract, k, "create")

doRunSmartContractUpgrade(c, k) ==
  /\ StartTransaction
  /\ committed[c] # NoCode
  /\ performCodeDeployment(c, k, "upgrade")

(* The end of a transaction: the node takes over the code of the output     *)
(* accounts, deployed code included, unless the transaction failed.         *)
Deployed(f) == IF f.kind = "call" THEN code ELSE [code EXCEPT ![f.contract] = f.runs]

Finish(v) ==
  /\ vm' = v
  /\ frames' = <<>> /\ mode' = "idle"
  /\ UNCHANGED <<txs, steps>>

(* host.Clean                                                               *)
HostClean(v) == CleanWasmerInstance(v)

EndTransaction ==
  /\ mode = "run" /\ Len(frames) = 1
  /\ code' = Deployed(frames[1]) /\ committed' = code'
  /\ UNCHANGED created
  /\ Finish(HostClean(CleanWasmerInstance(vm)))

(* After "allocation error" a warm instance is not used again.              *)
hasRetriableExecutionError(v) == IsWarmInstance(v) /\ frames[1].kind = "call"

FailTransaction ==
  /\ mode = "run" /\ Len(frames) = 1
  /\ code' = committed
  /\ UNCHANGED <<committed, created>>
  /\ \/ Finish(HostClean(vm))
     \/ hasRetriableExecutionError(vm) /\ Finish(ResetWarmInstance(HostClean(vm)))

-----------------------------------------------------------------------------
(* Calls between contracts                                                  *)

Running == Last(frames)

CanCall ==
  /\ mode = "run"
  /\ Running.stage = "run"
  /\ steps < MaxSteps
  /\ steps' = steps + 1

CallAllowed(c) ==
  \/ CallAfterUpgrade
  \/ committed[c] \in {code[c], NoCode}

(* runtime.PushState and, at the end, PopSetActiveState: the deferred       *)
(* function of ExecuteOnDestContext and of ExecuteOnSameContext pops in any *)
(* case, and the output state of a failed call is dropped.                  *)
Refused(v) ==
  /\ vm' = popInstance(v)
  /\ UNCHANGED <<committed, frames, mode, txs>>

Nested(v, f) ==
  /\ vm' = v
  /\ frames' = Append(frames, f)
  /\ UNCHANGED <<committed, mode, txs>>

(* A call of a built-in function, a call that fails before its instance is  *)
(* started, or a call to an address without code.                           *)
CallWithoutInstance ==
  /\ CanCall
  /\ Refused(pushInstance(vm))
  /\ UNCHANGED <<code, created>>

ExecuteContractCall(c, k, v) ==
  \E o \in StartWasmerInstance(v, c, k, FALSE) :
    IF o.ok THEN Nested(o.vm, NewFrame(c, "call", k)) ELSE Refused(o.vm)

ExecuteOnDestContext(c) ==
  /\ CanCall
  /\ code[c] # NoCode /\ CallAllowed(c)
  /\ ExecuteContractCall(c, code[c], pushInstance(vm))
  /\ UNCHANGED <<code, created>>

(* The code is deployed first and its constructor run as a call of it, so   *)
(* that the instance is started with newCode FALSE.                         *)
CreateNewContract(k) ==
  /\ CanCall
  /\ code[NewContract] = NoCode
  /\ \E o \in StartWasmerInstance(pushInstance(MustVerifyNextContractCode(vm)), NewContract, k, FALSE) :
       IF o.ok
       THEN /\ Nested(o.vm, NewFrame(NewContract, "create", k))
            /\ code' = [code EXCEPT ![NewContract] = k]
       ELSE Refused(o.vm) /\ UNCHANGED code
  /\ created' = created \cup {k}

(* Mutant: the new code of an upgrade is started like that of a call.       *)
UpgradeAsCall(c, k) ==
  /\ CanCall
  /\ code[c] # NoCode
  /\ \E o \in StartWasmerInstance(pushInstance(MustVerifyNextContractCode(vm)), c, k, FALSE) :
       IF o.ok THEN Nested(o.vm, NewFrame(c, "upgrade", k)) ELSE Refused(o.vm)
  /\ UNCHANGED <<code, created>>

(* An upgrade is an asynchronous call: when it returns, only the callback   *)
(* of the caller is left to run.                                            *)
executeUpgrade(c, k) ==
  /\ CanCall
  /\ code[c] # NoCode
  /\ \E o \in StartWasmerInstance(pushInstance(MustVerifyNextContractCode(vm)), c, k, TRUE) :
       IF o.ok THEN Nested(o.vm, NewFrame(c, "upgrade", k)) ELSE Refused(o.vm)
  /\ UNCHANGED <<code, created>>

executeSyncCallbackCall ==
  /\ mode = "run" /\ Running.stage = "async"
  /\ steps < MaxSteps /\ steps' = steps + 1
  /\ LET c == Running.contract
         called == [frames EXCEPT ![Len(frames)].stage = "done"]
     IN  /\ CallAllowed(c)
         /\ \E o \in IF code[c] = NoCode THEN {Failed(pushInstance(vm))}
                     ELSE StartWasmerInstance(pushInstance(vm), c, code[c], FALSE) :
              /\ vm' = IF o.ok THEN o.vm ELSE popInstance(o.vm)
              /\ frames' = IF o.ok THEN Append(called, NewFrame(c, "call", code[c])) ELSE called
  /\ UNCHANGED <<committed, code, created, mode, txs>>

Resume(f) ==
  IF f.kind = "upgrade"
  THEN [Front(frames) EXCEPT ![Len(frames) - 1].stage = "async"]
  ELSE Front(frames)

EndCall ==
  /\ mode = "run" /\ Len(frames) > 1
  /\ vm' = popInstance(vm)
  /\ code' = IF Running.kind = "upgrade" THEN Deployed(Running) ELSE code
  /\ frames' = Resume(Running)
  /\ UNCHANGED <<committed, created, mode, txs, steps>>

FailCall ==
  /\ mode = "run" /\ Len(frames) > 1
  /\ vm' = popInstance(vm)
  /\ code' = Running.saved
  /\ frames' = Resume(Running)
  /\ UNCHANGED <<committed, created, mode, txs, steps>>

-----------------------------------------------------------------------------
(* A hook that panics: the deferred functions of the calls pop the contexts *)
(* one after another, host.Clean() runs, and TryCatch recovers.             *)

Panic ==
  /\ mode = "run" /\ mode' = "panic"
  /\ UNCHANGED <<vm, committed, code, created, frames, txs, steps>>

(* Mutant: a panic passes by the calls.                                     *)
TryCatchOnly ==
  /\ mode = "panic"
  /\ code' = committed
  /\ UNCHANGED <<committed, created>>
  /\ Finish(HostClean(vm))

TryCatch ==
  /\ mode = "panic"
  /\ IF Len(frames) > 1
     THEN /\ vm' = popInstance(vm)
          /\ frames' = Front(frames)
          /\ UNCHANGED <<committed, code, created, mode, txs, steps>>
     ELSE /\ code' = committed
          /\ UNCHANGED <<committed, created>>
          /\ Finish(HostClean(vm))

Next ==
  \/ \E c \in Addresses : doRunSmartContractCall(c)
  \/ \E k \in NewCodes : doRunSmartContractCreate(k)
  \/ \E c \in Addresses, k \in NewCodes : doRunSmartContractUpgrade(c, k)
  \/ EndTransaction \/ FailTransaction
  \/ CallWithoutInstance
  \/ \E c \in Addresses : ExecuteOnDestContext(c)
  \/ \E k \in NewCodes : CreateNewContract(k)
  \/ \E c \in Addresses, k \in NewCodes : executeUpgrade(c, k)
  \/ executeSyncCallbackCall
  \/ EndCall \/ FailCall
  \/ Panic \/ TryCatch

Spec == Init /\ [][Next]_vars

-----------------------------------------------------------------------------
(* Properties                                                               *)

InUse == ToSet(vm.instanceStack) \cup {vm.instance}

(* Type invariant: the contexts keep their types, and no more executions    *)
(* are in progress than the limit on instances allows.                      *)
TypeOK ==
  /\ DOMAIN vm = {"setting", "instance", "instanceStack", "warmInstance", "warmInstanceAddress",
                  "verifyCode", "instances", "compiled"}
  /\ vm.setting \in Settings
  /\ InUse \cup {vm.warmInstance} \subseteq 0 .. Len(vm.instances)
  /\ vm.warmInstanceAddress \in Addresses \cup {NoAddress}
  /\ vm.verifyCode \in BOOLEAN
  /\ vm.instances \in Seq(InstanceOf)
  /\ vm.compiled \in [Codes -> Codes \cup {NoCode}]
  /\ committed \in [Addresses -> Codes \cup {NoCode}]
  /\ code \in [Addresses -> Codes \cup {NoCode}]
  /\ created \subseteq Codes
  /\ \A n \in DOMAIN frames : frames[n] \in Frame
  /\ Len(frames) <= maxWasmerInstances
  /\ mode \in {"idle", "run", "panic"}
  /\ txs \in 0 .. MaxTxs /\ steps \in 0 .. MaxSteps

(* No instance is destroyed twice, and none that an execution in progress   *)
(* will resume on is destroyed, whatever calls fail, are refused at the     *)
(* limit or panic (runtime.go, popInstance and CleanWasmerInstance).        *)
InstancesInUseAreAlive ==
  /\ \A n \in DOMAIN vm.instances : vm.instances[n].cleans <= 1
  /\ \A n \in InUse \ {Nil} : vm.instances[n].cleans = 0

(* Between transactions the instance stack is empty and every instance that *)
(* was never kept warm has been destroyed, after panics too: the stack is   *)
(* cleared by no InitState, only by the deferred pops.                      *)
InstancesAreReleased ==
  /\ TypeOK
  /\ mode = "idle" =>
       /\ vm.instanceStack = <<>>
       /\ \A n \in DOMAIN vm.instances : vm.instances[n].cleans = 0 => vm.instances[n].warm

(* Every execution in progress runs on an instance of its own contract,     *)
(* made from the code that GetCode returned for it or that it deploys,      *)
(* however instances and compiled code are shared, when none is kept warm.  *)
ExecutionsRunTheirCode ==
  mode = "run" /\ ~vm.setting.useWarmInstance =>
    \A n \in DOMAIN frames :
      LET i == IF n = Len(frames) THEN vm.instance ELSE vm.instanceStack[n]
      IN  /\ vm.instances[i].contract = frames[n].contract
          /\ vm.instances[i].code = frames[n].runs

(* Code that got to the node by a deployment or an upgrade, and was not     *)
(* created by a contract, has a memory, exports only functions without      *)
(* parameters and results, and takes none of the reserved names, when no    *)
(* instance is kept warm.                                                   *)
DeployedCodeIsVerified ==
  \A c \in Addresses :
    committed[c] \notin created \cup {NoCode} /\ ~vm.setting.useWarmInstance =>
      /\ Shape[committed[c]].memory
      /\ \A f \in Shape[committed[c]].exports :
           /\ f.in = 0 /\ f.out = 0
           /\ f.name \notin Reserved \cup {"upgradeContract"}
=============================================================================
