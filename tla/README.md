# TLA+ verification of the Dharitri WASM VM (v1)

This directory specifies the smart-contract virtual machine of this repository
in TLA+: the VM process and the driver through which a node talks to it, the
messages between them, the host that executes a transaction, its gas, storage,
tokens, asynchronous calls and Wasmer instances, and the hooks that contracts
call. TLC checks the specifications on small
instances; TLAPS proves the main results for every value of the constants.

## 1. The system

A node executes smart contracts either in its own process, through
`vmhost/hostCore`, or in a separate VM process, through `ipc`.

```
   node threads                                   VM process
 ┌──────────────────────────┐    pipes    ┌───────────────────────────────┐
 │ VMDriver ── NodePart ────┼─── request ─▶ VMPart ── vmHost ── contexts   │
 │  operationsMutex   hooks │◀── hook call│   BlockchainHookGateway        │
 │  process, arguments      │─── answer ──▶                                │
 │                          │◀── response │                                │
 └──────────────────────────┘             └───────────────────────────────┘
```

| Component | State | Operations | Hard behaviour | What makes it correct |
|---|---|---|---|---|
| VM driver (`ipc/nodepart`) | mutex, process handle, VM arguments, node part | GetVersion, GasScheduleChange, RunSmartContractCreate/Call, DiagnoseWait, Close, restart | concurrent callers, Close without lock, crashes, timeouts, failing starts | an answer belongs to its request; nothing of a failed dialogue survives; every operation returns |
| VM loop (`ipc/vmpart`) | request being served, gas schedule, compiled code | serve a request, call hooks | dies at any point, is killed at any point | executes an operation at most once, with the schedule in force and its own compiled code |
| Messengers and pipes (`ipc/common`) | message number, deadlines | Send, Receive, ResetDialogue | numbers restart with every dialogue; a message that cannot be encoded has taken a number, one that cannot be decoded has not | the two ends stay in step, up to the messages that were lost |
| Host (`vmhost/hostCore`) | contexts, enabled features | transactions, calls on own or same context, creation, upgrade, async calls, built-in functions | recursion, failure after partial success | a failed call leaves no trace, a successful one is reported exactly once |
| Output context | accounts, transfers, code updates, stack | Transfer, PushState, Pop*, merge, GetVMOutput | merging of nested outputs | value is conserved |
| Runtime, big-integer, blockchain contexts | address, caller, read-only flag, instance; values; snapshot | SetReadOnly, GetOne, NewAddress, ... | each has its own stack | the stacks describe the same nest of calls |
| Storage context | address, protection flag; storage updates in the output context | SetStorage, GetStorage, GetStorageFromAddress, locks | one map is cache and result at once | contracts see what the calls that did not fail wrote; refunds are earned |
| Metering | gas states, forwarded gas, schedule | UseGas, RestoreGas, ForwardGas, ... | not part of the stacked state; saturating arithmetic | gas is never created |
| Async calls | the call's arguments and locked gas in the runtime context; messages between shards | asyncCall, local execution with callback, sending to another shard, callback to the caller | gas is set aside for a callback that may run in another transaction; destination, callback or caller may fail | every call of a committed transaction is answered exactly once, and the answer says what stands; locked gas starts the callback |
| DCDT tokens | balances in the node, OutputTransfers in the output context | transferDCDTExecute, built-in functions through executeOnDestContext and asyncCall, revert | the node changes balances at once, the output only when a call succeeds | no token is made or lost; a transfer whose call failed comes back, or exactly what is missing is known |
| Wasmer instances, contract validation | current instance, instance stack, warm instance, compiled code of the node | start, pop, clean, verify | instances live in C memory; panics; limit on the nest | none is used after it was destroyed, none is left over, each execution runs its own code, deployed code is verified |
| Hook gateway and messages (`ipc/vmpart`, `ipc/nodepart`, `ipc/common`) | numbers of the dialogue | 25 blockchain hooks, each a request and a response; contract requests and responses | many hooks cannot return an error and answer with 0 or nil when a message is lost | the host sees what the node's hook returns, or the execution is discarded |
| Big integers (`contexts/bigint.go`, `vmhooks/bigIntOps.go`, `smallIntOps.go`) | handles and values, a stack of copies | arithmetic, bits, conversions, storage, arguments, results | values are changed in place; two's complement and unsigned bytes | every handle holds the number that was computed |
| Memory, arguments, results (`vmhooks/baseOps.go`, `cryptoapi`) | memory of the instance, input, return data, logs | some 100 imports | offsets and lengths are any int32; results of nested calls | loads and stores are exact or fail; results come in order |

Components interact by calls only, except for driver and VM process, which
exchange messages, and for contracts, which re-enter the host through hooks.

The promise API (`createAsyncCall`, `setAsyncContextCallback` and the async
contexts kept in storage) is dead code: its hooks are commented out of the
registration (`vmhost/vmhooks/baseOps.go:180-185`), so no async context is ever
created.

## 2. Modules

| Module | Role |
|---|---|
| `VMDriver` | driver, VM loop, messengers, pipes, process faults |
| `VMService` | abstract: what the node expects of the driver |
| `InterfaceProofs` | theorems about `VMDriver` and `VMHooks`, the interfaces to the node and to the contracts |
| `MCDriver` | instance of `VMDriver` for TLC |
| `HostExecution` | one transaction: host and four of its contexts |
| `HostExecutionProofs` | theorems about `HostExecution`: types, overdraft, stacks, output, failures, value |
| `MCHost` | instance of `HostExecution` for TLC |
| `Metering` | the gas of one transaction: calls, transfers, asyncCall, output check |
| `MeteringProofs` | theorems about `Metering` |
| `MCMetering` | instance of `Metering` for TLC |
| `Storage` | storage, its cache, its protections and the gas refund, through nested calls |
| `AccountProofs` | theorems about `Storage` and `TokenTransfers` |
| `MCStorage` | instance of `Storage` for TLC |
| `IPCHooks`, `MCIPC` | the blockchain hooks and the outputs across the pipes: gateway, messages, encodings, repliers |
| `HookProofs` | theorems about `IPCHooks` and `BigIntHooks`, the answers and the numbers that contracts get |
| `Instances`, `MCInstances` | Wasmer instances over several transactions, compiled code, validation |
| `InstancesProofs` | theorems about `Instances` |
| `AsyncCalls`, `MCAsync` | asynchronous calls and callbacks within and across shards |
| `AsyncCallsProofs` | theorems about `AsyncCalls` |
| `TokenTransfers`, `MCTokens` | DCDT transfers, the calls that they pay for, their revert |
| `BigIntHooks`, `MCBigInt` | big-integer context and the hooks on big and small integers |
| `VMHooks`, `MCHooks` | memory access, arguments, results, logs and cryptography |
| `SumProofs` | lemmas on sums over functions and on maxima, for the proofs |

All modules but `VMDriver`, `VMService` and `IPCHooks` look at the same nest of calls
with different data. They are not composed into one specification; instead
each lets happen at any time what the others could do to it. `HostExecution`,
`Storage`, `TokenTransfers`, `AsyncCalls`, `BigIntHooks` and `VMHooks` let any
frame fail at any time, which is what running out of gas can do to them;
`Metering` lets any call fail to start, which is what missing value or code
can do to it; `Instances` lets any frame fail or panic. `VMDriver` and
`IPCHooks` share the dialogue in the same way: in `VMDriver` a hook is a
message and the processes and deadlines are real, in `IPCHooks` the messages
have contents and a failed dialogue simply ends.

### VMDriver

One node thread's operation passes through `pc` values `lock`, `restart`,
`send`, `receive` and back to `idle`. These are the points where the code can
be interrupted by something that matters: the mutex, the check and restart of
the process, the write of the request, each receive. The VM process passes
through `init`, `receive`, `serve`, `hook`, `respond`, `reset`.

- `Lock`: `operationsMutex.Lock()`. `GasScheduleChange` stores the schedule
  in `vmArguments` before anything can fail.
- `NoRestart`, `IsClosedPanics`, `StartVM`, `StartVMFails`:
  `RestartVMIfNecessary`. The process handle is `running`, `zombie` (ended, not
  waited for; signal 0 still succeeds), `reaped` or `nil` (the command was
  assigned and never started). A failing start is split by where it fails.
- `SendContractRequest`, `SendFails`, `ReceiveTimeout`, `Receive`: `StartLoop`
  and `doLoop`. `Receive(t, d)` takes a message for which the node waited `d`
  time units; `remaining` is `remainingMilliseconds`. A timeout is possible
  only when `remaining > 0`, since `Receiver.Receive` sets no deadline
  otherwise.
- `NewVMPart` ... `ResetDialogue`: the VM's loop. `Messenger.Send` takes a
  number before it encodes, `Receive` after it has decoded
  (`ipc/common/messenger.go`). A hook request that cannot be encoded
  therefore uses up a number (`unsent` counts these, for one request), a
  response that cannot be decoded leaves the VM's number behind (`unread`). In
  both cases the contract goes on with a stand-in of the gateway, and
  `Refused` decides at the node whether the next message has a number it takes.
  A message that the node cannot decode ends its loop (`Receive`), one that the
  VM's loop cannot decode or encode ends the process (`Crash`).
- `Crash`: the process ends by itself. `OutsideClose`: the exported `Close`,
  which takes no lock.

Payloads are abstracted to the identity of the operation; two hooks (save and
get compiled code) are told apart because they carry state between processes.
A write to a pipe is atomic; logs are left out.

### HostExecution

One transaction. `calls` is the Go stack of nested host calls, `output`,
`runtime`, `storageAddr` and `bigInts` are the active states of the four
contexts, and each has its own stack variable, pushed and popped exactly where
the code does it. Contracts are arbitrary: at any moment the innermost frame
may write storage, write a big integer, transfer value, call on its own or on
the same context (with `WithFault` semantics where the hook has it), call
read-only, call on behalf of its caller, create, upgrade, end, or fail.

- The output context's accounts keep balance delta, one storage key, code,
  nonce and transfers. `MergeOutputAccounts` is translated field by field.
- `OutputAfterFailure`, `PopStorage`, `PopRuntime` are the `PopSetActiveState`
  family; `PopMerge` is `PopMergeActiveState`.
- `codeUpdates` is outside the pushed state, as in the code.
- `history` is an auxiliary variable: transfers, creations and deployments of
  calls that did not fail. It is restored by specification when a call fails,
  and the properties compare it with what the contexts say.

Left out: gas (running out of gas is the reason for which any frame may fail
at any time), logs and return data (`VMHooks`), async calls (`AsyncCalls`),
built-in functions (`TokenTransfers`), instances (`Instances`), the caching of chain reads in output accounts where it cannot be observed. All
activation flags are on. `InitTargets` restricts whom a constructor calls and
`Targets` who receives plain transfers; the passing run excludes constructors
that make calls and transfers to addresses where a contract is created later.
Section 5 says what happens without these restrictions.

### Metering

One transaction. A frame holds what `meteringContext.PushState` saves
(`initialCost`, `gasForExecution`, provided gas), the points counter of its
instance and the output that was pushed when it began. `gasStates` (gas
forwarded and returned, per contract) lives as long as the transaction, as in
the code. Each host call is one action: use of gas, calls on own and same
context, transfers with gas to another shard, creation, asyncCall executed
here or sent away. `Return` and `Fail` end the innermost frame and do all that
the code does then: `GetVMOutput` with its gas check, the pops,
`RestoreGas`, `ForwardGas` and, of an asyncCall, the callback. The operators of
`math/overflow.go` and the cut to 63 bits in `SetPointsUsed` keep their form,
with small widths. `Workloads` says which host calls, call types, amounts of
gas and data costs occur together in a transaction. `burnt` is auxiliary: gas that was really spent, by frames
that failed too.

Left out: the gas of built-in functions and of upgrades; the instructions of a
contract are `Use`.

### Storage

One transaction of contracts that read, write, lock, call each other and fail.
A key is a sequence of parts, so that a prefix test and the suffix that
`CustomStorageKey` appends stay what they are; a value is the number that its
bytes stand for, `Length` gives their number. `output` is the part of the
output context that storage uses: updates (cache and result) and refund.
`frames` holds what a call pushes. `ProcessBuiltInFunction` stands for the
node, which may change protected keys at any time. `history` is auxiliary: the
storage as written by calls that did not fail, and the refund they earned.

Left out: the copy costs of keys and values, and DCDT storage reads. Note that
the code charges nothing for a new value of the same length (`PaidFor`).

### IPCHooks

One operation at a time, at most `MaxDialogues` in a row. `HookNames` and
`Messages` are the 25 hooks with the fields of their requests and responses;
`Messages` says which responses carry an error and in which order the fields
are packed. A hook call goes through `GatewayArguments`, `NewRequest`,
`Transcode` (what JSON and gob do to nil, empty and zero values), `Repliers`,
`BlockchainHook` (the node's hook, external, with an account for which it
fails), `NewResponse`, `Transcode` and `Gateway`, which gives the stand-in when
no usable response came. Numbers move as the messengers move them:
`NonceAfterSend` when sending starts, `NonceAfterReceive` only if the message
was decoded. The faults are a message that cannot be encoded, one that cannot
be decoded, and a crash. A process that ended by itself (`Ended`) gets one more
request, since `IsClosed` takes it for running; one that the driver killed
(`Dead`) is replaced before the next request, with new pipes and an empty store
of compiled code. Outputs pass through the conversions of
`serializableVMOutput.go` and `serializableOutputAccount.go`, which turn maps
to lists and back. `run` is auxiliary: what the execution asked, got and
produced, and how many requests (`unsent`) and responses (`unread`) it lost.

### Instances

Several transactions on one host. `vm` is the runtime context: the current
instance, the instance stack, the warm instance, the flag that the next code
has to be verified, all instances ever made with the number of times each was
destroyed, and the compiled code that the node keeps per hash. A code is a
model value with a `Shape`: whether it compiles, its memory, exports and
imports, which is what `wasmValidator` looks at. `StartWasmerInstance` tries
the warm instance, then compiled code, then the bytecode, in the code's order
and with the limit `maxWasmerInstances`. Any execution may end, fail or panic;
`TryCatch` runs the deferred pops and the cleaning of the host. `Settings`
holds the two flags that choose between warm instances and compiled code.

### AsyncCalls

All shards, one transaction at a time. `st` holds what a failure undoes:
messages between shards, output transfers, return data and the ghosts; a frame
keeps the state to return to. `asyncCall` executes within the transaction when
`SyncCall` says that the destination's code is here, otherwise adds an
OutputTransfer that becomes a message when the transaction succeeds
(`Commit`). The kinds of frames are the root, a call by a contract, the
destination of an asyncCall and its callback; the end of each is one action
with everything `handleAsyncCallBreakpoint`, `executeSyncCallbackCall` and
`sendCallbackToCurrentCaller` do there. The node (external) delivers a message
once, in any order, and answers a call that failed with an error callback.

### TokenTransfers

One transaction. `bal` are the token balances in the node, changed at once by
`ProcessBuiltInFunction`, and not restored when a call fails; `outTransfers` are
the OutputTransfers, restored with the output context. Built-in inputs keep their
argument lists, because the two transfer functions have their value, receiver
and call arguments at different places, and host, node and callee each read
them again. `nest` are the calls in progress and `outcome` says how the last of
them stands. A frame says how the call began (`hook`, `sync`, `async`,
`callback`, `cross`) and carries ghosts: the sender's balance before the
transfer, whether the tokens were touched since.

`outcome` tells two failures apart. A call that is `failed` did so within
`executeSmartContractCall`, after which `execute` takes its tokens back. A call
that failed `late` did so after the built-in function moved the tokens and
before the contract ran (a disjunct of `callBuiltinFunction`: the data of the
transfer cannot be parsed), or after `execute` had succeeded (`FailLate`:
`processAsyncInfo`, or the gas check of `GetVMOutput`). Hooks revert both;
asyncCall reverts the first only (`FailAsync`). `dirty` is a ghost: the output
of a failed call was dropped although it carried tokens, so that sums can no
longer agree.

### BigIntHooks and VMHooks

`BigIntHooks` separates handles, pointers and values, since the Go map holds
pointers and operations work in place: aliasing of operands and the depth of
`clone` are visible. The conversions of `twos` and `big.Int` are written on
digits in base `Base`. `VMHooks` keeps the memory of the running instance as a
sequence of bytes in pages; `MemLoad`, `MemLoadMultiple`, `MemStore` and
`getArgumentsFromMemory` keep the order of their checks and the width of their
integers. Hooks of the same shape (ask the host or the node, store the answer)
are one action each family, over the data that they can return. What the node
answers, hashes and signature checks are external choices.

## 3. Runs

| Run | Checks | Shows |
|---|---|---|
| `driver_safety` | `TypeOK`, `AnswersOwnRequest`, `QuietBetweenOperations`, `CompiledCodeIsOwn`, `ScheduleInForce`, `ImplementsService` | with two threads, three operations, one crash or outside Close and one failing start, encoding or decoding, no stale answer is ever taken, compiled code and gas schedule are those in force, and the driver refines `VMService`: one operation at a time, executed at most once, only while its caller waits |
| `driver_dialogue` | `DialogueInStep`, `OperationsTimeOut`, `OperationsReturn` | two operations with two hook calls, whose messages may be lost in either direction: at most one message is in flight, the VM always expects the number that it reads, and the node reports `ErrInvalidMessageNonce` exactly when the VM lost a different number of requests and of responses; whatever the VM process does, every operation returns unless one receives without a deadline; with a VM process that keeps working every operation returns |
| `host_execution` | `BalancesConserved`, `NoOverdraft`, `ContextsAligned`, `SuccessIsReported`, `FailedCallRestores` | three host calls at up to three levels. `SuccessIsReported` joins `TransfersReportedOnce`, `CreatedOnce` and `DeployedCodeIsReported` |
| `metering` | `NoFreeGas`, `OutputGasAddsUp`, `LockedGasStartsCallback` | two workloads in one run: four host calls of every call type, and three of all host calls. Reported gas adds up (but for an excess of forwarded gas, section 5, which occurs) and locked gas starts the callback in both; gas is never created in the first, which is without creation, local asyncCall and gas sent by transferValueExecute (`UnpaidCalls`). `OutputGasAddsUp` joins `OutputGasIsPaid` and `ReportedGasIsProvided` |
| `storage` | `StorageIsWritten`, `ReadsAreCurrent`, `RefundOfSuccess`, `RefundIsEarned` | four hooks of two contracts, two levels of calls |
| `ipc_hooks` | `HookAnswersAreExact`, `StandInsAreDiscarded`, `AcceptedRunsAreExact` (`EffectsMatchOutput`, `OutputsAreExact`) | every hook in both encodings: the host sees what the node answered; with up to two faults an execution that got a stand-in is accepted only if as many requests as responses were lost, so never after a single fault; an accepted output is the one produced, and the node did what was asked, once and in order |
| `instances` | `InstancesInUseAreAlive`, `InstancesAreReleased`, `ExecutionsRunTheirCode`, `DeployedCodeIsVerified` | two transactions with nested calls, deployments, upgrades and panics, with warm instances or with compiled code |
| `instances_warm` | `InstancesInUseAreAlive` (violated) | the finding of section 5 |
| `async_calls` | `CallsAreAnsweredOnce`, `AnswersTellOutcome`, `CallsAreAnswered` | up to three asynchronous calls of three contracts in two shards, nested and failing, with two hooks in each transaction: none is lost, none answered twice, a reported failure left nothing, and all are answered in the end |
| `tokens` | `TokensConserved`, `AttachedTokensAreOwned`, `FailedTransfersAreReturned` | three transfers at up to three nested calls, which the node may refuse, reverts included; calls fail before, within and after their execution, and a caller that goes on has its tokens back but for the late failures of asyncCall (section 5) |
| `big_ints` | `ValuesAreComputed`, `NumbersAreExact`, `NewHandleIsFresh` | four hooks or calls on two handles: exact arithmetic through aliasing and failing calls, and numbers that are read back as they were stored or returned |
| `vm_hooks` | `MemoryIsExact` (`LoadsAreExact`, `StoresAreExact`), `ArgumentsAreContiguous`, `ResultsInOrder` | three hooks, writes or calls, with offsets around and beyond the memory's ends |

Except in `VMDriver` the type invariant (`TypeOK`, in `TokenTransfers`,
`BigIntHooks` and `VMHooks` `TokensTypeOK`, `NumbersTypeOK` and `HooksTypeOK`) is
the first conjunct of one of the invariants above and is checked with it. Where an invariant joins several
parts, each part has a mutant of its own that breaks it.

Bounds. In `VMDriver`: `MaxOps`, `MaxFaults`, `MaxStartFaults`, `MaxHooks`.
Two threads are enough for every conflict over the mutex and the process; a
third operation is needed to see what one failed operation and its successor
leave behind. A time budget of 1 has the three cases that differ: less than,
exactly and more than what remains. `driver_dialogue` trades an operation
for a second hook and a second failing message: a lost response and a lost
request after it are what it takes to see the numbers go out of step and back
again. In `HostExecution`: `MaxOps` host calls,
`MaxInstances` levels. Three calls are the shortest sequence in which a call
succeeds inside one that fails and a further effect tells the difference; the
two contracts own each other so that both directions of an upgrade occur.
Values 0 and 1 and the balance 1 of `a` make a second transfer overdraw.

In `Metering`: `maxOps` host calls of a workload. With every cost 1 and gas 9 or 14 a
transaction can afford three to four nested calls and still run out at each
place; the limits are one that fits and one above any gas left
(`BoundGasLimit`). `MaxInt64` 30 and `MaxUint64` 61 are far enough above 14
that saturation happens only where a caller asks for too much. In `Storage`:
`MaxOps` hooks and `MaxDepth` levels. Four hooks are enough for a read, a
write in a call that fails or succeeds, and a read after it; values of 0, 1
and 2 bytes give every case of the gas (added, deleted, longer, shorter,
equal).

In `IPCHooks`: `MaxCalls` hooks per operation, `MaxDialogues` operations,
`MaxFaults` faults. The second call and the second operation show what the
first left behind, and two faults are what a lost response and a lost request
that make up for each other take (section 5). In `Instances`: `MaxTxs` and `MaxSteps`; two instances at a time
put the limit within reach of a single nested call. In `AsyncCalls`:
`MaxCalls`, `MaxTxs`, `MaxDepth`, `MaxHooks`. Each transaction, those that
deliver a message included, makes up to two hooks (`MaxHooks`), with at most
three asynchronous calls in all: a call from a destination, one from a callback
and one whose maker fails afterwards occur. In `TokenTransfers`: `MaxNest`, `MaxTransfers`; with
one token of each kind per contract a second transfer may be refused, and a
revert too. In `BigIntHooks`: bytes have four values and an int64 two bytes, so
that a few hooks reach every boundary of the encodings; `MaxMagnitude` cuts off
products and shifts far above the range of an int64. In
`VMHooks`: `MaxHookOps` hooks, writes and calls and `MaxDepth` levels; an int32 has two bytes of four values, -8 .. 7, and memory at most
six bytes, so that sums of an offset and a length wrap as they do in 32 bits.

Deadlock checking is off where a bounded run ends when its operations are used
up (`VMDriver`, `HostExecution`, `Metering`, `Storage`, `IPCHooks`,
`Instances`). The other modules have an explicit step for a finished
transaction, and TLC checks that nothing else stops.

Fairness. `NodeFairness` is weak fairness of every thread's steps in the
driver and strong fairness of taking the mutex: Go schedules every runnable
goroutine, deadlines that were set fire, and `sync.Mutex` hands the lock to a
starving waiter. Nothing is assumed of the VM process in `NodeFairSpec`.
`OperationsReturn` is conditional on `ReliableVM`: weak fairness of the VM's
loop, that is a process that does not hang, and no crash. In `AsyncCalls`
fairness is of the node's delivery of messages and of executions ending, which
gas guarantees; no contract is assumed to do anything in particular.

## 4. Theorems

Eight modules hold the proofs: `InterfaceProofs`, `HostExecutionProofs`,
`MeteringProofs`, `AccountProofs`, `HookProofs`, `InstancesProofs`,
`AsyncCallsProofs`, and `SumProofs` with the lemmas on sums, finite sets and
maxima that five of them share. Each theorem holds for every value of the constants that the named
assumptions allow, so for any number of contracts, any depth of calls and any
number of steps.

### VMDriver

For any set of threads, any schedules, budgets and bounds (assumption
`DriverAssumption`):

- `TypeCorrect`, `OperationsGetTheirOwnAnswer`, `NothingIsLeftOver`,
  `DialogueStaysInStep`: `Spec => []P` for `TypeOK`, `AnswersOwnRequest`,
  `QuietBetweenOperations`, `DialogueInStep`.
- `ProcessesLoadTheirOwnCode`, `ContractsRunWithTheSchedule`: the same for
  `CompiledCodeIsOwn` and the action property `ScheduleInForce`.
- `DriverImplementsService`: `Spec => Service!Spec`.

None of the properties is inductive. `DriverInv` (theorem `DriverInvariant`)
adds: exactly the thread inside an operation holds the mutex (`MutexInv`);
operation numbers are unique (`IdentityInv`); at most one message is in flight
and in which phases of the two ends (`OneMessage`); outside an operation a
usable process is at rest (`QuietInv`); inside one, the process is dead, or it
serves this very operation and the numbers of the two messengers differ by the
message in flight and by the messages that the VM lost, each request it could
not send being one that the node has not counted and each response it could
not read one that the VM has not (`LoopInv`); results are those of their operation
(`ResultInv`). The argument is that every way out of an operation either ends
the dialogue on both sides or kills the process, and a killed process is never
used again because its pipes are replaced before the next request.

`DialogueInStep` says what the numbers are worth. The VM never
reads a number that it does not expect. The node does so exactly when `unsent` and `unread`
differ, and then refuses the message and kills the process; that losses which
balance pass is the finding of section 5. `LoopInv` needs the sums
`vmNonce + unread` and `nodeNonce + unsent`, since either side may be ahead.

For the schedule, `ScheduleInv` says that a process that can still answer has
the driver's schedule, unless the change to it is the operation under way; a
change that the process does not answer leaves a process that is killed, and
the next one starts with the driver's schedule.

### HostExecution

`HostExecutionProofs` first proves three invariants from `HostAssumption` alone:
`TypeOK`, `NoOverdraft` and `ContextsAligned`. The inductive invariant
`HostInv` has four parts. `TypeOK`. `GoodInv`: the active output state and
every pushed one are in `GoodOutput` (typed and without overdraft); one lemma
per operator shows that `GoodOutput` is closed under merging, copying,
deploying, deleting and, after `HasSufficientBalance`, moving value, so a pop
never brings an overdraft back. `IdleInv`: the stacks are empty before the
transaction, so that its root frame is the only one. `NestInv`: what
`ContextsAligned` says plus what a pop needs, that the n-th entry of the storage
stack is the address of the call below the (n+1)-th call made on its own context
(`Nest`). `ContextsAligned` alone is not inductive: it says where storage is now
and not where it will be after the next pop.

Its second part proves what the output reports and what a failure restores:

- `FailuresAreUndone`: the action property `FailedCallRestores`.
- `OutputIsTheHistory`: `SuccessIsReported`.
- `ValueIsConserved`: `BalancesConserved`.

All three are about states that are pushed now and come back later, so the
invariant `ReportInv` (theorem `ReportsInvariant`) looks at a ladder of states:
for every call in progress, the output that its caller would get back if it
failed now, with the history that specifies it, and the output and history of
the moment on top (`Outs`, `Hists`). `Level` says that an output and a history
of one level agree: transfers of every account, at most one creation per
address, the code that was deployed, nonces that are used up by the contracts
they named, and nothing at all of addresses of contracts that do not exist
yet. `Rung` adds that the deltas of a level sum up to the value of the
transaction. `Ladder` says that each level only adds to those below
(`Grows`), which is what makes `PopMergeActiveState` lose nothing of the
callee. `Remembered` says that what the auxiliary field `before` noted at a
call is what the level below still has, and `Pushed` ties the level of a
creator to the state that was pushed after the code was deployed: together
they make `PopSetActiveState` and `DeleteOutputAccount` undo the call.
`RestInv` carries the conclusions over the end of the transaction, when the
stacks are gone and `removeNonUpdatedCode` has cleaned the output.

Two hypotheses restrict contracts. `ConstructorsCallNobody`: the init function
of a new contract calls no contract (it may create and upgrade others).
`NoValueAhead`: no value is sent to the address of a contract before it is
created. Without them the code does not have these properties (section 5), and
the run `host_execution` is made under them too.

### Metering

For any contracts, costs, limits and workloads (`MeteringAssumption`) whose
gas, with the gas unlocked for a callback, fits the points counter of an
instance (`GasFitsThePoints`; a counter that is full stops counting, so gas
beyond 63 bits would be free):

- `GasIsNeverFree`: `NoFreeGas`, with `TypeOK`.
- `RefundsAreProvided`: `OutputGasAddsUp`, that is `OutputGasIsPaid` and
  `ReportedGasIsProvided`.
- `LockedGasIsEnough`: the action property `LockedGasStartsCallback`.

`NoFreeGas` says nothing of what a failed call takes back, and is not
inductive. `MeterInv` (theorem `MeterInvariant`) claims three kinds of gas
together: what was burnt, what any frame may still use, and what output
transfers took to other shards (`Claimed`); they never exceed the gas of the
transaction. A call moves gas from its caller to its own frame and its initial
cost to the burnt gas; its end gives back at most what it could still use. A
failure also restores an output that was pushed earlier, so `PushedInv` says
that earlier outputs never sent more than later ones. `FrameInv` bounds every
counter, so that `UseGas` never saturates, and says that locked gas is exactly
the price of the callback; `Linked` says that a destination and its caller's
lock fit one counter together, which the callback is then given.

`ReportedGasIsProvided` is about the GasUsed records, which `checkGas` compares
with the provided gas less a previous total (`totalUsedGas`) and less what the
contract forwarded beyond its means. `Booked` says that the previous total is
0 again when no call on a context of its own is left on the stack, and that
the root frame is the one of the transaction; `FrameInv` says that a frame's
initial cost and its gas for execution are what it was provided with, also
after a creation. `CheckedGas` is the arithmetic that remains: no addition
saturates, and what is subtracted is the excess (section 5) and nothing else.
An earlier form of the property, without `ExcessForwarded`, held in the run
and could not be proved: with another workload TLC finds it violated.

### Storage

For any contracts, keys, values, prices and depth (`StorageAssumption`):
`StorageTypeCorrect`, `StorageIsWhatWasWritten`, `ReadsReturnCurrentValues`,
`RefundsOnlyForSuccess` and `RefundsAreEarned` (`Spec => []P` for `TypeOK`,
`StorageIsWritten`, `ReadsAreCurrent`, `RefundOfSuccess`, `RefundIsEarned`).
`StorageIsWritten` is not inductive, since it says nothing of the states that
were pushed. `StorageInv` adds `FramesCoherent`: each pushed output state shows
the storage expected when it was pushed, so that `PopSetActiveState` after a
failure brings back a coherent pair; and `CacheGrows`: entries are never
removed from the output while a call runs, so every key cached by the caller is
cached by the callee, and a merge, in which the callee wins, changes nothing
that the callee saw. `RefundInv` adds that each pushed refund was earned when
it was pushed; its step for a write needs `StorageIsWritten`, because a write
frees what the old value held. `EarnedInv` says of the storage of the moment,
and of the storage that the failure of any call in progress would bring back,
that what was paid less the refund of that moment covers the growth of the
storage; writes of a failed call stay paid, so bringing an older storage back
only helps.

### TokenTransfers

For any accounts, amounts, supply and depth of calls (`TokensAssumption`: the
accounts are finitely many, amounts are positive, local and remote accounts
are different ones):

- `AttachedTokensOwned`: `AttachedTokensAreOwned`.
- `FailedTransfersReturned`: the action property `FailedTransfersAreReturned`.
- `TokensAreConserved`: `TokensConserved`, if no token with a nonce is sent
  abroad by asyncCall (`AsyncNFTAbroad` is FALSE; otherwise the code records
  the transfer twice, section 5).

The inductive invariant `TokensInv` (theorem `TokensInvariant`) has types and
three further parts. `GoodCall`, of every call in progress and the balances of
the moment: the built-in input that started it is read alike by host, node and
callee wherever they take value and receiver from (`WellFormed`); what it sees
attached is what the input moved, to itself, and it owns that much while it
has not used it; and while nobody touched the tokens since, its caller has what
it had before less what it spent, so that the revert restores exactly that, and
a late failure of asyncCall, without a revert, leaves exactly that.
Transfers by other calls meet this part through the ghosts `touched` and
`used`: each transfer marks the calls whose tokens it involves (`TouchedBy`).
`GoodNest`, of the outputs that the calls saved when they began: each is
extended by the next one (`Extends`), so the merge after a success leaves the
callee's output as it is; and a call that has sent nothing, and whose own
transfer stays in the shard (`Stays`), left unchanged what the output carries
(`SameCarried`), so that dropping its output after a failure loses no tokens. `Conserved`: the sum of all balances and of all that the
output carries is the initial one, unless a call that had sent tokens or had
carried them abroad has failed or is failing. `TokensConserved` alone is not inductive, because a
failure brings an older output back and the balances stay.

### IPCHooks

For any accounts, storage keys, outputs and encodings, and for any number of
calls, operations and faults (`HookAssumption`, and `ValueAssumption` for what
the types of Go guarantee: nil is no account and no output, a hash is not
empty, the maps of an output are finite and keyed by the address and the offset
in their items):

- `HookAnswersExact`: `HookAnswersAreExact`, for all 25 hooks.
- `StandInsDiscarded`: `StandInsAreDiscarded`.
- `AcceptedRunsExact`: `AcceptedRunsAreExact`, that is `TypeOK`,
  `EffectsMatchOutput` and `OutputsAreExact`.

The proof has two parts. The first is about data: kinds lead back to their
hook (`KindsOf`), the receiver makes a message with exactly the fields that
the constructor filled (`CreatedFields`, `FieldsArrive`), maps and outputs are
rebuilt from their lists (`MapsAreRebuilt`, `OutputsAreRebuilt`), so that for
every hook what the gateway returns looks to the host like what the node's hook
returned, although gob changes empty values (`AnswersAreExact`). The second is
the inductive invariant `HookInv` (theorem `DialogueInvariant`). `Dialogue`
says that at most one message is on its way, which of four it may be
(`Asking`, `Ending`, `Starting`, `Replying`), that its content is the one that
the state determines, and in each case how the numbers of the two messengers,
the requests and responses that were lost and the effects asked and done
relate. When nothing is on its way, the VM's number plus the responses lost is
the node's number plus the requests lost: the node takes a message only if
these losses are equal, which is `StandInsAreDiscarded`, and then nothing that
was asked is missing. A message may be left in a pipe only by a process that
will be replaced, pipes included (`Processes`). An answer does not depend on
what the call itself changed in the node (`AnswersAreStable`), so the response
in the pipe can be compared with the node's state of the moment.

### Instances

- `NoInstanceLeaks` (`InstancesAreReleased`, with `TypeOK`) and
  `NoDestroyedInstanceRuns` (`InstancesInUseAreAlive`), when no setting keeps
  an instance warm and also has code compiled ahead of time
  (`WarmOrCompiled`). With both the second is false: the run `instances_warm`
  shows it (section 5).
- `CallsRunTheRightCode` (`ExecutionsRunTheirCode`), also if no contract is
  called in the transaction that upgrades it (`CallAfterUpgrade` is FALSE).
- `OnlyVerifiedCodeIsDeployed` (`DeployedCodeIsVerified`), also if the
  contracts of the start were verified (`InitialCodeIsVerified`).

`RuntimeInv` is the inductive invariant: all instances on the stack are alive
and each is younger than those below it, so that no instance but the warm one
is there twice (`StackInv`); the current instance is younger still
(`CurrentInv`); the warm instance is alive and nothing in use is younger
(`WarmInv`); an instance that is not destroyed is in use or warm
(`ReleaseInv`); and the stack has one entry less than there are executions.
Age is what makes the proof work: cleaning the current instance cannot hit one
that is still waited for. `CompiledInv` and `RunsInv` add what the compiled
code was compiled from and which code each instance of the stack was made
from; `VerifiedInv` follows unverified code from the frame that deploys it to
the output and through the states that failures bring back.

### AsyncCalls

For any contracts, shards, depth and numbers of calls (`AsyncAssumption`):
`NoCallIsLostOrDoubled` (`CallsAreAnsweredOnce`) and `AnswersAreTrue`
(`AnswersTellOutcome`). A failure goes back to a state saved when its frame
began, so `CallsInv` says the same of the state of the moment and of the state
saved by every frame (`StateInv`, `FrameInv`): given the calls that the frames
below are executing (`Pending`), every other call that was made is in exactly
one message or has exactly one answer (`AccountInv`), what answers and
messages report is what happened, and a call that has failed or not begun has
made no calls of its own (`OutcomeInv`). The last point needs the number of the
call within which a frame works, which a saved state cannot know yet.

### BigIntHooks

For any bytes, handles, storage keys, arguments and depth of calls:

- `NumbersAreComputed`: `ValuesAreComputed`.
- `NewHandlesAreFresh`: the action property `NewHandleIsFresh`.

`ValuesAreComputed` compares the numbers behind the handles with the ghost
`expect`, and is not inductive: a hook writes through a pointer, and nothing in
the property says which other handles share it. `NumbersInv` (theorem
`NumbersInvariant`) looks at all maps from handles to cells at once, the active
one and the one that each call in progress has pushed. No two handles share a
cell, neither within a map nor between two (`Separate`); the cells exist and are
finitely many, so that a new one can be found; and every handle of every map has
the number computed for it when its call was running (`Exact`). `clone` is what
keeps the maps apart when a call begins (`CloneCopies`); a hook that creates the
handles it names and then writes one of them changes one number of one map, also
when its operands are the same handle; a failure brings back a map whose cells
nobody else could reach. That `bigIntNew` finds a free handle is the lemma
`NewHandleIsFree`: the first number from the size of the map on that is no
handle exists because the handles are finitely many.

### VMHooks

For any sizes of a byte, an int32, a page and a memory below 2 GB, any offsets,
strings, hooks and depth of calls (`SizesAssumption`):

- `BytesAreExchanged`: `MemoryIsExact`.
- `ResultsStayInOrder`: `ResultsInOrder`.

The first rests on the arithmetic of int32. `AddInt32` of two numbers that are
not negative is their sum or the largest int32 (`AddSaturates`), and a memory is
smaller than that, so the end of a range is either exact or recognised as
outside of the memory. `LoadIsExact` and `StoreIsExact` then follow the checks
of `MemLoad` and `MemStore` in the order of the code, for every memory that is
within the limit; `StoreKeepsMemory` says that a store keeps it there, whatever
is stored. Each of the hooks is shown to be a `HookStep`: it stores into the
memory of the running instance alone and appends at most one result, to the
output and to the ghost `done` alike.

The inductive invariant `HooksInv` (theorem `HooksInvariant`) has the limit for
the memory of every call in progress (`GoodMemories`) and the order of the
results for each of them (`GoodResults`): what a call has returned comes after
what was there when the last call on a new context began (`Earlier`). A call on
a new context starts that history anew; its end joins its results after its
caller's, and three parts can be joined in either order; a failure goes back to
the results and the history that the caller had.

### Sums

`BalancesConserved`, `RefundIsEarned`, `TokensConserved` and `NoFreeGas` are
about sums over functions (`SumFunction` of the community modules), which are folds: a CHOOSE
of a recursive function on sets. `SumProofs` derives what the proofs need (a
sum changes by what one place changes, agrees where functions agree, is
natural when its parts are) without induction: the recursive function of a
finite set exists and is unique, because a smallest set for which it does not,
or is not, could be made smaller by one element. The same argument with
smallest counterexamples stands wherever induction would.

### Checked by TLC only

- The liveness properties `OperationsTimeOut`, `OperationsReturn` and
  `CallsAreAnswered`: fairness and ENABLED are beyond the prover.
- `NumbersAreExact` of `BigIntHooks`: that two's complement and unsigned bytes
  are decoded to the number that was encoded is an induction over the digits.
- `ArgumentsAreContiguous` of `VMHooks`, with the byte types: the loop of
  `MemLoadMultiple` and the conversion of the lengths are folds over sequences
  and powers of the base, which need induction too.

## 5. Findings

A disagreement between a comment and the code, with a run that shows it
(`instances_warm`): `popInstance` destroys the instance of a finished call
unless it is the warm one at that moment. With warm instances and compiled
code together, contract `a` runs on the warm instance, calls `b`, and `b` calls
`a` again on the same warm instance; if a call in between makes another
instance the warm one, the pop destroys the instance on which the outer
execution of `a` resumes. The comment at `vmhost/contexts/runtime.go:334-337`
says that a check keeps a running instance from being cleaned while required.

Other behaviour met while modelling, which the models contain and the passing
runs leave aside, by their constants or by what their properties say.

Driver and messages:

- `doLoop` accepts a message after which exactly 0 ms remain
  (`ipc/nodepart/part.go:103`) and the next receive then has no deadline
  (`ipc/common/receiver.go:28`). If the VM dies or hangs, the operation and
  everybody behind the mutex wait for ever (`OperationsTimeOut` excludes it).
- After a start that fails before the process exists
  (`ipc/nodepart/vmDriver.go:93`) the next operation panics in `IsClosed`
  (`:203`).
- Two complementary faults go unnoticed: a response that cannot be decoded
  leaves the VM's number behind, a later request that cannot be encoded uses
  one up, and the numbers are in step again. `StandInsAreDiscarded` says
  precisely that: an execution that got a stand-in is accepted only if both
  kinds of losses balance.
- An error loses its identity on the way, and an error with an empty text is
  lost altogether (`messages.go`, `SetError` and `GetError`); the text is taken
  as a format, so a `%` in it is mangled.
- JSON replaces invalid UTF-8 in strings, gob turns an empty slice into nil;
  `GetStorageData` drops the depth in the trie and `IsPayable` the sender; a nil
  output comes back as an empty one.

Host:

- A nested `executeReadOnly` ends the read-only mode of the outer one
  (`vmhooks/baseOps.go:2355`).
- A failed creation drops the output account of the address together with
  value received there earlier in the transaction
  (`hostCore/execution.go:436`).
- A synchronously executed asyncCall returns gas that its destination burnt:
  `executeSyncCallbackCall` sets the caller's points to 0
  (`hostCore/asyncCall.go:186`).
- `storageLoad` reads keys of the node from the cache (`contexts/storage.go:104`),
  where `storageLoadFromAddress` takes care not to (`:136-140`).
- The value of a callback is taken from the last transfer in the output, which
  may be older than the call (`hostCore/asyncCall.go:347`).
- A contract that is created by a contract is started as if its code were old,
  so it is not verified (`hostCore/execution.go:442`, `contexts/runtime.go:222`;
  `DeployedCodeIsVerified` is about the others).
- Compiled code is found by the hash that the node knows
  (`contexts/blockchain.go:127`): a contract that is called in the transaction
  that upgrades it runs its old code, and its new code may be saved under the
  old hash (`CallAfterUpgrade`).
- With warm instances, an upgrade of the warm contract finds its old instance
  (`contexts/runtime.go:124`): the new code is neither compiled nor verified and
  the old init runs. A warm instance that is replaced is never destroyed.

Tokens:

- Tokens that a callee sent before it failed are not taken back when its
  caller goes on; only the transfer that paid for the call is
  (`TokensConserved` is claimed while that has not happened). The record in
  OutputTransfers stays when a transfer is taken back.
- A revert that the node refuses does not stop a caller that used asyncCall.
- An asyncCall with tokens may fail without any revert. After the built-in
  function has moved the tokens, the data of the transfer may not be parsed
  (`hostCore/execution.go:1017-1021`, returned at `797-800` and `601-604`);
  after the destination has succeeded, `processAsyncInfo` (`:251`) or the gas
  check of `GetVMOutput` (`:266`, `contexts/output.go:447-456`) may fail. In all
  these cases the caller's callback is told of a failure and runs without the
  tokens, which the receiver keeps. If they went abroad, the OutputTransfer that should take
  them there is dropped with the output, and they are gone (`dirty`).
  `FailedTransfersAreReturned` names the case and says exactly what is missing.
- A token with a nonce that is sent abroad by asyncCall is recorded twice
  (`TokensConserved` fails once `AsyncNFTAbroad` is TRUE).

Hooks:

- `getCallValueTokenName` copies into a slice of length zero. Negative indices
  make `bigIntGetUnsignedArgument`, `bigIntGetSignedArgument`, `getReturnData`
  and `getReturnDataSize` panic, which the host catches; so does a missing token
  in `getDCDTBalance` and `getDCDTTokenData` (`Panic` of `VMHooks`).
- The size of the table of argument lengths, `numArguments * 4`, wraps as an
  int32 (`ArgumentsAreContiguous` is about counts for which it does not).
- `upgradeContract` does not hex-encode the arguments that it puts together.

Contexts, from earlier modules:

- `IsClosed` takes a process that ended by itself for alive; the next operation
  fails on it and closes it, the one after it restarts.
- `codeUpdates` is not popped: code of a failed upgrade is gone, but the
  unchanged code of the contract is reported as updated
  (`DeployedCodeIsReported` states the other direction).
- The creator's nonce is increased after init. A creator called back from init
  creates a second contract at the address (`CreatedOnce` fails once
  `InitTargets` holds the creator).
- `DeductInitialGasForIndirectDeployment` overwrites the creator's initial
  cost, which is thereby given back (`NoFreeGas` fails without `UnpaidCalls`, for
  `create`).
- Forwarded gas is kept per address: a contract that calls another and then
  itself loses gas that the inner execution left.
- `GetVMOutput` assigns `GasUsed` of an account: the gas of a contract that
  runs twice leaves room in the gas check for transfers nobody paid for
  (`OutputGasIsPaid` fails without `UnpaidCalls`, for `transfer`).
- Gas states are not popped: calls that fail after a re-entrance leave gas that
  counts as forwarded twice. When a contract has thus forwarded more than it
  was provided with, `checkGas` subtracts the excess from the total
  (`contexts/output.go:488`), and the GasUsed records and transfers of a
  successful transaction may add up to more than the gas provided
  (`ExcessForwarded` in `ReportedGasIsProvided`). No gas remains then, and
  what calls that are paid in full burn is still bounded (`OutputGasIsPaid`).
- A call on another context replaces the refund earned so far by the callee's
  own; `RefundOfSuccess` is therefore an inequality.
- The key of a time lock has the protected part at its end (`CustomStorageKey`
  appends it), so `isVMProtectedKey` does not recognise it and `storageStore`
  can write it.

## 6. Plan

Done: the modules of section 2 and the proofs of section 4. Next, in this
order:

1. A tighter bound of the excess in `ReportedGasIsProvided`: an invariant that
   relates forwarded and returned gas of every contract on the stack.
2. An abstract specification of a transaction (calls take effect entirely or
   not at all) that `Storage` and `HostExecution` implement.

## 7. Not modelled, and why

- `wasmer`: bindings to a native library. Instances are modelled with when they
  are made and destroyed, their memory with `MemLoad` and `MemStore`; what a
  contract computes is arbitrary.
- `crypto`: wrappers of libraries; the hooks that call them are in `VMHooks`,
  their results are arbitrary.
- `config`: tables of costs without behaviour of their own. The models take
  costs as constants.
- `mock`, `scenarioexec`, `cmd`, `vmserver`, `fuzz`, `testcommon`: test support
  and tools.
- The code of async contexts, which nothing reaches (section 1).
- The gas of built-in functions and of upgrades, and the gas of each hook
  beyond the fact that it may run out there.
- Bytes of messages: JSON and gob are modelled with what they do to nil, empty
  and zero values, not with their formats.
- Full pipes: a write is assumed to complete.
- In `Instances`, a failing hash of the code and a failing `Cache` of a new
  instance (`contexts/runtime.go:201-208`, `252-257`): the first cleans the new
  instance and fails the start, as code that is refused does; the second only
  leaves compiled code unsaved.
- In `AsyncCalls`, a callback that cannot start for lack of gas
  (`hostCore/asyncCall.go:390-392`, `173-176`) is not told apart from one that
  ran: `FinishDest` records an answer in both cases. `LockedGasStartsCallback`
  of `Metering` is the property that says when the gas is there.
