------------------------------ MODULE VMDriver ------------------------------
(***************************************************************************)
(* The out-of-process VM: the node's driver (ipc/nodepart), the VM process *)
(* (ipc/vmpart) and the messengers and pipes between them (ipc/common).    *)
(*                                                                         *)
(* Several node threads call the driver.  An operation takes               *)
(* operationsMutex, restarts the VM process if it is closed, writes one    *)
(* request and then answers the VM's hook calls until the response comes,  *)
(* the time budget runs out or something fails; a failure kills the        *)
(* process.  The VM process serves one request at a time.  Both ends       *)
(* number the messages of a dialogue and reset the number between          *)
(* dialogues.                                                              *)
(*                                                                         *)
(* A request carries the identity of the operation that sent it and a      *)
(* response the identity it answers: they stand for the payload.           *)
(***************************************************************************)
EXTENDS Integers, Sequences

CONSTANTS Threads,          \* node threads that use the driver
          Schedules,        \* gas schedules a caller may pass
          ValidSchedules,   \* the ones config.CreateGasConfig accepts
          InitialSchedule,  \* the schedule of the first start
          MaxLoopTime,      \* Config.MaxLoopTime
          MaxOps,           \* bound: operations called
          MaxFaults,        \* bound: crashes and outside Close calls
          MaxStartFaults,   \* bound: failing startVM, encodings and decodings
          MaxHooks          \* bound: hook calls of one request

ASSUME DriverAssumption ==
  /\ ValidSchedules \subseteq Schedules
  /\ InitialSchedule \in ValidSchedules
  /\ MaxLoopTime \in Nat
  /\ MaxOps \in Nat /\ MaxFaults \in Nat /\ MaxStartFaults \in Nat
  /\ MaxHooks \in Nat

VARIABLES
  mutex,        \* operationsMutex: FREE or {the thread that holds it}
  pc,           \* where each thread is inside the driver
  op,           \* the operation each thread performs, or performed last
  result,       \* what the thread's last operation returned
  schedule,     \* driver.vmArguments.GasSchedule
  proc,         \* driver.command.Process: "running", "zombie" (exited, not
                \* waited for), "reaped", or "nil" (command never started)
  part,         \* driver.part: "current", or "stale" when it still holds the
                \* pipes of an earlier process
  nodeNonce,    \* Nonce of the node's messenger
  remaining,    \* remainingMilliseconds of the node's loop
  toVM, toNode, \* the pipes of the current process
  vmPc,         \* where the VM process is in its loop
  vmNonce,      \* Nonce of the VM's messenger
  vmSchedule,   \* the gas schedule the VM host works with
  vmReq,        \* the request being served
  hooks,        \* hook calls made for it
  unsent,       \* hook calls of it that could not be sent
  unread,       \* responses to its hook calls that could not be read
  gen,          \* how many processes were started
  compiled,     \* processes whose compiled code the node's cache holds
  loaded,       \* processes whose compiled code the current process loaded
  served,       \* history: operations a VM process has executed
  ops, faults, startFaults  \* bounded counters

nodeVars == <<mutex, pc, op, result, schedule, part, nodeNonce, remaining>>
lost == <<unsent, unread>>
vmVars == <<vmPc, vmNonce, vmSchedule, vmReq, hooks, lost, loaded, served>>
vars == <<mutex, pc, op, result, schedule, proc, part, nodeNonce,
          remaining, toVM, toNode, vmPc, vmNonce, vmSchedule, vmReq, hooks,
          lost, gen, compiled, loaded, served, ops, faults, startFaults>>

Kinds == {"Version", "Contract", "GasScheduleChange", "DiagnoseWait"}
Op == [kind : Kinds, id : Nat, schedule : Schedules]
NoOp == [kind |-> "Version", id |-> 0, schedule |-> InitialSchedule]

(* What an operation returns: the response, a critical error, the panic of *)
(* a failed type assertion or that of a nil Process.  "schedule" is the    *)
(* one the answer was computed with.                                       *)
Failure(kind) == [kind |-> kind, id |-> 0, schedule |-> InitialSchedule]
Critical == Failure("critical")

(* kind "HookCall" and "HookResponse" stand for the Blockchain* kinds;     *)
(* "what" tells apart the two hooks that handle compiled code.             *)
HookKinds == {"SaveCompiledCode", "GetCompiledCode", "OtherHook"}
Message(kind, nonce, id, sched, what, codes) ==
  [kind |-> kind, nonce |-> nonce, id |-> id, schedule |-> sched,
   what |-> what, codes |-> codes]
Request(o, nonce) == Message(o.kind, nonce, o.id, o.schedule, "request", {})
Response(m, nonce) == Message(m.kind, nonce, m.id, vmSchedule, "response", {})
HookCall(what, nonce) ==
  Message("HookCall", nonce, vmReq.id, vmSchedule, what, {gen})
HookResponse(m, nonce) ==
  Message("HookResponse", nonce, m.id, m.schedule, m.what,
          IF m.what = "GetCompiledCode" THEN compiled ELSE {})

-----------------------------------------------------------------------------
Init ==
  /\ mutex = {}
  /\ pc = [t \in Threads |-> "idle"]
  /\ op = [t \in Threads |-> NoOp]
  /\ result = [t \in Threads |-> Failure("none")]
  /\ schedule = InitialSchedule
  /\ proc = "running" /\ part = "current"
  /\ nodeNonce = 0 /\ remaining = 0
  /\ toVM = <<>> /\ toNode = <<>>
  /\ vmPc = "init" /\ vmNonce = 0
  /\ vmSchedule = InitialSchedule /\ vmReq = Request(NoOp, 0) /\ hooks = 0
  /\ unsent = 0 /\ unread = 0
  /\ gen = 1 /\ compiled = {} /\ loaded = {} /\ served = {}
  /\ ops = 0 /\ faults = 0 /\ startFaults = 0

-----------------------------------------------------------------------------
(* The node's side.                                                        *)

(* A thread calls GetVersion, GasScheduleChange, RunSmartContractCreate,   *)
(* RunSmartContractCall or DiagnoseWait and waits for the mutex.           *)
Call(t) ==
  /\ pc[t] = "idle" /\ ops < MaxOps
  /\ ops' = ops + 1
  /\ \E k \in Kinds, s \in Schedules :
       /\ k # "GasScheduleChange" => s = InitialSchedule
       /\ op' = [op EXCEPT ![t] = [kind |-> k, id |-> ops + 1, schedule |-> s]]
  /\ pc' = [pc EXCEPT ![t] = "lock"]
  /\ UNCHANGED <<mutex, result, schedule, proc, part, nodeNonce, remaining,
                 toVM, toNode, vmVars, gen, compiled, faults, startFaults>>

(* Mutants: the schedule sent to the VM but not kept for restarts; no      *)
(* mutual exclusion.                                                       *)
LockKeepsOldSchedule(t) ==
  /\ pc[t] = "lock" /\ mutex = {}
  /\ mutex' = {t}
  /\ pc' = [pc EXCEPT ![t] = "restart"]
  /\ UNCHANGED <<op, result, schedule, proc, part, nodeNonce, remaining,
                 toVM, toNode, vmVars, gen, compiled, ops, faults, startFaults>>

LockWithoutMutex(t) ==
  /\ pc[t] = "lock"
  /\ schedule' = IF op[t].kind = "GasScheduleChange" THEN op[t].schedule
                 ELSE schedule
  /\ pc' = [pc EXCEPT ![t] = "restart"]
  /\ UNCHANGED <<mutex, op, result, proc, part, nodeNonce, remaining, toVM,
                 toNode, vmVars, gen, compiled, ops, faults, startFaults>>

(* operationsMutex.Lock(); GasScheduleChange also stores the schedule that *)
(* the next started process will get.                                      *)
Lock(t) ==
  /\ pc[t] = "lock" /\ mutex = {}
  /\ mutex' = {t}
  /\ schedule' = IF op[t].kind = "GasScheduleChange" THEN op[t].schedule
                 ELSE schedule
  /\ pc' = [pc EXCEPT ![t] = "restart"]
  /\ UNCHANGED <<op, result, proc, part, nodeNonce, remaining, toVM, toNode,
                 vmVars, gen, compiled, ops, faults, startFaults>>

(* IsClosed sends signal 0, which fails only once the process was waited   *)
(* for; it panics on a command that never started.                         *)
IsClosed == proc = "reaped"

(* Mutant: an early return that leaves the mutex locked.                   *)
ReturnWithoutUnlock(t, r) ==
  /\ result' = [result EXCEPT ![t] = r]
  /\ pc' = [pc EXCEPT ![t] = "idle"]
  /\ UNCHANGED mutex

(* The end of an operation: the result is returned and the mutex unlocked. *)
Return(t, r) ==
  /\ result' = [result EXCEPT ![t] = r]
  /\ mutex' = {}
  /\ pc' = [pc EXCEPT ![t] = "idle"]

(* RestartVMIfNecessary finds the process alive.                           *)
NoRestart(t) ==
  /\ pc[t] = "restart" /\ ~IsClosed /\ proc # "nil"
  /\ pc' = [pc EXCEPT ![t] = "send"]
  /\ UNCHANGED <<mutex, op, result, schedule, proc, part, nodeNonce,
                 remaining, toVM, toNode, vmVars, gen, compiled, ops, faults,
                 startFaults>>

(* driver.command.Process.Pid of a command whose start failed.             *)
IsClosedPanics(t) ==
  /\ pc[t] = "restart" /\ proc = "nil"
  /\ Return(t, Failure("nilProcess"))
  /\ UNCHANGED <<op, schedule, proc, part, nodeNonce, remaining, toVM,
                 toNode, vmVars, gen, compiled, ops, faults, startFaults>>

(* command.Start(): a fresh VM on the pipes resetPipeStreams has made.  It *)
(* waits for the driver's arguments before anything else.                  *)
StartProcess(at) ==
  /\ proc' = "running" /\ gen' = gen + 1
  /\ vmPc' = at /\ vmNonce' = 0 /\ vmSchedule' = schedule
  /\ hooks' = 0 /\ loaded' = {}
  /\ UNCHANGED <<vmReq, lost, served>>

(* Mutant: startVM without ClearCompiledCodes.                             *)
StartVMKeepsCompiledCodes(t) ==
  /\ pc[t] = "restart" /\ IsClosed
  /\ toVM' = <<>> /\ toNode' = <<>>
  /\ StartProcess("init")
  /\ part' = "current" /\ nodeNonce' = 0
  /\ pc' = [pc EXCEPT ![t] = "send"]
  /\ UNCHANGED <<mutex, op, result, schedule, remaining, compiled, ops, faults,
                 startFaults>>

(* startVM succeeds: new pipes, new process, cleared compiled codes and a  *)
(* NodePart of its own.                                                    *)
StartVM(t) ==
  /\ pc[t] = "restart" /\ IsClosed
  /\ toVM' = <<>> /\ toNode' = <<>>
  /\ StartProcess("init")
  /\ compiled' = {}
  /\ part' = "current" /\ nodeNonce' = 0
  /\ pc' = [pc EXCEPT ![t] = "send"]
  /\ UNCHANGED <<mutex, op, result, schedule, remaining, ops, faults, startFaults>>

(* startVM fails: before or in command.Start(), in SendVMArguments, or     *)
(* after NewNodePart (logsPart.StartLoop).  The operation returns a        *)
(* critical error and closes nothing.                                      *)
StartVMFails(t) ==
  /\ pc[t] = "restart" /\ IsClosed /\ startFaults < MaxStartFaults
  /\ startFaults' = startFaults + 1
  /\ toVM' = <<>> /\ toNode' = <<>>
  /\ \/ /\ proc' \in {"reaped", "nil"}
        /\ part' = "stale"
        /\ UNCHANGED <<gen, vmVars, compiled, nodeNonce>>
     \/ /\ StartProcess("noArguments")
        /\ part' = "stale"
        /\ UNCHANGED <<compiled, nodeNonce>>
     \/ /\ StartProcess("init")
        /\ compiled' = {} /\ part' = "current" /\ nodeNonce' = 0
  /\ Return(t, Critical)
  /\ UNCHANGED <<op, schedule, remaining, ops, faults>>

(* NodePart.StartLoop up to the receive: Messenger.Send numbers the        *)
(* request and writes it.                                                  *)
SendContractRequest(t) ==
  /\ pc[t] = "send" /\ part = "current"
  /\ nodeNonce' = nodeNonce + 1
  /\ toVM' = Append(toVM, Request(op[t], nodeNonce + 1))
  /\ remaining' = MaxLoopTime
  /\ pc' = [pc EXCEPT ![t] = "receive"]
  /\ UNCHANGED <<mutex, op, result, schedule, proc, part, toNode, vmVars,
                 gen, compiled, ops, faults, startFaults>>

(* Mutant: a failed operation leaves its process running.                  *)
CloseNothing == UNCHANGED proc

(* Close: Kill and Wait.  Killing a process already waited for is an error *)
(* that changes nothing.                                                   *)
Close == proc' = "reaped"

(* Messenger.Send fails, on a pipe closed by resetPipeStreams or in the    *)
(* marshalizer: StartLoop returns without ResetDialogue, the driver closes *)
(* the process.                                                            *)
SendFails(t) ==
  /\ pc[t] = "send"
  /\ \/ part = "stale" /\ UNCHANGED startFaults
     \/ /\ part = "current" /\ startFaults < MaxStartFaults
        /\ startFaults' = startFaults + 1
  /\ nodeNonce' = nodeNonce + 1
  /\ Close
  /\ Return(t, Critical)
  /\ UNCHANGED <<op, schedule, part, remaining, toVM, toNode, vmVars, gen,
                 compiled, ops, faults>>

(* Mutant: a failed loop that only resets the dialogue.                    *)
FailLoopWithoutClose(t) ==
  /\ nodeNonce' = 0
  /\ Return(t, Critical)
  /\ UNCHANGED proc

(* doLoop ends with an error: StartLoop resets the dialogue, the driver    *)
(* closes the process and returns a critical error.                        *)
FailLoop(t) ==
  /\ nodeNonce' = 0
  /\ Close
  /\ Return(t, Critical)

(* Mutant: every receive waits without a deadline.                         *)
ReceiveNeverTimesOut(t) == pc[t] = "receive" /\ FALSE /\ UNCHANGED vars

(* The read deadline passes.  Receiver.Receive sets one only for a         *)
(* positive timeout.                                                       *)
ReceiveTimeout(t) ==
  /\ pc[t] = "receive" /\ remaining > 0
  /\ FailLoop(t)
  /\ UNCHANGED <<op, schedule, part, remaining, toVM, toNode, vmVars, gen,
                 compiled, ops, faults, startFaults>>

(* What an operation makes of the final response: GetVersion and the       *)
(* contract operations assert its type, the others only read its error.    *)
Outcome(o, m) ==
  IF o.kind \in {"Version", "Contract"} /\ m.kind # o.kind
  THEN Failure("badType")
  ELSE [kind |-> "ok", id |-> m.id, schedule |-> m.schedule]

(* The reply to a hook call: the hook runs on the node, its response is    *)
(* numbered and written, or cannot be sent.                                *)
ReplyToHookCallRequest(t, m) ==
  /\ compiled' = IF m.what = "SaveCompiledCode" THEN compiled \cup m.codes
                 ELSE compiled
  /\ \/ /\ nodeNonce' = m.nonce + 1
        /\ toVM' = Append(toVM, HookResponse(m, m.nonce + 1))
        /\ UNCHANGED <<mutex, pc, result, proc, startFaults>>
     \/ /\ startFaults < MaxStartFaults
        /\ startFaults' = startFaults + 1
        /\ FailLoop(t)
        /\ UNCHANGED toVM

(* Mutant: doLoop without the check of the time left.                      *)
RefusedForNonceOnly(m, duration) == m.nonce # nodeNonce + 1

(* Messenger.Receive refuses a message out of sequence, doLoop one that    *)
(* took longer than what remained.                                         *)
Refused(m, duration) == m.nonce # nodeNonce + 1 \/ remaining < duration

(* One round of doLoop with a message at hand that took "duration", or     *)
(* that readMessage cannot decode.                                         *)
Receive(t, duration) ==
  /\ pc[t] = "receive" /\ toNode # <<>>
  /\ toNode' = Tail(toNode)
  /\ \/ LET m == Head(toNode) IN
        IF Refused(m, duration)
        THEN FailLoop(t) /\ UNCHANGED <<remaining, toVM, compiled, startFaults>>
        ELSE /\ remaining' = remaining - duration
             /\ IF m.kind = "HookCall"
                THEN ReplyToHookCallRequest(t, m)
                ELSE /\ nodeNonce' = 0
                     /\ Return(t, Outcome(op[t], m))
                     /\ UNCHANGED <<proc, toVM, compiled, startFaults>>
     \/ /\ startFaults < MaxStartFaults
        /\ startFaults' = startFaults + 1
        /\ FailLoop(t)
        /\ UNCHANGED <<remaining, toVM, compiled>>
  /\ UNCHANGED <<op, schedule, part, vmVars, gen, ops, faults>>

-----------------------------------------------------------------------------
(* The VM process.                                                         *)

Running == proc = "running"
Exit == proc' = "zombie"

(* NewVMPart: a schedule that CreateGasConfig refuses ends the process.    *)
NewVMPart ==
  /\ Running /\ vmPc = "init"
  /\ IF vmSchedule \in ValidSchedules THEN UNCHANGED proc ELSE Exit
  /\ vmPc' = "receive"
  /\ UNCHANGED <<nodeVars, toVM, toNode, vmNonce, vmSchedule, vmReq, hooks,
                 lost, loaded, served, gen, compiled, ops, faults, startFaults>>

(* ReceiveNodeRequest; a wrong number ends the loop and the process.       *)
ReceiveNodeRequest ==
  /\ Running /\ vmPc = "receive" /\ toVM # <<>>
  /\ toVM' = Tail(toVM)
  /\ IF Head(toVM).nonce = vmNonce + 1
     THEN /\ vmNonce' = vmNonce + 1
          /\ vmReq' = Head(toVM) /\ hooks' = 0 /\ vmPc' = "serve"
          /\ unsent' = 0 /\ unread' = 0
          /\ UNCHANGED proc
     ELSE Exit /\ UNCHANGED <<vmNonce, vmReq, hooks, lost, vmPc>>
  /\ UNCHANGED <<nodeVars, toNode, vmSchedule, loaded, served, gen, compiled, ops,
                 faults, startFaults>>

(* Mutant: a request that cannot be encoded takes no number.               *)
SendHookCallRequestNumbersLast ==
  /\ Running /\ vmPc = "serve" /\ vmReq.kind = "Contract" /\ hooks < MaxHooks
  /\ hooks' = hooks + 1
  /\ \/ /\ vmNonce' = vmNonce + 1
        /\ \E what \in HookKinds :
             toNode' = Append(toNode, HookCall(what, vmNonce + 1))
        /\ vmPc' = "hook"
        /\ UNCHANGED <<unsent, startFaults>>
     \/ /\ startFaults < MaxStartFaults
        /\ startFaults' = startFaults + 1
        /\ unsent' = unsent + 1
        /\ UNCHANGED <<vmNonce, toNode, vmPc>>
  /\ UNCHANGED <<nodeVars, proc, toVM, vmSchedule, vmReq, unread, loaded,
                 served, gen, compiled, ops, faults>>

(* Serving a contract request calls hooks of the blockchain.  Messenger.Send *)
(* takes a number before it encodes: a request that cannot be encoded uses  *)
(* one up, and the execution goes on with what the gateway stands in.       *)
SendHookCallRequest ==
  /\ Running /\ vmPc = "serve" /\ vmReq.kind = "Contract" /\ hooks < MaxHooks
  /\ vmNonce' = vmNonce + 1 /\ hooks' = hooks + 1
  /\ \/ /\ \E what \in HookKinds :
             toNode' = Append(toNode, HookCall(what, vmNonce + 1))
        /\ vmPc' = "hook"
        /\ UNCHANGED <<unsent, startFaults>>
     \/ /\ startFaults < MaxStartFaults
        /\ startFaults' = startFaults + 1
        /\ unsent' = unsent + 1
        /\ UNCHANGED <<toNode, vmPc>>
  /\ UNCHANGED <<nodeVars, proc, toVM, vmSchedule, vmReq, unread, loaded,
                 served, gen, compiled, ops, faults>>

(* The hook's answer.  One that cannot be decoded or has a wrong number is  *)
(* gone from the pipe, its number is not taken over, and the execution goes *)
(* on with what the gateway stands in.                                      *)
ReceiveHookCallResponse ==
  /\ Running /\ vmPc = "hook" /\ toVM # <<>>
  /\ toVM' = Tail(toVM)
  /\ \/ /\ IF Head(toVM).nonce = vmNonce + 1
           THEN /\ vmNonce' = vmNonce + 1
                /\ loaded' = loaded \cup Head(toVM).codes
                /\ UNCHANGED unread
           ELSE unread' = unread + 1 /\ UNCHANGED <<vmNonce, loaded>>
        /\ UNCHANGED startFaults
     \/ /\ startFaults < MaxStartFaults
        /\ startFaults' = startFaults + 1
        /\ unread' = unread + 1
        /\ UNCHANGED <<vmNonce, loaded>>
  /\ vmPc' = "serve"
  /\ UNCHANGED <<nodeVars, proc, toNode, vmSchedule, vmReq, hooks, unsent,
                 served, gen, compiled, ops, faults>>

(* The replier is done.  vmHost.GasScheduleChange keeps the old costs when *)
(* the new schedule is refused.                                            *)
Serve ==
  /\ Running /\ vmPc = "serve"
  /\ vmSchedule' = IF /\ vmReq.kind = "GasScheduleChange"
                      /\ vmReq.schedule \in ValidSchedules
                   THEN vmReq.schedule ELSE vmSchedule
  /\ served' = served \cup {vmReq.id}
  /\ vmPc' = "respond"
  /\ UNCHANGED <<nodeVars, proc, toVM, toNode, vmNonce, vmReq, hooks, lost,
                 loaded, gen, compiled, ops, faults, startFaults>>

SendContractResponse ==
  /\ Running /\ vmPc = "respond"
  /\ vmNonce' = vmNonce + 1
  /\ toNode' = Append(toNode, Response(vmReq, vmNonce + 1))
  /\ vmPc' = "reset"
  /\ UNCHANGED <<nodeVars, proc, toVM, vmSchedule, vmReq, hooks, lost, loaded,
                 served, gen, compiled, ops, faults, startFaults>>

(* Mutant: the VM's messenger keeps counting across dialogues.             *)
DialogueNotReset ==
  /\ Running /\ vmPc = "reset"
  /\ vmPc' = "receive"
  /\ UNCHANGED <<nodeVars, proc, toVM, toNode, vmNonce, vmSchedule, vmReq, hooks,
                 lost, loaded, served, gen, compiled, ops, faults, startFaults>>

ResetDialogue ==
  /\ Running /\ vmPc = "reset"
  /\ vmNonce' = 0
  /\ vmPc' = "receive"
  /\ UNCHANGED <<nodeVars, proc, toVM, toNode, vmSchedule, vmReq, hooks, lost, loaded,
                 served, gen, compiled, ops, faults, startFaults>>

(* The process ends on its own, at any point, and nobody waits for it; also *)
(* because doLoop cannot decode a request or encode a response.            *)
Crash ==
  /\ Running /\ faults < MaxFaults
  /\ faults' = faults + 1
  /\ Exit
  /\ UNCHANGED <<nodeVars, toVM, toNode, vmVars, gen, compiled, ops, startFaults>>

(* Close is exported and takes no lock: the node's shutdown or a test may  *)
(* call it while an operation runs.                                        *)
OutsideClose ==
  /\ proc \in {"running", "zombie"} /\ faults < MaxFaults
  /\ faults' = faults + 1
  /\ Close
  /\ UNCHANGED <<nodeVars, toVM, toNode, vmVars, gen, compiled, ops, startFaults>>

-----------------------------------------------------------------------------
NodeStep(t) ==
  \/ Lock(t) \/ NoRestart(t) \/ IsClosedPanics(t)
  \/ StartVM(t) \/ StartVMFails(t)
  \/ SendContractRequest(t) \/ SendFails(t) \/ ReceiveTimeout(t)
  \/ \E d \in 0 .. (MaxLoopTime + 1) : Receive(t, d)

VMStep ==
  \/ NewVMPart \/ ReceiveNodeRequest \/ SendHookCallRequest
  \/ ReceiveHookCallResponse \/ Serve \/ SendContractResponse \/ ResetDialogue

Next ==
  \/ \E t \in Threads : Call(t) \/ NodeStep(t)
  \/ VMStep \/ Crash \/ OutsideClose

Spec == Init /\ [][Next]_vars

(* Go's mutex hands the lock to a starving waiter, the scheduler runs every *)
(* runnable goroutine and a deadline that is set fires: the node's steps    *)
(* are fair.  Nothing is assumed of the VM process.                         *)
NodeFairness ==
  \A t \in Threads : WF_vars(NodeStep(t)) /\ SF_vars(Lock(t))
NodeFairSpec == Spec /\ NodeFairness

-----------------------------------------------------------------------------
(* Types of the driver's state, of the messages on the pipes and of the VM  *)
(* loop (the field types of VMDriver, NodePart, VMPart and Messenger).      *)
MessageType ==
  [kind : Kinds \cup {"HookCall", "HookResponse"}, nonce : Nat, id : Nat,
   schedule : Schedules, what : HookKinds \cup {"request", "response"},
   codes : SUBSET Nat]
ResultType ==
  [kind : {"none", "ok", "critical", "badType", "nilProcess"}, id : Nat, schedule : Schedules]

TypeOK ==
  /\ mutex \in SUBSET Threads
  /\ pc \in [Threads -> {"idle", "lock", "restart", "send", "receive"}]
  /\ op \in [Threads -> Op]
  /\ result \in [Threads -> ResultType]
  /\ schedule \in Schedules
  /\ proc \in {"running", "zombie", "reaped", "nil"}
  /\ part \in {"current", "stale"}
  /\ nodeNonce \in Nat /\ remaining \in 0 .. MaxLoopTime
  /\ toVM \in Seq(MessageType) /\ toNode \in Seq(MessageType)
  /\ vmPc \in {"noArguments", "init", "receive", "serve", "hook", "respond", "reset"}
  /\ vmNonce \in Nat /\ vmSchedule \in Schedules
  /\ vmReq \in MessageType
  /\ hooks \in Nat /\ unsent \in Nat /\ unread \in Nat /\ gen \in Nat
  /\ compiled \in SUBSET Nat /\ loaded \in SUBSET Nat /\ served \in SUBSET Nat
  /\ ops \in Nat /\ faults \in Nat /\ startFaults \in Nat

(* An operation that returns a response returns the one to its own request, *)
(* and never one of another type: neither a stale answer of an earlier,     *)
(* timed-out operation nor one meant for another thread (StartLoop, Close). *)
AnswersOwnRequest ==
  \A t \in Threads : pc[t] = "idle" =>
    /\ result[t].kind # "badType"
    /\ result[t].kind = "ok" => result[t].id = op[t].id

(* Between operations the dialogue is over: a process the next operation    *)
(* would keep using has empty pipes and both messengers restart at zero     *)
(* (ResetDialogue on both sides, Close after every failure).                *)
QuietBetweenOperations ==
  mutex = {} /\ proc \in {"running", "zombie"} /\ part = "current" =>
    /\ toVM = <<>> /\ toNode = <<>> /\ nodeNonce = 0
    /\ vmPc \in {"init", "receive"} => vmNonce = 0

(* The two ends take turns: never more than one message is in flight.  The  *)
(* VM always expects the number of the message it reads.  The node does so  *)
(* exactly when the VM lost as many hook requests of this dialogue as       *)
(* responses, because Send numbers before it encodes and Receive after it   *)
(* decodes; otherwise the node reports ErrInvalidMessageNonce.              *)
DialogueInStep ==
  /\ Len(toVM) + Len(toNode) <= 1
  /\ Running /\ vmPc \in {"init", "receive", "hook"} /\ toVM # <<>> =>
       Head(toVM).nonce = vmNonce + 1
  /\ \A t \in Threads : pc[t] = "receive" /\ toNode # <<>> =>
       Head(toNode).nonce + unread = nodeNonce + 1 + unsent

(* A restarted process never loads code that an earlier process compiled    *)
(* (ClearCompiledCodes in startVM).                                         *)
CompiledCodeIsOwn == Running /\ loaded # {} => loaded = {gen}

(* A contract is executed with the gas schedule the driver holds, through   *)
(* changes, crashes, timeouts and restarts; only a schedule the VM refuses  *)
(* leaves it on an older one (GasScheduleChange sets vmArguments first).    *)
ScheduleInForce ==
  [][\A t \in Threads :
       /\ pc[t] = "receive" /\ pc'[t] = "idle" /\ result'[t].kind = "ok"
       /\ op[t].kind = "Contract" /\ schedule \in ValidSchedules
       => result'[t].schedule = schedule]_vars

(* The driver with its process implements the service the node expects:    *)
(* one operation at a time, executed at most once, never after its caller   *)
(* was told that it failed, answered with its own result.                   *)
Service == INSTANCE VMService WITH
  phase <- [t \in Threads |-> IF pc[t] = "idle" THEN "idle"
                              ELSE IF pc[t] = "lock" THEN "waiting"
                              ELSE "served"],
  operation <- [t \in Threads |-> op[t].id],
  reply <- [t \in Threads |-> result[t].id],
  executed <- served, issued <- ops
ImplementsService == Service!Spec

(* Every operation returns: its request is answered, or it fails (doLoop    *)
(* "ends when processing the transaction ends or in the case of a critical  *)
(* failure").                                                               *)
EveryOperationReturns ==
  \A t \in Threads : pc[t] # "idle" ~> pc[t] = "idle"

(* Whatever the VM process does, an operation returns, unless some          *)
(* operation receives without a deadline (doLoop goes on with no time left).*)
WaitsForever == \E t \in Threads : pc[t] = "receive" /\ remaining = 0
OperationsTimeOut ==
  \A t \in Threads : pc[t] # "idle" ~> (pc[t] = "idle" \/ WaitsForever)

(* With a VM process that keeps working every operation returns, those      *)
(* behind an operation without a deadline included (StartLoop and the       *)
(* mutex of the driver).                                                    *)
ReliableVM == WF_vars(VMStep) /\ [](faults = 0)
OperationsReturn == ReliableVM => EveryOperationReturns
=============================================================================
