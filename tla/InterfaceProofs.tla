-------------------------- MODULE InterfaceProofs ---------------------------
(***************************************************************************)
(* Proofs about the two interfaces of the virtual machine.                 *)
(*                                                                         *)
(* VMDriver, to the node, for any number of threads, schedules,            *)
(* operations, faults and hook calls.                                      *)
(*                                                                         *)
(* VMHooks, to the contracts, for any sizes of memory, widths of an int32, *)
(* offsets, bytes and depth of calls: contract and host agree on the bytes *)
(* they exchange, and the results of nested calls are in order.            *)
(***************************************************************************)
EXTENDS VMDriver, VMHooks, SumProofs, SequenceTheorems

(* The messages the two parts build are messages.                          *)
LEMMA MessagesTyped ==
  ASSUME TypeOK
  PROVE  /\ \A o \in Op, n \in Nat : Request(o, n) \in MessageType
         /\ \A m \in MessageType, n \in Nat :
              /\ Response(m, n) \in MessageType
              /\ HookResponse(m, n) \in MessageType
         /\ \A w \in HookKinds, n \in Nat : HookCall(w, n) \in MessageType
  BY DEF TypeOK, MessageType, Request, Response, HookResponse, HookCall, Message, Op,
     Kinds, HookKinds

(* The results the driver returns are results.                             *)
LEMMA ResultsTyped ==
  ASSUME TypeOK
  PROVE  /\ Critical \in ResultType
         /\ Failure("none") \in ResultType
         /\ Failure("nilProcess") \in ResultType
         /\ \A o \in Op, m \in MessageType : Outcome(o, m) \in ResultType
  BY DriverAssumption DEF TypeOK, ResultType, Critical, Failure, Outcome, MessageType, Op

(* Every action keeps the types of the driver's state, of the pipes and of *)
(* the VM loop.                                                            *)
LEMMA TypeStep == TypeOK /\ [Next]_vars => TypeOK'
<1> SUFFICES ASSUME TypeOK, [Next]_vars PROVE TypeOK'
  OBVIOUS
<1> USE DriverAssumption
<1>m. /\ \A o \in Op, n \in Nat : Request(o, n) \in MessageType
      /\ \A m \in MessageType, n \in Nat :
           /\ Response(m, n) \in MessageType
           /\ HookResponse(m, n) \in MessageType
      /\ \A w \in HookKinds, n \in Nat : HookCall(w, n) \in MessageType
  BY MessagesTyped
<1>r. /\ Critical \in ResultType
      /\ Failure("nilProcess") \in ResultType
      /\ \A o \in Op, m \in MessageType : Outcome(o, m) \in ResultType
  BY ResultsTyped
<1>1. ASSUME NEW t \in Threads, Call(t) PROVE TypeOK'
  BY <1>1 DEF Call, TypeOK, vmVars, lost, Op, Kinds
<1>2. ASSUME NEW t \in Threads, Lock(t) PROVE TypeOK'
  BY <1>2 DEF Lock, TypeOK, vmVars, lost, Op
<1>3. ASSUME NEW t \in Threads, NoRestart(t) \/ IsClosedPanics(t) PROVE TypeOK'
  BY <1>3, <1>r DEF NoRestart, IsClosedPanics, Return, TypeOK, vmVars, lost
<1>4. ASSUME NEW t \in Threads, StartVM(t) PROVE TypeOK'
  BY <1>4 DEF StartVM, StartProcess, TypeOK, lost
<1>5. ASSUME NEW t \in Threads, StartVMFails(t) PROVE TypeOK'
  <2>1. CASE proc' \in {"reaped", "nil"} /\ UNCHANGED <<gen, vmVars, compiled, nodeNonce>>
    BY <1>5, <1>r, <2>1 DEF StartVMFails, Return, TypeOK, vmVars, lost
  <2>2. CASE StartProcess("noArguments") /\ UNCHANGED <<compiled, nodeNonce>>
    BY <1>5, <1>r, <2>2 DEF StartVMFails, StartProcess, Return, TypeOK, lost
  <2>3. CASE StartProcess("init") /\ compiled' = {} /\ nodeNonce' = 0
    BY <1>5, <1>r, <2>3 DEF StartVMFails, StartProcess, Return, TypeOK, lost
  <2> QED BY <1>5, <2>1, <2>2, <2>3 DEF StartVMFails
<1>6. ASSUME NEW t \in Threads, SendContractRequest(t) PROVE TypeOK'
  <2>1. Request(op[t], nodeNonce + 1) \in MessageType
    BY <1>m DEF TypeOK
  <2>2. toVM' \in Seq(MessageType)
    BY <1>6, <2>1, AppendProperties DEF SendContractRequest, TypeOK
  <2> QED BY <1>6, <2>2 DEF SendContractRequest, TypeOK, vmVars, lost
<1>7. ASSUME NEW t \in Threads, SendFails(t) \/ ReceiveTimeout(t) PROVE TypeOK'
  <2>1. CASE SendFails(t)
    BY <1>r, <2>1 DEF SendFails, Close, Return, TypeOK, vmVars, lost
  <2>2. CASE ReceiveTimeout(t)
    BY <1>r, <2>2 DEF ReceiveTimeout, FailLoop, Close, Return, TypeOK, vmVars, lost
  <2> QED BY <1>7, <2>1, <2>2
<1>8. ASSUME NEW t \in Threads, NEW d \in 0 .. (MaxLoopTime + 1), Receive(t, d)
      PROVE TypeOK'
  <2> DEFINE m == Head(toNode)
  <2>1. m \in MessageType /\ toNode' \in Seq(MessageType)
    BY <1>8, HeadTailProperties DEF Receive, TypeOK
  <2>2. CASE FailLoop(t) /\ UNCHANGED <<remaining, toVM, compiled>>
    <3>1. startFaults' \in {startFaults, startFaults + 1}
      BY <1>8, <2>2 DEF Receive, ReplyToHookCallRequest
    <3>2. UNCHANGED <<op, schedule, part, vmVars, gen, ops, faults>>
      BY <1>8 DEF Receive
    <3> QED
      BY <1>r, <2>1, <2>2, <3>1, <3>2 DEF FailLoop, Close, Return, TypeOK, vmVars, lost
  <2>3. CASE /\ ~Refused(m, d) /\ m.kind = "HookCall"
             /\ remaining' = remaining - d /\ ReplyToHookCallRequest(t, m)
    <3>1. remaining' \in 0 .. MaxLoopTime
      BY <2>3 DEF Refused, TypeOK
    <3>2. ReplyToHookCallRequest(t, m)
      BY <2>3
    <3>3. UNCHANGED <<op, schedule, part, vmVars, gen, ops, faults>>
      BY <1>8 DEF Receive
    <3>4. m.nonce + 1 \in Nat /\ m.codes \in SUBSET Nat
      BY <2>1 DEF MessageType
    <3>5. HookResponse(m, m.nonce + 1) \in MessageType
      BY <1>m, <2>1, <3>4
    <3>6. Append(toVM, HookResponse(m, m.nonce + 1)) \in Seq(MessageType)
      BY <3>5, AppendProperties DEF TypeOK
    <3>7. compiled' \in SUBSET Nat
      BY <3>2, <3>4 DEF ReplyToHookCallRequest, TypeOK
    <3>8. CASE toVM' = Append(toVM, HookResponse(m, m.nonce + 1)) /\ nodeNonce' = m.nonce + 1
               /\ UNCHANGED <<mutex, pc, result, proc, startFaults>>
      BY <2>1, <3>1, <3>3, <3>4, <3>6, <3>7, <3>8 DEF TypeOK, vmVars, lost
    <3>9. CASE startFaults' = startFaults + 1 /\ FailLoop(t) /\ UNCHANGED toVM
      BY <1>r, <2>1, <3>1, <3>3, <3>7, <3>9 DEF FailLoop, Close, Return, TypeOK, vmVars, lost
    <3> QED BY <3>2, <3>8, <3>9 DEF ReplyToHookCallRequest
  <2>4. CASE /\ ~Refused(m, d) /\ m.kind # "HookCall"
             /\ remaining' = remaining - d
             /\ nodeNonce' = 0 /\ Return(t, Outcome(op[t], m))
             /\ UNCHANGED <<proc, toVM, compiled, startFaults>>
    <3>1. remaining' \in 0 .. MaxLoopTime
      BY <2>4 DEF Refused, TypeOK
    <3>2. nodeNonce' = 0 /\ Return(t, Outcome(op[t], m))
          /\ UNCHANGED <<proc, toVM, compiled, startFaults>>
      BY <2>4
    <3>3. UNCHANGED <<op, schedule, part, vmVars, gen, ops, faults>>
      BY <1>8 DEF Receive
    <3>4. Outcome(op[t], m) \in ResultType
      BY <1>r, <2>1 DEF TypeOK
    <3> QED
      BY <2>1, <3>1, <3>2, <3>3, <3>4 DEF Return, TypeOK, vmVars, lost
  <2> QED BY <1>8, <2>2, <2>3, <2>4 DEF Receive
<1>9. ASSUME VMStep PROVE TypeOK'
  <2>1. CASE NewVMPart
    BY <2>1 DEF NewVMPart, Exit, TypeOK, lost, nodeVars
  <2>2. CASE ReceiveNodeRequest
    <3>1. Head(toVM) \in MessageType /\ toVM' \in Seq(MessageType)
      BY <2>2, HeadTailProperties DEF ReceiveNodeRequest, TypeOK
    <3> QED BY <2>2, <3>1 DEF ReceiveNodeRequest, Exit, TypeOK, lost, nodeVars
  <2>3. CASE SendHookCallRequest
    <3>1. \A what \in HookKinds : Append(toNode, HookCall(what, vmNonce + 1)) \in Seq(MessageType)
      BY <1>m, AppendProperties DEF TypeOK
    <3>2. toNode' \in Seq(MessageType)
      BY <2>3, <3>1 DEF SendHookCallRequest, TypeOK
    <3> QED BY <2>3, <3>2 DEF SendHookCallRequest, TypeOK, nodeVars
  <2>4. CASE ReceiveHookCallResponse
    <3>1. Head(toVM) \in MessageType /\ toVM' \in Seq(MessageType)
      BY <2>4, HeadTailProperties DEF ReceiveHookCallResponse, TypeOK
    <3>2. Head(toVM).codes \in SUBSET Nat
      BY <3>1 DEF MessageType
    <3>3. \/ vmNonce' = vmNonce + 1 /\ loaded' = loaded \cup Head(toVM).codes
          \/ vmNonce' = vmNonce /\ loaded' = loaded
      BY <2>4 DEF ReceiveHookCallResponse
    <3>4. vmNonce' \in Nat
      BY <3>3 DEF TypeOK
    <3>5. loaded' \in SUBSET Nat
      BY <3>2, <3>3 DEF TypeOK
    <3> QED BY <2>4, <3>1, <3>4, <3>5 DEF ReceiveHookCallResponse, TypeOK, nodeVars
  <2>5. CASE Serve
    <3>1. vmReq.id \in Nat /\ vmReq.schedule \in Schedules
      BY DEF TypeOK, MessageType
    <3> QED BY <2>5, <3>1 DEF Serve, TypeOK, lost, nodeVars
  <2>6. CASE SendContractResponse
    <3>1. Response(vmReq, vmNonce + 1) \in MessageType
      BY <1>m DEF TypeOK
    <3>2. toNode' \in Seq(MessageType)
      BY <2>6, <3>1, AppendProperties DEF SendContractResponse, TypeOK
    <3> QED BY <2>6, <3>2 DEF SendContractResponse, TypeOK, lost, nodeVars
  <2>7. CASE ResetDialogue
    BY <2>7 DEF ResetDialogue, TypeOK, lost, nodeVars
  <2> QED BY <1>9, <2>1, <2>2, <2>3, <2>4, <2>5, <2>6, <2>7 DEF VMStep
<1>10. ASSUME Crash \/ OutsideClose PROVE TypeOK'
  <2>1. CASE Crash
    BY <2>1 DEF Crash, Exit, TypeOK, nodeVars, vmVars, lost
  <2>2. CASE OutsideClose
    BY <2>2 DEF OutsideClose, Close, TypeOK, nodeVars, vmVars, lost
  <2> QED BY <1>10, <2>1, <2>2
<1>11. ASSUME UNCHANGED vars PROVE TypeOK'
  BY <1>11 DEF TypeOK, vars, lost
<1> QED
  BY <1>1, <1>2, <1>3, <1>4, <1>5, <1>6, <1>7, <1>8, <1>9, <1>10, <1>11
  DEF Next, NodeStep

(* TypeOK holds of every behaviour of the driver and its VM process        *)
(* (VMDriver, NodePart, VMPart), however often the process dies.           *)
THEOREM TypeCorrect == Spec => []TypeOK
<1>1. Init => TypeOK
  <2> SUFFICES ASSUME Init PROVE TypeOK
    OBVIOUS
  <2>1. NoOp \in Op /\ Failure("none") \in ResultType
    BY DriverAssumption DEF NoOp, Op, Kinds, Failure, ResultType
  <2>2. Request(NoOp, 0) \in MessageType
    BY DriverAssumption DEF NoOp, Request, Message, MessageType, Kinds
  <2> QED BY DriverAssumption, <2>1, <2>2 DEF Init, TypeOK
<1>2. QED BY <1>1, TypeStep, PTL DEF Spec

-----------------------------------------------------------------------------
(* The inductive invariant.  The messages' numbers alone do not tell two   *)
(* dialogues apart: what does is where both ends are while a thread waits  *)
(* in doLoop, and that nothing is left of a dialogue when the next begins. *)

(* operationsMutex is held by exactly the thread inside an operation.      *)
MutexInv ==
  /\ \A t, u \in mutex : t = u
  /\ \A t \in Threads : t \in mutex <=> pc[t] \in {"restart", "send", "receive"}

(* Operations have their own identities, and none is served before it is   *)
(* sent.                                                                   *)
IdentityInv ==
  /\ \A n \in served : 1 <= n /\ n <= ops
  /\ \A t \in Threads :
       /\ op[t].id <= ops
       /\ pc[t] # "idle" => 1 <= op[t].id
       /\ pc[t] \in {"lock", "restart", "send"} => op[t].id \notin served
       /\ \A u \in Threads : op[t].id = op[u].id => t = u \/ op[t].id = 0

(* At most one message is on the two pipes together.                       *)
OneMessage ==
  \/ toVM = <<>> /\ toNode = <<>>
  \/ toNode = <<>> /\ toVM = <<Head(toVM)>>
  \/ toVM = <<>> /\ toNode = <<Head(toNode)>>

AtStart == vmPc \in {"init", "receive", "reset"} /\ (vmPc # "reset" => vmNonce = 0)

(* Nobody waits in doLoop and the process can be used again.               *)
Idle == \A t \in Threads : pc[t] # "receive"
QuietInv ==
  /\ Idle /\ part = "current" /\ (proc \in {"running", "zombie"}
                                   \/ \E t \in Threads : pc[t] = "send") =>
       toVM = <<>> /\ toNode = <<>> /\ nodeNonce = 0 /\ AtStart
  /\ part = "stale" =>
       /\ Idle /\ toVM = <<>> /\ toNode = <<>>
       /\ proc = "running" => vmPc = "noArguments"

(* Where the VM can be while thread t waits in doLoop.  The VM is ahead of *)
(* the node by the requests it could not send and behind by the responses  *)
(* it could not read; a request the node answered came when they balanced. *)
Requested(t) ==
  /\ toVM = <<Request(op[t], 1)>> /\ toNode = <<>>
  /\ nodeNonce = 1 /\ AtStart
  /\ op[t].id \notin served
ServesFor(t) == vmReq.id = op[t].id /\ vmReq.kind = op[t].kind
Serving(t) ==
  /\ toVM = <<>> /\ toNode = <<>>
  /\ vmNonce + unread = nodeNonce + unsent /\ ServesFor(t)
  /\ vmPc \in {"serve", "respond"}
  /\ vmPc = "serve" <=> op[t].id \notin served
Asking(t) ==
  /\ toVM = <<>>
  /\ toNode = <<Head(toNode)>>
  /\ Head(toNode).kind = "HookCall" /\ vmNonce = Head(toNode).nonce
  /\ Head(toNode).nonce + unread = nodeNonce + 1 + unsent /\ ServesFor(t)
  /\ vmPc = "hook" /\ op[t].id \notin served
Told(t) ==
  /\ toNode = <<>>
  /\ toVM = <<Head(toVM)>>
  /\ Head(toVM).kind = "HookResponse" /\ Head(toVM).nonce = nodeNonce
  /\ vmNonce + 1 = nodeNonce /\ unsent = unread /\ ServesFor(t)
  /\ vmPc = "hook" /\ op[t].id \notin served
Answered(t) ==
  /\ toVM = <<>>
  /\ toNode = <<Head(toNode)>>
  /\ Head(toNode).nonce + unread = nodeNonce + 1 + unsent
  /\ Head(toNode).kind = op[t].kind /\ Head(toNode).id = op[t].id
  /\ vmPc = "reset" \/ (vmPc = "receive" /\ vmNonce = 0)
  /\ op[t].id \in served
LoopInv ==
  \A t \in Threads : pc[t] = "receive" =>
    Requested(t) \/ Serving(t) \/ Asking(t) \/ Told(t) \/ Answered(t)

ResultInv ==
  \A t \in Threads :
    /\ result[t].kind # "badType"
    /\ pc[t] = "idle" /\ result[t].kind = "ok" => result[t].id = op[t].id

DriverInv ==
  /\ TypeOK /\ MutexInv /\ IdentityInv /\ OneMessage
  /\ QuietInv /\ LoopInv /\ ResultInv

(* A pipe that holds one message.                                          *)
LEMMA Singletons ==
  \A m : /\ Append(<<>>, m) = <<m>> /\ Head(<<m>>) = m /\ Tail(<<m>>) = <<>>
         /\ <<m>> # <<>>
  OBVIOUS

(* Only the thread that holds the driver's lock is inside an operation.    *)
LEMMA MutexStep == TypeOK /\ MutexInv /\ [Next]_vars => MutexInv'
<1> SUFFICES ASSUME TypeOK, MutexInv, [Next]_vars PROVE MutexInv'
  OBVIOUS
<1> USE DEF TypeOK, MutexInv
<1>1. ASSUME NEW t \in Threads, Call(t) \/ NoRestart(t) \/ StartVM(t) \/ SendContractRequest(t)
      PROVE MutexInv'
  BY <1>1 DEF Call, NoRestart, StartVM, SendContractRequest
<1>2. ASSUME NEW t \in Threads, Lock(t) PROVE MutexInv'
  BY <1>2 DEF Lock
<1>3. ASSUME NEW t \in Threads, NEW r, pc[t] \in {"restart", "send", "receive"}, Return(t, r)
      PROVE MutexInv'
  BY <1>3 DEF Return
<1>4. ASSUME NEW t \in Threads,
             IsClosedPanics(t) \/ StartVMFails(t) \/ SendFails(t) \/ ReceiveTimeout(t)
      PROVE MutexInv'
  BY <1>3, <1>4 DEF IsClosedPanics, StartVMFails, SendFails, ReceiveTimeout, FailLoop
<1>5. ASSUME NEW t \in Threads, NEW d \in 0 .. (MaxLoopTime + 1), Receive(t, d)
      PROVE MutexInv'
  <2>1. UNCHANGED <<mutex, pc>> \/ \E r : Return(t, r)
    BY <1>5 DEF Receive, ReplyToHookCallRequest, FailLoop
  <2> QED BY <1>3, <1>5, <2>1 DEF Receive
<1>6. ASSUME UNCHANGED nodeVars \/ UNCHANGED vars PROVE MutexInv'
  BY <1>6 DEF nodeVars, vars
<1> QED
  BY <1>1, <1>2, <1>4, <1>5, <1>6
  DEF Next, NodeStep, VMStep, NewVMPart, ReceiveNodeRequest, SendHookCallRequest,
      ReceiveHookCallResponse, Serve, SendContractResponse, ResetDialogue, Crash,
      OutsideClose

(* The steps of the VM process leave the driver alone.                     *)
LEMMA VMStepsLeaveNode ==
  VMStep \/ Crash \/ OutsideClose => UNCHANGED <<nodeVars, ops>>
  BY DEF VMStep, NewVMPart, ReceiveNodeRequest, SendHookCallRequest,
         ReceiveHookCallResponse, Serve, SendContractResponse, ResetDialogue, Crash,
         OutsideClose

(* Only one thread waits in doLoop.                                        *)
LEMMA OneReceiver ==
  ASSUME MutexInv, NEW t \in Threads, NEW u \in Threads,
         pc[t] \in {"restart", "send", "receive"},
         pc[u] \in {"restart", "send", "receive"}
  PROVE  t = u
  BY DEF MutexInv

(* A running process that is at work works for the thread in doLoop.       *)
LEMMA VMWorksForReceiver ==
  ASSUME DriverInv, Running, vmPc \notin {"noArguments", "init", "reset"},
         toVM # <<>> \/ vmPc # "receive"
  PROVE  \E t \in Threads :
           /\ pc[t] = "receive"
           /\ Requested(t) \/ Serving(t) \/ Asking(t) \/ Told(t)
<1>1. PICK t \in Threads : pc[t] = "receive"
  BY DEF DriverInv, QuietInv, AtStart, Idle, Running, TypeOK
<1>2. ~Answered(t)
  BY DEF Answered
<1> QED BY <1>1, <1>2 DEF DriverInv, LoopInv

(* Operations have identifiers of their own, and none is served before it  *)
(* is sent.                                                                *)
LEMMA IdentityStep == DriverInv /\ [Next]_vars => IdentityInv'
<1> SUFFICES ASSUME DriverInv, [Next]_vars PROVE IdentityInv'
  OBVIOUS
<1>t. TypeOK /\ TypeOK' /\ MutexInv /\ IdentityInv
  BY TypeStep DEF DriverInv
<1>o. /\ ops \in Nat
      /\ \A t \in Threads : op[t].id \in Nat
      /\ \A n \in served : n \in Nat
  BY <1>t DEF TypeOK, Op
<1>1. ASSUME NEW t \in Threads, Call(t) PROVE IdentityInv'
  <2>1. /\ ops' = ops + 1 /\ op'[t].id = ops + 1 /\ pc[t] = "idle" /\ pc'[t] = "lock"
        /\ \A u \in Threads \ {t} : op'[u] = op[u] /\ pc'[u] = pc[u]
        /\ served' = served
    BY <1>1, <1>t DEF Call, TypeOK, vmVars, lost
  <2> QED BY <1>t, <1>o, <2>1 DEF IdentityInv
<1>2. ASSUME UNCHANGED <<op, ops, served>>,
             \A t \in Threads : /\ pc'[t] # "idle" => pc[t] # "idle"
                                /\ pc'[t] \in {"lock", "restart", "send"}
                                     => pc[t] \in {"lock", "restart", "send"}
      PROVE IdentityInv'
  BY <1>2, <1>t DEF IdentityInv
<1>3. ASSUME NEW t \in Threads, Lock(t) \/ NoRestart(t) \/ IsClosedPanics(t) PROVE IdentityInv'
  BY <1>2, <1>3, <1>t DEF Lock, NoRestart, IsClosedPanics, Return, vmVars, lost, TypeOK
<1>4. ASSUME NEW t \in Threads, StartVM(t) \/ StartVMFails(t) PROVE IdentityInv'
  BY <1>2, <1>4, <1>t DEF StartVM, StartVMFails, StartProcess, Return, vmVars, lost, TypeOK
<1>5. ASSUME NEW t \in Threads, SendContractRequest(t) \/ SendFails(t) \/ ReceiveTimeout(t)
      PROVE IdentityInv'
  BY <1>2, <1>5, <1>t
  DEF SendContractRequest, SendFails, ReceiveTimeout, FailLoop, Return, vmVars, lost, TypeOK
<1>6. ASSUME NEW t \in Threads, NEW d \in 0 .. (MaxLoopTime + 1), Receive(t, d)
      PROVE IdentityInv'
  <2>1. UNCHANGED pc \/ pc' = [pc EXCEPT ![t] = "idle"]
    BY <1>6 DEF Receive, ReplyToHookCallRequest, FailLoop, Return
  <2>2. UNCHANGED <<op, ops, served>>
    BY <1>6 DEF Receive, vmVars, lost
  <2> QED BY <1>2, <1>t, <2>1, <2>2 DEF TypeOK
<1>7. ASSUME VMStep \/ Crash \/ OutsideClose PROVE IdentityInv'
  <2>1. UNCHANGED <<op, pc, ops>>
    BY <1>7, VMStepsLeaveNode DEF nodeVars
  <2>2. CASE Serve
    <3>1. PICK t \in Threads :
            pc[t] = "receive" /\ (Requested(t) \/ Serving(t) \/ Asking(t) \/ Told(t))
      BY <2>2, VMWorksForReceiver DEF Serve
    <3>2. vmReq.id = op[t].id
      BY <2>2, <3>1 DEF Serve, Requested, Serving, Asking, Told, ServesFor, AtStart
    <3>3. served' = served \cup {op[t].id}
      BY <2>2, <3>2 DEF Serve
    <3>4. 1 <= op[t].id /\ op[t].id <= ops
      BY <1>t, <3>1 DEF IdentityInv
    <3>5. \A u \in Threads : pc[u] \in {"lock", "restart", "send"} => op[u].id # op[t].id
      BY <1>t, <1>o, <3>1, <3>4 DEF IdentityInv
    <3> QED BY <1>t, <1>o, <2>1, <3>3, <3>4, <3>5 DEF IdentityInv
  <2>3. CASE ~Serve
    <3>1. UNCHANGED served
      BY <1>7, <2>3 DEF VMStep, NewVMPart, ReceiveNodeRequest, SendHookCallRequest,
         ReceiveHookCallResponse, SendContractResponse, ResetDialogue, Crash, OutsideClose,
         vmVars, lost
    <3> QED BY <1>2, <2>1, <3>1
  <2> QED BY <2>2, <2>3
<1>8. ASSUME UNCHANGED vars PROVE IdentityInv'
  BY <1>2, <1>8 DEF vars
<1> QED
  BY <1>1, <1>3, <1>4, <1>5, <1>6, <1>7, <1>8 DEF Next, NodeStep

DialogueInv == OneMessage /\ QuietInv /\ LoopInv

(* A step of the node: the dialogue begins on empty pipes, and ends either *)
(* with the answer or with a process that nobody uses again.               *)
LEMMA NodeDialogueStep ==
  ASSUME DriverInv, NEW t \in Threads, Call(t) \/ NodeStep(t)
  PROVE  DialogueInv'
<1>t. /\ TypeOK /\ MutexInv /\ IdentityInv /\ OneMessage /\ QuietInv /\ LoopInv
  BY DEF DriverInv
<1>1. ASSUME pc[t] # "receive",
             UNCHANGED <<proc, part, nodeNonce, toVM, toNode, vmVars>>,
             \A u \in Threads \ {t} : op'[u] = op[u] /\ pc'[u] = pc[u],
             pc'[t] # "receive",
             pc'[t] = "send" => pc[t] = "send" \/ proc \in {"running", "zombie"}
      PROVE DialogueInv'
  <2>1. OneMessage'
    BY <1>t, <1>1 DEF OneMessage
  <2>2. QuietInv'
    BY <1>t, <1>1 DEF QuietInv, Idle, AtStart, vmVars, lost
  <2>3. LoopInv'
    BY <1>t, <1>1 DEF LoopInv, Requested, Serving, Asking, Told, Answered, ServesFor,
       AtStart, vmVars, lost, Request, Message
  <2> QED BY <2>1, <2>2, <2>3 DEF DialogueInv
<1>2. CASE Call(t)
  BY <1>1, <1>2, <1>t DEF Call, TypeOK
<1>3. CASE Lock(t) \/ NoRestart(t) \/ IsClosedPanics(t)
  BY <1>1, <1>3, <1>t DEF Lock, NoRestart, IsClosedPanics, IsClosed, Return, TypeOK
<1>i. ASSUME pc[t] \in {"restart", "send"} PROVE Idle
  BY <1>i, <1>t, OneReceiver DEF Idle
<1>4. CASE StartVM(t)
  <2>1. Idle' /\ \A u \in Threads : pc'[u] # "receive"
    BY <1>4, <1>i, <1>t DEF StartVM, Idle, TypeOK
  <2> QED BY <1>4, <2>1
    DEF StartVM, StartProcess, DialogueInv, OneMessage, QuietInv, LoopInv, AtStart
<1>5. CASE StartVMFails(t)
  <2>1. Idle' /\ \A u \in Threads : pc'[u] # "receive" /\ pc'[u] # "send"
    BY <1>5, <1>i, <1>t, OneReceiver DEF StartVMFails, Return, Idle, TypeOK
  <2>2. toVM' = <<>> /\ toNode' = <<>>
    BY <1>5 DEF StartVMFails
  <2>3. QuietInv'
    BY <1>5, <2>1, <2>2 DEF StartVMFails, StartProcess, QuietInv, AtStart
  <2> QED BY <2>1, <2>2, <2>3 DEF DialogueInv, OneMessage, LoopInv
<1>6. CASE SendContractRequest(t)
  <2>1. toVM = <<>> /\ toNode = <<>> /\ nodeNonce = 0 /\ AtStart
    BY <1>6, <1>i, <1>t DEF SendContractRequest, QuietInv
  <2>2. toVM' = <<Request(op[t], 1)>> /\ toNode' = <<>> /\ nodeNonce' = 1 /\ AtStart'
    BY <1>6, <2>1, Singletons DEF SendContractRequest, AtStart, vmVars, lost
  <2>3. /\ pc'[t] = "receive" /\ op' = op /\ served' = served /\ part' = "current"
        /\ \A u \in Threads \ {t} : pc'[u] # "receive"
    BY <1>6, <1>i, <1>t DEF SendContractRequest, Idle, vmVars, lost, TypeOK
  <2>4. op[t].id \notin served
    BY <1>6, <1>t DEF SendContractRequest, IdentityInv
  <2>5. Requested(t)'
    BY <2>2, <2>3, <2>4 DEF Requested, Request, Message
  <2>6. OneMessage'
    BY <2>2, Singletons DEF OneMessage
  <2> QED BY <2>3, <2>5, <2>6 DEF DialogueInv, LoopInv, QuietInv, Idle
<1>f. ASSUME pc[t] \in {"send", "receive"}, Close, pc' = [pc EXCEPT ![t] = "idle"],
             UNCHANGED part, OneMessage',
             part = "stale" => UNCHANGED <<toVM, toNode>>
      PROVE DialogueInv'
  <2>1. \A u \in Threads : pc'[u] # "receive" /\ pc'[u] # "send"
    BY <1>f, <1>t, OneReceiver DEF TypeOK
  <2> QED BY <1>f, <1>t, <2>1 DEF DialogueInv, QuietInv, LoopInv, Idle, Close
<1>7. CASE SendFails(t) \/ ReceiveTimeout(t)
  BY <1>7, <1>f, <1>t DEF SendFails, ReceiveTimeout, FailLoop, Return, OneMessage
<1>8. ASSUME NEW d \in 0 .. (MaxLoopTime + 1), Receive(t, d) PROVE DialogueInv'
  <2> DEFINE m == Head(toNode)
  <2>1. pc[t] = "receive" /\ toNode # <<>> /\ toNode' = Tail(toNode)
    BY <1>8 DEF Receive
  <2>2. toVM = <<>> /\ toNode = <<m>>
    BY <1>t, <2>1 DEF OneMessage
  <2>3. toNode' = <<>>
    BY <2>1, <2>2, Singletons
  <2>4. UNCHANGED <<op, part, vmPc, vmNonce, vmReq, served, unsent, unread>>
    BY <1>8 DEF Receive, vmVars, lost
  <2>5. part = "current"
    BY <1>t, <2>1 DEF QuietInv, Idle, TypeOK
  <2>6. CASE FailLoop(t) /\ UNCHANGED toVM
    BY <1>f, <2>1, <2>2, <2>3, <2>4, <2>5, <2>6 DEF FailLoop, Return, OneMessage
  <2>7. CASE /\ m.kind = "HookCall" /\ m.nonce = nodeNonce + 1
             /\ toVM' = Append(toVM, HookResponse(m, m.nonce + 1))
             /\ nodeNonce' = m.nonce + 1 /\ UNCHANGED <<pc, proc>>
    <3>1. Asking(t)
      BY <1>t, <2>1, <2>2, <2>7
      DEF LoopInv, Requested, Serving, Told, Answered, TypeOK, Op, Kinds
    <3>2. /\ toVM' = Append(toVM, HookResponse(m, m.nonce + 1))
          /\ nodeNonce' = m.nonce + 1 /\ UNCHANGED <<pc, proc>>
      BY <2>7
    <3>3. toVM' = <<HookResponse(m, m.nonce + 1)>>
      BY <2>2, <3>2, Singletons
    <3>4. /\ toVM' = <<Head(toVM')>> /\ Head(toVM').kind = "HookResponse"
          /\ Head(toVM').nonce = m.nonce + 1
      BY <3>3, Singletons DEF HookResponse, Message
    <3>5. nodeNonce \in Nat /\ vmNonce = m.nonce /\ unsent = unread
      BY <1>t, <2>7, <3>1 DEF Asking, TypeOK
    <3>6. Told(t)'
      BY <2>3, <2>4, <2>7, <3>1, <3>2, <3>4, <3>5 DEF Told, Asking, ServesFor
    <3>7. \A u \in Threads : pc[u] = "receive" => u = t
      BY <1>t, <2>1, OneReceiver
    <3>8. LoopInv'
      BY <3>2, <3>6, <3>7 DEF LoopInv
    <3>9. QuietInv'
      BY <2>1, <2>4, <2>5, <3>2 DEF QuietInv, Idle
    <3> QED BY <2>3, <3>4, <3>8, <3>9 DEF DialogueInv, OneMessage
  <2>8. CASE /\ m.kind # "HookCall" /\ nodeNonce' = 0
             /\ Return(t, Outcome(op[t], m)) /\ UNCHANGED <<proc, toVM>>
    <3>1. Answered(t)
      BY <1>t, <2>1, <2>2, <2>8 DEF LoopInv, Requested, Serving, Told, Asking
    <3>2. /\ nodeNonce' = 0 /\ pc' = [pc EXCEPT ![t] = "idle"]
          /\ UNCHANGED <<proc, toVM>>
      BY <2>8 DEF Return
    <3>3. \A u \in Threads : pc'[u] # "receive"
      BY <1>t, <2>1, <3>2, OneReceiver DEF TypeOK
    <3>4. AtStart'
      BY <2>4, <3>1 DEF Answered, AtStart
    <3> QED BY <2>2, <2>3, <2>4, <2>5, <3>2, <3>3, <3>4
      DEF DialogueInv, OneMessage, QuietInv, LoopInv
  <2>9. CASE ~Refused(m, d) /\ m.kind = "HookCall" /\ ReplyToHookCallRequest(t, m)
    BY <2>6, <2>7, <2>9 DEF ReplyToHookCallRequest, Refused
  <2> QED BY <1>8, <2>6, <2>8, <2>9 DEF Receive
<1> QED
  BY <1>2, <1>3, <1>4, <1>5, <1>6, <1>7, <1>8 DEF NodeStep

(* A step of the VM process moves the dialogue of the waiting thread on,   *)
(* or is one of a process without a dialogue.                              *)
LEMMA VMDialogueStep ==
  ASSUME DriverInv, VMStep \/ Crash \/ OutsideClose
  PROVE  DialogueInv'
<1>t. /\ TypeOK /\ MutexInv /\ IdentityInv /\ OneMessage /\ QuietInv /\ LoopInv
  BY DEF DriverInv
<1>n. UNCHANGED <<pc, op, part, nodeNonce>>
  BY VMStepsLeaveNode DEF nodeVars
<1>1. CASE Crash \/ OutsideClose
  <2>1. UNCHANGED <<toVM, toNode, vmVars>> /\ proc' \in {"zombie", "reaped"}
        /\ proc \in {"running", "zombie"}
    BY <1>1 DEF Crash, OutsideClose, Exit, Close, Running
  <2>2. QuietInv'
    BY <1>t, <1>n, <2>1 DEF QuietInv, Idle, AtStart, vmVars, lost
  <2>3. LoopInv'
    BY <1>t, <1>n, <2>1 DEF LoopInv, Requested, Serving, Asking, Told, Answered,
       ServesFor, AtStart, vmVars, lost, Request, Message
  <2> QED BY <1>t, <2>1, <2>2, <2>3 DEF DialogueInv, OneMessage
<1>2. CASE NewVMPart \/ ResetDialogue
  <2>1. /\ UNCHANGED <<toVM, toNode, vmReq, served, unsent, unread>> /\ vmPc' = "receive"
        /\ proc = "running" /\ proc' \in {"running", "zombie"}
        /\ \/ vmPc = "init" /\ vmNonce' = vmNonce
           \/ vmPc = "reset" /\ vmNonce' = 0
    BY <1>2 DEF NewVMPart, ResetDialogue, Running, Exit, lost
  <2>2. QuietInv'
    BY <1>t, <1>n, <2>1 DEF QuietInv, Idle, AtStart
  <2>3. ASSUME NEW t \in Threads, pc[t] = "receive"
        PROVE Requested(t)' \/ Answered(t)'
    BY <1>t, <1>n, <2>1, <2>3
    DEF LoopInv, Requested, Serving, Asking, Told, Answered, AtStart, Request, Message
  <2> QED BY <1>t, <1>n, <2>1, <2>2, <2>3 DEF DialogueInv, OneMessage, LoopInv
<1>w. ASSUME NEW t \in Threads, pc[t] = "receive", OneMessage',
             Serving(t)' \/ Asking(t)' \/ Told(t)' \/ Answered(t)'
      PROVE DialogueInv'
  <2>1. \A u \in Threads : pc'[u] = "receive" => u = t
    BY <1>t, <1>n, <1>w, OneReceiver
  <2>2. LoopInv'
    BY <1>w, <2>1 DEF LoopInv
  <2>3. part' = "current" /\ ~Idle'
    BY <1>t, <1>n, <1>w DEF QuietInv, Idle, TypeOK
  <2> QED BY <1>w, <2>2, <2>3 DEF DialogueInv, QuietInv
<1>3. CASE ReceiveNodeRequest
  <2>1. Running /\ vmPc = "receive" /\ toVM # <<>>
    BY <1>3 DEF ReceiveNodeRequest
  <2>2. PICK t \in Threads : pc[t] = "receive" /\ Requested(t)
    BY <2>1, VMWorksForReceiver DEF Serving, Asking, Told
  <2>3. Head(toVM) = Request(op[t], 1) /\ Tail(toVM) = <<>> /\ vmNonce = 0
    BY <2>1, <2>2, Singletons DEF Requested, AtStart
  <2>4. Head(toVM).nonce = 1 /\ Head(toVM).id = op[t].id /\ Head(toVM).kind = op[t].kind
    BY <2>3 DEF Request, Message
  <2>5. /\ toVM' = <<>> /\ vmNonce' = 1 /\ vmReq' = Head(toVM) /\ vmPc' = "serve"
        /\ unsent' = 0 /\ unread' = 0 /\ UNCHANGED <<toNode, served>>
    BY <1>3, <2>3, <2>4 DEF ReceiveNodeRequest
  <2>6. Serving(t)'
    BY <1>n, <2>2, <2>4, <2>5 DEF Serving, ServesFor, Requested
  <2>7. OneMessage'
    BY <2>2, <2>5 DEF OneMessage, Requested
  <2> QED BY <1>w, <2>2, <2>6, <2>7
<1>4. CASE SendHookCallRequest
  <2>1. PICK t \in Threads : pc[t] = "receive" /\ Serving(t)
    BY <1>4, VMWorksForReceiver DEF SendHookCallRequest, Requested, AtStart, Asking, Told
  <2>2. /\ vmNonce' = vmNonce + 1 /\ vmPc = "serve" /\ vmNonce \in Nat
        /\ UNCHANGED <<toVM, vmReq, served, unread>>
    BY <1>4, <1>t DEF SendHookCallRequest, TypeOK
  <2>n. nodeNonce \in Nat /\ unsent \in Nat /\ unread \in Nat
    BY <1>t DEF TypeOK
  <2>3. CASE unsent' = unsent + 1 /\ UNCHANGED <<toNode, vmPc>>
    <3>1. Serving(t)'
      BY <1>n, <2>1, <2>2, <2>n, <2>3 DEF Serving, ServesFor
    <3>2. OneMessage'
      BY <2>1, <2>2, <2>3 DEF OneMessage, Serving
    <3> QED BY <1>w, <2>1, <3>1, <3>2
  <2>4. ASSUME NEW what \in HookKinds, vmPc' = "hook", UNCHANGED unsent,
               toNode' = Append(toNode, HookCall(what, vmNonce + 1))
        PROVE  DialogueInv'
    <3>1. toNode' = <<HookCall(what, vmNonce + 1)>>
      BY <2>1, <2>4, Singletons DEF Serving
    <3>2. /\ toNode' = <<Head(toNode')>> /\ Head(toNode').kind = "HookCall"
          /\ Head(toNode').nonce = vmNonce + 1
      BY <3>1, Singletons DEF HookCall, Message
    <3>3. Asking(t)'
      BY <1>n, <2>1, <2>2, <2>n, <2>4, <3>2 DEF Serving, Asking, ServesFor
    <3>4. OneMessage'
      BY <2>1, <2>2, <3>2 DEF OneMessage, Serving
    <3> QED BY <1>w, <2>1, <3>3, <3>4
  <2> QED BY <1>4, <2>3, <2>4 DEF SendHookCallRequest
<1>5. CASE ReceiveHookCallResponse
  <2>1. PICK t \in Threads : pc[t] = "receive" /\ Told(t)
    BY <1>5, VMWorksForReceiver
    DEF ReceiveHookCallResponse, Requested, AtStart, Asking, Serving
  <2>2. Tail(toVM) = <<>>
    BY <2>1, Singletons DEF Told
  <2>3. /\ toVM' = <<>> /\ vmPc' = "serve" /\ UNCHANGED <<toNode, vmReq, served, unsent>>
        /\ \/ vmNonce' = vmNonce + 1 /\ unread' = unread
           \/ vmNonce' = vmNonce /\ unread' = unread + 1
    BY <1>5, <2>2 DEF ReceiveHookCallResponse
  <2>4. vmNonce \in Nat /\ nodeNonce \in Nat /\ unsent \in Nat /\ unread \in Nat
    BY <1>t DEF TypeOK
  <2>5. Serving(t)'
    BY <1>n, <2>1, <2>3, <2>4 DEF Serving, Told, ServesFor
  <2>6. OneMessage'
    BY <2>1, <2>3 DEF OneMessage, Told
  <2> QED BY <1>w, <2>1, <2>5, <2>6
<1>6. CASE Serve
  <2>1. PICK t \in Threads : pc[t] = "receive" /\ Serving(t)
    BY <1>6, VMWorksForReceiver DEF Serve, Requested, AtStart, Asking, Told
  <2>2. /\ served' = served \cup {op[t].id} /\ vmPc' = "respond"
        /\ UNCHANGED <<toVM, toNode, vmNonce, vmReq, unsent, unread>>
    BY <1>6, <2>1 DEF Serve, Serving, ServesFor, lost
  <2>3. Serving(t)'
    BY <1>n, <2>1, <2>2 DEF Serving, ServesFor
  <2>4. OneMessage'
    BY <1>t, <2>2 DEF OneMessage
  <2> QED BY <1>w, <2>1, <2>3, <2>4
<1>7. CASE SendContractResponse
  <2>1. PICK t \in Threads : pc[t] = "receive" /\ Serving(t)
    BY <1>7, VMWorksForReceiver
    DEF SendContractResponse, Requested, AtStart, Asking, Told
  <2>2. toNode' = <<Response(vmReq, vmNonce + 1)>>
    BY <1>7, <2>1, Singletons DEF SendContractResponse, Serving
  <2>3. /\ toNode' = <<Head(toNode')>> /\ Head(toNode').nonce = vmNonce + 1
        /\ Head(toNode').kind = op[t].kind /\ Head(toNode').id = op[t].id
    BY <2>1, <2>2, Singletons DEF Response, Message, Serving, ServesFor
  <2>4. /\ vmPc = "respond" /\ vmPc' = "reset"
        /\ UNCHANGED <<toVM, served, unsent, unread>>
        /\ vmNonce \in Nat /\ nodeNonce \in Nat /\ unsent \in Nat /\ unread \in Nat
    BY <1>7, <1>t DEF SendContractResponse, lost, TypeOK
  <2>5. Answered(t)'
    BY <1>n, <2>1, <2>3, <2>4 DEF Serving, Answered
  <2>6. OneMessage'
    BY <2>1, <2>3, <2>4 DEF OneMessage, Serving
  <2> QED BY <1>w, <2>1, <2>5, <2>6
<1> QED BY <1>1, <1>2, <1>3, <1>4, <1>5, <1>6, <1>7 DEF VMStep

(* An operation's result is that of its own request.                       *)
LEMMA ResultStep == DriverInv /\ [Next]_vars => ResultInv'
<1> SUFFICES ASSUME DriverInv, [Next]_vars PROVE ResultInv'
  OBVIOUS
<1>t. TypeOK /\ OneMessage /\ LoopInv /\ ResultInv
  BY DEF DriverInv
<1>1. ASSUME NEW t \in Threads, Call(t) PROVE ResultInv'
  BY <1>1, <1>t DEF Call, ResultInv, TypeOK
<1>2. ASSUME UNCHANGED <<op, result>>,
             \A t \in Threads : pc'[t] = "idle" => pc[t] = "idle"
      PROVE ResultInv'
  BY <1>2, <1>t DEF ResultInv
<1>3. ASSUME NEW t \in Threads,
             Lock(t) \/ NoRestart(t) \/ StartVM(t) \/ SendContractRequest(t)
      PROVE ResultInv'
  BY <1>2, <1>3, <1>t DEF Lock, NoRestart, StartVM, SendContractRequest, TypeOK
<1>4. ASSUME NEW t \in Threads, NEW k \in {"critical", "nilProcess"},
             Return(t, Failure(k)), UNCHANGED op
      PROVE ResultInv'
  BY <1>4, <1>t DEF Return, Failure, ResultInv, TypeOK
<1>5. ASSUME NEW t \in Threads,
             IsClosedPanics(t) \/ StartVMFails(t) \/ SendFails(t) \/ ReceiveTimeout(t)
      PROVE ResultInv'
  BY <1>4, <1>5
  DEF IsClosedPanics, StartVMFails, SendFails, ReceiveTimeout, FailLoop, Critical
<1>6. ASSUME NEW t \in Threads, NEW d \in 0 .. (MaxLoopTime + 1), Receive(t, d)
      PROVE ResultInv'
  <2> DEFINE m == Head(toNode)
  <2>1. UNCHANGED op /\ pc[t] = "receive" /\ toNode = <<m>>
    BY <1>6, <1>t DEF Receive, OneMessage
  <2>2. CASE Return(t, Critical)
    BY <1>4, <2>1, <2>2 DEF Critical
  <2>3. CASE UNCHANGED <<pc, result>>
    BY <1>2, <2>1, <2>3
  <2>4. CASE m.kind # "HookCall" /\ Return(t, Outcome(op[t], m))
    <3>1. Answered(t)
      BY <1>t, <2>1, <2>4, Singletons DEF LoopInv, Requested, Serving, Asking, Told
    <3>2. Outcome(op[t], m).kind = "ok" /\ Outcome(op[t], m).id = op[t].id
      BY <3>1 DEF Answered, Outcome
    <3> QED BY <1>t, <2>1, <2>4, <3>2 DEF Return, ResultInv, TypeOK
  <2> QED BY <1>6, <2>2, <2>3, <2>4 DEF Receive, ReplyToHookCallRequest, FailLoop
<1>7. ASSUME VMStep \/ Crash \/ OutsideClose PROVE ResultInv'
  BY <1>2, <1>7, VMStepsLeaveNode DEF nodeVars
<1>8. ASSUME UNCHANGED vars PROVE ResultInv'
  BY <1>2, <1>8 DEF vars
<1> QED
  BY <1>1, <1>3, <1>5, <1>6, <1>7, <1>8 DEF Next, NodeStep

(* The dialogue invariant of the driver and its process is inductive.      *)
THEOREM DriverInvariant == Spec => []DriverInv
<1>1. Init => DriverInv
  <2> SUFFICES ASSUME Init PROVE DriverInv
    OBVIOUS
  <2>1. TypeOK
    <3>1. NoOp \in Op /\ Failure("none") \in ResultType
      BY DriverAssumption DEF NoOp, Op, Kinds, Failure, ResultType
    <3>2. Request(NoOp, 0) \in MessageType
      BY DriverAssumption DEF NoOp, Request, Message, MessageType, Kinds
    <3> QED BY DriverAssumption, <3>1, <3>2 DEF Init, TypeOK
  <2>2. MutexInv /\ OneMessage /\ QuietInv /\ LoopInv
    BY DEF Init, MutexInv, OneMessage, QuietInv, LoopInv, AtStart
  <2>3. IdentityInv /\ ResultInv
    BY DEF Init, IdentityInv, ResultInv, NoOp, Failure
  <2> QED BY <2>1, <2>2, <2>3 DEF DriverInv
<1>2. DriverInv /\ [Next]_vars => DriverInv'
  <2> SUFFICES ASSUME DriverInv, [Next]_vars PROVE DriverInv'
    OBVIOUS
  <2>1. TypeOK' /\ MutexInv' /\ IdentityInv' /\ ResultInv'
    BY TypeStep, MutexStep, IdentityStep, ResultStep DEF DriverInv
  <2>2. CASE UNCHANGED vars
    BY <2>2 DEF DriverInv, vars, lost, TypeOK, MutexInv, IdentityInv, OneMessage, QuietInv,
       LoopInv, ResultInv, Idle, AtStart, Requested, Serving, Asking, Told, Answered,
       ServesFor, Request, Message
  <2>3. CASE Next
    <3>1. DialogueInv'
      BY <2>3, NodeDialogueStep, VMDialogueStep DEF Next
    <3> QED BY <2>1, <3>1 DEF DialogueInv, DriverInv
  <2> QED BY <2>2, <2>3
<1> QED BY <1>1, <1>2, PTL DEF Spec

(* No operation of the driver returns another operation's answer or one of *)
(* another type (NodePart.StartLoop, the type assertions of VMDriver).     *)
THEOREM OperationsGetTheirOwnAnswer == Spec => []AnswersOwnRequest
<1>1. DriverInv => AnswersOwnRequest
  BY DEF DriverInv, ResultInv, AnswersOwnRequest
<1> QED BY <1>1, DriverInvariant, PTL

(* The next operation never meets the rest of an earlier dialogue          *)
(* (ResetDialogue on both sides, Close after a failure).                   *)
THEOREM NothingIsLeftOver == Spec => []QuietBetweenOperations
<1>1. DriverInv => QuietBetweenOperations
  <2> SUFFICES ASSUME DriverInv, mutex = {} PROVE QuietBetweenOperations
    BY DEF QuietBetweenOperations
  <2>1. Idle
    BY DEF DriverInv, MutexInv, Idle
  <2> QED BY <2>1 DEF DriverInv, QuietInv, AtStart, QuietBetweenOperations
<1> QED BY <1>1, DriverInvariant, PTL

(* The pipes hold one message at a time, the VM always expects the number  *)
(* of the message it reads, and what the node reads is off by exactly the  *)
(* hook requests the VM could not send less the responses it could not     *)
(* read: only then is ErrInvalidMessageNonce reported (Messenger.Send and  *)
(* Receive).                                                               *)
THEOREM DialogueStaysInStep == Spec => []DialogueInStep
<1>1. DriverInv => DialogueInStep
  <2> SUFFICES ASSUME DriverInv PROVE DialogueInStep
    OBVIOUS
  <2>1. Len(toVM) + Len(toNode) <= 1
    <3>1. \A m : Len(<<m>>) = 1
      OBVIOUS
    <3> QED BY <3>1 DEF DriverInv, OneMessage
  <2>2. ASSUME Running, vmPc \in {"init", "receive", "hook"}, toVM # <<>>
        PROVE Head(toVM).nonce = vmNonce + 1
    <3>1. PICK t \in Threads : pc[t] = "receive"
      BY <2>2 DEF DriverInv, QuietInv, Idle, Running, TypeOK
    <3>2. Requested(t) \/ Told(t)
      BY <2>2, <3>1 DEF DriverInv, LoopInv, Serving, Asking, Answered
    <3>3. CASE Requested(t)
      BY <2>2, <3>3, Singletons DEF Requested, AtStart, Request, Message
    <3>4. CASE Told(t)
      BY <3>4 DEF Told
    <3> QED BY <3>2, <3>3, <3>4
  <2>3. ASSUME NEW t \in Threads, pc[t] = "receive", toNode # <<>>
        PROVE Head(toNode).nonce + unread = nodeNonce + 1 + unsent
    BY <2>3 DEF DriverInv, LoopInv, Requested, Serving, Asking, Told, Answered
  <2> QED BY <2>1, <2>2, <2>3 DEF DialogueInStep
<1> QED BY <1>1, DriverInvariant, PTL

-----------------------------------------------------------------------------
(* Compiled code.  What the node's cache, the messages and the process     *)
(* hold was compiled by the current process; only a process whose start    *)
(* failed before NewNodePart may face a cache that was not cleared, and it *)
(* never gets to receive anything.                                         *)
CodeInv ==
  /\ loaded \subseteq {gen}
  /\ vmPc # "noArguments" => compiled \subseteq {gen}
  /\ toVM # <<>> => Head(toVM).codes \subseteq {gen}
  /\ toNode # <<>> => Head(toNode).codes \subseteq {gen}

(* Compiled code in use or on a pipe was made by the process that runs     *)
(* now.                                                                    *)
LEMMA CodeStep == DriverInv /\ CodeInv /\ [Next]_vars => CodeInv'
<1> SUFFICES ASSUME DriverInv, CodeInv, [Next]_vars PROVE CodeInv'
  OBVIOUS
<1>t. TypeOK /\ OneMessage /\ QuietInv /\ LoopInv
  BY DEF DriverInv
<1>1. ASSUME UNCHANGED <<toVM, toNode, gen, compiled, loaded>>,
             vmPc' # "noArguments" => vmPc # "noArguments"
      PROVE CodeInv'
  BY <1>1 DEF CodeInv
<1>2. ASSUME NEW t \in Threads, Call(t) \/ Lock(t) \/ NoRestart(t) \/ IsClosedPanics(t)
      PROVE CodeInv'
  BY <1>1, <1>2 DEF Call, Lock, NoRestart, IsClosedPanics, vmVars, lost
<1>3. ASSUME NEW t \in Threads, SendFails(t) \/ ReceiveTimeout(t) PROVE CodeInv'
  BY <1>1, <1>3 DEF SendFails, ReceiveTimeout, vmVars, lost
<1>4. ASSUME NEW t \in Threads, StartVM(t) \/ StartVMFails(t) PROVE CodeInv'
  BY <1>4 DEF StartVM, StartVMFails, StartProcess, CodeInv, vmVars, lost
<1>5. ASSUME NEW t \in Threads, SendContractRequest(t) PROVE CodeInv'
  <2>1. toVM = <<>> /\ toNode = <<>>
    <3>1. Idle
      BY <1>5, OneReceiver DEF SendContractRequest, DriverInv, Idle
    <3> QED BY <1>5, <1>t, <3>1 DEF SendContractRequest, QuietInv
  <2>2. toVM' = <<Request(op[t], nodeNonce + 1)>> /\ toNode' = <<>>
    BY <1>5, <2>1, Singletons DEF SendContractRequest
  <2>3. Head(toVM').codes = {}
    BY <2>2, Singletons DEF Request, Message
  <2> QED BY <1>5, <2>2, <2>3 DEF SendContractRequest, CodeInv, vmVars, lost
<1>6. ASSUME NEW t \in Threads, NEW d \in 0 .. (MaxLoopTime + 1), Receive(t, d)
      PROVE CodeInv'
  <2> DEFINE m == Head(toNode)
  <2>1. /\ pc[t] = "receive" /\ toNode # <<>> /\ toNode' = Tail(toNode)
        /\ UNCHANGED <<vmPc, gen, loaded>>
    BY <1>6 DEF Receive, vmVars, lost
  <2>2. toVM = <<>> /\ toNode = <<m>>
    BY <1>t, <2>1 DEF OneMessage
  <2>3. toNode' = <<>> /\ m.codes \subseteq {gen}
    BY <2>1, <2>2, Singletons DEF CodeInv
  <2>4. compiled' = compiled \/ compiled' = compiled \cup m.codes
    BY <1>6 DEF Receive, ReplyToHookCallRequest
  <2>5. vmPc # "noArguments" => compiled \subseteq {gen} /\ compiled' \subseteq {gen}
    BY <2>3, <2>4 DEF CodeInv
  <2>6. CASE UNCHANGED toVM
    BY <2>1, <2>2, <2>3, <2>5, <2>6 DEF CodeInv
  <2>7. CASE m.kind = "HookCall" /\ toVM' = Append(toVM, HookResponse(m, m.nonce + 1))
    <3>1. vmPc = "hook"
      BY <1>t, <2>1, <2>2, <2>7
      DEF LoopInv, Requested, Serving, Asking, Told, Answered, TypeOK, Op, Kinds
    <3>2. toVM' = <<HookResponse(m, m.nonce + 1)>>
      BY <2>2, <2>7, Singletons
    <3>3. Head(toVM').codes \subseteq {gen}
      BY <2>5, <3>1, <3>2, Singletons DEF HookResponse, Message
    <3> QED BY <2>1, <2>3, <2>5, <3>3 DEF CodeInv
  <2> QED BY <1>6, <2>6, <2>7 DEF Receive, ReplyToHookCallRequest
<1>7. ASSUME VMStep PROVE CodeInv'
  <2>1. CASE NewVMPart \/ Serve \/ ResetDialogue
    BY <1>1, <2>1 DEF NewVMPart, Serve, ResetDialogue
  <2>2. CASE ReceiveNodeRequest
    <3>1. toVM' = <<>>
      BY <1>t, <2>2, Singletons DEF ReceiveNodeRequest, OneMessage
    <3> QED BY <2>2, <3>1 DEF ReceiveNodeRequest, CodeInv
  <2>3. CASE SendHookCallRequest
    <3>1. toNode = <<>>
      BY <2>3, VMWorksForReceiver
      DEF SendHookCallRequest, Requested, Serving, Asking, Told
    <3>2. \A what \in HookKinds : Head(Append(toNode, HookCall(what, vmNonce + 1))).codes = {gen}
      BY <3>1, Singletons DEF HookCall, Message
    <3>3. toNode' # <<>> => Head(toNode').codes = {gen}
      BY <2>3, <3>1, <3>2 DEF SendHookCallRequest
    <3>4. UNCHANGED <<toVM, gen, compiled, loaded>> /\ vmPc # "noArguments"
      BY <2>3 DEF SendHookCallRequest
    <3> QED BY <3>3, <3>4 DEF CodeInv
  <2>4. CASE ReceiveHookCallResponse
    <3>1. toVM' = <<>>
      BY <1>t, <2>4, Singletons DEF ReceiveHookCallResponse, OneMessage
    <3>2. loaded' \subseteq {gen}
      BY <2>4 DEF ReceiveHookCallResponse, CodeInv
    <3> QED BY <2>4, <3>1, <3>2 DEF ReceiveHookCallResponse, CodeInv
  <2>5. CASE SendContractResponse
    <3>1. toNode = <<>>
      BY <2>5, VMWorksForReceiver
      DEF SendContractResponse, Requested, Serving, Asking, Told
    <3>2. Head(toNode').codes = {}
      BY <2>5, <3>1, Singletons DEF SendContractResponse, Response, Message
    <3> QED BY <2>5, <3>2 DEF SendContractResponse, CodeInv
  <2> QED BY <1>7, <2>1, <2>2, <2>3, <2>4, <2>5 DEF VMStep
<1>8. ASSUME Crash \/ OutsideClose \/ UNCHANGED vars PROVE CodeInv'
  BY <1>1, <1>8 DEF Crash, OutsideClose, vmVars, lost, vars
<1> QED
  BY <1>2, <1>3, <1>4, <1>5, <1>6, <1>7, <1>8 DEF Next, NodeStep

(* Whatever fails between a start and the next, no process loads code that *)
(* an earlier process compiled (ClearCompiledCodes in VMDriver.startVM).   *)
THEOREM ProcessesLoadTheirOwnCode == Spec => []CompiledCodeIsOwn
<1>1. Init => CodeInv
  BY DEF Init, CodeInv
<1>2. CodeInv => CompiledCodeIsOwn
  BY DEF CodeInv, CompiledCodeIsOwn
<1> QED BY <1>1, <1>2, CodeStep, DriverInvariant, PTL DEF Spec

-----------------------------------------------------------------------------
(* The gas schedule.  The process works with the driver's schedule, or it  *)
(* is closed before the next operation uses it, or the operation that      *)
(* holds the mutex is the change, not yet served.                          *)
ChangePending ==
  \E t \in Threads :
    /\ pc[t] \in {"restart", "send", "receive"}
    /\ op[t].kind = "GasScheduleChange" /\ op[t].schedule = schedule
    /\ op[t].id \notin served
Usable ==
  proc \in {"running", "zombie"} \/ \E t \in Threads : pc[t] \in {"send", "receive"}
ScheduleInv ==
  /\ \A t \in Threads :
       pc[t] \in {"restart", "send", "receive"} /\ op[t].kind = "GasScheduleChange" =>
         op[t].schedule = schedule
  /\ schedule \in ValidSchedules /\ Usable => vmSchedule = schedule \/ ChangePending
  /\ \A t \in Threads : pc[t] = "receive" =>
       /\ toNode # <<>> /\ Head(toNode).kind # "HookCall" =>
            Head(toNode).schedule = vmSchedule
       /\ vmPc \in {"serve", "hook", "respond"} => vmReq.schedule = op[t].schedule

(* The process has the driver's schedule, or the change to it is pending.  *)
LEMMA ScheduleStep == DriverInv /\ ScheduleInv /\ [Next]_vars => ScheduleInv'
<1> SUFFICES ASSUME DriverInv, ScheduleInv, [Next]_vars PROVE ScheduleInv'
  OBVIOUS
<1>t. TypeOK /\ MutexInv /\ IdentityInv /\ OneMessage /\ QuietInv /\ LoopInv
  BY DEF DriverInv
<1>1. ASSUME UNCHANGED <<op, schedule, vmSchedule, vmReq, served>>,
             \A u \in Threads : /\ pc'[u] = "receive" <=> pc[u] = "receive"
                                /\ pc'[u] \in {"restart", "send", "receive"} <=>
                                     pc[u] \in {"restart", "send", "receive"},
             Usable' => Usable,
             toNode' = toNode \/ toNode' = <<>>,
             vmPc' \in {"serve", "hook", "respond"} => vmPc \in {"serve", "hook", "respond"}
      PROVE ScheduleInv'
  BY <1>1 DEF ScheduleInv, ChangePending
<1>2. ASSUME NEW t \in Threads, Call(t) PROVE ScheduleInv'
  <2>1. /\ pc[t] = "idle" /\ pc'[t] = "lock"
        /\ \A u \in Threads \ {t} : op'[u] = op[u] /\ pc'[u] = pc[u]
        /\ UNCHANGED <<schedule, proc, toNode, vmPc, vmSchedule, vmReq, served>>
    BY <1>2, <1>t DEF Call, TypeOK, vmVars, lost
  <2>2. Usable' => Usable
    BY <2>1 DEF Usable
  <2>3. ChangePending => ChangePending'
    BY <2>1 DEF ChangePending
  <2> QED BY <2>1, <2>2, <2>3 DEF ScheduleInv
<1>3. ASSUME NEW t \in Threads, Lock(t) PROVE ScheduleInv'
  <2>1. /\ pc[t] = "lock" /\ pc'[t] = "restart" /\ mutex = {}
        /\ \A u \in Threads \ {t} : pc'[u] = pc[u]
        /\ UNCHANGED <<op, proc, toNode, vmPc, vmSchedule, vmReq, served>>
        /\ schedule' = IF op[t].kind = "GasScheduleChange" THEN op[t].schedule ELSE schedule
    BY <1>3, <1>t DEF Lock, TypeOK, vmVars, lost
  <2>2. \A u \in Threads : pc[u] \notin {"restart", "send", "receive"}
    BY <1>t, <2>1 DEF MutexInv
  <2>3. ~ChangePending /\ (Usable' => Usable)
    BY <2>1, <2>2 DEF ChangePending, Usable
  <2>4. CASE op[t].kind = "GasScheduleChange"
    <3>1. op[t].id \notin served
      BY <1>t, <2>1 DEF IdentityInv
    <3>2. ChangePending'
      BY <2>1, <2>4, <3>1 DEF ChangePending
    <3> QED BY <2>1, <2>2, <2>4, <3>2 DEF ScheduleInv
  <2>5. CASE op[t].kind # "GasScheduleChange"
    BY <2>1, <2>2, <2>3, <2>5 DEF ScheduleInv
  <2> QED BY <2>4, <2>5
<1>4. ASSUME NEW t \in Threads, NoRestart(t) PROVE ScheduleInv'
  <2>1. Usable
    BY <1>4, <1>t DEF NoRestart, IsClosed, Usable, TypeOK
  <2> QED BY <1>1, <1>4, <1>t, <2>1 DEF NoRestart, vmVars, lost, TypeOK
(* The end of an operation after which the process is not used as it is.   *)
<1>5. ASSUME NEW t \in Threads, pc[t] \in {"restart", "send", "receive"},
             pc' = [pc EXCEPT ![t] = "idle"], UNCHANGED <<op, schedule>>,
             vmSchedule' = schedule \/ proc' \notin {"running", "zombie"}
      PROVE ScheduleInv'
  <2>1. \A u \in Threads : pc'[u] \notin {"restart", "send", "receive"}
    BY <1>5, <1>t, OneReceiver DEF TypeOK
  <2> QED BY <1>5, <2>1 DEF ScheduleInv, Usable
<1>6. ASSUME NEW t \in Threads, IsClosedPanics(t) PROVE ScheduleInv'
  BY <1>5, <1>6 DEF IsClosedPanics, Return
<1>7. ASSUME NEW t \in Threads, StartVM(t) PROVE ScheduleInv'
  <2>1. \A u \in Threads \ {t} : pc'[u] = pc[u] /\ pc[u] \notin {"restart", "send", "receive"}
    BY <1>7, <1>t, OneReceiver DEF StartVM, TypeOK
  <2>2. pc[t] = "restart" /\ pc'[t] = "send" /\ UNCHANGED <<op, schedule>>
        /\ vmSchedule' = schedule
    BY <1>7, <1>t DEF StartVM, StartProcess, TypeOK
  <2> QED BY <2>1, <2>2 DEF ScheduleInv
<1>8. ASSUME NEW t \in Threads, StartVMFails(t) PROVE ScheduleInv'
  <2>1. /\ pc[t] = "restart" /\ pc' = [pc EXCEPT ![t] = "idle"] /\ UNCHANGED <<op, schedule>>
    BY <1>8 DEF StartVMFails, Return
  <2>2. vmSchedule' = schedule \/ proc' \notin {"running", "zombie"}
    BY <1>8 DEF StartVMFails, StartProcess
  <2> QED BY <1>5, <2>1, <2>2
<1>9. ASSUME NEW t \in Threads, SendContractRequest(t) PROVE ScheduleInv'
  <2>1. \A u \in Threads \ {t} : pc'[u] = pc[u] /\ pc[u] # "receive"
    BY <1>9, <1>t, OneReceiver DEF SendContractRequest, TypeOK
  <2>2. Idle
    BY <1>9, <2>1 DEF SendContractRequest, Idle
  <2>3. toNode = <<>> /\ AtStart
    BY <1>9, <1>t, <2>2 DEF SendContractRequest, QuietInv
  <2>4. /\ pc[t] = "send" /\ pc'[t] = "receive"
        /\ UNCHANGED <<op, schedule, proc, toNode, vmPc, vmSchedule, vmReq, served>>
    BY <1>9, <1>t DEF SendContractRequest, TypeOK, vmVars, lost
  <2>5. Usable /\ (ChangePending => ChangePending')
    BY <2>1, <2>4 DEF Usable, ChangePending
  <2> QED BY <2>1, <2>3, <2>4, <2>5 DEF ScheduleInv, AtStart
<1>10. ASSUME NEW t \in Threads, SendFails(t) \/ ReceiveTimeout(t) PROVE ScheduleInv'
  BY <1>5, <1>10 DEF SendFails, ReceiveTimeout, FailLoop, Close, Return
<1>11. ASSUME NEW t \in Threads, NEW d \in 0 .. (MaxLoopTime + 1), Receive(t, d)
       PROVE ScheduleInv'
  <2> DEFINE m == Head(toNode)
  <2>1. /\ pc[t] = "receive" /\ toNode # <<>> /\ toNode' = Tail(toNode)
        /\ UNCHANGED <<op, schedule, vmPc, vmSchedule, vmReq, served>>
    BY <1>11 DEF Receive, vmVars, lost
  <2>2. toNode = <<m>> /\ toNode' = <<>>
    BY <1>t, <2>1, Singletons DEF OneMessage
  <2>3. CASE FailLoop(t)
    BY <1>5, <2>1, <2>3 DEF FailLoop, Close, Return
  <2>4. CASE UNCHANGED <<pc, proc>>
    BY <1>1, <2>1, <2>2, <2>4 DEF Usable
  <2>5. CASE m.kind # "HookCall" /\ Return(t, Outcome(op[t], m)) /\ UNCHANGED proc
    <3>1. Answered(t)
      BY <1>t, <2>1, <2>2, <2>5, Singletons DEF LoopInv, Requested, Serving, Asking, Told
    <3>2. pc' = [pc EXCEPT ![t] = "idle"] /\ UNCHANGED proc
      BY <2>5 DEF Return
    <3>3. ~ChangePending
      BY <1>t, <2>1, <3>1, OneReceiver DEF ChangePending, Answered
    <3>4. schedule \in ValidSchedules => vmSchedule = schedule
      BY <2>1, <3>3 DEF ScheduleInv, Usable
    <3>5. \A u \in Threads : pc'[u] \notin {"restart", "send", "receive"}
      BY <1>t, <2>1, <3>2, OneReceiver DEF TypeOK
    <3> QED BY <2>1, <3>4, <3>5 DEF ScheduleInv
  <2> QED BY <1>11, <2>3, <2>4, <2>5 DEF Receive, ReplyToHookCallRequest
<1>12. ASSUME VMStep \/ Crash \/ OutsideClose PROVE ScheduleInv'
  <2>n. UNCHANGED <<pc, op, schedule>>
    BY <1>12, VMStepsLeaveNode DEF nodeVars
  <2>u. (VMStep \/ Crash => Running) /\ (OutsideClose => proc \in {"running", "zombie"})
    BY DEF VMStep, NewVMPart, ReceiveNodeRequest, SendHookCallRequest,
       ReceiveHookCallResponse, Serve, SendContractResponse, ResetDialogue, Crash, OutsideClose
  <2>v. Usable
    BY <1>12, <2>u DEF Usable, Running
  <2>1. CASE Crash \/ OutsideClose
    BY <1>1, <2>1, <2>n, <2>v DEF Crash, OutsideClose, vmVars, lost
  <2>2. CASE NewVMPart \/ ResetDialogue
    BY <1>1, <2>2, <2>n, <2>v DEF NewVMPart, ResetDialogue
  <2>3. CASE ReceiveNodeRequest
    <3>1. PICK t \in Threads : pc[t] = "receive" /\ Requested(t)
      BY <2>3, VMWorksForReceiver DEF ReceiveNodeRequest, Serving, Asking, Told
    <3>2. Head(toVM).schedule = op[t].schedule /\ toNode = <<>>
      BY <3>1, Singletons DEF Requested, Request, Message
    <3>3. \A u \in Threads : pc[u] = "receive" => u = t
      BY <1>t, <3>1, OneReceiver
    <3>4. /\ vmReq' = Head(toVM) \/ (UNCHANGED vmReq /\ vmPc' = "receive")
          /\ UNCHANGED <<toNode, vmSchedule, served>>
      BY <2>3 DEF ReceiveNodeRequest
    <3> QED BY <2>n, <2>v, <3>2, <3>3, <3>4 DEF ScheduleInv, ChangePending
  <2>4. CASE SendHookCallRequest
    <3>1. toNode = <<>>
      BY <2>4, VMWorksForReceiver DEF SendHookCallRequest, Requested, Serving, Asking, Told
    <3>2. \A what \in HookKinds : Head(Append(toNode, HookCall(what, vmNonce + 1))).kind = "HookCall"
      BY <3>1, Singletons DEF HookCall, Message
    <3>3. toNode' # <<>> => Head(toNode').kind = "HookCall"
      BY <2>4, <3>1, <3>2 DEF SendHookCallRequest
    <3>4. vmPc = "serve" /\ UNCHANGED <<vmSchedule, vmReq, served>>
      BY <2>4 DEF SendHookCallRequest
    <3> QED BY <2>n, <2>v, <3>3, <3>4 DEF ScheduleInv, ChangePending
  <2>5. CASE ReceiveHookCallResponse
    BY <1>1, <2>5, <2>n, <2>v DEF ReceiveHookCallResponse
  <2>6. CASE Serve
    <3>1. PICK t \in Threads : pc[t] = "receive" /\ Serving(t)
      BY <2>6, VMWorksForReceiver DEF Serve, Requested, AtStart, Asking, Told
    <3>2. /\ toNode = <<>> /\ UNCHANGED <<toNode, vmReq>> /\ vmPc = "serve"
          /\ vmReq.kind = op[t].kind /\ vmReq.schedule = op[t].schedule
          /\ served' = served \cup {op[t].id}
      BY <2>6, <3>1 DEF Serve, Serving, ServesFor, ScheduleInv
    <3>3. \A u \in Threads : pc[u] \in {"restart", "send", "receive"} => u = t
      BY <1>t, <3>1, OneReceiver
    <3>4. schedule \in ValidSchedules => vmSchedule' = schedule
      <4> SUFFICES ASSUME schedule \in ValidSchedules PROVE vmSchedule' = schedule
        OBVIOUS
      <4>1. CASE op[t].kind = "GasScheduleChange"
        BY <2>6, <3>1, <3>2, <4>1 DEF Serve, ScheduleInv
      <4>2. CASE op[t].kind # "GasScheduleChange"
        <5>1. ~ChangePending
          BY <3>3, <4>2 DEF ChangePending
        <5> QED BY <2>6, <2>v, <3>2, <4>2, <5>1 DEF Serve, ScheduleInv
      <4> QED BY <4>1, <4>2
    <3> QED BY <2>n, <3>2, <3>4 DEF ScheduleInv
  <2>7. CASE SendContractResponse
    <3>1. toNode = <<>>
      BY <2>7, VMWorksForReceiver DEF SendContractResponse, Requested, Serving, Asking, Told
    <3>2. Head(toNode').schedule = vmSchedule
      BY <2>7, <3>1, Singletons DEF SendContractResponse, Response, Message
    <3>3. vmPc' = "reset" /\ UNCHANGED <<vmSchedule, vmReq, served>>
      BY <2>7 DEF SendContractResponse
    <3> QED BY <2>n, <2>v, <3>2, <3>3 DEF ScheduleInv, ChangePending
  <2> QED BY <1>12, <2>1, <2>2, <2>3, <2>4, <2>5, <2>6, <2>7 DEF VMStep
<1>13. ASSUME UNCHANGED vars PROVE ScheduleInv'
  BY <1>1, <1>13 DEF vars, Usable
<1> QED
  BY <1>2, <1>3, <1>4, <1>6, <1>7, <1>8, <1>9, <1>10, <1>11, <1>12, <1>13 DEF Next, NodeStep

(* A contract that is answered was executed with the schedule the driver   *)
(* holds, through changes, crashes, timeouts and restarts                  *)
(* (VMDriver.GasScheduleChange, startVM).                                  *)
THEOREM ContractsRunWithTheSchedule == Spec => ScheduleInForce
<1>1. Init => ScheduleInv
  BY DEF Init, ScheduleInv
<1>2. ASSUME DriverInv, ScheduleInv, [Next]_vars, NEW t \in Threads,
             pc[t] = "receive", pc'[t] = "idle", result'[t].kind = "ok",
             op[t].kind = "Contract", schedule \in ValidSchedules
      PROVE result'[t].schedule = schedule
  <2>t. TypeOK /\ MutexInv /\ OneMessage /\ LoopInv
    BY <1>2 DEF DriverInv
  <2>s. vmSchedule = schedule
    <3>1. ~ChangePending
      BY <1>2, <2>t, OneReceiver DEF ChangePending
    <3> QED BY <1>2, <3>1 DEF ScheduleInv, Usable
  <2>c. \A u \in Threads : Return(u, Critical) => result'[u].kind = "critical"
    BY <2>t DEF Return, Critical, Failure, TypeOK
  <2>1. CASE ReceiveTimeout(t)
    BY <1>2, <2>1, <2>c DEF ReceiveTimeout, FailLoop
  <2>2. ASSUME NEW d \in 0 .. (MaxLoopTime + 1), Receive(t, d)
        PROVE result'[t].schedule = schedule
    <3> DEFINE m == Head(toNode)
    <3>1. toNode = <<m>> /\ toNode # <<>>
      BY <2>2, <2>t DEF Receive, OneMessage
    <3>2. ~FailLoop(t) /\ ~UNCHANGED pc
      BY <1>2, <2>c DEF FailLoop
    <3>3. m.kind # "HookCall" /\ Return(t, Outcome(op[t], m))
      BY <2>2, <3>2 DEF Receive, ReplyToHookCallRequest
    <3>4. Return(t, Outcome(op[t], m))
      BY <3>3
    <3>5. m.schedule = vmSchedule
      BY <1>2, <3>1, <3>3 DEF ScheduleInv
    <3>6. result'[t] = Outcome(op[t], m)
      BY <2>t, <3>4 DEF Return, TypeOK
    <3>7. Outcome(op[t], m).kind = "ok"
      BY <1>2, <3>6
    <3>8. Outcome(op[t], m).schedule = m.schedule
      BY <3>7 DEF Outcome, Failure
    <3> QED BY <2>s, <3>5, <3>6, <3>8
  <2>3. ASSUME NEW u \in Threads, NodeStep(u), u # t PROVE FALSE
    <3>1. pc'[t] = "idle" /\ pc[t] = "receive"
      BY <1>2
    <3>2. pc'[t] = pc[t]
      BY <2>3, <2>t
      DEF NodeStep, Lock, NoRestart, IsClosedPanics, StartVM, StartVMFails,
          SendContractRequest, SendFails, ReceiveTimeout, Receive, FailLoop, Return,
          ReplyToHookCallRequest, TypeOK
    <3> QED BY <3>1, <3>2
  <2>4. CASE NodeStep(t)
    BY <1>2, <2>1, <2>2, <2>4
    DEF NodeStep, Lock, NoRestart, IsClosedPanics, StartVM, StartVMFails,
        SendContractRequest, SendFails
  <2>5. ASSUME NEW u \in Threads, Call(u) PROVE FALSE
    BY <1>2, <2>5, <2>t DEF Call, TypeOK
  <2>6. CASE VMStep \/ Crash \/ OutsideClose \/ UNCHANGED vars
    BY <1>2, <2>6, VMStepsLeaveNode DEF nodeVars, vars
  <2> QED BY <1>2, <2>3, <2>4, <2>5, <2>6 DEF Next
<1>3. DriverInv /\ ScheduleInv /\ [Next]_vars =>
        [\A t \in Threads :
           /\ pc[t] = "receive" /\ pc'[t] = "idle" /\ result'[t].kind = "ok"
           /\ op[t].kind = "Contract" /\ schedule \in ValidSchedules
           => result'[t].schedule = schedule]_vars
  BY <1>2
<1> QED BY <1>1, <1>3, ScheduleStep, DriverInvariant, PTL DEF Spec, ScheduleInForce

-----------------------------------------------------------------------------
(* The refinement of VMService.                                            *)

PhaseOf(p) == IF p = "idle" THEN "idle" ELSE IF p = "lock" THEN "waiting" ELSE "served"

(* The end of an operation, seen by the service.                           *)
LEMMA MappedReturn ==
  ASSUME TypeOK, NEW t \in Threads, pc[t] \in {"restart", "send", "receive"},
         NEW answer, result'[t].id = answer,
         \A u \in Threads \ {t} : result'[u] = result[u],
         pc' = [pc EXCEPT ![t] = "idle"], UNCHANGED <<op, served, ops>>
  PROVE  Service!Finish(t, answer)
  BY DEF Service!Finish, TypeOK

(* A step the service does not see.                                        *)
LEMMA MappedStutter ==
  ASSUME UNCHANGED <<op, result, served, ops>>,
         \A t \in Threads : PhaseOf(pc'[t]) = PhaseOf(pc[t])
  PROVE  UNCHANGED Service!vars
  BY DEF Service!vars, PhaseOf

(* Every step of the driver is a step of the abstract service, or a        *)
(* stutter.                                                                *)
LEMMA ServiceStep == DriverInv /\ [Next]_vars => [Service!Next]_(Service!vars)
<1> SUFFICES ASSUME DriverInv, [Next]_vars
             PROVE Service!Next \/ UNCHANGED Service!vars
  OBVIOUS
<1>t. TypeOK /\ MutexInv /\ IdentityInv /\ LoopInv
  BY DEF DriverInv
<1>1. ASSUME NEW t \in Threads, Call(t) PROVE Service!Submit(t)
  <2>1. /\ pc[t] = "idle" /\ pc' = [pc EXCEPT ![t] = "lock"] /\ ops' = ops + 1
        /\ UNCHANGED <<result, served>>
    BY <1>1 DEF Call, vmVars, lost
  <2>2. /\ op'[t].id = ops + 1 /\ \A u \in Threads \ {t} : op'[u] = op[u]
    BY <1>1, <1>t DEF Call, TypeOK
  <2> QED BY <1>t, <2>1, <2>2 DEF Service!Submit, TypeOK
<1>2. ASSUME NEW t \in Threads, Lock(t) PROVE Service!Begin(t)
  <2>1. /\ pc[t] = "lock" /\ pc' = [pc EXCEPT ![t] = "restart"]
        /\ UNCHANGED <<op, result, served, ops>> /\ mutex = {}
    BY <1>2 DEF Lock, vmVars, lost
  <2>2. \A u \in Threads : pc[u] \in {"idle", "lock"}
    BY <1>t, <2>1 DEF MutexInv, TypeOK
  <2> QED BY <1>t, <2>1, <2>2 DEF Service!Begin, TypeOK
<1>3. ASSUME NEW t \in Threads, NoRestart(t) \/ StartVM(t) \/ SendContractRequest(t)
      PROVE UNCHANGED Service!vars
  BY <1>3, <1>t, MappedStutter
  DEF NoRestart, StartVM, StartProcess, SendContractRequest, PhaseOf, TypeOK, vmVars, lost
<1>4. ASSUME NEW t \in Threads,
             IsClosedPanics(t) \/ StartVMFails(t) \/ SendFails(t) \/ ReceiveTimeout(t)
      PROVE Service!Fail(t)
  <2>1. PICK k \in {"critical", "nilProcess"} : Return(t, Failure(k))
    BY <1>4
    DEF IsClosedPanics, StartVMFails, SendFails, ReceiveTimeout, FailLoop, Critical
  <2>2. pc[t] \in {"restart", "send", "receive"} /\ UNCHANGED <<op, served, ops>>
    BY <1>4
    DEF IsClosedPanics, StartVMFails, StartProcess, SendFails, ReceiveTimeout, vmVars, lost
  <2>3. /\ result'[t].id = 0 /\ \A u \in Threads \ {t} : result'[u] = result[u]
        /\ pc' = [pc EXCEPT ![t] = "idle"]
    BY <1>t, <2>1 DEF Failure, Return, TypeOK
  <2>4. Service!Finish(t, 0)
    BY <1>t, <2>2, <2>3, MappedReturn
  <2> QED BY <2>4 DEF Service!Fail
<1>5. ASSUME NEW t \in Threads, NEW d \in 0 .. (MaxLoopTime + 1), Receive(t, d)
      PROVE Service!Answer(t) \/ Service!Fail(t) \/ UNCHANGED Service!vars
  <2> DEFINE m == Head(toNode)
  <2>1. pc[t] = "receive" /\ toNode # <<>> /\ UNCHANGED <<op, served, ops>>
    BY <1>5 DEF Receive, vmVars, lost
  <2>2. CASE Return(t, Critical)
    <3>1. /\ result'[t].id = 0 /\ \A u \in Threads \ {t} : result'[u] = result[u]
          /\ pc' = [pc EXCEPT ![t] = "idle"]
      BY <1>t, <2>2 DEF Critical, Failure, Return, TypeOK
    <3>2. Service!Finish(t, 0)
      BY <1>t, <2>1, <3>1, MappedReturn
    <3> QED BY <3>2 DEF Service!Fail
  <2>3. CASE UNCHANGED <<pc, result>>
    BY <2>1, <2>3, MappedStutter
  <2>4. CASE m.kind # "HookCall" /\ Return(t, Outcome(op[t], m))
    <3>1. Answered(t)
      BY <1>t, <2>1, <2>4 DEF LoopInv, Requested, Serving, Asking, Told
    <3>2. Outcome(op[t], m).id = op[t].id /\ op[t].id \in served
      BY <3>1 DEF Answered, Outcome
    <3>3. /\ result'[t].id = op[t].id
          /\ \A u \in Threads \ {t} : result'[u] = result[u]
          /\ pc' = [pc EXCEPT ![t] = "idle"]
      BY <1>t, <2>4, <3>2 DEF Return, TypeOK
    <3> QED BY <1>t, <2>1, <3>2, <3>3 DEF Service!Answer, Service!Finish, TypeOK
  <2> QED BY <1>5, <2>2, <2>3, <2>4 DEF Receive, ReplyToHookCallRequest, FailLoop
<1>6. ASSUME VMStep \/ Crash \/ OutsideClose
      PROVE UNCHANGED Service!vars \/ \E t \in Threads : Service!Execute(t)
  <2>1. UNCHANGED <<op, pc, result, ops>>
    BY <1>6, VMStepsLeaveNode DEF nodeVars
  <2>2. CASE Serve
    <3>1. PICK t \in Threads : pc[t] = "receive" /\ Serving(t)
      BY <2>2, VMWorksForReceiver DEF Serve, Requested, AtStart, Asking, Told
    <3>2. op[t].id \notin served /\ served' = served \cup {op[t].id}
      BY <2>2, <3>1 DEF Serve, Serving, ServesFor
    <3> QED BY <2>1, <3>1, <3>2 DEF Service!Execute
  <2>3. CASE ~Serve
    <3>1. UNCHANGED served
      BY <1>6, <2>3 DEF VMStep, NewVMPart, ReceiveNodeRequest, SendHookCallRequest,
         ReceiveHookCallResponse, SendContractResponse, ResetDialogue, Crash, OutsideClose,
         vmVars, lost
    <3> QED BY <2>1, <3>1, MappedStutter
  <2> QED BY <2>2, <2>3
<1>7. ASSUME UNCHANGED vars PROVE UNCHANGED Service!vars
  BY <1>7, MappedStutter DEF vars
<1> QED
  BY <1>1, <1>2, <1>3, <1>4, <1>5, <1>6, <1>7 DEF Next, NodeStep, Service!Next

(* The driver with its VM process, pipes, restarts, timeouts and crashes   *)
(* is an implementation of the at-most-once service VMService              *)
(* (ImplementsService is Service!Spec).                                    *)
THEOREM DriverImplementsService == Spec => ImplementsService
<1>1. Init => Service!Init
  BY DEF Init, Service!Init, NoOp, Failure
<1>2. DriverInv /\ [Next]_vars => [Service!Next]_(Service!vars)
  BY ServiceStep
<1> QED BY <1>1, <1>2, DriverInvariant, PTL DEF Spec, ImplementsService, Service!Spec

-----------------------------------------------------------------------------
(* VMHooks: int32.                                                         *)

(* The range of an int32.                                                  *)
LEMMA Int32Range ==
  /\ MaxInt32 \in Nat \ {0} /\ TwoTo32 = 2 * (MaxInt32 + 1)
  /\ Int32 = -MaxInt32 - 1 .. MaxInt32
<1> DEFINE t == TwoTo32
<1>1. t \in Nat /\ t % 2 = 0 /\ PageSize \in Nat \ {0} /\ MaxPages \in Nat \ {0}
  BY SizesAssumption
<1>2. PageSize * MaxPages < MaxInt32
  BY SizesAssumption
<1>3. MaxInt32 = (t \div 2) - 1
  BY DEF MaxInt32
<1> HIDE DEF t
<1>4. t \div 2 \in Int /\ t = 2 * (t \div 2)
  BY <1>1
<1>5. PageSize * MaxPages \in Nat
  BY <1>1
<1> QED BY <1>2, <1>3, <1>4, <1>5 DEF Int32, t

(* Remainders of numbers of at most twice the width.                       *)
LEMMA Remainder ==
  ASSUME NEW k \in Nat
  PROVE  /\ k < TwoTo32 => k % TwoTo32 = k
         /\ TwoTo32 <= k /\ k < 2 * TwoTo32 => k % TwoTo32 = k - TwoTo32
<1> DEFINE t == TwoTo32
<1>1. t \in Nat \ {0}
  BY Int32Range
<1> HIDE DEF t
<1>2. k < t => k % t = k
  BY <1>1
<1>3. t <= k /\ k < 2 * t => k % t = k - t
  BY <1>1
<1> QED BY <1>2, <1>3 DEF t

(* AddInt32 of a natural number and a positive one: exact, or the largest. *)
LEMMA AddSaturates ==
  ASSUME NEW a \in 0 .. MaxInt32, NEW b \in 1 .. MaxInt32
  PROVE  AddInt32(a, b) = IF a + b <= MaxInt32 THEN a + b ELSE MaxInt32
<1> DEFINE k == a + b + MaxInt32 + 1
<1>1. MaxInt32 \in Nat \ {0} /\ TwoTo32 = 2 * (MaxInt32 + 1)
  BY Int32Range
<1>2. k \in Nat /\ k < 2 * TwoTo32
  BY <1>1
<1>3. /\ k < TwoTo32 => k % TwoTo32 = k
      /\ TwoTo32 <= k /\ k < 2 * TwoTo32 => k % TwoTo32 = k - TwoTo32
  BY <1>2, Remainder
<1>4. Wrap32(a + b) = (k % TwoTo32) - MaxInt32 - 1
  BY DEF Wrap32
<1>5. Wrap32(a + b) = IF a + b <= MaxInt32 THEN a + b ELSE a + b - TwoTo32
  BY <1>1, <1>2, <1>3, <1>4
<1> QED BY <1>1, <1>5 DEF AddInt32

LEMMA Uint32Is == ASSUME NEW a \in 0 .. MaxInt32 PROVE Uint32(a) = a
<1>1. MaxInt32 \in Nat \ {0} /\ TwoTo32 = 2 * (MaxInt32 + 1)
  BY Int32Range
<1>2. a \in Nat /\ a < TwoTo32
  BY <1>1
<1> QED BY <1>2, Remainder DEF Uint32

-----------------------------------------------------------------------------
(* Loads.                                                                  *)

IsSequence(s) == \E S : s \in Seq(S)

(* A memory of at most MaxPages pages.                                     *)
GoodMemory(m) == IsSequence(m) /\ Len(m) <= PageSize * MaxPages

LEMMA MemoryIsSmall ==
  ASSUME NEW m, GoodMemory(m)
  PROVE  Len(m) \in Nat /\ Len(m) < MaxInt32 /\ Len(m) \in 0 .. MaxInt32
<1>1. PICK S : m \in Seq(S)
  BY DEF GoodMemory, IsSequence
<1>2. Len(m) \in Nat
  BY <1>1
<1>3. PageSize * MaxPages \in Nat /\ PageSize * MaxPages < MaxInt32
  BY SizesAssumption
<1> QED BY <1>2, <1>3, Int32Range DEF GoodMemory

(* n zeros.                                                                *)
LEMMA ZerosAre ==
  ASSUME NEW n \in Nat
  PROVE  /\ [i \in 1 .. n |-> 0] \in Seq({0}) /\ Len([i \in 1 .. n |-> 0]) = n
         /\ \A i \in 1 .. n : [j \in 1 .. n |-> 0][i] = 0
OBVIOUS

(* The bytes that lie in the memory.                                       *)
LEMMA UnfilledIsExact ==
  ASSUME NEW m, GoodMemory(m), NEW offset \in Int32, NEW length \in Int32
  PROVE  LET load == LoadUnfilled(m, offset, length)
         IN  /\ load.ok <=> length = 0 \/ (offset \in 0 .. Len(m) /\ length > 0)
             /\ load.ok => /\ \E S : load.data \in Seq(S)
                           /\ Len(load.data) <= length
                           /\ \A i \in 1 .. Len(load.data) :
                                offset + i <= Len(m) /\ load.data[i] = m[offset + i]
                           /\ Len(load.data) < length => offset + Len(load.data) >= Len(m)
             /\ ~ load.ok => load = BadBounds
<1> DEFINE load == LoadUnfilled(m, offset, length)
           n == Len(m)
           end == IF Uint32(AddInt32(offset, length)) > n THEN n ELSE AddInt32(offset, length)
           got == SubSeq(m, offset + 1, end)
<1>1. n \in Nat /\ n < MaxInt32 /\ MaxInt32 \in Nat
      /\ offset \in Int /\ length \in Int /\ offset <= MaxInt32 /\ length <= MaxInt32
  BY MemoryIsSmall, Int32Range
<1>2. /\ length = 0 => load = Loaded(<<>>)
      /\ length # 0 /\ (offset < 0 \/ Uint32(offset) > n \/ length < 0) => load = BadBounds
      /\ length # 0 /\ ~ (offset < 0 \/ Uint32(offset) > n \/ length < 0) => load = Loaded(got)
  BY DEF LoadUnfilled
<1> HIDE DEF load
<1>3. offset >= 0 => Uint32(offset) = offset
  BY <1>1, Uint32Is
<1>4. CASE length = 0
  <2>1. load.ok = TRUE /\ load.data = <<>>
    BY <1>2, <1>4 DEF Loaded
  <2>2. load.data \in Seq({}) /\ Len(load.data) = 0
    BY <2>1
  <2>3. \E S : load.data \in Seq(S)
    BY <2>2
  <2>4. \A i \in 1 .. Len(load.data) :
          offset + i <= Len(m) /\ load.data[i] = m[offset + i]
    BY <2>2
  <2> QED BY <1>1, <1>4, <2>1, <2>2, <2>3, <2>4 DEF load
<1>5. CASE length # 0 /\ ~ (offset \in 0 .. n /\ length > 0)
  <2>1. offset < 0 \/ Uint32(offset) > n \/ length < 0
    BY <1>1, <1>3, <1>5
  <2>2. load = BadBounds /\ load.ok = FALSE
    BY <1>2, <1>5, <2>1 DEF BadBounds
  <2> QED BY <1>5, <2>2 DEF load
<1>6. CASE offset \in 0 .. n /\ length > 0
  <2>1. load = Loaded(got)
    BY <1>1, <1>2, <1>3, <1>6
  <2>2. load.ok = TRUE /\ load.data = got
    BY <2>1 DEF Loaded
  <2>3. offset \in 0 .. MaxInt32 /\ length \in 1 .. MaxInt32
    BY <1>1, <1>6
  <2>4. AddInt32(offset, length) = IF offset + length <= MaxInt32 THEN offset + length ELSE MaxInt32
    BY <2>3, AddSaturates
  <2>5. AddInt32(offset, length) \in 0 .. MaxInt32
    BY <1>1, <2>3, <2>4
  <2>6. Uint32(AddInt32(offset, length)) = AddInt32(offset, length)
    BY <2>5, Uint32Is
  <2>7. end = IF offset + length > n THEN n ELSE offset + length
    BY <1>1, <2>3, <2>4, <2>6
  <2> HIDE DEF end
  <2>8. end \in Int /\ end >= offset /\ end <= n /\ end <= offset + length
    BY <1>1, <1>6, <2>7
  <2>9. PICK S : m \in Seq(S)
    BY DEF GoodMemory, IsSequence
  <2>10. \A i \in offset + 1 .. end : m[i] \in S
    BY <1>1, <1>6, <2>8, <2>9
  <2>11. /\ got \in Seq(S)
         /\ Len(got) = IF offset + 1 <= end THEN end - (offset + 1) + 1 ELSE 0
         /\ \A i \in 1 .. end - (offset + 1) + 1 : got[i] = m[(offset + 1) + i - 1]
    BY <1>1, <2>8, <2>10, SubSeqProperties
  <2> HIDE DEF got
  <2>12. Len(got) = end - offset /\ \A i \in 1 .. end - offset : got[i] = m[offset + i]
    BY <1>1, <2>8, <2>11
  <2>13. /\ Len(got) <= length
         /\ \A i \in 1 .. Len(got) : offset + i <= n /\ got[i] = m[offset + i]
         /\ Len(got) < length => offset + Len(got) >= n
    BY <1>1, <2>7, <2>8, <2>12
  <2> QED BY <1>6, <2>2, <2>11, <2>13 DEF load
<1> QED BY <1>4, <1>5, <1>6

(* A load returns the bytes asked for, with zeros past the end.            *)
LEMMA LoadIsExact ==
  ASSUME NEW m, GoodMemory(m), NEW offset \in Int32, NEW length \in Int32
  PROVE  LET load == MemLoad(m, offset, length)
         IN  /\ load.ok <=> length = 0 \/ (offset \in 0 .. Len(m) /\ length > 0)
             /\ load.ok => /\ IsSequence(load.data) /\ Len(load.data) = length
                           /\ \A i \in 1 .. length : load.data[i] =
                                IF offset + i <= Len(m) THEN m[offset + i] ELSE 0
                           /\ load = Loaded(load.data)
<1> DEFINE u == LoadUnfilled(m, offset, length)
           load == MemLoad(m, offset, length)
           k == length - Len(u.data)
           all == u.data \o [i \in 1 .. k |-> 0]
<1>1. /\ u.ok <=> length = 0 \/ (offset \in 0 .. Len(m) /\ length > 0)
      /\ u.ok => /\ \E S : u.data \in Seq(S)
                 /\ Len(u.data) <= length
                 /\ \A i \in 1 .. Len(u.data) :
                      offset + i <= Len(m) /\ u.data[i] = m[offset + i]
                 /\ Len(u.data) < length => offset + Len(u.data) >= Len(m)
      /\ ~ u.ok => u = BadBounds
  BY UnfilledIsExact
<1>2. load = IF u.ok THEN Loaded(all) ELSE u
  BY DEF MemLoad
<1> HIDE DEF u, load
<1>3. CASE ~ u.ok
  <2>1. load.ok = FALSE
    BY <1>1, <1>2, <1>3 DEF BadBounds
  <2> QED BY <1>1, <1>3, <2>1 DEF load
<1>4. CASE u.ok
  <2>1. load = Loaded(all) /\ load.ok = TRUE /\ load.data = all
    BY <1>2, <1>4 DEF Loaded
  <2>2. PICK S : u.data \in Seq(S)
    BY <1>1, <1>4
  <2>3. Len(u.data) \in Nat /\ length \in Int /\ offset \in Int /\ Len(m) \in Nat
    BY <2>2, Int32Range, MemoryIsSmall
  <2>4. k \in Nat
    BY <1>1, <1>4, <2>3
  <2> HIDE DEF k
  <2> DEFINE z == [i \in 1 .. k |-> 0]
  <2>5. z \in Seq({0}) /\ Len(z) = k /\ \A i \in 1 .. k : z[i] = 0
    BY <2>4, ZerosAre
  <2> HIDE DEF z
  <2>6. u.data \in Seq(S \cup {0}) /\ z \in Seq(S \cup {0})
    BY <2>2, <2>5
  <2>7. /\ u.data \o z \in Seq(S \cup {0})
        /\ Len(u.data \o z) = Len(u.data) + Len(z)
        /\ \A i \in 1 .. Len(u.data) + Len(z) :
             (u.data \o z)[i] = IF i <= Len(u.data) THEN u.data[i] ELSE z[i - Len(u.data)]
    BY <2>6, ConcatProperties
  <2>8. all = u.data \o z
    BY DEF z
  <2> HIDE DEF all
  <2>9. Len(all) = length
    BY <2>3, <2>5, <2>7, <2>8 DEF k
  <2>10. ASSUME NEW i \in 1 .. length
         PROVE  all[i] = IF offset + i <= Len(m) THEN m[offset + i] ELSE 0
    <3>1. all[i] = IF i <= Len(u.data) THEN u.data[i] ELSE z[i - Len(u.data)]
      BY <2>3, <2>5, <2>7, <2>8 DEF k
    <3>2. CASE i <= Len(u.data)
      BY <1>1, <1>4, <2>3, <3>1, <3>2
    <3>3. CASE i > Len(u.data)
      <4>1. i - Len(u.data) \in 1 .. k
        BY <2>3, <3>3 DEF k
      <4>2. all[i] = 0
        BY <2>3, <2>5, <3>1, <3>3, <4>1
      <4>3. ~ (offset + i <= Len(m))
        BY <1>1, <1>4, <2>3, <3>3
      <4> QED BY <4>2, <4>3
    <3> QED BY <2>3, <3>2, <3>3
  <2>11. IsSequence(all)
    BY <2>7, <2>8 DEF IsSequence
  <2> QED BY <1>1, <1>4, <2>1, <2>9, <2>10, <2>11 DEF load
<1> QED BY <1>3, <1>4

-----------------------------------------------------------------------------
(* Stores.                                                                 *)

(* Memory with one page more, and memory with data written over it.        *)
LEMMA GrownMemory ==
  ASSUME NEW m, IsSequence(m)
  PROVE  LET g == m \o Zeros(PageSize)
         IN  /\ IsSequence(g) /\ Len(m) \in Nat /\ Len(g) = Len(m) + PageSize
             /\ \A i \in 1 .. Len(g) : g[i] = IF i <= Len(m) THEN m[i] ELSE 0
<1> DEFINE z == Zeros(PageSize)
<1>1. PICK S : m \in Seq(S)
  BY DEF IsSequence
<1>2. PageSize \in Nat
  BY SizesAssumption
<1>3. z \in Seq({0}) /\ Len(z) = PageSize /\ \A i \in 1 .. PageSize : z[i] = 0
  BY <1>2, ZerosAre DEF Zeros
<1> HIDE DEF z
<1>4. m \in Seq(S \cup {0}) /\ z \in Seq(S \cup {0}) /\ Len(m) \in Nat
  BY <1>1, <1>3
<1>5. /\ m \o z \in Seq(S \cup {0}) /\ Len(m \o z) = Len(m) + Len(z)
      /\ \A i \in 1 .. Len(m) + Len(z) :
           (m \o z)[i] = IF i <= Len(m) THEN m[i] ELSE z[i - Len(m)]
  BY <1>4, ConcatProperties
<1>6. \A i \in 1 .. Len(m) + PageSize : (m \o z)[i] = IF i <= Len(m) THEN m[i] ELSE 0
  BY <1>2, <1>3, <1>4, <1>5
<1>7. IsSequence(m \o z)
  BY <1>5 DEF IsSequence
<1> QED BY <1>3, <1>4, <1>5, <1>6, <1>7 DEF z

LEMMA OverwrittenMemory ==
  ASSUME NEW m, IsSequence(m), NEW offset, NEW end, NEW data
  PROVE  LET w == Overwrite(m, offset, end, data)
         IN  /\ IsSequence(w) /\ Len(w) = Len(m) /\ Len(m) \in Nat
             /\ \A i \in 1 .. Len(m) :
                  w[i] = IF i \in offset + 1 .. end THEN data[i - offset] ELSE m[i]
<1> DEFINE e(i) == IF i \in offset + 1 .. end THEN data[i - offset] ELSE m[i]
           S == {e(i) : i \in 1 .. Len(m)}
           w == [i \in 1 .. Len(m) |-> e(i)]
<1>1. Len(m) \in Nat
  BY DEF IsSequence
<1>2. Overwrite(m, offset, end, data) = w
  BY DEF Overwrite
<1>3. \A i \in 1 .. Len(m) : w[i] = e(i) /\ e(i) \in S
  OBVIOUS
<1> HIDE DEF e, S
<1>4. w \in [1 .. Len(m) -> S]
  BY <1>3
<1>5. w \in Seq(S) /\ Len(w) = Len(m)
  BY <1>1, <1>4
<1>6. IsSequence(w)
  BY <1>5 DEF IsSequence
<1> HIDE DEF w
<1> QED BY <1>1, <1>2, <1>3, <1>5, <1>6 DEF e

(* Whatever is stored, memory stays within its limit.                      *)
LEMMA StoreKeepsMemory ==
  ASSUME NEW m, GoodMemory(m), NEW offset, NEW data
  PROVE  /\ GoodMemory(MemStore(m, offset, data).mem)
         /\ Len(MemStore(m, offset, data).mem) - Len(m) \in {0, PageSize}
<1> DEFINE end == Uint32(AddInt32(offset, Len(data)))
           g == m \o Zeros(PageSize)
           view == IF end > Len(m) THEN g ELSE m
           new == MemStore(m, offset, data)
<1>1. IsSequence(m) /\ Len(m) <= PageSize * MaxPages /\ Len(m) \in Nat
  BY MemoryIsSmall DEF GoodMemory
<1>2. IsSequence(g) /\ Len(g) = Len(m) + PageSize /\ PageSize \in Nat
  BY <1>1, GrownMemory, SizesAssumption
<1>3. PageSize * MaxPages \in Nat
  BY SizesAssumption
<1>4. \/ new = Stored(m) \/ new = NotStored(m)
      \/ /\ ~ (end > Len(m) /\ Len(g) > PageSize * MaxPages)
         /\ new = NotStored(view) \/ new = Stored(Overwrite(view, offset, end, data))
  BY DEF MemStore
<1> HIDE DEF g, end, new
<1>5. CASE new = Stored(m) \/ new = NotStored(m)
  <2>1. new.mem = m
    BY <1>5 DEF Stored, NotStored
  <2> QED BY <1>1, <2>1 DEF new
<1>6. CASE /\ ~ (end > Len(m) /\ Len(g) > PageSize * MaxPages)
           /\ new = NotStored(view) \/ new = Stored(Overwrite(view, offset, end, data))
  <2>1. IsSequence(view) /\ Len(view) <= PageSize * MaxPages /\ Len(view) - Len(m) \in {0, PageSize}
    <3>1. CASE end > Len(m)
      BY <1>1, <1>2, <1>3, <1>6, <3>1
    <3>2. CASE ~ (end > Len(m))
      BY <1>1, <3>2
    <3> QED BY <3>1, <3>2
  <2> HIDE DEF view
  <2>2. new.mem = view \/ new.mem = Overwrite(view, offset, end, data)
    BY <1>6 DEF Stored, NotStored
  <2>3. LET w == Overwrite(view, offset, end, data) IN IsSequence(w) /\ Len(w) = Len(view)
    BY <2>1, OverwrittenMemory
  <2> QED BY <2>1, <2>2, <2>3 DEF GoodMemory, new
<1> QED BY <1>4, <1>5, <1>6

(* What is stored is found where it was put, and nothing else changes.     *)
LEMMA StoreIsExact ==
  ASSUME NEW m, GoodMemory(m), NEW offset \in Int32,
         NEW B, NEW data \in Seq(B), Len(data) <= MaxInt32
  PROVE  LET new == MemStore(m, offset, data)
         IN  /\ new.ok /\ data # <<>> => MemLoad(new.mem, offset, Len(data)) = Loaded(data)
             /\ \A i \in 1 .. Len(new.mem) :
                  ~ (new.ok /\ i - offset \in 1 .. Len(data)) =>
                    new.mem[i] = IF i <= Len(m) THEN m[i] ELSE 0
<1> DEFINE end == Uint32(AddInt32(offset, Len(data)))
           g == m \o Zeros(PageSize)
           view == IF end > Len(m) THEN g ELSE m
           over == Overwrite(view, offset, end, data)
           new == MemStore(m, offset, data)
           n == Len(data)
<1>1. IsSequence(m) /\ Len(m) \in Nat /\ Len(m) < MaxInt32 /\ MaxInt32 \in Nat \ {0}
      /\ offset \in Int /\ offset <= MaxInt32 /\ PageSize \in Nat /\ n \in Nat /\ n \in Int32
  BY MemoryIsSmall, Int32Range, SizesAssumption DEF GoodMemory
<1>2. /\ IsSequence(g) /\ Len(g) = Len(m) + PageSize
      /\ \A i \in 1 .. Len(g) : g[i] = IF i <= Len(m) THEN m[i] ELSE 0
  BY <1>1, GrownMemory
<1>3. /\ data = <<>> => new = Stored(m)
      /\ data # <<>> /\ offset < 0 => new = NotStored(m)
      /\ data # <<>> /\ ~ (offset < 0) =>
           \/ new = NotStored(m)
           \/ /\ ~ (end > Len(m) /\ Len(g) > PageSize * MaxPages)
              /\ \/ new = NotStored(view)
                 \/ end <= Len(view) /\ new = Stored(over)
  <2>1. end \in Int /\ Len(view) \in Int
    <3>1. AddInt32(offset, n) \in Int
      <4>1. TwoTo32 \in Nat \ {0}
        BY Int32Range
      <4>2. offset + n + MaxInt32 + 1 \in Int
        BY <1>1
      <4>3. (offset + n + MaxInt32 + 1) % TwoTo32 \in Int
        BY <4>1, <4>2
      <4>4. Wrap32(offset + n) \in Int
        BY <1>1, <4>3 DEF Wrap32
      <4> QED BY <1>1, <4>4 DEF AddInt32
    <3>2. TwoTo32 \in Nat \ {0}
      BY Int32Range
    <3> QED BY <1>1, <1>2, <3>1, <3>2 DEF Uint32
  <2> QED BY <2>1 DEF MemStore
<1> HIDE DEF g, new
<1>4. /\ IsSequence(view) /\ Len(view) \in Nat
      /\ \A i \in 1 .. Len(view) : view[i] = IF i <= Len(m) THEN m[i] ELSE 0
  <2>1. CASE end > Len(m)
    BY <1>1, <1>2, <2>1
  <2>2. CASE ~ (end > Len(m))
    BY <1>1, <2>2
  <2> QED BY <2>1, <2>2
<1>5. CASE data = <<>>
  <2>1. new.ok = TRUE /\ new.mem = m
    BY <1>3, <1>5 DEF Stored
  <2> QED BY <1>1, <1>5, <2>1 DEF new
<1>6. CASE data # <<>> /\ new = NotStored(m)
  <2>1. new.ok = FALSE /\ new.mem = m
    BY <1>6 DEF NotStored
  <2> QED BY <1>1, <2>1 DEF new
<1>7. CASE data # <<>> /\ new = NotStored(view)
  <2>1. new.ok = FALSE /\ new.mem = view
    BY <1>7 DEF NotStored
  <2> HIDE DEF view
  <2> QED BY <1>4, <2>1 DEF new
<1>8. CASE /\ data # <<>> /\ ~ (offset < 0) /\ ~ (end > Len(m) /\ Len(g) > PageSize * MaxPages)
           /\ end <= Len(view) /\ new = Stored(over)
  <2>1. n \in 1 .. MaxInt32 /\ offset \in 0 .. MaxInt32
    BY <1>1, <1>8
  <2>2. AddInt32(offset, n) = IF offset + n <= MaxInt32 THEN offset + n ELSE MaxInt32
    BY <2>1, AddSaturates
  <2>3. AddInt32(offset, n) \in 0 .. MaxInt32
    BY <1>1, <2>1, <2>2
  <2>4. end = AddInt32(offset, n)
    BY <2>3, Uint32Is
  <2>5. Len(view) <= PageSize * MaxPages
    <3>1. PageSize * MaxPages \in Nat /\ Len(m) <= PageSize * MaxPages
      BY SizesAssumption DEF GoodMemory
    <3>2. CASE end > Len(m)
      BY <1>1, <1>2, <1>8, <3>1, <3>2
    <3>3. CASE ~ (end > Len(m))
      BY <3>1, <3>3
    <3> QED BY <3>2, <3>3
  <2>6. Len(view) < MaxInt32 /\ GoodMemory(view)
    BY <1>4, <2>5, MemoryIsSmall DEF GoodMemory
  <2> HIDE DEF view, end
  <2>7. end = offset + n
    BY <1>1, <1>4, <1>8, <2>1, <2>2, <2>4, <2>6
  <2>8. /\ IsSequence(over) /\ Len(over) = Len(view)
        /\ \A i \in 1 .. Len(view) :
             over[i] = IF i \in offset + 1 .. end THEN data[i - offset] ELSE view[i]
    BY <1>4, OverwrittenMemory
  <2> HIDE DEF over
  <2>9. new.ok = TRUE /\ new.mem = over
    BY <1>8 DEF Stored
  <2>10. GoodMemory(over)
    BY <2>6, <2>8 DEF GoodMemory
  <2>11. MemLoad(over, offset, n) = Loaded(data)
    <3> DEFINE load == MemLoad(over, offset, n)
    <3>1. /\ load.ok <=> n = 0 \/ (offset \in 0 .. Len(over) /\ n > 0)
          /\ load.ok => /\ IsSequence(load.data) /\ Len(load.data) = n
                        /\ \A i \in 1 .. n : load.data[i] =
                             IF offset + i <= Len(over) THEN over[offset + i] ELSE 0
                        /\ load = Loaded(load.data)
      BY <1>1, <2>10, LoadIsExact
    <3>2. load.ok
      BY <1>1, <1>4, <1>8, <2>1, <2>7, <2>8, <3>1
    <3> HIDE DEF load
    <3>3. ASSUME NEW i \in 1 .. n PROVE load.data[i] = data[i]
      <4>1. offset + i \in 1 .. Len(view) /\ offset + i \in offset + 1 .. end
        BY <1>1, <1>4, <1>8, <2>1, <2>7
      <4>2. over[offset + i] = data[(offset + i) - offset] /\ (offset + i) - offset = i
        BY <1>1, <2>8, <4>1
      <4>3. load.data[i] = over[offset + i]
        BY <1>4, <2>8, <3>1, <3>2, <4>1
      <4> QED BY <4>2, <4>3
    <3>4. PICK S : load.data \in Seq(S)
      BY <3>1, <3>2 DEF IsSequence
    <3>5. load.data = data
      <4>1. load.data \in Seq(S \cup B) /\ data \in Seq(S \cup B)
        BY <3>4
      <4>2. Len(load.data) = Len(data)
        BY <3>1, <3>2
      <4>3. \A i \in 1 .. Len(load.data) : load.data[i] = data[i]
        BY <3>3, <4>2
      <4> QED BY <4>1, <4>2, <4>3, SeqEqual
    <3> QED BY <3>1, <3>2, <3>5 DEF load
  <2>12. ASSUME NEW i \in 1 .. Len(over), i - offset \notin 1 .. n
         PROVE  over[i] = IF i <= Len(m) THEN m[i] ELSE 0
    <3>1. i \notin offset + 1 .. end
      BY <1>1, <2>7, <2>12
    <3> QED BY <1>4, <2>8, <3>1
  <2> QED BY <2>9, <2>11, <2>12 DEF new
<1> QED BY <1>1, <1>3, <1>5, <1>6, <1>7, <1>8

-----------------------------------------------------------------------------
(* The steps of the hooks.                                                 *)

(* The same result goes to the output and to the history.                  *)
ReturnsData(x) ==
  /\ output' = [output EXCEPT !.data = Append(@, x)]
  /\ done' = [done EXCEPT !.data = Append(@, x)]

ReturnsLog(x) ==
  /\ output' = [output EXCEPT !.logs = Append(@, x)]
  /\ done' = [done EXCEPT !.logs = Append(@, x)]

NoResult == output' = output /\ done' = done

(* What a hook may do: it stores into the memory of the running instance   *)
(* and appends one result.                                                 *)
HookStep ==
  /\ stack' = stack
  /\ GoodMemory(mem) => GoodMemory(mem')
  /\ NoResult \/ (\E x : ReturnsData(x)) \/ (\E x : ReturnsLog(x))

LEMMA StoreStep ==
  ASSUME NEW o, NEW d, NEW r, StoreResult(o, d, r)
  PROVE  HookStep
<1>1. mem' = MemStore(mem, o, d).mem /\ stack' = stack /\ NoResult
  BY DEF StoreResult, NoOutput, NoResult
<1>2. GoodMemory(mem) => GoodMemory(mem')
  BY <1>1, StoreKeepsMemory
<1> QED BY <1>1, <1>2 DEF HookStep

LEMMA StoreTwoStep ==
  ASSUME NEW o1, NEW d1, NEW o2, NEW d2, NEW r, StoreTwo(o1, d1, o2, d2, r)
  PROVE  HookStep
<1> DEFINE first == MemStore(mem, o1, d1)
           second == MemStore(first.mem, o2, d2)
<1>1. /\ mem' = first.mem \/ mem' = second.mem
      /\ stack' = stack /\ NoResult
  BY DEF StoreTwo, NoOutput, NoResult
<1>2. GoodMemory(mem) => GoodMemory(first.mem)
  BY StoreKeepsMemory
<1>3. GoodMemory(first.mem) => GoodMemory(second.mem)
  BY StoreKeepsMemory
<1> HIDE DEF first, second
<1> QED BY <1>1, <1>2, <1>3 DEF HookStep

LEMMA QuietStep ==
  ASSUME mem' = mem /\ stack' = stack /\ output' = output /\ done' = done
  PROVE  HookStep
BY DEF HookStep, NoResult

LEMMA GivesStep == ASSUME NEW r, Gives(r) PROVE HookStep
BY QuietStep DEF Gives, NoOutput

LEMMA RefuseStep == ASSUME Refuse PROVE HookStep
BY QuietStep DEF Refuse, NoOutput

LEMMA PanicStep == ASSUME Panic PROVE HookStep
BY QuietStep DEF Panic

LEMMA LogStep ==
  ASSUME NEW topics, NEW data, WriteLog(topics, data)
  PROVE  HookStep
<1>1. mem' = mem /\ stack' = stack /\ (NoResult \/ \E x : ReturnsLog(x))
  BY DEF WriteLog, NoResult, ReturnsLog
<1> QED BY <1>1 DEF HookStep

LEMMA FinishStep ==
  ASSUME NEW data, FinishData(data), UNCHANGED <<mem, stack>>
  PROVE  HookStep
<1>1. ReturnsData(data) /\ mem' = mem /\ stack' = stack
  BY DEF FinishData, ReturnsData
<1> QED BY <1>1 DEF HookStep

LEMMA CallHooksStep ==
  ASSUME \/ getSCAddress \/ getCaller \/ getFunction \/ getNumArguments
         \/ getArgumentLength \/ getArgument \/ getOriginalTxHash
  PROVE  HookStep
<1>1. ASSUME getSCAddress PROVE HookStep
  BY <1>1, StoreStep DEF getSCAddress
<1>2. ASSUME getCaller PROVE HookStep
  BY <1>2, StoreStep DEF getCaller
<1>3. ASSUME getFunction PROVE HookStep
  BY <1>3, StoreStep DEF getFunction
<1>4. ASSUME getNumArguments PROVE HookStep
  BY <1>4, GivesStep DEF getNumArguments
<1>5. ASSUME getArgumentLength PROVE HookStep
  BY <1>5, GivesStep DEF getArgumentLength
<1>6. ASSUME getArgument PROVE HookStep
  <2>1. PICK id \in Offsets, o \in Offsets :
          IF id \in 0 .. Len(input.args) - 1
            THEN StoreResult(o, input.args[id + 1], Len(input.args[id + 1]))
            ELSE Gives(-1)
    BY <1>6 DEF getArgument
  <2> QED BY <2>1, GivesStep, StoreStep
<1>7. ASSUME getOriginalTxHash PROVE HookStep
  BY <1>7, StoreStep DEF getOriginalTxHash
<1> QED BY <1>1, <1>2, <1>3, <1>4, <1>5, <1>6, <1>7

LEMMA PaymentHooksStep ==
  ASSUME \/ checkNoPayment \/ callValue \/ getDCDTValue \/ getDCDTTokenName
         \/ getDCDTTokenNonceOrType \/ getCallValueTokenName
  PROVE  HookStep
<1>1. ASSUME checkNoPayment PROVE HookStep
  BY <1>1, GivesStep, RefuseStep DEF checkNoPayment
<1>2. ASSUME callValue PROVE HookStep
  BY <1>2, StoreStep DEF callValue
<1>3. ASSUME getDCDTValue PROVE HookStep
  BY <1>3, StoreStep DEF getDCDTValue
<1>4. ASSUME getDCDTTokenName PROVE HookStep
  BY <1>4, StoreStep DEF getDCDTTokenName
<1>5. ASSUME getDCDTTokenNonceOrType PROVE HookStep
  BY <1>5, GivesStep DEF getDCDTTokenNonceOrType
<1>6. ASSUME getCallValueTokenName PROVE HookStep
  BY <1>6, StoreTwoStep DEF getCallValueTokenName
<1> QED BY <1>1, <1>2, <1>3, <1>4, <1>5, <1>6

LEMMA ChainHooksStep ==
  ASSUME \/ GetOwnerAddress \/ AskAboutAddress \/ getExternalBalance \/ blockHash
         \/ BlockNumbers \/ BlockData \/ storageLoad \/ storageLoadLength
  PROVE  HookStep
<1>1. ASSUME GetOwnerAddress PROVE HookStep
  BY <1>1, StoreStep, RefuseStep DEF GetOwnerAddress
<1>2. ASSUME AskAboutAddress PROVE HookStep
  BY <1>2, GivesStep, RefuseStep DEF AskAboutAddress, LoadThen, Refuse
<1>3. ASSUME getExternalBalance PROVE HookStep
  BY <1>3, StoreStep, RefuseStep DEF getExternalBalance, LoadThen, Refuse
<1>4. ASSUME blockHash PROVE HookStep
  BY <1>4, StoreStep DEF blockHash
<1>5. ASSUME BlockNumbers PROVE HookStep
  BY <1>5, GivesStep DEF BlockNumbers
<1>6. ASSUME BlockData PROVE HookStep
  BY <1>6, StoreStep DEF BlockData
<1>7. ASSUME storageLoad PROVE HookStep
  BY <1>7, StoreStep, RefuseStep DEF storageLoad, LoadThen, Refuse
<1>8. ASSUME storageLoadLength PROVE HookStep
  BY <1>8, GivesStep, RefuseStep DEF storageLoadLength, LoadThen, Refuse
<1> QED BY <1>1, <1>2, <1>3, <1>4, <1>5, <1>6, <1>7, <1>8

LEMMA TokenHooksStep ==
  ASSUME \/ getCurrentDCDTNFTNonce \/ getDCDTBalance \/ getDCDTNFTLengths
         \/ getDCDTTokenData
  PROVE  HookStep
<1>1. ASSUME getCurrentDCDTNFTNonce PROVE HookStep
  BY <1>1, GivesStep DEF getCurrentDCDTNFTNonce
<1>2. ASSUME getDCDTBalance PROVE HookStep
  BY <1>2, StoreStep, RefuseStep, PanicStep
     DEF getDCDTBalance, getDCDTDataFromBlockchainHook, LoadThen, Refuse
<1>3. ASSUME getDCDTNFTLengths PROVE HookStep
  BY <1>3, GivesStep, RefuseStep
     DEF getDCDTNFTLengths, getDCDTDataFromBlockchainHook, LoadThen, Refuse
<1>4. ASSUME getDCDTTokenData PROVE HookStep
  BY <1>4, StoreTwoStep, RefuseStep, PanicStep
     DEF getDCDTTokenData, getDCDTDataFromBlockchainHook, LoadThen, Refuse
<1> QED BY <1>1, <1>2, <1>3, <1>4

LEMMA CryptoHooksStep == ASSUME CryptoHook PROVE HookStep
<1>1. ASSUME Hash PROVE HookStep
  BY <1>1, StoreStep, GivesStep, RefuseStep DEF Hash, LoadThen, Refuse
<1>2. ASSUME VerifySignature PROVE HookStep
  BY <1>2, GivesStep, RefuseStep DEF VerifySignature, LoadThen, Refuse
<1>3. ASSUME verifySecp256k1 PROVE HookStep
  BY <1>3, GivesStep, RefuseStep DEF verifySecp256k1, LoadThen, Refuse
<1> QED BY <1>1, <1>2, <1>3 DEF CryptoHook

LEMMA ResultHooksStep ==
  ASSUME \/ returnData \/ getReturnData \/ getReturnDataSize \/ getNumReturnData
         \/ writeLog \/ writeEventLog \/ signalError
  PROVE  HookStep
<1>1. ASSUME returnData PROVE HookStep
  BY <1>1, FinishStep, RefuseStep DEF returnData, LoadThen, Refuse
<1>2. ASSUME getReturnData PROVE HookStep
  BY <1>2, StoreStep, GivesStep, PanicStep DEF getReturnData
<1>3. ASSUME getReturnDataSize PROVE HookStep
  BY <1>3, GivesStep, PanicStep DEF getReturnDataSize
<1>4. ASSUME getNumReturnData PROVE HookStep
  BY <1>4, GivesStep DEF getNumReturnData
<1>5. ASSUME writeLog PROVE HookStep
  BY <1>5, LogStep, RefuseStep DEF writeLog, LoadThen, Refuse
<1>6. ASSUME writeEventLog PROVE HookStep
  BY <1>6, LogStep, RefuseStep DEF writeEventLog, LoadThen, Refuse
<1>7. ASSUME signalError PROVE HookStep
  BY <1>7, RefuseStep DEF signalError, LoadThen, Refuse
<1> QED BY <1>1, <1>2, <1>3, <1>4, <1>5, <1>6, <1>7

(* All of them, with the gas that ends and the contract's own writes.      *)
LEMMA EveryHookStep ==
  ASSUME BaseOpsHook \/ CryptoHook \/ Write \/ OutOfGas
  PROVE  HookStep
<1>1. ASSUME BaseOpsHook PROVE HookStep
  BY <1>1, CallHooksStep, PaymentHooksStep, ChainHooksStep, TokenHooksStep, ResultHooksStep
     DEF BaseOpsHook
<1>2. ASSUME Write PROVE HookStep
  <2>1. PICK i \in 1 .. Len(mem), b \in Written : mem' = [mem EXCEPT ![i] = b]
    BY <1>2 DEF Write
  <2>2. ASSUME GoodMemory(mem) PROVE GoodMemory(mem')
    <3>1. PICK S : mem \in Seq(S)
      BY <2>2 DEF GoodMemory, IsSequence
    <3>2. mem \in Seq(S \cup {b})
      BY <3>1
    <3>3. mem' \in Seq(S \cup {b}) /\ Len(mem') = Len(mem)
      BY <2>1, <3>2, ExceptSeq
    <3> QED BY <2>2, <3>3 DEF GoodMemory, IsSequence
  <2> QED BY <1>2, <2>2 DEF Write, HookStep, NoResult
<1>3. ASSUME OutOfGas PROVE HookStep
  BY <1>3, RefuseStep DEF OutOfGas
<1> QED BY <1>1, <1>2, <1>3, CryptoHooksStep

-----------------------------------------------------------------------------
(* Results: sequences of data and of logs.                                 *)

(* A call is pushed, and the last call is taken.                           *)
LEMMA FrameAppended ==
  ASSUME NEW st, IsSequence(st), NEW f
  PROVE  /\ IsSequence(Append(st, f)) /\ Len(Append(st, f)) = Len(st) + 1
         /\ Append(st, f)[Len(st) + 1] = f
         /\ \A i \in 1 .. Len(st) : Append(st, f)[i] = st[i]
<1>1. PICK S : st \in Seq(S)
  BY DEF IsSequence
<1>2. st \in Seq(S \cup {f}) /\ f \in S \cup {f}
  BY <1>1
<1> QED BY <1>2 DEF IsSequence

LEMMA FrameTaken ==
  ASSUME NEW st, IsSequence(st), st # <<>>
  PROVE  /\ IsSequence(Front(st)) /\ Len(st) \in Nat \ {0} /\ Len(Front(st)) = Len(st) - 1
         /\ Last(st) = st[Len(st)]
         /\ \A i \in 1 .. Len(Front(st)) : i \in 1 .. Len(st) /\ i # Len(st) /\ Front(st)[i] = st[i]
<1>1. PICK S : st \in Seq(S)
  BY DEF IsSequence
<1>2. Len(st) \in Nat \ {0}
  BY <1>1
<1> DEFINE n == Len(st) - 1
<1>3. n \in Nat /\ 1 \in Int /\ n \in Int /\ \A i \in 1 .. n : st[i] \in S
  BY <1>1, <1>2
<1>4. /\ SubSeq(st, 1, n) \in Seq(S)
      /\ Len(SubSeq(st, 1, n)) = IF 1 <= n THEN n - 1 + 1 ELSE 0
      /\ \A i \in 1 .. n - 1 + 1 : SubSeq(st, 1, n)[i] = st[1 + i - 1]
  BY <1>3, SubSeqProperties
<1>5. Front(st) = SubSeq(st, 1, n) /\ Last(st) = st[Len(st)]
  BY DEF Front, Last
<1> HIDE DEF n
<1>6. /\ Front(st) \in Seq(S) /\ Len(Front(st)) = n
      /\ \A i \in 1 .. n : Front(st)[i] = st[i]
  BY <1>3, <1>4, <1>5
<1>7. IsSequence(Front(st))
  BY <1>6 DEF IsSequence
<1>8. \A i \in 1 .. n : i \in 1 .. Len(st) /\ i # Len(st)
  BY <1>2 DEF n
<1> QED BY <1>2, <1>5, <1>6, <1>7, <1>8 DEF n


IsResults(r) == \E S : r \in [data : Seq(S), logs : Seq(S)]

LEMMA ResultsMade ==
  ASSUME NEW a, NEW b, IsSequence(a), IsSequence(b)
  PROVE  IsResults([data |-> a, logs |-> b])
<1>1. PICK S, T : a \in Seq(S) /\ b \in Seq(T)
  BY DEF IsSequence
<1>2. a \in Seq(S \cup T) /\ b \in Seq(S \cup T)
  BY <1>1
<1>3. [data |-> a, logs |-> b] \in [data : Seq(S \cup T), logs : Seq(S \cup T)]
  BY <1>2
<1> QED BY <1>3 DEF IsResults

LEMMA ResultsAre ==
  ASSUME NEW r, IsResults(r)
  PROVE  IsSequence(r.data) /\ IsSequence(r.logs)
BY DEF IsResults, IsSequence

LEMMA EmptyIsResults == IsResults(Empty)
<1>1. IsSequence(<<>>)
  BY <<>> \in Seq({}) DEF IsSequence
<1> QED BY <1>1, ResultsMade DEF Empty

LEMMA WithData ==
  ASSUME NEW r, IsResults(r), NEW x
  PROVE  LET new == [r EXCEPT !.data = Append(@, x)]
         IN  IsResults(new) /\ new.data = Append(r.data, x) /\ new.logs = r.logs
<1>1. PICK S : r \in [data : Seq(S), logs : Seq(S)]
  BY DEF IsResults
<1> DEFINE U == S \cup {x}
<1>2. r.data \in Seq(U) /\ r.logs \in Seq(U) /\ x \in U
  BY <1>1
<1> HIDE DEF U
<1>3. Append(r.data, x) \in Seq(U)
  BY <1>2
<1> DEFINE v == Append(r.data, x)
<1> HIDE DEF v
<1>4. [r EXCEPT !.data = v] = [data |-> v, logs |-> r.logs]
  BY <1>1
<1>5. [data |-> v, logs |-> r.logs] \in [data : Seq(U), logs : Seq(U)]
  BY <1>2, <1>3 DEF v
<1>6. IsResults([r EXCEPT !.data = v]) /\ [r EXCEPT !.data = v].data = v
      /\ [r EXCEPT !.data = v].logs = r.logs
  BY <1>4, <1>5 DEF IsResults
<1> QED BY <1>6 DEF v

LEMMA WithLog ==
  ASSUME NEW r, IsResults(r), NEW x
  PROVE  LET new == [r EXCEPT !.logs = Append(@, x)]
         IN  IsResults(new) /\ new.logs = Append(r.logs, x) /\ new.data = r.data
<1>1. PICK S : r \in [data : Seq(S), logs : Seq(S)]
  BY DEF IsResults
<1> DEFINE U == S \cup {x}
<1>2. r.data \in Seq(U) /\ r.logs \in Seq(U) /\ x \in U
  BY <1>1
<1> HIDE DEF U
<1>3. Append(r.logs, x) \in Seq(U)
  BY <1>2
<1>4. [r EXCEPT !.logs = Append(@, x)] = [data |-> r.data, logs |-> Append(r.logs, x)]
  <2>1. \A y : [r EXCEPT !.logs = y] = [data |-> r.data, logs |-> y]
    BY <1>1
  <2> QED BY <2>1
<1>5. [data |-> r.data, logs |-> Append(r.logs, x)] \in [data : Seq(U), logs : Seq(U)]
  BY <1>2, <1>3
<1> QED BY <1>4, <1>5 DEF IsResults

(* Appending, and joining three parts.                                     *)
LEMMA JoinedIsSequence ==
  ASSUME NEW a, NEW b, IsSequence(a), IsSequence(b)
  PROVE  IsSequence(a \o b)
<1>1. PICK S, T : a \in Seq(S) /\ b \in Seq(T)
  BY DEF IsSequence
<1>2. a \in Seq(S \cup T) /\ b \in Seq(S \cup T)
  BY <1>1
<1>3. a \o b \in Seq(S \cup T)
  BY <1>2
<1> QED BY <1>3 DEF IsSequence

LEMMA AppendedIsSequence ==
  ASSUME NEW a, NEW x, IsSequence(a)
  PROVE  IsSequence(Append(a, x))
BY FrameAppended

LEMMA AppendToJoined ==
  ASSUME NEW a, NEW b, NEW x, IsSequence(a), IsSequence(b)
  PROVE  Append(a \o b, x) = a \o Append(b, x)
<1>1. PICK S, T : a \in Seq(S) /\ b \in Seq(T)
  BY DEF IsSequence
<1> DEFINE U == S \cup T \cup {x}
<1>2. a \in Seq(U) /\ b \in Seq(U) /\ x \in U
  BY <1>1
<1> HIDE DEF U
<1>3. a \o b \in Seq(U) /\ <<x>> \in Seq(U)
  BY <1>2
<1>4. Append(a \o b, x) = (a \o b) \o <<x>> /\ Append(b, x) = b \o <<x>>
  BY <1>2, <1>3, AppendIsConcat
<1>5. (a \o b) \o <<x>> = a \o (b \o <<x>>)
  BY <1>2, <1>3, ConcatAssociative
<1> QED BY <1>4, <1>5

LEMMA JoinThree ==
  ASSUME NEW a, NEW b, NEW c, IsSequence(a), IsSequence(b), IsSequence(c)
  PROVE  (a \o b) \o c = a \o (b \o c)
<1>1. PICK S, T, V : a \in Seq(S) /\ b \in Seq(T) /\ c \in Seq(V)
  BY DEF IsSequence
<1> DEFINE U == S \cup T \cup V
<1>2. a \in Seq(U) /\ b \in Seq(U) /\ c \in Seq(U)
  BY <1>1
<1> HIDE DEF U
<1> QED BY <1>2, ConcatAssociative

LEMMA JoinEmpty == ASSUME NEW a, IsSequence(a) PROVE a \o <<>> = a /\ <<>> \o a = a
BY DEF IsSequence

-----------------------------------------------------------------------------
(* The history before the last call on a new context.                      *)

LEMMA EarlierNext ==
  ASSUME NEW s, NEW n \in Nat
  PROVE  Earlier(s, n + 1) = IF s[n + 1].kind = "dest" THEN s[n + 1].done ELSE Earlier(s, n)
<1>1. CASE s[n + 1].kind = "dest"
  <2> DEFINE I == Isolated(s, n + 1)
  <2>1. n + 1 \in I /\ I \in SUBSET (0 .. n + 1)
    BY <1>1 DEF Isolated
  <2> HIDE DEF I
  <2>2. Max(I) \in I /\ \A y \in I : Max(I) >= y
    BY <2>1, MaxExists, n + 1 \in Nat
  <2> DEFINE k == Max(I)
  <2> HIDE DEF k
  <2>3. k \in 0 .. n + 1 /\ k >= n + 1
    BY <2>1, <2>2 DEF k
  <2>4. Max(I) = n + 1
    BY <2>3 DEF k
  <2> QED BY <1>1, <2>1, <2>4 DEF Earlier, I
<1>2. CASE s[n + 1].kind # "dest"
  <2>1. Isolated(s, n + 1) = Isolated(s, n)
    BY <1>2 DEF Isolated
  <2> QED BY <1>2, <2>1 DEF Earlier
<1> QED BY <1>1, <1>2

LEMMA LastIsolated ==
  ASSUME NEW s, NEW n \in Nat, Isolated(s, n) # {}
  PROVE  Max(Isolated(s, n)) \in 1 .. n
<1> DEFINE I == Isolated(s, n)
<1>1. I \in SUBSET (0 .. n) /\ I # {} /\ I \subseteq 1 .. n
  BY DEF Isolated
<1> HIDE DEF I
<1>2. Max(I) \in I
  BY <1>1, MaxExists
<1> QED BY <1>1, <1>2 DEF I

LEMMA EarlierKept ==
  ASSUME NEW s, NEW t, NEW n \in Nat, \A i \in 1 .. n : t[i] = s[i]
  PROVE  Earlier(t, n) = Earlier(s, n)
<1>1. Isolated(t, n) = Isolated(s, n)
  BY DEF Isolated
<1> QED BY <1>1, LastIsolated DEF Earlier

LEMMA EarlierIsResults ==
  ASSUME NEW s, NEW n \in Nat, \A i \in 1 .. n : IsResults(s[i].done)
  PROVE  IsResults(Earlier(s, n))
BY LastIsolated, EmptyIsResults DEF Earlier

-----------------------------------------------------------------------------
(* The results of the running call and of its callers.                     *)

GoodResults(s, out, all) ==
  /\ IsSequence(s) /\ IsResults(out) /\ IsResults(all)
  /\ \A i \in 1 .. Len(s) : IsResults(s[i].output) /\ IsResults(s[i].done)
  /\ InOrder(s, Len(s), out, all)
  /\ \A i \in 1 .. Len(s) : InOrder(s, i - 1, s[i].output, s[i].done)

(* A result is appended to the output and to the history.                  *)
LEMMA DataAppended ==
  ASSUME NEW s, NEW out, NEW all, NEW x, GoodResults(s, out, all)
  PROVE  GoodResults(s, [out EXCEPT !.data = Append(@, x)], [all EXCEPT !.data = Append(@, x)])
<1> DEFINE out2 == [out EXCEPT !.data = Append(@, x)]
           all2 == [all EXCEPT !.data = Append(@, x)]
           e == Earlier(s, Len(s))
<1>1. /\ IsSequence(s) /\ IsResults(out) /\ IsResults(all) /\ InOrder(s, Len(s), out, all)
      /\ \A i \in 1 .. Len(s) : IsResults(s[i].done)
  BY DEF GoodResults
<1>2. IsResults(out2) /\ out2.data = Append(out.data, x) /\ out2.logs = out.logs
  BY <1>1, WithData
<1>3. IsResults(all2) /\ all2.data = Append(all.data, x) /\ all2.logs = all.logs
  BY <1>1, WithData
<1> HIDE DEF out2, all2
<1>4. IsSequence(out.data)
  BY <1>1, ResultsAre
<1>5. Len(s) \in Nat
  BY <1>1 DEF IsSequence
<1>6. IsResults(e) /\ IsSequence(e.data)
  BY <1>1, <1>5, EarlierIsResults, ResultsAre
<1> HIDE DEF e
<1>7. all.data = e.data \o out.data /\ all.logs = e.logs \o out.logs
  BY <1>1 DEF InOrder, e
<1>8. all2.data = e.data \o out2.data /\ all2.logs = e.logs \o out2.logs
  <2> DEFINE u == e.data
             v == out.data
  <2>1. IsSequence(u) /\ IsSequence(v)
    BY <1>4, <1>6
  <2> HIDE DEF u, v
  <2>2. Append(u \o v, x) = u \o Append(v, x)
    BY <2>1, AppendToJoined
  <2> QED BY <1>2, <1>3, <1>7, <2>2 DEF u, v
<1>9. InOrder(s, Len(s), out2, all2)
  BY <1>8 DEF InOrder, e
<1>10. GoodResults(s, out2, all2)
  BY <1>2, <1>3, <1>9 DEF GoodResults
<1> QED BY <1>10 DEF out2, all2

LEMMA LogAppended ==
  ASSUME NEW s, NEW out, NEW all, NEW x, GoodResults(s, out, all)
  PROVE  GoodResults(s, [out EXCEPT !.logs = Append(@, x)], [all EXCEPT !.logs = Append(@, x)])
<1> DEFINE out2 == [out EXCEPT !.logs = Append(@, x)]
           all2 == [all EXCEPT !.logs = Append(@, x)]
           e == Earlier(s, Len(s))
<1>1. /\ IsSequence(s) /\ IsResults(out) /\ IsResults(all) /\ InOrder(s, Len(s), out, all)
      /\ \A i \in 1 .. Len(s) : IsResults(s[i].done)
  BY DEF GoodResults
<1>2. IsResults(out2) /\ out2.logs = Append(out.logs, x) /\ out2.data = out.data
  BY <1>1, WithLog
<1>3. IsResults(all2) /\ all2.logs = Append(all.logs, x) /\ all2.data = all.data
  BY <1>1, WithLog
<1> HIDE DEF out2, all2
<1>4. IsSequence(out.logs)
  BY <1>1, ResultsAre
<1>5. Len(s) \in Nat
  BY <1>1 DEF IsSequence
<1>6. IsResults(e) /\ IsSequence(e.logs)
  BY <1>1, <1>5, EarlierIsResults, ResultsAre
<1> HIDE DEF e
<1>7. all.data = e.data \o out.data /\ all.logs = e.logs \o out.logs
  BY <1>1 DEF InOrder, e
<1>8. all2.data = e.data \o out2.data /\ all2.logs = e.logs \o out2.logs
  <2> DEFINE u == e.logs
             v == out.logs
  <2>1. IsSequence(u) /\ IsSequence(v)
    BY <1>4, <1>6
  <2> HIDE DEF u, v
  <2>2. Append(u \o v, x) = u \o Append(v, x)
    BY <2>1, AppendToJoined
  <2> QED BY <1>2, <1>3, <1>7, <2>2 DEF u, v
<1>9. InOrder(s, Len(s), out2, all2)
  BY <1>8 DEF InOrder, e
<1>10. GoodResults(s, out2, all2)
  BY <1>2, <1>3, <1>9 DEF GoodResults
<1> QED BY <1>10 DEF out2, all2

(* A call begins: on a new context without results, else with its caller's. *)
LEMMA CallPushed ==
  ASSUME NEW s, NEW out, NEW all, GoodResults(s, out, all),
         NEW f, f.output = out, f.done = all,
         NEW new, new = IF f.kind = "dest" THEN Empty ELSE out
  PROVE  GoodResults(Append(s, f), new, all)
<1> DEFINE t == Append(s, f)
           n == Len(s)
<1>1. /\ IsSequence(s) /\ IsResults(out) /\ IsResults(all) /\ InOrder(s, n, out, all)
      /\ \A i \in 1 .. n : IsResults(s[i].output) /\ IsResults(s[i].done)
      /\ \A i \in 1 .. n : InOrder(s, i - 1, s[i].output, s[i].done)
  BY DEF GoodResults
<1>2. n \in Nat
  BY <1>1 DEF IsSequence
<1>3. /\ IsSequence(t) /\ Len(t) = n + 1 /\ t[n + 1] = f
      /\ \A i \in 1 .. n : t[i] = s[i]
  BY <1>1, FrameAppended
<1> HIDE DEF t, n
<1>4. \A i \in 0 .. n : Earlier(t, i) = Earlier(s, i)
  <2> TAKE i \in 0 .. n
  <2>1. i \in Nat /\ \A j \in 1 .. i : t[j] = s[j]
    BY <1>2, <1>3
  <2> QED BY <2>1, EarlierKept
<1>5. Earlier(t, n + 1) = IF f.kind = "dest" THEN all ELSE Earlier(s, n)
  <2>1. Earlier(t, n + 1) = IF t[n + 1].kind = "dest" THEN t[n + 1].done ELSE Earlier(t, n)
    BY <1>2, EarlierNext
  <2>2. Earlier(t, n) = Earlier(s, n)
    BY <1>2, <1>4
  <2> QED BY <1>3, <2>1, <2>2
<1>6. IsResults(new)
  BY <1>1, EmptyIsResults
<1>7. InOrder(t, n + 1, new, all)
  <2>1. CASE f.kind = "dest"
    <3>1. new.data = <<>> /\ new.logs = <<>>
      BY <2>1 DEF Empty
    <3>2. all.data \o <<>> = all.data /\ all.logs \o <<>> = all.logs
      BY <1>1, ResultsAre, JoinEmpty
    <3> QED BY <1>5, <2>1, <3>1, <3>2 DEF InOrder
  <2>2. CASE f.kind # "dest"
    BY <1>1, <1>5, <2>2 DEF InOrder
  <2> QED BY <2>1, <2>2
<1>8. ASSUME NEW i \in 1 .. n + 1
      PROVE  /\ IsResults(t[i].output) /\ IsResults(t[i].done)
             /\ InOrder(t, i - 1, t[i].output, t[i].done)
  <2>1. CASE i = n + 1
    <3>1. Earlier(t, n) = Earlier(s, n)
      BY <1>2, <1>4
    <3>2. InOrder(t, n, out, all)
      BY <1>1, <3>1 DEF InOrder
    <3>3. i - 1 = n /\ t[i] = f
      BY <1>2, <1>3, <2>1
    <3> QED BY <1>1, <3>2, <3>3
  <2>2. CASE i # n + 1
    <3>1. i \in 1 .. n /\ i - 1 \in 0 .. n /\ t[i] = s[i]
      BY <1>2, <1>3, <2>2
    <3>2. Earlier(t, i - 1) = Earlier(s, i - 1)
      BY <1>4, <3>1
    <3> QED BY <1>1, <3>1, <3>2 DEF InOrder
  <2> QED BY <2>1, <2>2
<1>9. GoodResults(t, new, all)
  BY <1>1, <1>3, <1>6, <1>7, <1>8 DEF GoodResults
<1> QED BY <1>9 DEF t

(* The callers of the last call, and what it started from.                 *)
LEMMA CallPopped ==
  ASSUME NEW s, NEW out, NEW all, GoodResults(s, out, all), s # <<>>
  PROVE  LET f == Last(s)
             e == Earlier(Front(s), Len(Front(s)))
         IN  /\ GoodResults(Front(s), f.output, f.done)
             /\ IsResults(e) /\ IsResults(f.output) /\ IsResults(f.done)
             /\ f.kind = "dest" => InOrder(Front(s), Len(Front(s)), f.output, f.done)
                                   /\ all.data = f.done.data \o out.data
                                   /\ all.logs = f.done.logs \o out.logs
             /\ f.kind # "dest" => InOrder(Front(s), Len(Front(s)), out, all)
<1> DEFINE t == Front(s)
           n == Len(t)
           f == Last(s)
<1>1. /\ IsSequence(s) /\ IsResults(out) /\ IsResults(all) /\ InOrder(s, Len(s), out, all)
      /\ \A i \in 1 .. Len(s) : IsResults(s[i].output) /\ IsResults(s[i].done)
      /\ \A i \in 1 .. Len(s) : InOrder(s, i - 1, s[i].output, s[i].done)
  BY DEF GoodResults
<1>2. /\ IsSequence(t) /\ Len(s) \in Nat \ {0} /\ n = Len(s) - 1 /\ f = s[Len(s)]
      /\ \A i \in 1 .. n : i \in 1 .. Len(s) /\ i # Len(s) /\ t[i] = s[i]
  BY <1>1, FrameTaken
<1> HIDE DEF t, n, f
<1>3. n \in Nat /\ Len(s) = n + 1 /\ n + 1 \in 1 .. n + 1 /\ (n + 1) - 1 = n
  BY <1>2
<1>4. \A i \in 0 .. n : Earlier(t, i) = Earlier(s, i)
  <2> TAKE i \in 0 .. n
  <2>1. i \in Nat /\ \A j \in 1 .. i : t[j] = s[j]
    BY <1>2, <1>3
  <2> QED BY <2>1, EarlierKept
<1>5. Earlier(s, n + 1) = IF f.kind = "dest" THEN f.done ELSE Earlier(t, n)
  <2>1. Earlier(t, n) = Earlier(s, n)
    BY <1>3, <1>4
  <2> QED BY <1>2, <1>3, <2>1, EarlierNext
<1>6. IsResults(f.output) /\ IsResults(f.done) /\ InOrder(t, n, f.output, f.done)
  <2>1. IsResults(f.output) /\ IsResults(f.done) /\ InOrder(s, n, f.output, f.done)
    BY <1>1, <1>2, <1>3
  <2>2. Earlier(t, n) = Earlier(s, n)
    BY <1>3, <1>4
  <2> QED BY <2>1, <2>2 DEF InOrder
<1>7. ASSUME NEW i \in 1 .. n
      PROVE  /\ IsResults(t[i].output) /\ IsResults(t[i].done)
             /\ InOrder(t, i - 1, t[i].output, t[i].done)
  <2>1. i - 1 \in 0 .. n /\ t[i] = s[i] /\ i \in 1 .. Len(s)
    BY <1>2, <1>3
  <2>2. Earlier(t, i - 1) = Earlier(s, i - 1)
    BY <1>4, <2>1
  <2> QED BY <1>1, <2>1, <2>2 DEF InOrder
<1>8. IsResults(Earlier(t, n))
  BY <1>3, <1>7, EarlierIsResults
<1>9. GoodResults(t, f.output, f.done)
  BY <1>2, <1>6, <1>7 DEF GoodResults, n
<1>10. f.kind = "dest" => all.data = f.done.data \o out.data /\ all.logs = f.done.logs \o out.logs
  BY <1>1, <1>3, <1>5 DEF InOrder
<1>11. f.kind # "dest" => InOrder(t, n, out, all)
  BY <1>1, <1>3, <1>5 DEF InOrder
<1> QED BY <1>6, <1>8, <1>9, <1>10, <1>11 DEF t, n, f

(* Results joined after those of the caller.                               *)
LEMMA JoinedResults ==
  ASSUME NEW a, NEW b, IsResults(a), IsResults(b)
  PROVE  LET new == [data |-> a.data \o b.data, logs |-> a.logs \o b.logs]
         IN  /\ IsResults(new)
             /\ new.data = a.data \o b.data /\ new.logs = a.logs \o b.logs
<1> DEFINE d == a.data \o b.data
           l == a.logs \o b.logs
<1>1. IsSequence(d) /\ IsSequence(l)
  BY ResultsAre, JoinedIsSequence
<1> HIDE DEF d, l
<1>2. IsResults([data |-> d, logs |-> l])
  BY <1>1, ResultsMade
<1>3. [data |-> d, logs |-> l].data = d /\ [data |-> d, logs |-> l].logs = l
  OBVIOUS
<1> QED BY <1>2, <1>3 DEF d, l

(* A call ends: one on a new context hands its results to the caller.      *)
LEMMA CallReturned ==
  ASSUME NEW s, NEW out, NEW all, GoodResults(s, out, all), s # <<>>,
         NEW new, IsResults(new),
         Last(s).kind = "dest" => /\ new.data = Last(s).output.data \o out.data
                                  /\ new.logs = Last(s).output.logs \o out.logs,
         Last(s).kind # "dest" => new = out
  PROVE  GoodResults(Front(s), new, all)
<1> DEFINE t == Front(s)
           n == Len(t)
           f == Last(s)
           e == Earlier(t, n)
<1>1. /\ GoodResults(t, f.output, f.done)
      /\ IsResults(e) /\ IsResults(f.output) /\ IsResults(f.done)
      /\ f.kind = "dest" => InOrder(t, n, f.output, f.done)
                            /\ all.data = f.done.data \o out.data
                            /\ all.logs = f.done.logs \o out.logs
      /\ f.kind # "dest" => InOrder(t, n, out, all)
  BY CallPopped
<1>2. IsResults(out) /\ IsResults(all)
  BY DEF GoodResults
<1>3. /\ f.kind = "dest" => /\ new.data = f.output.data \o out.data
                            /\ new.logs = f.output.logs \o out.logs
      /\ f.kind # "dest" => new = out
  OBVIOUS
<1> HIDE DEF t, n, f
<1>4. InOrder(t, n, new, all)
  <2>1. CASE f.kind = "dest"
    <3>1. f.done.data = e.data \o f.output.data /\ f.done.logs = e.logs \o f.output.logs
      BY <1>1, <2>1 DEF InOrder
    <3>2. all.data = e.data \o new.data
      <4> DEFINE a == e.data
                 b == f.output.data
                 c == out.data
      <4>1. IsSequence(a) /\ IsSequence(b) /\ IsSequence(c)
        BY <1>1, <1>2, ResultsAre
      <4> HIDE DEF a, b, c, e
      <4>2. (a \o b) \o c = a \o (b \o c)
        BY <4>1, JoinThree
      <4> QED BY <1>1, <1>3, <2>1, <3>1, <4>2 DEF a, b, c
    <3>3. all.logs = e.logs \o new.logs
      <4> DEFINE a == e.logs
                 b == f.output.logs
                 c == out.logs
      <4>1. IsSequence(a) /\ IsSequence(b) /\ IsSequence(c)
        BY <1>1, <1>2, ResultsAre
      <4> HIDE DEF a, b, c, e
      <4>2. (a \o b) \o c = a \o (b \o c)
        BY <4>1, JoinThree
      <4> QED BY <1>1, <1>3, <2>1, <3>1, <4>2 DEF a, b, c
    <3> HIDE DEF e
    <3> QED BY <3>2, <3>3 DEF InOrder, e
  <2>2. CASE f.kind # "dest"
    BY <1>1, <1>2, <1>3, <2>2
  <2> QED BY <2>1, <2>2
<1>5. GoodResults(t, new, all)
  BY <1>1, <1>2, <1>4 DEF GoodResults, n
<1> QED BY <1>5 DEF t

-----------------------------------------------------------------------------
(* The inductive invariant.                                                *)

(* The memories of the running instance and of its callers are within the  *)
(* limit, and so are their results in order.                               *)
GoodMemories(m, s) == GoodMemory(m) /\ \A i \in 1 .. Len(s) : GoodMemory(s[i].mem)

HooksInv == GoodMemories(mem, stack) /\ GoodResults(stack, output, done)

LEMMA FirstMemory == GoodMemory(Zeros(PageSize))
<1>1. PageSize \in Nat \ {0} /\ MaxPages \in Nat \ {0}
  BY SizesAssumption
<1>2. PageSize <= PageSize * MaxPages
  BY <1>1
<1>3. Zeros(PageSize) \in Seq({0}) /\ Len(Zeros(PageSize)) = PageSize
  BY <1>1, ZerosAre DEF Zeros
<1> QED BY <1>2, <1>3 DEF GoodMemory, IsSequence

LEMMA HooksInitially == ASSUME HooksInit PROVE HooksInv
<1>1. mem = Zeros(PageSize) /\ output = Empty /\ done = Empty /\ stack = <<>>
  BY DEF HooksInit
<1>2. IsSequence(stack) /\ Len(stack) = 0 /\ 1 .. Len(stack) = {}
  BY <1>1, <<>> \in Seq({}) DEF IsSequence
<1>3. GoodMemories(mem, stack)
  BY <1>1, <1>2, FirstMemory DEF GoodMemories
<1>4. Earlier(stack, Len(stack)) = Empty
  BY <1>2 DEF Earlier, Isolated
<1>5. Empty.data = <<>> /\ Empty.logs = <<>>
  BY DEF Empty
<1>6. <<>> \o <<>> = <<>>
  OBVIOUS
<1>7. InOrder(stack, Len(stack), output, done)
  BY <1>1, <1>4, <1>5, <1>6 DEF InOrder
<1>8. GoodResults(stack, output, done)
  BY <1>1, <1>2, <1>7, EmptyIsResults DEF GoodResults
<1> QED BY <1>3, <1>8 DEF HooksInv

LEMMA HookKeepsInv == ASSUME HooksInv, HookStep PROVE HooksInv'
<1>1. stack' = stack /\ GoodMemory(mem') /\ GoodMemories(mem', stack')
  BY DEF HooksInv, HookStep, GoodMemories
<1>2. GoodResults(stack, output', done')
  <2>1. GoodResults(stack, output, done)
    BY DEF HooksInv
  <2>2. CASE NoResult
    BY <2>1, <2>2 DEF NoResult
  <2>3. ASSUME NEW x, ReturnsData(x) PROVE GoodResults(stack, output', done')
    BY <2>1, <2>3, DataAppended DEF ReturnsData
  <2>4. ASSUME NEW x, ReturnsLog(x) PROVE GoodResults(stack, output', done')
    BY <2>1, <2>4, LogAppended DEF ReturnsLog
  <2> QED BY <2>2, <2>3, <2>4 DEF HookStep
<1> QED BY <1>1, <1>2 DEF HooksInv

(* A call begins on a memory of its own.                                   *)
LEMMA PushKeepsInv ==
  ASSUME HooksInv, NEW kind, NEW in, NEW out, PushState(kind, in, out),
         out = IF kind = "dest" THEN Empty ELSE output
  PROVE  HooksInv'
<1> DEFINE f == [kind |-> kind, mem |-> mem, input |-> input, output |-> output, done |-> done]
<1>1. mem' = Zeros(PageSize) /\ output' = out /\ done' = done /\ stack' = Append(stack, f)
  BY DEF PushState
<1>2. f.kind = kind /\ f.mem = mem /\ f.output = output /\ f.done = done
  OBVIOUS
<1> HIDE DEF f
<1>3. GoodMemories(mem, stack) /\ GoodResults(stack, output, done)
  BY DEF HooksInv
<1>4. GoodResults(stack', output', done')
  BY <1>1, <1>2, <1>3, CallPushed
<1>5. IsSequence(stack)
  BY <1>3 DEF GoodResults
<1>6. /\ Len(stack') = Len(stack) + 1 /\ stack'[Len(stack) + 1] = f /\ Len(stack) \in Nat
      /\ \A i \in 1 .. Len(stack) : stack'[i] = stack[i]
  BY <1>1, <1>5, FrameAppended DEF IsSequence
<1>7. ASSUME NEW i \in 1 .. Len(stack') PROVE GoodMemory(stack'[i].mem)
  <2>1. i \in 1 .. Len(stack) \/ i = Len(stack) + 1
    BY <1>6
  <2> QED BY <1>2, <1>3, <1>6, <2>1 DEF GoodMemories
<1>8. GoodMemories(mem', stack')
  BY <1>1, <1>7, FirstMemory DEF GoodMemories
<1> QED BY <1>4, <1>8 DEF HooksInv

(* A caller goes on with its own memory.                                   *)
LEMMA ResumeKeepsMemory ==
  ASSUME HooksInv, stack # <<>>, NEW r, Resume(r)
  PROVE  GoodMemories(mem', stack') /\ stack' = Front(stack)
<1>1. mem' = Last(stack).mem /\ stack' = Front(stack)
  BY DEF Resume
<1>2. GoodMemories(mem, stack) /\ IsSequence(stack)
  BY DEF HooksInv, GoodResults
<1>3. /\ Len(stack) \in Nat \ {0} /\ Last(stack) = stack[Len(stack)]
      /\ \A i \in 1 .. Len(stack') : i \in 1 .. Len(stack) /\ stack'[i] = stack[i]
  BY <1>1, <1>2, FrameTaken
<1>4. GoodMemory(mem')
  BY <1>1, <1>2, <1>3 DEF GoodMemories
<1>5. \A i \in 1 .. Len(stack') : GoodMemory(stack'[i].mem)
  BY <1>2, <1>3 DEF GoodMemories
<1> QED BY <1>1, <1>4, <1>5 DEF GoodMemories

LEMMA ReturnKeepsInv == ASSUME HooksInv, ReturnFromCall PROVE HooksInv'
<1>1. /\ stack # <<>> /\ Resume(0) /\ done' = done
      /\ Last(stack).kind = "dest" => output' = PopMergeActiveState(Last(stack).output)
      /\ Last(stack).kind # "dest" => output' = output
  BY DEF ReturnFromCall
<1>2. GoodMemories(mem', stack') /\ stack' = Front(stack)
  BY <1>1, ResumeKeepsMemory
<1>3. GoodResults(stack, output, done) /\ IsResults(output)
  BY DEF HooksInv, GoodResults
<1>4. IsResults(Last(stack).output)
  BY <1>1, <1>3, CallPopped
<1>5. /\ IsResults(output')
      /\ Last(stack).kind = "dest" =>
           /\ output'.data = Last(stack).output.data \o output.data
           /\ output'.logs = Last(stack).output.logs \o output.logs
  <2>1. CASE Last(stack).kind = "dest"
    <3> DEFINE a == Last(stack).output
    <3>1. output' = [data |-> a.data \o output.data, logs |-> a.logs \o output.logs]
      BY <1>1, <2>1 DEF PopMergeActiveState
    <3>2. IsResults(a)
      BY <1>4
    <3> HIDE DEF a
    <3>3. IsResults(output') /\ output'.data = a.data \o output.data
          /\ output'.logs = a.logs \o output.logs
      BY <1>3, <3>1, <3>2, JoinedResults
    <3> QED BY <3>3 DEF a
  <2>2. CASE Last(stack).kind # "dest"
    BY <1>1, <1>3, <2>2
  <2> QED BY <2>1, <2>2
<1>6. GoodResults(Front(stack), output', done)
  BY <1>1, <1>3, <1>5, CallReturned
<1> QED BY <1>1, <1>2, <1>6 DEF HooksInv

LEMMA FailKeepsInv == ASSUME HooksInv, FailCall PROVE HooksInv'
<1>1. /\ stack # <<>> /\ Resume(1)
      /\ output' = Last(stack).output /\ done' = Last(stack).done
  BY DEF FailCall
<1>2. GoodMemories(mem', stack') /\ stack' = Front(stack)
  BY <1>1, ResumeKeepsMemory
<1>3. GoodResults(Front(stack), Last(stack).output, Last(stack).done)
  BY <1>1, CallPopped DEF HooksInv
<1> QED BY <1>1, <1>2, <1>3 DEF HooksInv

LEMMA HooksInductive == ASSUME HooksInv, [HooksNext]_hookVars PROVE HooksInv'
<1>1. CASE BaseOpsHook \/ CryptoHook \/ Write \/ OutOfGas
  BY <1>1, EveryHookStep, HookKeepsInv
<1>2. CASE ExecuteOnDestContext
  BY <1>2, PushKeepsInv DEF ExecuteOnDestContext, CensorVMOutput
<1>3. CASE ExecuteOnSameContext
  BY <1>3, PushKeepsInv DEF ExecuteOnSameContext
<1>4. CASE executeReadOnly
  BY <1>4, PushKeepsInv DEF executeReadOnly
<1>5. CASE ReturnFromCall
  BY <1>5, ReturnKeepsInv
<1>6. CASE FailCall
  BY <1>6, FailKeepsInv
<1>7. CASE EndTransaction \/ Ended \/ UNCHANGED hookVars
  BY <1>7 DEF EndTransaction, Ended, hookVars, HooksInv
<1> QED BY <1>1, <1>2, <1>3, <1>4, <1>5, <1>6, <1>7 DEF HooksNext

(* The memories stay within the limit and the results in order, through    *)
(* every hook, call, return and failure.                                   *)
THEOREM HooksInvariant == HooksSpec => []HooksInv
<1>1. HooksInit => HooksInv
  BY HooksInitially
<1>2. HooksInv /\ [HooksNext]_hookVars => HooksInv'
  BY HooksInductive
<1> QED BY <1>1, <1>2, PTL DEF HooksSpec

(* Contract and host agree on every byte that they exchange, for any       *)
(* memory, width of an int32, offset, length and data: a load returns the  *)
(* bytes asked for and zeros past the end, a store is found where it was   *)
(* put and changes no other byte (MemLoad, MemStore, AddInt32).            *)
THEOREM BytesAreExchanged == HooksSpec => []MemoryIsExact
<1>1. HooksInv => MemoryIsExact
  <2> SUFFICES ASSUME HooksInv PROVE MemoryIsExact
    OBVIOUS
  <2>1. GoodMemory(mem)
    BY DEF HooksInv, GoodMemories
  <2>2. Offsets \subseteq Int32
    BY SizesAssumption
  <2>3. LoadsAreExact
    <3> SUFFICES ASSUME NEW offset \in Int32, NEW length \in Offsets
                 PROVE  LET load == MemLoad(mem, offset, length)
                        IN  /\ load.ok <=> length = 0 \/ (offset \in 0 .. Len(mem) /\ length > 0)
                            /\ load.ok => /\ Len(load.data) = length
                                          /\ \A i \in 1 .. length : load.data[i] =
                                               IF offset + i <= Len(mem) THEN mem[offset + i] ELSE 0
      BY DEF LoadsAreExact
    <3>1. length \in Int32
      BY <2>2
    <3> QED BY <2>1, <3>1, LoadIsExact
  <2>4. StoresAreExact
    <3> SUFFICES ASSUME NEW o \in Offsets, NEW data \in Strings
                 PROVE  LET new == MemStore(mem, o, data)
                        IN  /\ Len(new.mem) - Len(mem) \in {0, PageSize}
                            /\ new.ok /\ data # <<>> =>
                                 MemLoad(new.mem, o, Len(data)) = Loaded(data)
                            /\ \A i \in 1 .. Len(new.mem) :
                                 ~ (new.ok /\ i - o \in 1 .. Len(data)) =>
                                   new.mem[i] = IF i <= Len(mem) THEN mem[i] ELSE 0
      BY DEF StoresAreExact
    <3>1. o \in Int32 /\ data \in Seq(0 .. Base - 1) /\ Len(data) <= MaxInt32
      BY <2>2, SizesAssumption
    <3>2. Len(MemStore(mem, o, data).mem) - Len(mem) \in {0, PageSize}
      BY <2>1, StoreKeepsMemory
    <3>3. LET new == MemStore(mem, o, data)
          IN  /\ new.ok /\ data # <<>> => MemLoad(new.mem, o, Len(data)) = Loaded(data)
              /\ \A i \in 1 .. Len(new.mem) :
                   ~ (new.ok /\ i - o \in 1 .. Len(data)) =>
                     new.mem[i] = IF i <= Len(mem) THEN mem[i] ELSE 0
      BY <2>1, <3>1, StoreIsExact
    <3> QED BY <3>2, <3>3
  <2> QED BY <2>3, <2>4 DEF MemoryIsExact
<1> QED BY <1>1, HooksInvariant, PTL

(* At any depth of calls, the results are those of the calls that did not  *)
(* fail since the last call on a new context, in chronological order.      *)
THEOREM ResultsStayInOrder == HooksSpec => []ResultsInOrder
<1>1. HooksInv => ResultsInOrder
  BY DEF HooksInv, GoodResults, ResultsInOrder
<1> QED BY <1>1, HooksInvariant, PTL
=============================================================================
