------------------------------ MODULE IPCHooks ------------------------------
(***************************************************************************)
(* The blockchain hook across the pipes.  In the VM process the host calls *)
(* BlockchainHookGateway (ipc/vmpart), which packs every call in a message *)
(* of its own kind, sends it and waits; the node's repliers                *)
(* (ipc/nodepart) unpack it, call the real hook and pack the results.      *)
(* Many methods of the hook cannot return an error: when the dialogue      *)
(* fails, the gateway answers with a stand-in (0, nil, false) and the      *)
(* contract goes on.                                                       *)
(*                                                                         *)
(* VMDriver models the processes, the operations and the time budget; here *)
(* one operation at a time runs, and what the messages carry is modelled.  *)
(***************************************************************************)
EXTENDS Integers, FiniteSets, SequencesExt

CONSTANTS
  Existing,       \* addresses with an account
  Bare,           \* those of them whose account has empty fields
  Missing,        \* an address without account
  Failing,        \* an address for which the node's hook returns an error
  Keys,           \* storage keys
  EmptyKeys,      \* those of them that hold a value of length 0
  Nil, Empty, Zero, \* nil, a value of length 0, the number 0
  Marshalizers,   \* the encodings a driver may be configured with
  Outputs,        \* what an execution can produce, see VMOutput
  MaxCalls,       \* bound: hook calls of one execution
  MaxDialogues,   \* bound: operations
  MaxFaults       \* bound: messages that cannot be encoded or decoded, and crashes

ASSUME HookAssumption ==
  /\ Bare \subseteq Existing
  /\ Missing \notin Existing \cup {Failing}
  /\ Failing \notin Existing
  /\ EmptyKeys \subseteq Keys /\ IsFiniteSet(Keys)
  /\ Marshalizers \subseteq {"JSON", "Gob"}
  /\ MaxCalls \in Nat /\ MaxDialogues \in Nat /\ MaxFaults \in Nat

VARIABLES
  marshalizer,  \* the encoding of the messages
  node,         \* the driver: [pc, nonce]
  vm,           \* the VM process: [pc, nonce, hook, args]
  toNode, toVM, \* the pipes
  world,        \* what the node's hook keeps: [compiled, effects]
  run,          \* ghost: what the current execution asked, got, lost and produced
  dialogues, calls, faults

vars == <<marshalizer, node, vm, toNode, toVM, world, run, dialogues, calls, faults>>

Addresses == Existing \cup {Missing, Failing}

-----------------------------------------------------------------------------
(* The kinds of messages, numbered as in the code: a request of a hook is   *)
(* followed by its response.                                                *)

HookNames ==
  <<"NewAddress", "GetStorageData", "GetBlockhash",
    "LastNonce", "LastRound", "LastTimeStamp", "LastRandomSeed", "LastEpoch", "GetStateRootHash",
    "CurrentNonce", "CurrentRound", "CurrentTimeStamp", "CurrentRandomSeed", "CurrentEpoch",
    "ProcessBuiltinFunction", "GetDCDTToken", "GetBuiltinFunctionNames", "GetAllState",
    "GetUserAccount", "GetCode", "GetShardOfAddress", "IsPayable", "IsSmartContract",
    "SaveCompiledCode", "GetCompiledCode">>

ContractCallRequest == 4
ContractResponse == 5
BlockchainNewAddressRequest == 8
Place(h) == CHOOSE i \in DOMAIN HookNames : HookNames[i] = h
RequestKind(h) == BlockchainNewAddressRequest + 2 * (Place(h) - 1)
ResponseKind(h) == RequestKind(h) + 1
BlockchainGetCompiledCodeResponse == ResponseKind("GetCompiledCode")
UndefinedRequestOrResponse == BlockchainGetCompiledCodeResponse + 5
LastKind == UndefinedRequestOrResponse + 1

IsHookCall(kind) == kind >= BlockchainNewAddressRequest /\ kind <= BlockchainGetCompiledCodeResponse

-----------------------------------------------------------------------------
(* The fields of the messages of each hook, in the order of the             *)
(* constructors' parameters, and whether the response carries an error.     *)

Carries(request, response, hasError) ==
  [request |-> request, response |-> response, hasError |-> hasError]

LookupMessages ==
  [NewAddress |-> Carries(<<"CreatorAddress", "CreatorNonce", "VMType">>, <<"Result">>, TRUE),
   GetStorageData |-> Carries(<<"Address", "Index">>, <<"Data">>, TRUE),
   GetBlockhash |-> Carries(<<"Nonce">>, <<"Result">>, TRUE)]

LastMessages ==
  [h \in {"LastNonce", "LastRound", "LastTimeStamp", "LastRandomSeed", "LastEpoch",
          "GetStateRootHash"} |-> Carries(<<>>, <<"Result">>, FALSE)]

CurrentMessages ==
  [h \in {"CurrentNonce", "CurrentRound", "CurrentTimeStamp", "CurrentRandomSeed",
          "CurrentEpoch"} |-> Carries(<<>>, <<"Result">>, FALSE)]

StateMessages ==
  [ProcessBuiltinFunction |-> Carries(<<"CallInput">>, <<"SerializableVMOutput">>, TRUE),
   GetDCDTToken |-> Carries(<<"Address", "TokenID", "Nonce">>, <<"DCDTData">>, TRUE),
   GetBuiltinFunctionNames |-> Carries(<<>>, <<"FunctionNames">>, FALSE),
   GetAllState |-> Carries(<<"Address">>, <<"SerializableAllState">>, TRUE)]

AccountMessages ==
  [GetUserAccount |-> Carries(<<"Address">>, <<"Account">>, TRUE),
   GetCode |-> Carries(<<"Account">>, <<"Code">>, FALSE),
   GetShardOfAddress |-> Carries(<<"Address">>, <<"Shard">>, FALSE),
   IsSmartContract |-> Carries(<<"Address">>, <<"Result">>, FALSE),
   IsPayable |-> Carries(<<"Address">>, <<"Result">>, TRUE)]

CompiledCodeMessages ==
  [SaveCompiledCode |-> Carries(<<"CodeHash", "Code">>, <<>>, FALSE),
   GetCompiledCode |-> Carries(<<"CodeHash">>, <<"Found", "Code">>, FALSE)]

Messages ==
  [h \in Range(HookNames) |->
     CASE h \in DOMAIN LookupMessages -> LookupMessages[h]
       [] h \in DOMAIN LastMessages -> LastMessages[h]
       [] h \in DOMAIN CurrentMessages -> CurrentMessages[h]
       [] h \in DOMAIN StateMessages -> StateMessages[h]
       [] h \in DOMAIN AccountMessages -> AccountMessages[h]
       [] h \in DOMAIN CompiledCodeMessages -> CompiledCodeMessages[h]]

(* The constructors put their parameters in the fields; the readers take    *)
(* them out again.                                                          *)
Pack(fields, values) ==
  [f \in Range(fields) |-> values[CHOOSE i \in DOMAIN fields : fields[i] = f]]
Unpack(fields, body) == [i \in DOMAIN fields |-> body[fields[i]]]

(* Mutant: SetError is left out of the responses. *)
NewResponseWithoutError(h, values, err) ==
  [kind |-> ResponseKind(h), body |-> Pack(Messages[h].response, values), error |-> FALSE]
NewResponse(h, values, err) ==
  [kind |-> ResponseKind(h), body |-> Pack(Messages[h].response, values),
   error |-> Messages[h].hasError /\ err]
NewRequest(h, args) ==
  [kind |-> RequestKind(h), body |-> Pack(Messages[h].request, args), error |-> FALSE]

NewUndefinedMessage == [kind |-> UndefinedRequestOrResponse, body |-> <<>>, error |-> FALSE]

(* The type of message that the receiver makes for a kind, by its fields.   *)
hookCreators ==
  [kind \in BlockchainNewAddressRequest .. BlockchainGetCompiledCodeResponse |->
     LET fields == Messages[HookNames[(kind - BlockchainNewAddressRequest) \div 2 + 1]]
     IN  Range(IF kind % 2 = 0 THEN fields.request ELSE fields.response)]
contractCreators ==
  [kind \in {ContractCallRequest, ContractResponse} |->
     IF kind = ContractCallRequest THEN {"CallInput"} ELSE {"SerializableVMOutput"}]
messageCreators ==
  [kind \in 0 .. LastKind - 1 |->
     CASE kind \in DOMAIN hookCreators -> hookCreators[kind]
       [] kind \in DOMAIN contractCreators -> contractCreators[kind]
       [] OTHER -> {}]
CreateMessage(kind) == IF kind < LastKind THEN messageCreators[kind] ELSE {}

(* What a value becomes on its way: gob leaves out values of length 0, JSON *)
(* keeps them.  Fields that the type lacks are dropped.                     *)
gobMarshal(v) == IF v = Empty THEN Nil ELSE v
Transcode(field, v) ==
  IF marshalizer = "JSON" \/ v = Nil THEN v
  ELSE CASE field = "Account" -> [f \in DOMAIN v |-> gobMarshal(v[f])]
         [] field \in {"Data", "Code"} -> gobMarshal(v)
         [] OTHER -> v
readMessage(m) ==
  [m EXCEPT !.body = [f \in DOMAIN @ \cap CreateMessage(m.kind) |-> Transcode(f, @[f])]]

-----------------------------------------------------------------------------
(* Conversions of what a message cannot carry: maps keyed by bytes become   *)
(* lists and are rebuilt from the keys that the items hold.                 *)

NewSerializableMapStringBytes(data) ==
  LET keys == SetToSeq(DOMAIN data)
  IN  [Keys |-> keys, Values |-> [i \in DOMAIN keys |-> data[keys[i]]]]
ConvertToMap(s) ==
  [k \in Range(s.Keys) |-> s.Values[CHOOSE i \in DOMAIN s.Keys : s.Keys[i] = k]]

NewSerializableOutputAccount(account) ==
  [Address |-> account.Address,
   StorageUpdates |-> SetToSeq(Range(account.StorageUpdates)),
   Transfers |-> account.OutputTransfers]
ConvertToOutputAccount(a) ==
  [Address |-> a.Address,
   StorageUpdates |-> [o \in {u.Offset : u \in Range(a.StorageUpdates)} |->
                         CHOOSE u \in Range(a.StorageUpdates) : u.Offset = o],
   OutputTransfers |-> a.Transfers]

NewSerializableVMOutput(vmOutput) ==
  IF vmOutput = Nil THEN [ReturnCode |-> 0, CorrectedOutputAccounts |-> <<>>]
  ELSE [ReturnCode |-> vmOutput.ReturnCode,
        CorrectedOutputAccounts |->
          SetToSeq({NewSerializableOutputAccount(a) : a \in Range(vmOutput.OutputAccounts)})]
(* Mutant: only the first account survives. *)
ConvertFirstAccount(o) ==
  [ReturnCode |-> o.ReturnCode,
   OutputAccounts |-> [x \in {a.Address : a \in {o.CorrectedOutputAccounts[i] :
                         i \in DOMAIN o.CorrectedOutputAccounts \cap {1}}} |->
                         ConvertToOutputAccount(o.CorrectedOutputAccounts[1])]]
ConvertToVMOutput(o) ==
  LET items == Range(o.CorrectedOutputAccounts)
  IN  [ReturnCode |-> o.ReturnCode,
       OutputAccounts |-> [x \in {a.Address : a \in items} |->
                             ConvertToOutputAccount(CHOOSE a \in items : a.Address = x)]]

(* common.Account: the fields both sides copy, and what its getters return. *)
AccountFields ==
  {"Nonce", "Balance", "CodeHash", "RootHash", "Address", "DeveloperReward", "OwnerAddress",
   "UserName", "CodeMetadata"}
Getter(account, f) ==
  IF f \in {"Balance", "DeveloperReward"} /\ account[f] = Nil THEN Zero ELSE account[f]
ResponseAccount(account) == [f \in AccountFields |-> account[f]]
RequestAccount(account) == [f \in AccountFields |-> Getter(account, f)]

-----------------------------------------------------------------------------
(* The node's own hook, not part of this repository: every answer tells     *)
(* what was asked.  Two methods change what the node keeps.                 *)

Answer(v) == [value |-> v, err |-> FALSE]
Unless(bad, v) == IF bad THEN [value |-> Nil, err |-> TRUE] ELSE Answer(v)
Stored(a, k) ==
  IF a \notin Existing THEN Nil
  ELSE IF k \in EmptyKeys THEN Empty ELSE <<"stored", a, k>>
AccountOf(a) ==
  [f \in AccountFields |->
     CASE a \in Bare /\ f = "DeveloperReward" -> Nil
       [] a \in Bare /\ f \in {"UserName", "CodeMetadata"} -> Empty
       [] OTHER -> <<f, a>>]
BuiltinOutput(a) ==
  [ReturnCode |-> 0,
   OutputAccounts |->
     [x \in {a, "caller"} |->
        [Address |-> x,
         StorageUpdates |-> [k \in Keys |-> [Offset |-> k, Data |-> <<"built in", x>>]],
         OutputTransfers |-> <<>>]]]

BlockchainHook(w, h, args) ==
  CASE h \in DOMAIN LastMessages \cup DOMAIN CurrentMessages -> Answer(<<h>>)
    [] h = "NewAddress" -> Unless(args[1] = Failing, <<"address">> \o args)
    [] h = "GetStorageData" -> Unless(args[1] = Failing, Stored(args[1], args[2]))
    [] h = "GetBlockhash" -> Unless(args[1] > 1, <<"hash", args[1]>>)
    [] h = "ProcessBuiltinFunction" -> Unless(args[1] = Failing, BuiltinOutput(args[1]))
    [] h = "GetDCDTToken" -> Unless(args[1] = Failing, <<"token">> \o args)
    [] h = "GetBuiltinFunctionNames" -> Answer({"builtIn"})
    [] h = "GetAllState" -> Unless(args[1] = Failing, [k \in Keys |-> Stored(args[1], k)])
    [] h = "GetUserAccount" ->
         Unless(args[1] = Failing, IF args[1] \in Existing THEN AccountOf(args[1]) ELSE Nil)
    [] h = "GetCode" -> Answer(<<"code", args[1].CodeHash>>)
    [] h = "GetShardOfAddress" -> Answer(<<"shard", args[1]>>)
    [] h = "IsPayable" -> Unless(args[2] = Failing, args[2] \in Existing)
    [] h = "IsSmartContract" -> Answer(args[1] \in Bare)
    [] h = "SaveCompiledCode" -> Answer(Nil)
    [] h = "GetCompiledCode" ->
         Answer(<<w.compiled[args[1]] # Nil, w.compiled[args[1]]>>)

AfterHook(w, h, args) ==
  CASE h = "SaveCompiledCode" ->
         [compiled |-> [w.compiled EXCEPT ![args[1]] = args[2]], effects |-> Append(w.effects, <<h, args>>)]
    [] h = "ProcessBuiltinFunction" -> [w EXCEPT !.effects = Append(@, <<h, args>>)]
    [] OTHER -> w

(* The calls that the host makes.                                           *)
HookArguments(h) ==
  CASE h = "NewAddress" -> {<<a, 7, "vmType">> : a \in Addresses}
    [] h = "GetStorageData" -> {<<a, k>> : a \in Addresses, k \in Keys}
    [] h = "GetBlockhash" -> {<<1>>, <<2>>}
    [] h = "GetDCDTToken" -> {<<a, "token", 3>> : a \in Addresses}
    [] h = "GetCode" -> {<<AccountOf(a)>> : a \in Existing}
    [] h = "IsPayable" -> {<<"sender", a>> : a \in Addresses}
    [] h = "SaveCompiledCode" -> {<<"hash", "compiled">>}
    [] h = "GetCompiledCode" -> {<<"hash">>}
    [] Messages[h].request = <<>> -> {<<>>}
    [] OTHER -> {<<a>> : a \in Addresses}

(* What the types of the code guarantee: nil is neither an account nor an   *)
(* output, a hash or a compiled code is not empty, and the maps of an       *)
(* output are finite and keyed by the address and the offset of their items.*)
IsVMOutput(o) ==
  /\ o = [ReturnCode |-> o.ReturnCode, OutputAccounts |-> o.OutputAccounts]
  /\ IsFiniteSet(DOMAIN o.OutputAccounts)
  /\ o.OutputAccounts = [x \in DOMAIN o.OutputAccounts |->
       [Address |-> x, StorageUpdates |-> o.OutputAccounts[x].StorageUpdates,
        OutputTransfers |-> o.OutputAccounts[x].OutputTransfers]]
  /\ \A x \in DOMAIN o.OutputAccounts :
       LET updates == o.OutputAccounts[x].StorageUpdates
       IN  /\ IsFiniteSet(DOMAIN updates)
           /\ updates = [k \in DOMAIN updates |-> updates[k]]
           /\ \A k \in DOMAIN updates : updates[k].Offset = k

ASSUME ValueAssumption ==
  /\ \A a \in Existing : [f \in AccountFields |-> gobMarshal(AccountOf(a)[f])] # Nil
  /\ \A a \in Addresses : BuiltinOutput(a) # Nil
  /\ \A a \in Existing : <<"CodeHash", a>> # Empty
  /\ "compiled" # Empty
  /\ \A o \in Outputs \ {Nil} : IsVMOutput(o)

-----------------------------------------------------------------------------
(* The repliers of the node: the hook's results as a response.              *)

lookupReplier(w, h, body) ==
  LET r == BlockchainHook(w, h, Unpack(Messages[h].request, body))
  IN  NewResponse(h, <<r.value>>, r.err)
blockReplier(w, h, body) == NewResponse(h, <<BlockchainHook(w, h, <<>>).value>>, FALSE)
stateReplier(w, h, body) ==
  LET r == BlockchainHook(w, h, Unpack(Messages[h].request, body))
      packed == CASE h = "ProcessBuiltinFunction" -> NewSerializableVMOutput(r.value)
                  [] h = "GetAllState" -> NewSerializableMapStringBytes(IF r.err THEN <<>> ELSE r.value)
                  [] OTHER -> r.value
  IN  NewResponse(h, <<packed>>, r.err)
accountReplier(w, h, body) ==
  LET args == Unpack(Messages[h].request, body)
      r == BlockchainHook(w, h, IF h = "IsPayable" THEN <<Nil>> \o args ELSE args)
      copied == IF h = "GetUserAccount" /\ ~r.err /\ r.value # Nil
                THEN ResponseAccount(r.value) ELSE r.value
  IN  NewResponse(h, <<copied>>, r.err)
compiledCodeReplier(w, h, body) ==
  LET r == BlockchainHook(w, h, Unpack(Messages[h].request, body))
  IN  NewResponse(h, IF h = "GetCompiledCode" THEN r.value ELSE <<>>, FALSE)

Repliers(w, h, body) ==
  CASE h \in DOMAIN LookupMessages -> lookupReplier(w, h, body)
    [] h \in DOMAIN LastMessages \cup DOMAIN CurrentMessages -> blockReplier(w, h, body)
    [] h \in DOMAIN StateMessages -> stateReplier(w, h, body)
    [] h \in DOMAIN AccountMessages -> accountReplier(w, h, body)
    [] h \in DOMAIN CompiledCodeMessages -> compiledCodeReplier(w, h, body)

-----------------------------------------------------------------------------
(* The gateway of the VM: what a method sends, and what it returns for the  *)
(* response, or for none (NoResponse) and for one of another kind.          *)

NoResponse == NewUndefinedMessage
Failed(h, response) == response.kind # ResponseKind(h)

(* Mutant: the code is sent as its hash and the hash as the code. *)
SwappedArguments(h, args) ==
  CASE h = "IsPayable" -> Tail(args)
    [] h = "GetCode" -> <<RequestAccount(args[1])>>
    [] h = "SaveCompiledCode" -> <<args[2], args[1]>>
    [] OTHER -> args
GatewayArguments(h, args) ==
  CASE h = "IsPayable" -> Tail(args)
    [] h = "GetCode" -> <<RequestAccount(args[1])>>
    [] OTHER -> args

lookupGateway(h, response) ==
  IF Failed(h, response) THEN [value |-> Nil, err |-> TRUE]
  ELSE [value |-> Unpack(Messages[h].response, response.body)[1], err |-> response.error]
lastGateway(h, response) ==
  IF ~Failed(h, response) THEN Answer(response.body.Result)
  ELSE Answer(IF h \in {"LastRandomSeed", "GetStateRootHash"} THEN Nil ELSE Zero)
currentGateway(h, response) ==
  IF ~Failed(h, response) THEN Answer(response.body.Result)
  ELSE Answer(IF h = "CurrentRandomSeed" THEN Nil ELSE Zero)
stateGateway(h, response) ==
  IF Failed(h, response)
  THEN IF h = "GetBuiltinFunctionNames" THEN Answer({}) ELSE [value |-> Nil, err |-> TRUE]
  ELSE CASE h = "GetBuiltinFunctionNames" -> Answer(response.body.FunctionNames)
         [] h = "GetDCDTToken" -> [value |-> response.body.DCDTData, err |-> response.error]
         [] h = "ProcessBuiltinFunction" ->
              [value |-> ConvertToVMOutput(response.body.SerializableVMOutput), err |-> response.error]
         [] h = "GetAllState" ->
              [value |-> ConvertToMap(response.body.SerializableAllState), err |-> response.error]
accountGateway(h, response) ==
  IF ~Failed(h, response)
  THEN [value |-> Unpack(Messages[h].response, response.body)[1],
        err |-> Messages[h].hasError /\ response.error]
  ELSE CASE h = "GetUserAccount" -> [value |-> Nil, err |-> TRUE]
         [] h = "GetCode" -> Answer(Nil)
         [] h = "GetShardOfAddress" -> Answer(Zero)
         [] h = "IsSmartContract" -> Answer(FALSE)
         [] h = "IsPayable" -> [value |-> FALSE, err |-> TRUE]
compiledCodeGateway(h, response) ==
  IF h = "SaveCompiledCode" THEN Answer(Nil)
  ELSE IF Failed(h, response) THEN Answer(<<FALSE, Nil>>)
  ELSE Answer(<<response.body.Found, response.body.Code>>)

Gateway(h, response) ==
  CASE h \in DOMAIN LookupMessages -> lookupGateway(h, response)
    [] h \in DOMAIN LastMessages -> lastGateway(h, response)
    [] h \in DOMAIN CurrentMessages -> currentGateway(h, response)
    [] h \in DOMAIN StateMessages -> stateGateway(h, response)
    [] h \in DOMAIN AccountMessages -> accountGateway(h, response)
    [] h \in DOMAIN CompiledCodeMessages -> compiledCodeGateway(h, response)

-----------------------------------------------------------------------------
(* Messenger: the messages of a dialogue are numbered in turns by both      *)
(* sides, and a message with another number than the next is refused.  A    *)
(* number is used up by a message that cannot be encoded, and not by one    *)
(* that cannot be decoded.                                                  *)
Numbered(message, nonce) ==
  [kind |-> message.kind, body |-> message.body, error |-> message.error, nonce |-> nonce]
InStep(message, nonce) == message.nonce = nonce + 1

NonceAfterSend(nonce) == nonce + 1

(* Mutant: the number of a response is taken over before it is decoded. *)
NonceOfAnyResponse(decoded, message) == message.nonce
NonceAfterReceive(decoded, message) ==
  IF decoded /\ InStep(message, vm.nonce) THEN message.nonce ELSE vm.nonce

(* A process that the driver killed and waited for; one that ended by       *)
(* itself, which IsClosed takes for running; and one that waits for a       *)
(* request.                                                                 *)
Dead == [pc |-> "dead", nonce |-> 0, hook |-> "none", args |-> <<>>]
Ended == [Dead EXCEPT !.pc = "ended"]
Waiting == [pc |-> "waiting", nonce |-> 0, hook |-> "none", args |-> <<>>]
(* Mutant: a new process gets the pipes of the old one. *)
OldPipe(pipe) == pipe
PipeOfStarted(pipe) == IF vm.pc = "dead" THEN <<>> ELSE pipe

(* startVM empties the node's store of compiled code: ClearCompiledCodes.   *)
NoCompiledCode == [k \in {"hash"} |-> Nil]

NoCall == [hook |-> "none", answer |-> Answer(Nil), direct |-> Answer(Nil), standIn |-> FALSE]
NewRun == [last |-> NoCall, standIn |-> FALSE, unsent |-> 0, unread |-> 0,
           requested |-> <<>>, produced |-> Nil, accepted |-> FALSE, returned |-> Nil]

Init ==
  /\ marshalizer \in Marshalizers
  /\ node = [pc |-> "idle", nonce |-> 0]
  /\ vm = Waiting
  /\ toNode = <<>> /\ toVM = <<>>
  /\ world = [compiled |-> NoCompiledCode, effects |-> <<>>]
  /\ run = NewRun
  /\ dialogues = 0 /\ calls = 0 /\ faults = 0

(* An operation of the driver: RestartVMIfNecessary, then the request.      *)
StartLoop ==
  /\ node.pc = "idle" /\ dialogues < MaxDialogues
  /\ dialogues' = dialogues + 1
  /\ node' = [pc |-> "looping", nonce |-> 1]
  /\ LET request == Numbered([kind |-> ContractCallRequest, body |-> <<>>, error |-> FALSE], 1)
     IN  toVM' = Append(PipeOfStarted(toVM), request)
  /\ toNode' = PipeOfStarted(toNode)
  /\ vm' = IF vm.pc = "dead" THEN Waiting ELSE vm
  /\ run' = NewRun
  /\ world' = [compiled |-> IF vm.pc = "dead" THEN NoCompiledCode ELSE world.compiled,
               effects |-> <<>>]
  /\ calls' = 0
  /\ UNCHANGED <<marshalizer, faults>>

ReceiveNodeRequest ==
  /\ vm.pc = "waiting" /\ toVM # <<>>
  /\ vm' = IF InStep(Head(toVM), vm.nonce)
           THEN [vm EXCEPT !.pc = "running", !.nonce = vm.nonce + 1] ELSE Ended
  /\ toVM' = Tail(toVM)
  /\ UNCHANGED <<marshalizer, node, toNode, world, run, dialogues, calls, faults>>

(* The execution gets the gateway's answer and goes on.                     *)
Returns(h, direct, response, decoded) ==
  run' = [run EXCEPT
            !.last = [hook |-> h, answer |-> Gateway(h, response), direct |-> direct,
                      standIn |-> Failed(h, response)],
            !.standIn = @ \/ Failed(h, response),
            !.unread = IF decoded THEN @ ELSE @ + 1]

(* SendHookCallRequest up to the wait for the response.                     *)
HookCall(h, args) ==
  LET request == NewRequest(h, GatewayArguments(h, args))
      effect == IF AfterHook(world, h, args) = world THEN <<>> ELSE <<<<h, args>>>>
  IN  /\ vm.pc = "running" /\ calls < MaxCalls
      /\ calls' = calls + 1
      /\ \/ /\ toNode' = Append(toNode, Numbered(request, NonceAfterSend(vm.nonce)))
            /\ vm' = [pc |-> "calling", nonce |-> NonceAfterSend(vm.nonce), hook |-> h, args |-> args]
            /\ run' = [run EXCEPT !.requested = @ \o effect]
            /\ UNCHANGED faults
         \/ /\ faults < MaxFaults /\ faults' = faults + 1
            /\ vm' = [vm EXCEPT !.nonce = NonceAfterSend(@)]
            /\ run' = [run EXCEPT !.standIn = TRUE, !.unsent = @ + 1,
                         !.last = [hook |-> h, answer |-> Gateway(h, NoResponse),
                                   direct |-> Answer(Nil), standIn |-> TRUE]]
            /\ UNCHANGED toNode
      /\ UNCHANGED <<marshalizer, node, toVM, world, dialogues>>

(* The driver's loop fails: the dialogue is reset and the process killed.   *)
LoopFails == node' = [pc |-> "closing", nonce |-> 0]

(* doLoop with a hook call: replyToHookCallRequest.                         *)
ReplyToHookCall ==
  /\ node.pc = "looping" /\ toNode # <<>>
  /\ LET m == readMessage(Head(toNode))
     IN  /\ InStep(m, node.nonce)
         /\ IsHookCall(m.kind)
         /\ LET h == HookNames[(m.kind - BlockchainNewAddressRequest) \div 2 + 1]
                args == Unpack(Messages[h].request, m.body)
            IN  /\ world' = AfterHook(world, h, IF h = "IsPayable" THEN <<Nil>> \o args ELSE args)
                /\ \/ /\ toVM' = Append(toVM, Numbered(Repliers(world, h, m.body), node.nonce + 2))
                      /\ node' = [node EXCEPT !.nonce = @ + 2]
                      /\ UNCHANGED faults
                   \/ /\ faults < MaxFaults /\ faults' = faults + 1
                      /\ LoopFails
                      /\ UNCHANGED toVM
  /\ toNode' = Tail(toNode)
  /\ UNCHANGED <<marshalizer, vm, run, dialogues, calls>>

(* doLoop with the response of the contract: the operation returns it.      *)
AcceptResponse ==
  /\ node.pc = "looping" /\ toNode # <<>>
  /\ LET m == readMessage(Head(toNode))
     IN  /\ InStep(m, node.nonce)
         /\ ~IsHookCall(m.kind) /\ m.kind = ContractResponse
         /\ run' = [run EXCEPT !.accepted = TRUE,
                       !.returned = IF m.error THEN Nil
                                    ELSE ConvertToVMOutput(m.body.SerializableVMOutput)]
  /\ node' = [pc |-> "idle", nonce |-> 0]
  /\ toNode' = Tail(toNode)
  /\ UNCHANGED <<marshalizer, vm, toVM, world, dialogues, calls, faults>>

Rejects(m) ==
  ~InStep(m, node.nonce) \/ (~IsHookCall(m.kind) /\ m.kind # ContractResponse)

(* doLoop with a message of a wrong number or kind, or one that cannot be   *)
(* decoded.                                                                 *)
RejectMessage ==
  /\ node.pc = "looping" /\ toNode # <<>>
  /\ \/ Rejects(readMessage(Head(toNode))) /\ UNCHANGED faults
     \/ faults < MaxFaults /\ faults' = faults + 1
  /\ LoopFails
  /\ toNode' = Tail(toNode)
  /\ UNCHANGED <<marshalizer, vm, toVM, world, run, dialogues, calls>>

(* The time is over, or the process is dead: the read fails.                *)
ReadFails ==
  /\ node.pc = "looping"
  /\ LoopFails
  /\ UNCHANGED <<marshalizer, vm, toNode, toVM, world, run, dialogues, calls, faults>>

(* driver.Close after a failed loop.                                        *)
Close ==
  /\ node.pc = "closing"
  /\ node' = [node EXCEPT !.pc = "idle"]
  /\ vm' = Dead
  /\ UNCHANGED <<marshalizer, toNode, toVM, world, run, dialogues, calls, faults>>

(* SendHookCallRequest from the response on, and the rest of the method.    *)
HookReturns ==
  /\ vm.pc = "calling" /\ toVM # <<>>
  /\ \E decoded \in BOOLEAN :
       LET m == readMessage(Head(toVM))
           good == decoded /\ InStep(m, vm.nonce)
       IN  /\ decoded \/ faults < MaxFaults
           /\ faults' = IF decoded THEN faults ELSE faults + 1
           /\ vm' = [vm EXCEPT !.pc = "running", !.nonce = NonceAfterReceive(decoded, m)]
           /\ Returns(vm.hook, BlockchainHook(world, vm.hook, vm.args),
                      IF good THEN m ELSE NoResponse, decoded)
  /\ toVM' = Tail(toVM)
  /\ UNCHANGED <<marshalizer, node, toNode, world, dialogues, calls>>

(* The execution ends: replyToRunSmartContractCall, SendContractResponse,   *)
(* ResetDialogue.  When the response cannot be encoded the loop ends.       *)
SendContractResponse(vmOutput) ==
  /\ vm.pc = "running"
  /\ run' = [run EXCEPT !.produced = vmOutput]
  /\ \/ /\ toNode' = Append(toNode,
              Numbered([kind |-> ContractResponse, error |-> vmOutput = Nil,
                        body |-> Pack(<<"SerializableVMOutput">>, <<NewSerializableVMOutput(vmOutput)>>)],
                       NonceAfterSend(vm.nonce)))
        /\ vm' = Waiting
        /\ UNCHANGED faults
     \/ /\ faults < MaxFaults /\ faults' = faults + 1
        /\ vm' = Ended
        /\ UNCHANGED toNode
  /\ UNCHANGED <<marshalizer, node, toVM, world, dialogues, calls>>

(* The VM process dies by itself.                                           *)
Crash ==
  /\ vm.pc \notin {"dead", "ended"} /\ faults < MaxFaults
  /\ faults' = faults + 1
  /\ vm' = Ended
  /\ UNCHANGED <<marshalizer, node, toNode, toVM, world, run, dialogues, calls>>

Next ==
  \/ Crash
  \/ StartLoop \/ ReceiveNodeRequest
  \/ \E h \in DOMAIN Messages : \E args \in HookArguments(h) : HookCall(h, args)
  \/ ReplyToHookCall \/ AcceptResponse \/ RejectMessage \/ ReadFails \/ Close
  \/ HookReturns
  \/ \E vmOutput \in Outputs : SendContractResponse(vmOutput)

Spec == Init /\ [][Next]_vars

-----------------------------------------------------------------------------
(* What the host can tell of a result: it looks at the length of bytes, at  *)
(* numbers through the getters of an account, and at no result that comes   *)
(* with an error.                                                           *)
Seen(v) == IF v \in {Nil, Empty, Zero} THEN Nil ELSE v
View(h, answer) ==
  IF answer.err THEN "error"
  ELSE CASE h = "GetUserAccount" /\ answer.value # Nil ->
              [f \in AccountFields |-> Seen(Getter(answer.value, f))]
         [] h \in {"GetStorageData", "GetCode"} -> Seen(answer.value)
         [] OTHER -> answer.value

(* Types of the control state: the messages in the pipes are of kinds that  *)
(* have a name and never more than one is on its way in a direction.        *)
TypeOK ==
  /\ node \in [pc : {"idle", "looping", "closing"}, nonce : 0 .. 2 * MaxCalls + 1]
  /\ vm.pc \in {"waiting", "running", "calling", "ended", "dead"}
  /\ vm.hook \in DOMAIN Messages \cup {"none"} /\ vm.nonce \in 0 .. 2 * MaxCalls + 1
  /\ Len(toNode) <= 1 /\ Len(toVM) <= 1
  /\ \A m \in Range(toNode) \cup Range(toVM) : m.kind \in 1 .. LastKind - 1

(* A hook called through the gateway, the pipes and the repliers returns    *)
(* what the node's hook itself returns for the arguments of the call, error *)
(* or value, whichever encoding the driver is configured with.              *)
HookAnswersAreExact ==
  LET last == run.last
  IN  last.hook # "none" /\ ~last.standIn => View(last.hook, last.answer) = View(last.hook, last.direct)

(* An execution that was given a stand-in for the answer of a hook (0, nil, *)
(* false when a request or a response is lost) has its output returned by   *)
(* the driver only if as many requests were lost in the VM as responses:    *)
(* otherwise the numbers of the dialogue are out of step (Messenger.Send    *)
(* and Receive).  A single fault is always noticed.                         *)
StandInsAreDiscarded ==
  run.accepted /\ run.standIn => run.unsent = run.unread /\ run.unread > 0

(* When the driver returns an output, the node's hook did exactly what the  *)
(* execution asked of it: every built-in function and every saved code for  *)
(* which a request could be encoded, once and in order.                     *)
EffectsMatchOutput == run.accepted => world.effects = run.requested

(* The output that the driver returns is the one that the host produced:    *)
(* accounts, storage updates and transfers are under the keys they had.     *)
OutputsAreExact == run.accepted => run.returned = run.produced

(* What the node accepts is what happened: the output of the host and the   *)
(* effects it asked for, whatever became of earlier executions and of the   *)
(* process.                                                                 *)
AcceptedRunsAreExact == TypeOK /\ EffectsMatchOutput /\ OutputsAreExact

=============================================================================
