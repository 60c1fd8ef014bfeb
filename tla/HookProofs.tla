----------------------------- MODULE HookProofs -----------------------------
(***************************************************************************)
(* Proofs about the numbers and the answers that hooks give to contracts.  *)
(*                                                                         *)
(* IPCHooks, for any accounts, keys, outputs, encodings, numbers of calls, *)
(* operations and faults: what the node answers is what the contract gets, *)
(* and no answer of a broken connection reaches an accepted output.        *)
(*                                                                         *)
(* BigIntHooks, for any bytes, handles, hooks and depth of calls: every    *)
(* handle holds the number computed for it, through the copies that calls  *)
(* make and whichever of the calls fail, and a new handle is free.         *)
(***************************************************************************)
EXTENDS IPCHooks, BigIntHooks, SumProofs, SequenceTheorems

-----------------------------------------------------------------------------
(* The names and the numbers of the messages.                              *)

(* The list of hooks names each of them once.                              *)
LEMMA HookNamesAre ==
  /\ DOMAIN HookNames = 1 .. 25
  /\ \A i, j \in 1 .. 25 : HookNames[i] = HookNames[j] => i = j
  BY DEF HookNames

NameOf(kind) == HookNames[(kind - BlockchainNewAddressRequest) \div 2 + 1]

(* The place of a hook in the list.                                        *)
LEMMA PlaceOf ==
  ASSUME NEW h \in DOMAIN Messages
  PROVE  Place(h) \in 1 .. 25 /\ HookNames[Place(h)] = h
<1>1. DOMAIN Messages = Range(HookNames)
  BY DEF Messages
<1>2. PICK i \in 1 .. 25 : HookNames[i] = h
  BY <1>1, HookNamesAre DEF Range
<1>3. \E j \in DOMAIN HookNames : HookNames[j] = h
  BY <1>2, HookNamesAre
<1> QED BY <1>3, HookNamesAre DEF Place

(* The last kinds.                                                         *)
LEMMA LastKinds ==
  /\ BlockchainGetCompiledCodeResponse = 57 /\ UndefinedRequestOrResponse = 62 /\ LastKind = 63
<1>1. Range(HookNames) = DOMAIN Messages
  BY DEF Messages
<1>2. HookNames[25] = "GetCompiledCode"
  BY DEF HookNames
<1>3. "GetCompiledCode" \in DOMAIN Messages
  BY <1>1, <1>2, HookNamesAre DEF Range
<1>4. Place("GetCompiledCode") = 25
  BY <1>2, <1>3, PlaceOf, HookNamesAre
<1>5. BlockchainGetCompiledCodeResponse = 57
  BY <1>4 DEF BlockchainGetCompiledCodeResponse, ResponseKind, RequestKind, BlockchainNewAddressRequest
<1> QED BY <1>5 DEF UndefinedRequestOrResponse, LastKind

(* The kinds of a hook's messages lead back to the hook.                   *)
LEMMA KindsOf ==
  ASSUME NEW h \in DOMAIN Messages
  PROVE  /\ RequestKind(h) \in 8 .. 56 /\ ResponseKind(h) \in 9 .. 57
         /\ RequestKind(h) % 2 = 0 /\ ResponseKind(h) % 2 = 1
         /\ NameOf(RequestKind(h)) = h /\ NameOf(ResponseKind(h)) = h
         /\ IsHookCall(RequestKind(h))
<1>1. PICK p \in 1 .. 25 : p = Place(h) /\ HookNames[p] = h
  BY PlaceOf
<1>2. RequestKind(h) = 8 + 2 * (p - 1) /\ ResponseKind(h) = 9 + 2 * (p - 1)
  BY <1>1 DEF RequestKind, ResponseKind, BlockchainNewAddressRequest
<1>3. /\ (RequestKind(h) - 8) \div 2 + 1 = p /\ (ResponseKind(h) - 8) \div 2 + 1 = p
      /\ RequestKind(h) % 2 = 0 /\ ResponseKind(h) % 2 = 1
  BY <1>2
<1>4. IsHookCall(RequestKind(h))
  BY <1>2, LastKinds DEF IsHookCall, BlockchainNewAddressRequest
<1> QED BY <1>1, <1>2, <1>3, <1>4 DEF NameOf, BlockchainNewAddressRequest

(* Hooks, and what their messages carry, family by family.                 *)
LEMMA Families ==
  /\ DOMAIN LookupMessages = {"NewAddress", "GetStorageData", "GetBlockhash"}
  /\ DOMAIN LastMessages = {"LastNonce", "LastRound", "LastTimeStamp", "LastRandomSeed",
                            "LastEpoch", "GetStateRootHash"}
  /\ DOMAIN CurrentMessages = {"CurrentNonce", "CurrentRound", "CurrentTimeStamp",
                               "CurrentRandomSeed", "CurrentEpoch"}
  /\ DOMAIN StateMessages = {"ProcessBuiltinFunction", "GetDCDTToken", "GetBuiltinFunctionNames",
                             "GetAllState"}
  /\ DOMAIN AccountMessages = {"GetUserAccount", "GetCode", "GetShardOfAddress",
                               "IsSmartContract", "IsPayable"}
  /\ DOMAIN CompiledCodeMessages = {"SaveCompiledCode", "GetCompiledCode"}
<1>1. DOMAIN LookupMessages = {"NewAddress", "GetStorageData", "GetBlockhash"}
  BY DEF LookupMessages
<1>2. DOMAIN LastMessages = {"LastNonce", "LastRound", "LastTimeStamp", "LastRandomSeed",
                             "LastEpoch", "GetStateRootHash"}
  BY DEF LastMessages
<1>3. DOMAIN CurrentMessages = {"CurrentNonce", "CurrentRound", "CurrentTimeStamp",
                                "CurrentRandomSeed", "CurrentEpoch"}
  BY DEF CurrentMessages
<1>4. DOMAIN StateMessages = {"ProcessBuiltinFunction", "GetDCDTToken",
                              "GetBuiltinFunctionNames", "GetAllState"}
  BY DEF StateMessages
<1>5. DOMAIN AccountMessages = {"GetUserAccount", "GetCode", "GetShardOfAddress",
                                "IsSmartContract", "IsPayable"}
  BY DEF AccountMessages
<1>6. DOMAIN CompiledCodeMessages = {"SaveCompiledCode", "GetCompiledCode"}
  BY DEF CompiledCodeMessages
<1> QED BY <1>1, <1>2, <1>3, <1>4, <1>5, <1>6

Blocks == DOMAIN LastMessages \cup DOMAIN CurrentMessages

(* Every hook belongs to one family.                                       *)
LEMMA AllHooks ==
  DOMAIN Messages = DOMAIN LookupMessages \cup Blocks \cup DOMAIN StateMessages
                      \cup DOMAIN AccountMessages \cup DOMAIN CompiledCodeMessages
<1>1. DOMAIN Messages = {HookNames[i] : i \in 1 .. 25}
  BY HookNamesAre DEF Messages, Range
<1>2. ASSUME NEW i \in 1 .. 25
      PROVE  HookNames[i] \in DOMAIN LookupMessages \cup Blocks \cup DOMAIN StateMessages
                      \cup DOMAIN AccountMessages \cup DOMAIN CompiledCodeMessages
  BY Families DEF Blocks, HookNames
<1>3. /\ HookNames[1] = "NewAddress" /\ HookNames[2] = "GetStorageData"
      /\ HookNames[3] = "GetBlockhash" /\ HookNames[4] = "LastNonce"
      /\ HookNames[5] = "LastRound" /\ HookNames[6] = "LastTimeStamp"
      /\ HookNames[7] = "LastRandomSeed" /\ HookNames[8] = "LastEpoch"
      /\ HookNames[9] = "GetStateRootHash" /\ HookNames[10] = "CurrentNonce"
      /\ HookNames[11] = "CurrentRound" /\ HookNames[12] = "CurrentTimeStamp"
      /\ HookNames[13] = "CurrentRandomSeed" /\ HookNames[14] = "CurrentEpoch"
      /\ HookNames[15] = "ProcessBuiltinFunction" /\ HookNames[16] = "GetDCDTToken"
      /\ HookNames[17] = "GetBuiltinFunctionNames" /\ HookNames[18] = "GetAllState"
      /\ HookNames[19] = "GetUserAccount" /\ HookNames[20] = "GetCode"
      /\ HookNames[21] = "GetShardOfAddress" /\ HookNames[22] = "IsPayable"
      /\ HookNames[23] = "IsSmartContract" /\ HookNames[24] = "SaveCompiledCode"
      /\ HookNames[25] = "GetCompiledCode"
  BY DEF HookNames
<1>4. ASSUME NEW h \in DOMAIN LookupMessages \cup Blocks \cup DOMAIN StateMessages
                      \cup DOMAIN AccountMessages \cup DOMAIN CompiledCodeMessages
      PROVE  \E i \in 1 .. 25 : HookNames[i] = h
  <2>1. CASE h \in DOMAIN LookupMessages
    BY <1>3, <2>1, Families
  <2>2. CASE h \in DOMAIN LastMessages
    BY <1>3, <2>2, Families
  <2>3. CASE h \in DOMAIN CurrentMessages
    BY <1>3, <2>3, Families
  <2>4. CASE h \in DOMAIN StateMessages
    BY <1>3, <2>4, Families
  <2>5. CASE h \in DOMAIN AccountMessages
    BY <1>3, <2>5, Families
  <2>6. CASE h \in DOMAIN CompiledCodeMessages
    BY <1>3, <2>6, Families
  <2> QED BY <2>1, <2>2, <2>3, <2>4, <2>5, <2>6 DEF Blocks
<1> QED BY <1>1, <1>2, <1>4

(* The messages of a hook are those of its family.                         *)
LEMMA MessagesOf ==
  ASSUME NEW h \in DOMAIN Messages
  PROVE  /\ h \in DOMAIN LookupMessages => Messages[h] = LookupMessages[h]
         /\ h \in DOMAIN LastMessages => Messages[h] = LastMessages[h]
         /\ h \in DOMAIN CurrentMessages => Messages[h] = CurrentMessages[h]
         /\ h \in DOMAIN StateMessages => Messages[h] = StateMessages[h]
         /\ h \in DOMAIN AccountMessages => Messages[h] = AccountMessages[h]
         /\ h \in DOMAIN CompiledCodeMessages => Messages[h] = CompiledCodeMessages[h]
<1>1. Messages[h] =
     CASE h \in DOMAIN LookupMessages -> LookupMessages[h]
       [] h \in DOMAIN LastMessages -> LastMessages[h]
       [] h \in DOMAIN CurrentMessages -> CurrentMessages[h]
       [] h \in DOMAIN StateMessages -> StateMessages[h]
       [] h \in DOMAIN AccountMessages -> AccountMessages[h]
       [] h \in DOMAIN CompiledCodeMessages -> CompiledCodeMessages[h]
  BY DEF Messages
<1> QED BY <1>1, Families

(* What the messages of the lookups carry.                                 *)
LEMMA LookupCarries ==
  /\ Messages["NewAddress"] =
       Carries(<<"CreatorAddress", "CreatorNonce", "VMType">>, <<"Result">>, TRUE)
  /\ Messages["GetStorageData"] = Carries(<<"Address", "Index">>, <<"Data">>, TRUE)
  /\ Messages["GetBlockhash"] = Carries(<<"Nonce">>, <<"Result">>, TRUE)
<1>1. {"NewAddress", "GetStorageData", "GetBlockhash"} \subseteq DOMAIN Messages
  BY Families, AllHooks
<1> QED BY <1>1, Families, MessagesOf DEF LookupMessages

(* What the messages about blocks carry.                                   *)
LEMMA BlockCarries ==
  \A h \in Blocks : Messages[h] = Carries(<<>>, <<"Result">>, FALSE)
<1>1. Blocks \subseteq DOMAIN Messages
  BY AllHooks
<1>2. \A h \in DOMAIN LastMessages : LastMessages[h] = Carries(<<>>, <<"Result">>, FALSE)
  BY DEF LastMessages
<1>3. \A h \in DOMAIN CurrentMessages : CurrentMessages[h] = Carries(<<>>, <<"Result">>, FALSE)
  BY DEF CurrentMessages
<1> QED BY <1>1, <1>2, <1>3, MessagesOf DEF Blocks

(* What the messages about the state carry.                                *)
LEMMA StateCarries ==
  /\ Messages["ProcessBuiltinFunction"] =
       Carries(<<"CallInput">>, <<"SerializableVMOutput">>, TRUE)
  /\ Messages["GetDCDTToken"] = Carries(<<"Address", "TokenID", "Nonce">>, <<"DCDTData">>, TRUE)
  /\ Messages["GetBuiltinFunctionNames"] = Carries(<<>>, <<"FunctionNames">>, FALSE)
  /\ Messages["GetAllState"] = Carries(<<"Address">>, <<"SerializableAllState">>, TRUE)
<1>1. DOMAIN StateMessages \subseteq DOMAIN Messages
  BY AllHooks
<1> QED BY <1>1, Families, MessagesOf DEF StateMessages

(* What the messages about accounts carry.                                 *)
LEMMA AccountCarries ==
  /\ Messages["GetUserAccount"] = Carries(<<"Address">>, <<"Account">>, TRUE)
  /\ Messages["GetCode"] = Carries(<<"Account">>, <<"Code">>, FALSE)
  /\ Messages["GetShardOfAddress"] = Carries(<<"Address">>, <<"Shard">>, FALSE)
  /\ Messages["IsSmartContract"] = Carries(<<"Address">>, <<"Result">>, FALSE)
  /\ Messages["IsPayable"] = Carries(<<"Address">>, <<"Result">>, TRUE)
<1>1. DOMAIN AccountMessages \subseteq DOMAIN Messages
  BY AllHooks
<1> QED BY <1>1, Families, MessagesOf DEF AccountMessages

(* What the messages about compiled code carry.                            *)
LEMMA CompiledCodeCarries ==
  /\ Messages["SaveCompiledCode"] = Carries(<<"CodeHash", "Code">>, <<>>, FALSE)
  /\ Messages["GetCompiledCode"] = Carries(<<"CodeHash">>, <<"Found", "Code">>, FALSE)
<1>1. DOMAIN CompiledCodeMessages \subseteq DOMAIN Messages
  BY AllHooks
<1> QED BY <1>1, Families, MessagesOf DEF CompiledCodeMessages

-----------------------------------------------------------------------------
(* Fields of messages.                                                     *)

Distinct(fs) == \A i, j \in DOMAIN fs : fs[i] = fs[j] => i = j

\* The body that arrives when the fields fs carry vs.
Arrived(fs, vs) == [f \in Range(fs) |-> Transcode(f, Pack(fs, vs)[f])]

(* A reader takes out of a field what the constructor put in, transcoded.  *)
LEMMA FieldsArrive ==
  ASSUME NEW fs, Distinct(fs), NEW vs, NEW i \in DOMAIN fs
  PROVE  /\ Pack(fs, vs)[fs[i]] = vs[i] /\ fs[i] \in Range(fs)
         /\ Arrived(fs, vs)[fs[i]] = Transcode(fs[i], vs[i])
         /\ Unpack(fs, Arrived(fs, vs))[i] = Transcode(fs[i], vs[i])
<1>1. fs[i] \in Range(fs)
  BY DEF Range
<1>2. (CHOOSE j \in DOMAIN fs : fs[j] = fs[i]) = i
  BY DEF Distinct
<1>3. Pack(fs, vs)[fs[i]] = vs[i]
  BY <1>1, <1>2 DEF Pack
<1> QED BY <1>1, <1>3 DEF Arrived, Unpack

(* The fields of every message are distinct.                               *)
LEMMA FieldsAreDistinct ==
  ASSUME NEW h \in DOMAIN Messages
  PROVE  Distinct(Messages[h].request) /\ Distinct(Messages[h].response)
<1>1. CASE h \in DOMAIN LookupMessages
  BY <1>1, Families, LookupCarries DEF Carries, Distinct
<1>2. CASE h \in Blocks
  BY <1>2, BlockCarries DEF Carries, Distinct
<1>3. CASE h \in DOMAIN StateMessages
  BY <1>3, Families, StateCarries DEF Carries, Distinct
<1>4. CASE h \in DOMAIN AccountMessages
  BY <1>4, Families, AccountCarries DEF Carries, Distinct
<1>5. CASE h \in DOMAIN CompiledCodeMessages
  BY <1>5, Families, CompiledCodeCarries DEF Carries, Distinct
<1> QED BY <1>1, <1>2, <1>3, <1>4, <1>5, AllHooks

(* The receiver makes a message with the fields of the hook.               *)
LEMMA CreatedFields ==
  ASSUME NEW h \in DOMAIN Messages
  PROVE  /\ CreateMessage(RequestKind(h)) = Range(Messages[h].request)
         /\ CreateMessage(ResponseKind(h)) = Range(Messages[h].response)
<1>1. DOMAIN hookCreators = 8 .. 57
  BY LastKinds DEF hookCreators, BlockchainNewAddressRequest
<1>2. \A kind \in 8 .. 57 : CreateMessage(kind) = hookCreators[kind]
  <2>1. DOMAIN contractCreators = {4, 5}
    BY DEF contractCreators, ContractCallRequest, ContractResponse
  <2>2. ASSUME NEW kind \in 8 .. 57 PROVE messageCreators[kind] = hookCreators[kind]
    <3>1. /\ kind \in 0 .. LastKind - 1 /\ kind \in DOMAIN hookCreators
          /\ kind \notin DOMAIN contractCreators
      BY <1>1, <2>1, LastKinds
    <3>2. messageCreators[kind] =
            CASE kind \in DOMAIN hookCreators -> hookCreators[kind]
              [] kind \in DOMAIN contractCreators -> contractCreators[kind]
              [] OTHER -> {}
      BY <3>1, Zenon DEF messageCreators
    <3> QED BY <3>1, <3>2
  <2> QED BY <2>2, LastKinds DEF CreateMessage
<1>3. \A kind \in 8 .. 57 :
        hookCreators[kind] = Range(IF kind % 2 = 0 THEN Messages[NameOf(kind)].request
                                   ELSE Messages[NameOf(kind)].response)
  BY LastKinds DEF hookCreators, NameOf, BlockchainNewAddressRequest
<1>4. /\ RequestKind(h) \in 8 .. 57 /\ ResponseKind(h) \in 8 .. 57
      /\ RequestKind(h) % 2 = 0 /\ ResponseKind(h) % 2 # 0
      /\ NameOf(RequestKind(h)) = h /\ NameOf(ResponseKind(h)) = h
  BY KindsOf
<1> QED BY <1>2, <1>3, <1>4

(* A message as it is read.                                                *)
LEMMA ReadFields ==
  ASSUME NEW m, NEW kind, NEW body, NEW err, NEW n, m = [kind |-> kind, body |-> body, error |-> err, nonce |-> n]
  PROVE  readMessage(m) = [kind |-> kind, error |-> err, nonce |-> n,
                           body |-> [f \in DOMAIN body \cap CreateMessage(kind) |-> Transcode(f, body[f])]]
  BY DEF readMessage

(* A request arrives with its fields transcoded.                           *)
LEMMA RequestArrives ==
  ASSUME NEW h \in DOMAIN Messages, NEW vs, NEW n
  PROVE  LET m == readMessage(Numbered(NewRequest(h, vs), n))
         IN  /\ m.kind = RequestKind(h) /\ m.nonce = n
             /\ m.body = Arrived(Messages[h].request, vs)
<1> DEFINE body == Pack(Messages[h].request, vs)
           m == Numbered(NewRequest(h, vs), n)
           e == FALSE
<1>1. m = [kind |-> RequestKind(h), body |-> body, error |-> e, nonce |-> n]
  BY DEF Numbered, NewRequest
<1>2. DOMAIN body = Range(Messages[h].request)
  BY DEF Pack
<1>3. DOMAIN body \cap CreateMessage(RequestKind(h)) = Range(Messages[h].request)
  BY <1>2, CreatedFields
<1> HIDE DEF m, body, e
<1>k. PICK k, fs : k = RequestKind(h) /\ fs = Range(Messages[h].request)
  OBVIOUS
<1>4. readMessage(m) = [kind |-> RequestKind(h), error |-> e, nonce |-> n,
                        body |-> [f \in Range(Messages[h].request) |-> Transcode(f, body[f])]]
  <2>1. m = [kind |-> k, body |-> body, error |-> e, nonce |-> n]
    BY <1>1, <1>k
  <2>2. readMessage(m) = [kind |-> k, error |-> e, nonce |-> n,
            body |-> [f \in DOMAIN body \cap CreateMessage(k) |-> Transcode(f, body[f])]]
    BY <2>1, ReadFields
  <2> QED BY <1>3, <1>k, <2>2
<1> QED BY <1>4 DEF Arrived, m, body, e

(* A response arrives with its fields transcoded.                          *)
LEMMA ResponseArrives ==
  ASSUME NEW h \in DOMAIN Messages, NEW vs, NEW err, NEW n
  PROVE  LET m == readMessage(Numbered(NewResponse(h, vs, err), n))
         IN  /\ m.kind = ResponseKind(h) /\ m.error = (Messages[h].hasError /\ err) /\ m.nonce = n
             /\ m.body = Arrived(Messages[h].response, vs)
<1> DEFINE body == Pack(Messages[h].response, vs)
           m == Numbered(NewResponse(h, vs, err), n)
           e == Messages[h].hasError /\ err
<1>1. m = [kind |-> ResponseKind(h), body |-> body, error |-> e, nonce |-> n]
  BY DEF Numbered, NewResponse
<1>2. DOMAIN body = Range(Messages[h].response)
  BY DEF Pack
<1>3. DOMAIN body \cap CreateMessage(ResponseKind(h)) = Range(Messages[h].response)
  BY <1>2, CreatedFields
<1> HIDE DEF m, body, e
<1>4. readMessage(m) = [kind |-> ResponseKind(h), error |-> e, nonce |-> n,
                        body |-> [f \in Range(Messages[h].response) |-> Transcode(f, body[f])]]
  BY <1>1, <1>3, ReadFields
<1> QED BY <1>4 DEF Arrived, m, body, e

-----------------------------------------------------------------------------
(* What the node's hook is asked.                                          *)

\* The arguments that arrive, and those that the replier passes on.
Asked(h, args) == Unpack(Messages[h].request, Arrived(Messages[h].request, GatewayArguments(h, args)))
Passed(h, args) == IF h = "IsPayable" THEN <<Nil>> \o args ELSE args

(* Fields that no encoding changes.                                        *)
LEMMA PlainField ==
  ASSUME NEW f, NEW v, f \notin {"Account", "Data", "Code"}
  PROVE  Transcode(f, v) = v
  BY DEF Transcode

(* One, two or three plain fields, one at a time.                          *)
LEMMA NothingArrives == Unpack(<<>>, Arrived(<<>>, <<>>)) = <<>>
  BY DEF Unpack

(* One plain field.                                                        *)
LEMMA OneArrives ==
  ASSUME NEW f1, NEW v1, f1 \notin {"Account", "Data", "Code"}
  PROVE  Unpack(<<f1>>, Arrived(<<f1>>, <<v1>>)) = <<v1>>
<1>1. Distinct(<<f1>>)
  BY DEF Distinct
<1>2. Unpack(<<f1>>, Arrived(<<f1>>, <<v1>>))[1] = Transcode(f1, v1)
  BY <1>1, FieldsArrive
<1>3. Unpack(<<f1>>, Arrived(<<f1>>, <<v1>>)) = [i \in 1 .. 1 |-> Arrived(<<f1>>, <<v1>>)[<<f1>>[i]]]
  BY DEF Unpack
<1> QED BY <1>2, <1>3, PlainField

(* Two plain fields.                                                       *)
LEMMA TwoArrive ==
  ASSUME NEW f1, NEW f2, f1 # f2, NEW v1, NEW v2,
         f1 \notin {"Account", "Data", "Code"}, f2 \notin {"Account", "Data", "Code"}
  PROVE  Unpack(<<f1, f2>>, Arrived(<<f1, f2>>, <<v1, v2>>)) = <<v1, v2>>
<1> DEFINE u == Unpack(<<f1, f2>>, Arrived(<<f1, f2>>, <<v1, v2>>))
<1>1. Distinct(<<f1, f2>>)
  BY DEF Distinct
<1>2. u[1] = Transcode(f1, v1) /\ u[2] = Transcode(f2, v2)
  BY <1>1, FieldsArrive
<1>3. u = [i \in 1 .. 2 |-> Arrived(<<f1, f2>>, <<v1, v2>>)[<<f1, f2>>[i]]]
  BY DEF Unpack
<1> QED BY <1>2, <1>3, PlainField

(* Three plain fields.                                                     *)
LEMMA ThreeArrive ==
  ASSUME NEW f1, NEW f2, NEW f3, f1 # f2, f1 # f3, f2 # f3, NEW v1, NEW v2, NEW v3,
         f1 \notin {"Account", "Data", "Code"}, f2 \notin {"Account", "Data", "Code"},
         f3 \notin {"Account", "Data", "Code"}
  PROVE  Unpack(<<f1, f2, f3>>, Arrived(<<f1, f2, f3>>, <<v1, v2, v3>>)) = <<v1, v2, v3>>
<1> DEFINE u == Unpack(<<f1, f2, f3>>, Arrived(<<f1, f2, f3>>, <<v1, v2, v3>>))
<1>1. Distinct(<<f1, f2, f3>>)
  BY DEF Distinct
<1>2. u[1] = Transcode(f1, v1) /\ u[2] = Transcode(f2, v2) /\ u[3] = Transcode(f3, v3)
  BY <1>1, FieldsArrive
<1>3. u = [i \in 1 .. 3 |-> Arrived(<<f1, f2, f3>>, <<v1, v2, v3>>)[<<f1, f2, f3>>[i]]]
  BY DEF Unpack
<1> QED BY <1>2, <1>3, PlainField

(* The calls of each hook.                                                 *)
LEMMA ArgumentsOf ==
  /\ HookArguments("NewAddress") = {<<a, 7, "vmType">> : a \in Addresses}
  /\ HookArguments("GetStorageData") = {<<a, k>> : a \in Addresses, k \in Keys}
  /\ HookArguments("GetBlockhash") = {<<1>>, <<2>>}
  /\ \A h \in Blocks \cup {"GetBuiltinFunctionNames"} : HookArguments(h) = {<<>>}
  /\ HookArguments("GetDCDTToken") = {<<a, "token", 3>> : a \in Addresses}
  /\ HookArguments("GetCode") = {<<AccountOf(a)>> : a \in Existing}
  /\ HookArguments("IsPayable") = {<<"sender", a>> : a \in Addresses}
  /\ HookArguments("SaveCompiledCode") = {<<"hash", "compiled">>}
  /\ HookArguments("GetCompiledCode") = {<<"hash">>}
  /\ \A h \in {"ProcessBuiltinFunction", "GetAllState", "GetUserAccount", "GetShardOfAddress",
               "IsSmartContract"} : HookArguments(h) = {<<a>> : a \in Addresses}
<1>1. HookArguments("NewAddress") = {<<a, 7, "vmType">> : a \in Addresses}
  <2>1. Messages["NewAddress"].request # <<>>
    BY LookupCarries DEF Carries
  <2> QED BY <2>1 DEF HookArguments
<1>2. HookArguments("GetStorageData") = {<<a, k>> : a \in Addresses, k \in Keys}
  <2>1. Messages["GetStorageData"].request # <<>>
    BY LookupCarries DEF Carries
  <2> QED BY <2>1 DEF HookArguments
<1>3. HookArguments("GetBlockhash") = {<<1>>, <<2>>}
  <2>1. Messages["GetBlockhash"].request # <<>>
    BY LookupCarries DEF Carries
  <2> QED BY <2>1 DEF HookArguments
<1>4. ASSUME NEW h \in Blocks \cup {"GetBuiltinFunctionNames"} PROVE HookArguments(h) = {<<>>}
  <2>1. Messages[h].request = <<>>
    BY BlockCarries, StateCarries DEF Carries
  <2>2. h \notin {"NewAddress", "GetStorageData", "GetBlockhash", "GetDCDTToken", "GetCode",
                  "IsPayable", "SaveCompiledCode", "GetCompiledCode"}
    BY Families DEF Blocks
  <2> QED BY <2>1, <2>2 DEF HookArguments
<1>5. HookArguments("GetDCDTToken") = {<<a, "token", 3>> : a \in Addresses}
  <2>1. Messages["GetDCDTToken"].request # <<>>
    BY StateCarries DEF Carries
  <2> QED BY <2>1 DEF HookArguments
<1>6. HookArguments("GetCode") = {<<AccountOf(a)>> : a \in Existing}
  <2>1. Messages["GetCode"].request # <<>>
    BY AccountCarries DEF Carries
  <2> QED BY <2>1 DEF HookArguments
<1>7. HookArguments("IsPayable") = {<<"sender", a>> : a \in Addresses}
  <2>1. Messages["IsPayable"].request # <<>>
    BY AccountCarries DEF Carries
  <2> QED BY <2>1 DEF HookArguments
<1>8. HookArguments("SaveCompiledCode") = {<<"hash", "compiled">>}
  <2>1. Messages["SaveCompiledCode"].request # <<>>
    BY CompiledCodeCarries DEF Carries
  <2> QED BY <2>1 DEF HookArguments
<1>9. HookArguments("GetCompiledCode") = {<<"hash">>}
  <2>1. Messages["GetCompiledCode"].request # <<>>
    BY CompiledCodeCarries DEF Carries
  <2> QED BY <2>1 DEF HookArguments
<1>10. ASSUME NEW h \in {"ProcessBuiltinFunction", "GetAllState", "GetUserAccount",
                         "GetShardOfAddress", "IsSmartContract"}
       PROVE  HookArguments(h) = {<<a>> : a \in Addresses}
  <2>1. Messages[h].request # <<>>
    BY StateCarries, AccountCarries DEF Carries
  <2> QED BY <2>1 DEF HookArguments
<1> QED BY <1>1, <1>2, <1>3, <1>4, <1>5, <1>6, <1>7, <1>8, <1>9, <1>10

(* The arguments of the lookups, of the state and of compiled code arrive  *)
(* as they were passed.                                                    *)
LEMMA ArgumentsArrive ==
  ASSUME NEW h \in DOMAIN Messages, NEW args \in HookArguments(h),
         h \notin {"IsPayable", "GetCode"}
  PROVE  Asked(h, args) = args
<1>g. GatewayArguments(h, args) = args
  BY DEF GatewayArguments
<1>1. CASE h = "NewAddress"
  <2>1. PICK a \in Addresses : args = <<a, 7, "vmType">>
    BY <1>1, ArgumentsOf
  <2>2. Messages[h].request = <<"CreatorAddress", "CreatorNonce", "VMType">>
    BY <1>1, LookupCarries DEF Carries
  <2> QED BY <1>g, <2>1, <2>2, ThreeArrive DEF Asked
<1>2. CASE h = "GetStorageData"
  <2>1. PICK a \in Addresses, k \in Keys : args = <<a, k>>
    BY <1>2, ArgumentsOf
  <2>2. Messages[h].request = <<"Address", "Index">>
    BY <1>2, LookupCarries DEF Carries
  <2> QED BY <1>g, <2>1, <2>2, TwoArrive DEF Asked
<1>3. CASE h = "GetBlockhash"
  <2>1. PICK n : args = <<n>>
    BY <1>3, ArgumentsOf
  <2>2. Messages[h].request = <<"Nonce">>
    BY <1>3, LookupCarries DEF Carries
  <2> QED BY <1>g, <2>1, <2>2, OneArrives DEF Asked
<1>4. CASE h \in Blocks \cup {"GetBuiltinFunctionNames"}
  <2>1. args = <<>>
    BY <1>4, ArgumentsOf
  <2>2. Messages[h].request = <<>>
    BY <1>4, BlockCarries, StateCarries DEF Carries
  <2> QED BY <1>g, <2>1, <2>2, NothingArrives DEF Asked
<1>5. CASE h = "GetDCDTToken"
  <2>1. PICK a \in Addresses : args = <<a, "token", 3>>
    BY <1>5, ArgumentsOf
  <2>2. Messages[h].request = <<"Address", "TokenID", "Nonce">>
    BY <1>5, StateCarries DEF Carries
  <2> QED BY <1>g, <2>1, <2>2, ThreeArrive DEF Asked
<1>7. CASE h \in {"ProcessBuiltinFunction", "GetAllState", "GetUserAccount",
                  "GetShardOfAddress", "IsSmartContract"}
  <2>1. PICK a \in Addresses : args = <<a>>
    BY <1>7, ArgumentsOf
  <2>2. Messages[h].request = <<"CallInput">> \/ Messages[h].request = <<"Address">>
    BY <1>7, StateCarries, AccountCarries DEF Carries
  <2> QED BY <1>g, <2>1, <2>2, OneArrives DEF Asked
<1>9. CASE h = "GetCompiledCode"
  <2>1. args = <<"hash">>
    BY <1>9, ArgumentsOf
  <2>2. Messages[h].request = <<"CodeHash">>
    BY <1>9, CompiledCodeCarries DEF Carries
  <2> QED BY <1>g, <2>1, <2>2, OneArrives DEF Asked
<1>10. CASE h = "SaveCompiledCode"
  <2>1. args = <<"hash", "compiled">>
    BY <1>10, ArgumentsOf
  <2>2. Transcode("CodeHash", "hash") = "hash" /\ Transcode("Code", "compiled") = "compiled"
    BY ValueAssumption DEF Transcode, gobMarshal
  <2> DEFINE fs == <<"CodeHash", "Code">>
             u == Unpack(fs, Arrived(fs, args))
  <2>3. Distinct(fs) /\ DOMAIN fs = 1 .. 2
    BY DEF Distinct
  <2>4. u[1] = Transcode("CodeHash", "hash") /\ u[2] = Transcode("Code", "compiled")
    BY <2>1, <2>3, FieldsArrive
  <2>5. u = [i \in 1 .. 2 |-> Arrived(fs, args)[fs[i]]]
    BY DEF Unpack
  <2>6. u = args
    BY <2>1, <2>2, <2>4, <2>5
  <2>7. Messages[h].request = fs
    BY <1>10, CompiledCodeCarries DEF Carries
  <2> QED BY <1>g, <2>6, <2>7 DEF Asked
<1> QED BY <1>1, <1>2, <1>3, <1>4, <1>5, <1>7, <1>9, <1>10, Families, AllHooks

(* The receiver of a payment arrives; the sender is left out.              *)
LEMMA PayableArrives ==
  ASSUME NEW args \in HookArguments("IsPayable")
  PROVE  Asked("IsPayable", args) = <<args[2]>>
<1>1. PICK a \in Addresses : args = <<"sender", a>>
  BY ArgumentsOf
<1>2. GatewayArguments("IsPayable", args) = <<a>>
  BY <1>1 DEF GatewayArguments
<1>3. Messages["IsPayable"].request = <<"Address">>
  BY AccountCarries DEF Carries
<1> QED BY <1>1, <1>2, <1>3, OneArrives DEF Asked

(* The account whose code is asked for arrives with its code hash.         *)
LEMMA AccountArrives ==
  ASSUME NEW args \in HookArguments("GetCode")
  PROVE  Asked("GetCode", args)[1].CodeHash = args[1].CodeHash
<1>1. PICK a \in Existing : args = <<AccountOf(a)>>
  BY ArgumentsOf
<1> DEFINE r == RequestAccount(AccountOf(a))
           fs == <<"Account">>
<1>2. GatewayArguments("GetCode", args) = <<r>>
  BY <1>1 DEF GatewayArguments
<1>3. Distinct(fs) /\ DOMAIN fs = 1 .. 1
  BY DEF Distinct
<1>4. Unpack(fs, Arrived(fs, <<r>>))[1] = Transcode("Account", r)
  BY <1>3, FieldsArrive
<1>5. AccountOf(a)["CodeHash"] = <<"CodeHash", a>> /\ "CodeHash" \in AccountFields
  BY DEF AccountOf, AccountFields
<1>6. r["CodeHash"] = <<"CodeHash", a>> /\ "CodeHash" \in DOMAIN r
  BY <1>5 DEF RequestAccount, Getter
<1>7. Transcode("Account", r)["CodeHash"] = <<"CodeHash", a>>
  <2>1. CASE marshalizer = "JSON" \/ r = Nil
    BY <1>6, <2>1 DEF Transcode
  <2>2. CASE ~(marshalizer = "JSON" \/ r = Nil)
    <3>1. Transcode("Account", r) = [f \in DOMAIN r |-> gobMarshal(r[f])]
      <4> HIDE DEF r
      <4> QED BY <2>2 DEF Transcode
    <3>2. gobMarshal(<<"CodeHash", a>>) = <<"CodeHash", a>>
      BY ValueAssumption DEF gobMarshal
    <3> QED BY <1>6, <3>1, <3>2
  <2> QED BY <2>1, <2>2
<1>8. Asked("GetCode", args) = Unpack(fs, Arrived(fs, <<r>>))
  BY <1>2, AccountCarries DEF Asked, Carries
<1> QED BY <1>1, <1>4, <1>5, <1>7, <1>8

-----------------------------------------------------------------------------
(* What the gateway makes of the replier's answer.                         *)

(* A response is not taken for a failure.                                  *)
LEMMA NotFailed ==
  ASSUME NEW h \in DOMAIN Messages, NEW vs, NEW err, NEW n
  PROVE  ~Failed(h, readMessage(Numbered(NewResponse(h, vs, err), n)))
  BY ResponseArrives DEF Failed

(* A response with one field.                                              *)
LEMMA SingleField ==
  ASSUME NEW h \in DOMAIN Messages, NEW f, Messages[h].response = <<f>>, NEW v, NEW err, NEW n
  PROVE  LET m == readMessage(Numbered(NewResponse(h, <<v>>, err), n))
         IN  /\ m.body[f] = Transcode(f, v)
             /\ Unpack(Messages[h].response, m.body)[1] = Transcode(f, v)
             /\ m.error = (Messages[h].hasError /\ err)
<1> DEFINE m == readMessage(Numbered(NewResponse(h, <<v>>, err), n))
<1>1. m.body = Arrived(<<f>>, <<v>>) /\ m.error = (Messages[h].hasError /\ err)
  BY ResponseArrives
<1>2. Distinct(<<f>>) /\ 1 \in DOMAIN <<f>>
  BY DEF Distinct
<1>3. Arrived(<<f>>, <<v>>)[f] = Transcode(f, v) /\ Unpack(<<f>>, Arrived(<<f>>, <<v>>))[1] = Transcode(f, v)
  BY <1>2, FieldsArrive
<1> QED BY <1>1, <1>3

(* The host does not see what gob leaves out.                              *)
LEMMA SeenTranscoded ==
  ASSUME NEW v
  PROVE  /\ Seen(gobMarshal(v)) = Seen(v)
         /\ \A f \in {"Data", "Code"} : Seen(Transcode(f, v)) = Seen(v)
<1>1. Seen(gobMarshal(v)) = Seen(v)
  BY DEF Seen, gobMarshal
<1> QED BY <1>1 DEF Transcode

(* Which family a hook belongs to decides who answers.                     *)
LEMMA WhoAnswers ==
  ASSUME NEW w, NEW h, NEW body, NEW m
  PROVE  /\ h \in DOMAIN LookupMessages =>
              Repliers(w, h, body) = lookupReplier(w, h, body) /\ Gateway(h, m) = lookupGateway(h, m)
         /\ h \in Blocks => Repliers(w, h, body) = blockReplier(w, h, body)
         /\ h \in DOMAIN LastMessages => Gateway(h, m) = lastGateway(h, m)
         /\ h \in DOMAIN CurrentMessages => Gateway(h, m) = currentGateway(h, m)
         /\ h \in DOMAIN StateMessages =>
              Repliers(w, h, body) = stateReplier(w, h, body) /\ Gateway(h, m) = stateGateway(h, m)
         /\ h \in DOMAIN AccountMessages =>
              Repliers(w, h, body) = accountReplier(w, h, body) /\ Gateway(h, m) = accountGateway(h, m)
         /\ h \in DOMAIN CompiledCodeMessages =>
              /\ Repliers(w, h, body) = compiledCodeReplier(w, h, body)
              /\ Gateway(h, m) = compiledCodeGateway(h, m)
<1>1. CASE h \in DOMAIN LookupMessages
  BY <1>1, Families DEF Repliers, Gateway, Blocks
<1>2. CASE h \in Blocks
  <2>1. Repliers(w, h, body) = blockReplier(w, h, body)
    BY <1>2, Families DEF Repliers, Blocks
  <2>2. h \in DOMAIN LastMessages => Gateway(h, m) = lastGateway(h, m)
    BY <1>2, Families DEF Gateway, Blocks
  <2>3. h \in DOMAIN CurrentMessages => Gateway(h, m) = currentGateway(h, m)
    BY <1>2, Families DEF Gateway, Blocks
  <2> QED BY <1>2, <2>1, <2>2, <2>3, Families DEF Blocks
<1>3. CASE h \in DOMAIN StateMessages
  BY <1>3, Families DEF Repliers, Gateway, Blocks
<1>4. CASE h \in DOMAIN AccountMessages
  BY <1>4, Families DEF Repliers, Gateway, Blocks
<1>5. CASE h \in DOMAIN CompiledCodeMessages
  BY <1>5, Families DEF Repliers, Gateway, Blocks
<1> QED BY <1>1, <1>2, <1>3, <1>4, <1>5 DEF Blocks

(* Every answer has an error or not.                                       *)
LEMMA Answers ==
  ASSUME NEW v, NEW bad
  PROVE  /\ Answer(v).value = v /\ Answer(v).err = FALSE
         /\ bad => Unless(bad, v).err = TRUE
         /\ ~bad => Unless(bad, v) = Answer(v)
  BY DEF Answer, Unless

(* Answers that the host cannot tell apart.                                *)
LEMMA SameView ==
  ASSUME NEW h, NEW a, NEW b, a.err = b.err,
         \/ a.err
         \/ a.value = b.value
         \/ h \in {"GetStorageData", "GetCode"} /\ Seen(a.value) = Seen(b.value)
  PROVE  View(h, a) = View(h, b)
<1>1. CASE a.err
  BY <1>1 DEF View
<1>2. CASE ~a.err /\ a.value = b.value
  BY <1>2 DEF View
<1>3. CASE ~a.err /\ h \in {"GetStorageData", "GetCode"} /\ Seen(a.value) = Seen(b.value)
  BY <1>3 DEF View
<1> QED BY <1>1, <1>2, <1>3

(* The lookups are exact.                                                  *)
LEMMA LookupsAreExact ==
  ASSUME NEW w, NEW h \in DOMAIN LookupMessages, NEW args \in HookArguments(h), NEW n
  PROVE  LET body == Arrived(Messages[h].request, GatewayArguments(h, args))
             m == readMessage(Numbered(Repliers(w, h, body), n))
         IN  View(h, Gateway(h, m)) = View(h, BlockchainHook(w, h, args))
<1> DEFINE body == Arrived(Messages[h].request, GatewayArguments(h, args))
           r == BlockchainHook(w, h, args)
           m == readMessage(Numbered(NewResponse(h, <<r.value>>, r.err), n))
<1>1. h \in DOMAIN Messages /\ h \notin {"IsPayable", "GetCode", "GetUserAccount"}
  BY Families, AllHooks
<1>2. Unpack(Messages[h].request, body) = args
  BY <1>1, ArgumentsArrive DEF Asked
<1>3. Repliers(w, h, body) = NewResponse(h, <<r.value>>, r.err)
  BY <1>2, WhoAnswers DEF lookupReplier
<1>4. /\ Messages[h].response \in {<<"Result">>, <<"Data">>} /\ Messages[h].hasError = TRUE
      /\ h = "GetStorageData" <=> Messages[h].response = <<"Data">>
  BY Families, LookupCarries DEF Carries
<1>5. PICK f : Messages[h].response = <<f>> /\ f \in {"Result", "Data"}
  BY <1>4
<1>6. r.err \in BOOLEAN
  <2>1. CASE h = "NewAddress"
    BY <2>1, Families, Answers DEF BlockchainHook
  <2>2. CASE h = "GetStorageData"
    BY <2>2, Families, Answers DEF BlockchainHook
  <2>3. CASE h = "GetBlockhash"
    BY <2>3, Families, Answers DEF BlockchainHook
  <2> QED BY <2>1, <2>2, <2>3, Families
<1>7. Gateway(h, m) = [value |-> Transcode(f, r.value), err |-> (Messages[h].hasError /\ r.err)]
  <2>1. Gateway(h, m) = [value |-> Unpack(Messages[h].response, m.body)[1], err |-> m.error]
    BY <1>1, NotFailed, WhoAnswers DEF lookupGateway
  <2> QED BY <1>1, <1>5, <2>1, SingleField
<1>8. View(h, Gateway(h, m)) = View(h, r)
  <2>1. Gateway(h, m).value = Transcode(f, r.value) /\ Gateway(h, m).err = r.err
    BY <1>4, <1>6, <1>7
  <2>2. CASE f = "Data"
    <3>1. h = "GetStorageData" /\ Seen(Transcode(f, r.value)) = Seen(r.value)
      BY <1>4, <1>5, <2>2, SeenTranscoded
    <3> HIDE DEF r, m
    <3> QED BY <2>1, <3>1, SameView
  <2>3. CASE f = "Result"
    <3>1. Transcode(f, r.value) = r.value
      BY <2>3, PlainField
    <3> HIDE DEF r, m
    <3> QED BY <2>1, <3>1, SameView
  <2> QED BY <1>5, <2>2, <2>3
<1> QED BY <1>3, <1>8

-----------------------------------------------------------------------------
(* Conversions and back.                                                   *)

(* A list of a finite set has its elements, each once.                     *)
LEMMA Listed ==
  ASSUME NEW S, IsFiniteSet(S)
  PROVE  Range(SetToSeq(S)) = S /\ Distinct(SetToSeq(S))
<1> DEFINE n == Cardinality(S)
           s == SetToSeq(S)
<1>1. n \in Nat /\ ExistsBijection(1 .. n, S)
  BY FS_CardinalityType
<1>2. \E f \in [1 .. n -> S] : IsInjective(f)
  BY <1>1 DEF ExistsBijection, Bijection, Injection
<1>3. s \in [1 .. n -> S] /\ IsInjective(s)
  BY <1>2 DEF SetToSeq
<1>4. s \in Injection(1 .. n, S)
  BY <1>3 DEF Injection
<1>5. Cardinality(1 .. n) = n
  BY <1>1, FS_Interval
<1>6. s \in Surjection(1 .. n, S)
  BY <1>4, <1>5, FS_Injection
<1>7. \A t \in S : \E i \in 1 .. n : s[i] = t
  BY <1>6 DEF Surjection
<1> HIDE DEF s, n
<1>8. Range(s) = S
  BY <1>3, <1>7 DEF Range
<1>9. Distinct(s)
  BY <1>3 DEF Distinct, IsInjective
<1> QED BY <1>8, <1>9 DEF s

(* The values of a function on a finite set are finitely many.             *)
LEMMA FiniteRange ==
  ASSUME NEW f, f = [x \in DOMAIN f |-> f[x]], IsFiniteSet(DOMAIN f)
  PROVE  IsFiniteSet(Range(f))
<1>1. f \in Surjection(DOMAIN f, Range(f))
  BY DEF Surjection, Range
<1> QED BY <1>1, FS_Surjection

(* A map is rebuilt from its keys and values.                              *)
LEMMA MapsAreRebuilt ==
  ASSUME NEW data, data = [k \in DOMAIN data |-> data[k]], IsFiniteSet(DOMAIN data)
  PROVE  ConvertToMap(NewSerializableMapStringBytes(data)) = data
<1> DEFINE keys == SetToSeq(DOMAIN data)
           column == [i \in DOMAIN keys |-> data[keys[i]]]
<1>1. Range(keys) = DOMAIN data /\ Distinct(keys)
  BY Listed
<1>2. NewSerializableMapStringBytes(data) = [Keys |-> keys, Values |-> column]
  BY DEF NewSerializableMapStringBytes
<1> HIDE DEF keys
<1>3. ConvertToMap([Keys |-> keys, Values |-> column]) =
        [k \in Range(keys) |-> column[CHOOSE i \in DOMAIN keys : keys[i] = k]]
  BY DEF ConvertToMap
<1>4. ASSUME NEW k \in Range(keys)
      PROVE  column[CHOOSE i \in DOMAIN keys : keys[i] = k] = data[k]
  <2>1. \E i \in DOMAIN keys : keys[i] = k
    BY DEF Range
  <2>2. PICK j : j = (CHOOSE i \in DOMAIN keys : keys[i] = k)
    OBVIOUS
  <2>3. j \in DOMAIN keys /\ keys[j] = k
    BY <2>1, <2>2
  <2>4. column[j] = data[k]
    BY <2>3
  <2> QED BY <2>2, <2>4
<1>5. [k \in Range(keys) |-> column[CHOOSE i \in DOMAIN keys : keys[i] = k]] = [k \in DOMAIN data |-> data[k]]
  BY <1>1, <1>4
<1> QED BY <1>2, <1>3, <1>5

(* The account that an output holds under an address.                      *)
IsOutputAccount(x, account) ==
  /\ account = [Address |-> x, StorageUpdates |-> account.StorageUpdates,
                OutputTransfers |-> account.OutputTransfers]
  /\ IsFiniteSet(DOMAIN account.StorageUpdates)
  /\ account.StorageUpdates = [k \in DOMAIN account.StorageUpdates |-> account.StorageUpdates[k]]
  /\ \A k \in DOMAIN account.StorageUpdates : account.StorageUpdates[k].Offset = k

(* An account is rebuilt with its updates under their offsets.             *)
LEMMA AccountsAreRebuilt ==
  ASSUME NEW x, NEW account, IsOutputAccount(x, account)
  PROVE  /\ ConvertToOutputAccount(NewSerializableOutputAccount(account)) = account
         /\ NewSerializableOutputAccount(account).Address = x
<1> DEFINE updates == account.StorageUpdates
           list == SetToSeq(Range(updates))
           a == NewSerializableOutputAccount(account)
<1>1. a = [Address |-> x, StorageUpdates |-> list, Transfers |-> account.OutputTransfers]
  BY DEF NewSerializableOutputAccount, IsOutputAccount
<1>2. Range(list) = Range(updates)
  BY FiniteRange, Listed DEF IsOutputAccount
<1>3. updates = [k \in DOMAIN updates |-> updates[k]] /\ \A k \in DOMAIN updates : updates[k].Offset = k
  BY DEF IsOutputAccount
<1> DEFINE back == [o \in {u.Offset : u \in Range(list)} |-> CHOOSE u \in Range(list) : u.Offset = o]
<1>4. back = updates
  <2> HIDE DEF updates, list
  <2>1. {u.Offset : u \in Range(list)} = DOMAIN updates
    <3>1. \A u \in Range(list) : u.Offset \in DOMAIN updates
      BY <1>2, <1>3 DEF Range
    <3>2. \A k \in DOMAIN updates : updates[k] \in Range(list) /\ updates[k].Offset = k
      BY <1>2, <1>3 DEF Range
    <3> QED BY <3>1, <3>2
  <2>2. ASSUME NEW o \in DOMAIN updates
        PROVE  (CHOOSE u \in Range(list) : u.Offset = o) = updates[o]
    <3>1. updates[o] \in Range(list) /\ updates[o].Offset = o
      BY <1>2, <1>3 DEF Range
    <3>2. \A u \in Range(list) : u.Offset = o => u = updates[o]
      BY <1>2, <1>3 DEF Range
    <3> QED BY <3>1, <3>2
  <2> QED BY <1>3, <2>1, <2>2
<1>5. ConvertToOutputAccount(a) =
        [Address |-> x, StorageUpdates |-> back, OutputTransfers |-> account.OutputTransfers]
  <2> HIDE DEF list, a
  <2> QED BY <1>1 DEF ConvertToOutputAccount
<1>6. account = [Address |-> x, StorageUpdates |-> updates, OutputTransfers |-> account.OutputTransfers]
  BY DEF IsOutputAccount
<1>7. a.Address = x
  BY <1>1
<1> QED BY <1>4, <1>5, <1>6, <1>7

(* An output is rebuilt with its accounts under their addresses.           *)
LEMMA OutputsAreRebuilt ==
  ASSUME NEW o, IsVMOutput(o), o # Nil
  PROVE  ConvertToVMOutput(NewSerializableVMOutput(o)) = o
<1> DEFINE accounts == o.OutputAccounts
           items == {NewSerializableOutputAccount(a) : a \in Range(accounts)}
           s == NewSerializableVMOutput(o)
<1>1. /\ IsFiniteSet(DOMAIN accounts) /\ accounts = [x \in DOMAIN accounts |-> accounts[x]]
      /\ \A x \in DOMAIN accounts : IsOutputAccount(x, accounts[x])
  BY DEF IsVMOutput, IsOutputAccount
<1>2. s = [ReturnCode |-> o.ReturnCode, CorrectedOutputAccounts |-> SetToSeq(items)]
  BY DEF NewSerializableVMOutput
<1>3. IsFiniteSet(items)
  <2> HIDE DEF accounts
  <2> DEFINE g == [a \in Range(accounts) |-> NewSerializableOutputAccount(a)]
  <2>1. IsFiniteSet(Range(accounts))
    BY <1>1, FiniteRange
  <2>2. Range(g) = items
    BY DEF Range
  <2>3. DOMAIN g = Range(accounts) /\ g = [a \in DOMAIN g |-> g[a]]
    OBVIOUS
  <2> HIDE DEF g, items
  <2> QED BY <2>1, <2>2, <2>3, FiniteRange
<1>4. Range(SetToSeq(items)) = items
  BY <1>3, Listed
<1>5. ConvertToVMOutput(s) =
        [ReturnCode |-> o.ReturnCode,
         OutputAccounts |-> [x \in {a.Address : a \in items} |->
                               ConvertToOutputAccount(CHOOSE a \in items : a.Address = x)]]
  <2> HIDE DEF items, s
  <2> QED BY <1>2, <1>4 DEF ConvertToVMOutput
<1>6. \A a \in items : \E x \in DOMAIN accounts : a = NewSerializableOutputAccount(accounts[x]) /\ a.Address = x
  BY <1>1, AccountsAreRebuilt DEF Range
<1>7. \A x \in DOMAIN accounts : NewSerializableOutputAccount(accounts[x]) \in items
  BY DEF Range
<1>8. {a.Address : a \in items} = DOMAIN accounts
  <2> HIDE DEF items, accounts
  <2>1. \A x \in DOMAIN accounts : \E a \in items : a.Address = x
    BY <1>1, <1>7, AccountsAreRebuilt
  <2>2. \A a \in items : a.Address \in DOMAIN accounts
    BY <1>6
  <2> QED BY <2>1, <2>2
<1>9. ASSUME NEW x \in DOMAIN accounts
      PROVE  ConvertToOutputAccount(CHOOSE a \in items : a.Address = x) = accounts[x]
  <2> DEFINE b == NewSerializableOutputAccount(accounts[x])
  <2>1. b \in items /\ b.Address = x
    BY <1>1, <1>7, AccountsAreRebuilt
  <2>2. \A a \in items : a.Address = x => a = b
    BY <1>6
  <2>3. (CHOOSE a \in items : a.Address = x) = b
    <3> HIDE DEF b, items
    <3> QED BY <2>1, <2>2
  <2>4. ConvertToOutputAccount(b) = accounts[x]
    BY <1>1, AccountsAreRebuilt
  <2> QED BY <2>3, <2>4
<1>10. [x \in {a.Address : a \in items} |-> ConvertToOutputAccount(CHOOSE a \in items : a.Address = x)]
         = accounts
  <2> HIDE DEF items, accounts
  <2> QED BY <1>1, <1>8, <1>9
<1>11. o = [ReturnCode |-> o.ReturnCode, OutputAccounts |-> accounts]
  BY DEF IsVMOutput
<1> QED BY <1>5, <1>10, <1>11

(* The output of a built-in function is an output.                         *)
LEMMA BuiltinOutputs ==
  ASSUME NEW a
  PROVE  IsVMOutput(BuiltinOutput(a))
<1> DEFINE o == BuiltinOutput(a)
           updates(x) == [k \in Keys |-> [Offset |-> k, Data |-> <<"built in", x>>]]
           accounts == [x \in {a, "caller"} |->
             [Address |-> x, StorageUpdates |-> updates(x), OutputTransfers |-> <<>>]]
<1>1. o = [ReturnCode |-> 0, OutputAccounts |-> accounts]
  BY DEF BuiltinOutput
<1>2. IsFiniteSet({a, "caller"})
  <2>1. IsFiniteSet({a})
    BY FS_Singleton
  <2>2. {a, "caller"} = {a} \cup {"caller"}
    OBVIOUS
  <2> QED BY <2>1, <2>2, FS_AddElement
<1>3. ASSUME NEW x \in {a, "caller"}
      PROVE  /\ IsFiniteSet(DOMAIN updates(x)) /\ updates(x) = [k \in DOMAIN updates(x) |-> updates(x)[k]]
             /\ \A k \in DOMAIN updates(x) : updates(x)[k].Offset = k
             /\ accounts[x].StorageUpdates = updates(x)
             /\ accounts[x] = [Address |-> x, StorageUpdates |-> accounts[x].StorageUpdates,
                               OutputTransfers |-> accounts[x].OutputTransfers]
  <2>1. IsFiniteSet(Keys)
    BY HookAssumption
  <2> QED BY <2>1
<1>4. DOMAIN accounts = {a, "caller"}
  OBVIOUS
<1>5. o.OutputAccounts = accounts /\ o.ReturnCode = 0
  <2> HIDE DEF o, accounts
  <2> QED BY <1>1
<1>6. accounts = [x \in DOMAIN accounts |->
       [Address |-> x, StorageUpdates |-> accounts[x].StorageUpdates,
        OutputTransfers |-> accounts[x].OutputTransfers]]
  BY <1>4
<1> HIDE DEF o, accounts, updates
<1>7. o = [ReturnCode |-> o.ReturnCode, OutputAccounts |-> o.OutputAccounts]
  BY <1>1, <1>5
<1>8. \A x \in DOMAIN accounts :
        /\ IsFiniteSet(DOMAIN accounts[x].StorageUpdates)
        /\ accounts[x].StorageUpdates = [k \in DOMAIN accounts[x].StorageUpdates |-> accounts[x].StorageUpdates[k]]
        /\ \A k \in DOMAIN accounts[x].StorageUpdates : accounts[x].StorageUpdates[k].Offset = k
  BY <1>3, <1>4
<1>9. IsVMOutput(o)
  BY <1>2, <1>4, <1>5, <1>6, <1>7, <1>8 DEF IsVMOutput
<1> QED BY <1>9 DEF o

-----------------------------------------------------------------------------
(* The answers of the hooks, family by family.                             *)

\* What the execution gets for a call that the node answered in world w.
Answered(w, h, args, n) ==
  Gateway(h, readMessage(Numbered(
    Repliers(w, h, Arrived(Messages[h].request, GatewayArguments(h, args))), n)))

(* What the node answers about blocks is exact.                            *)
LEMMA BlocksAreExact ==
  ASSUME NEW w, NEW h \in Blocks, NEW args \in HookArguments(h), NEW n
  PROVE  View(h, Answered(w, h, args, n)) = View(h, BlockchainHook(w, h, args))
<1> DEFINE body == Arrived(Messages[h].request, GatewayArguments(h, args))
           e == FALSE
           v == <<h>>
           m == readMessage(Numbered(NewResponse(h, <<v>>, e), n))
<1>1. h \in DOMAIN Messages /\ args = <<>> /\ Messages[h].response = <<"Result">>
  BY AllHooks, ArgumentsOf, BlockCarries DEF Carries
<1>2. BlockchainHook(w, h, <<>>) = Answer(v)
  BY Families DEF BlockchainHook, Blocks
<1>3. Repliers(w, h, body) = NewResponse(h, <<v>>, e)
  <2> HIDE DEF v, body
  <2>1. BlockchainHook(w, h, <<>>).value = v
    BY <1>2, Answers
  <2>2. Repliers(w, h, body) = blockReplier(w, h, body)
    BY WhoAnswers
  <2> QED BY <2>1, <2>2 DEF blockReplier
<1>4. m.body["Result"] = v
  <2> HIDE DEF v, e
  <2> QED BY <1>1, SingleField, PlainField
<1>5. ~Failed(h, m)
  BY <1>1, NotFailed
<1> HIDE DEF m, v
<1>6. Gateway(h, m) = Answer(v)
  <2>1. CASE h \in DOMAIN LastMessages
    <3>1. Gateway(h, m) = lastGateway(h, m)
      BY <2>1, WhoAnswers
    <3> QED BY <1>4, <1>5, <3>1 DEF lastGateway
  <2>2. CASE h \in DOMAIN CurrentMessages
    <3>1. Gateway(h, m) = currentGateway(h, m)
      BY <2>2, WhoAnswers
    <3> QED BY <1>4, <1>5, <3>1 DEF currentGateway
  <2> QED BY <2>1, <2>2 DEF Blocks
<1>7. Answered(w, h, args, n) = Gateway(h, m)
  BY <1>3 DEF Answered, m
<1> QED BY <1>1, <1>2, <1>6, <1>7

(* What the node answers about the state is exact.                         *)
LEMMA StateIsExact ==
  ASSUME NEW w, NEW h \in DOMAIN StateMessages, NEW args \in HookArguments(h), NEW n
  PROVE  View(h, Answered(w, h, args, n)) = View(h, BlockchainHook(w, h, args))
<1> DEFINE body == Arrived(Messages[h].request, GatewayArguments(h, args))
           r == BlockchainHook(w, h, args)
           packed == CASE h = "ProcessBuiltinFunction" -> NewSerializableVMOutput(r.value)
                       [] h = "GetAllState" -> NewSerializableMapStringBytes(IF r.err THEN <<>> ELSE r.value)
                       [] OTHER -> r.value
           m == readMessage(Numbered(NewResponse(h, <<packed>>, r.err), n))
<1>1. h \in DOMAIN Messages /\ h \notin {"IsPayable", "GetCode"}
  BY Families, AllHooks
<1>2. Unpack(Messages[h].request, body) = args
  BY <1>1, ArgumentsArrive DEF Asked
<1>3. Repliers(w, h, body) = NewResponse(h, <<packed>>, r.err)
  BY <1>2, WhoAnswers DEF stateReplier
<1>4. Answered(w, h, args, n) = stateGateway(h, m)
  BY <1>3, WhoAnswers DEF Answered
<1>5. ~Failed(h, m)
  BY <1>1, NotFailed
<1>6. CASE h = "GetBuiltinFunctionNames"
  <2>1. r = Answer({"builtIn"}) /\ packed = r.value
    BY <1>6 DEF BlockchainHook
  <2>2. m.body["FunctionNames"] = packed
    <3>1. Messages[h].response = <<"FunctionNames">>
      BY <1>6, StateCarries DEF Carries
    <3> HIDE DEF packed, r
    <3> QED BY <1>1, <3>1, SingleField, PlainField
  <2>3. stateGateway(h, m) = Answer(m.body["FunctionNames"])
    <3> HIDE DEF m
    <3> QED BY <1>5, <1>6 DEF stateGateway
  <2>4. View(h, stateGateway(h, m)) = View(h, r)
    <3> HIDE DEF r, packed, m
    <3> QED BY <2>1, <2>2, <2>3, Answers
  <2> QED BY <1>4, <2>4
<1>7. CASE h = "GetDCDTToken"
  <2>1. r.err \in BOOLEAN
    BY <1>7, Answers DEF BlockchainHook
  <2>2. packed = r.value
    <3> HIDE DEF r
    <3> QED BY <1>7
  <2>3. m.body["DCDTData"] = packed /\ m.error = r.err
    <3>1. Messages[h].response = <<"DCDTData">> /\ Messages[h].hasError = TRUE
      BY <1>7, StateCarries DEF Carries
    <3> HIDE DEF packed, r
    <3> QED BY <1>1, <2>1, <3>1, SingleField, PlainField
  <2>4. stateGateway(h, m) = [value |-> m.body["DCDTData"], err |-> m.error]
    <3> HIDE DEF m
    <3> QED BY <1>5, <1>7 DEF stateGateway
  <2>5. View(h, stateGateway(h, m)) = View(h, r)
    <3> HIDE DEF r, packed, m
    <3> QED BY <2>2, <2>3, <2>4, SameView
  <2> QED BY <1>4, <2>5
<1>8. CASE h = "ProcessBuiltinFunction"
  <2>1. PICK a \in Addresses : args = <<a>>
    BY <1>8, ArgumentsOf
  <2>2. r = Unless(a = Failing, BuiltinOutput(a))
    BY <1>8, <2>1 DEF BlockchainHook
  <2>3. r.err \in BOOLEAN /\ (~r.err => r.value = BuiltinOutput(a))
    BY <2>2, Answers
  <2>4. packed = NewSerializableVMOutput(r.value)
    <3> HIDE DEF r
    <3> QED BY <1>8
  <2>5. m.body["SerializableVMOutput"] = packed /\ m.error = r.err
    <3>1. Messages[h].response = <<"SerializableVMOutput">> /\ Messages[h].hasError = TRUE
      BY <1>8, StateCarries DEF Carries
    <3> HIDE DEF packed, r
    <3> QED BY <1>1, <2>3, <3>1, SingleField, PlainField
  <2>6. stateGateway(h, m) = [value |-> ConvertToVMOutput(m.body["SerializableVMOutput"]), err |-> m.error]
    <3> HIDE DEF m
    <3> QED BY <1>5, <1>8 DEF stateGateway
  <2>7. ~r.err => ConvertToVMOutput(packed) = r.value
    <3>1. BuiltinOutput(a) # Nil
      BY ValueAssumption
    <3> HIDE DEF r, packed
    <3> QED BY <2>3, <2>4, <3>1, BuiltinOutputs, OutputsAreRebuilt
  <2>8. View(h, stateGateway(h, m)) = View(h, r)
    <3> HIDE DEF r, packed, m
    <3> QED BY <2>5, <2>6, <2>7, SameView
  <2> QED BY <1>4, <2>8
<1>9. CASE h = "GetAllState"
  <2>1. PICK a \in Addresses : args = <<a>>
    BY <1>9, ArgumentsOf
  <2>2. r = Unless(a = Failing, [k \in Keys |-> Stored(a, k)])
    BY <1>9, <2>1 DEF BlockchainHook
  <2>3. r.err \in BOOLEAN /\ (~r.err => r.value = [k \in Keys |-> Stored(a, k)])
    BY <2>2, Answers
  <2>4. packed = NewSerializableMapStringBytes(IF r.err THEN <<>> ELSE r.value)
    <3> HIDE DEF r
    <3> QED BY <1>9
  <2>5. m.body["SerializableAllState"] = packed /\ m.error = r.err
    <3>1. Messages[h].response = <<"SerializableAllState">> /\ Messages[h].hasError = TRUE
      BY <1>9, StateCarries DEF Carries
    <3> HIDE DEF packed, r
    <3> QED BY <1>1, <2>3, <3>1, SingleField, PlainField
  <2>6. stateGateway(h, m) = [value |-> ConvertToMap(m.body["SerializableAllState"]), err |-> m.error]
    <3> HIDE DEF m
    <3> QED BY <1>5, <1>9 DEF stateGateway
  <2>7. ~r.err => ConvertToMap(packed) = r.value
    <3>1. IsFiniteSet(Keys)
      BY HookAssumption
    <3> DEFINE state == [k \in Keys |-> Stored(a, k)]
    <3>2. DOMAIN state = Keys /\ state = [k \in DOMAIN state |-> state[k]]
      OBVIOUS
    <3> HIDE DEF r, packed, state
    <3>3. ConvertToMap(NewSerializableMapStringBytes(state)) = state
      BY <3>1, <3>2, MapsAreRebuilt
    <3> QED BY <2>3, <2>4, <3>3 DEF state
  <2>8. View(h, stateGateway(h, m)) = View(h, r)
    <3> HIDE DEF r, packed, m
    <3> QED BY <2>5, <2>6, <2>7, SameView
  <2> QED BY <1>4, <2>8
<1> QED BY <1>6, <1>7, <1>8, <1>9, Families

(* What the node answers about compiled code is exact.                     *)
LEMMA CompiledCodeIsExact ==
  ASSUME NEW w, w.compiled["hash"] \in {Nil, "compiled"},
         NEW h \in DOMAIN CompiledCodeMessages, NEW args \in HookArguments(h), NEW n
  PROVE  View(h, Answered(w, h, args, n)) = View(h, BlockchainHook(w, h, args))
<1> DEFINE body == Arrived(Messages[h].request, GatewayArguments(h, args))
           r == BlockchainHook(w, h, args)
           vs == IF h = "GetCompiledCode" THEN r.value ELSE <<>>
           e == FALSE
           m == readMessage(Numbered(NewResponse(h, vs, e), n))
<1>1. h \in DOMAIN Messages /\ h \notin {"IsPayable", "GetCode"}
  BY Families, AllHooks
<1>2. Unpack(Messages[h].request, body) = args
  BY <1>1, ArgumentsArrive DEF Asked
<1>3. Repliers(w, h, body) = NewResponse(h, vs, e)
  <2>1. Repliers(w, h, body) = compiledCodeReplier(w, h, body)
    BY WhoAnswers
  <2>2. compiledCodeReplier(w, h, body) = NewResponse(h, vs, e)
    BY <1>2, Zenon DEF compiledCodeReplier
  <2> QED BY <2>1, <2>2
<1>4. Answered(w, h, args, n) = compiledCodeGateway(h, m)
  BY <1>3, WhoAnswers DEF Answered
<1>5. ~Failed(h, m)
  BY <1>1, NotFailed
<1>6. CASE h = "SaveCompiledCode"
  <2>1. r = Answer(Nil)
    BY <1>6 DEF BlockchainHook
  <2>2. compiledCodeGateway(h, m) = Answer(Nil)
    BY <1>6 DEF compiledCodeGateway
  <2> QED BY <1>4, <2>1, <2>2
<1>7. CASE h = "GetCompiledCode"
  <2> DEFINE c == w.compiled["hash"]
             fs == <<"Found", "Code">>
             found == c # Nil
  <2>1. args = <<"hash">>
    BY <1>7, ArgumentsOf
  <2>2. r = Answer(<<found, c>>)
    BY <1>7, <2>1 DEF BlockchainHook
  <2>3. vs = <<found, c>>
    BY <1>7, <2>2, Answers
  <2>4. Messages[h].response = fs
    BY <1>7, CompiledCodeCarries DEF Carries
  <2>5. Distinct(fs) /\ 1 \in DOMAIN fs /\ 2 \in DOMAIN fs
    BY DEF Distinct
  <2> HIDE DEF found, r
  <2>6. m.body = Arrived(fs, <<found, c>>)
    <3> HIDE DEF vs, e
    <3> QED BY <1>1, <2>3, <2>4, ResponseArrives
  <2>7. m.body["Found"] = Transcode("Found", found) /\ m.body["Code"] = Transcode("Code", c)
    <3> HIDE DEF m
    <3> QED BY <2>5, <2>6, FieldsArrive
  <2>8. Transcode("Found", found) = found /\ Transcode("Code", c) = c
    <3>1. Transcode("Found", found) = found
      BY PlainField
    <3>2. Transcode("Code", c) = c
      BY ValueAssumption DEF Transcode, gobMarshal
    <3> QED BY <3>1, <3>2
  <2>9. compiledCodeGateway(h, m) = Answer(<<found, c>>)
    <3> HIDE DEF m
    <3> QED BY <1>5, <1>7, <2>7, <2>8 DEF compiledCodeGateway
  <2>10. View(h, compiledCodeGateway(h, m)) = View(h, r)
    <3> HIDE DEF m
    <3> QED BY <2>2, <2>9
  <2> HIDE DEF m
  <2> QED BY <1>4, <2>10 DEF r
<1> QED BY <1>6, <1>7, Families

(* The node's hook is asked what the execution asked.                      *)
LEMMA HooksAreAsked ==
  ASSUME NEW w, NEW h \in DOMAIN Messages, NEW args \in HookArguments(h)
  PROVE  /\ BlockchainHook(w, h, Passed(h, Asked(h, args))) = BlockchainHook(w, h, args)
         /\ AfterHook(w, h, Passed(h, Asked(h, args))) = AfterHook(w, h, args)
<1>1. CASE h \notin {"IsPayable", "GetCode"}
  BY <1>1, ArgumentsArrive DEF Passed
<1>2. CASE h = "IsPayable"
  <2>1. PICK a \in Addresses : args = <<"sender", a>>
    BY <1>2, ArgumentsOf
  <2>2. Asked(h, args) = <<a>>
    BY <1>2, <2>1, PayableArrives
  <2>3. Passed(h, Asked(h, args))[2] = a
    <3>1. <<Nil>> \in Seq({Nil, a}) /\ <<a>> \in Seq({Nil, a}) /\ Len(<<Nil>>) = 1
      OBVIOUS
    <3>2. (<<Nil>> \o <<a>>)[2] = <<a>>[2 - 1]
      BY <3>1, ConcatProperties
    <3> QED BY <1>2, <2>2, <3>2 DEF Passed
  <2>4. \A p : BlockchainHook(w, "IsPayable", p) = Unless(p[2] = Failing, p[2] \in Existing)
    BY DEF BlockchainHook
  <2>6. \A p : AfterHook(w, "IsPayable", p) = w
    BY DEF AfterHook
  <2> QED BY <1>2, <2>1, <2>3, <2>4, <2>6
<1>3. CASE h = "GetCode"
  <2>1. Passed(h, Asked(h, args))[1].CodeHash = args[1].CodeHash
    BY <1>3, AccountArrives DEF Passed
  <2>2. \A p : BlockchainHook(w, "GetCode", p) = Answer(<<"code", p[1].CodeHash>>)
    BY DEF BlockchainHook
  <2>3. \A p : AfterHook(w, "GetCode", p) = w
    BY DEF AfterHook
  <2> QED BY <1>3, <2>1, <2>2, <2>3
<1> QED BY <1>1, <1>2, <1>3

(* The host sees the same account whichever encoding it came in.           *)
LEMMA AccountsLookAlike ==
  ASSUME NEW a \in Existing, NEW v, v = Transcode("Account", ResponseAccount(AccountOf(a))),
         NEW g, NEW r, g.value = v, r.value = AccountOf(a), g.err = r.err, AccountOf(a) # Nil
  PROVE  View("GetUserAccount", g) = View("GetUserAccount", r)
<1> DEFINE acc == AccountOf(a)
           coded == [f \in AccountFields |-> gobMarshal(acc[f])]
<1>1. ResponseAccount(acc) = acc /\ DOMAIN acc = AccountFields
  BY DEF ResponseAccount, AccountOf
<1> HIDE DEF acc
<1>2. CASE v = acc
  BY <1>2, SameView DEF acc
<1>3. CASE v # acc
  <2>1. v = coded
    BY <1>1, <1>3 DEF Transcode, acc
  <2>2. coded # Nil
    BY ValueAssumption DEF acc
  <2>3. ASSUME NEW f \in AccountFields
        PROVE  Seen(Getter(v, f)) = Seen(Getter(acc, f))
    <3>1. v[f] = gobMarshal(acc[f])
      BY <2>1
    <3> QED BY <3>1 DEF Getter, Seen, gobMarshal
  <2>4. [f \in AccountFields |-> Seen(Getter(v, f))] = [f \in AccountFields |-> Seen(Getter(acc, f))]
    BY <2>3
  <2>5. CASE r.err
    BY <2>5, SameView
  <2>6. CASE ~r.err
    <3>1. View("GetUserAccount", g) = [f \in AccountFields |-> Seen(Getter(v, f))]
      BY <2>1, <2>2, <2>6 DEF View
    <3>2. View("GetUserAccount", r) = [f \in AccountFields |-> Seen(Getter(acc, f))]
      BY <2>6 DEF View, acc
    <3> QED BY <2>4, <3>1, <3>2
  <2> QED BY <2>5, <2>6
<1> QED BY <1>2, <1>3

(* What the node answers about accounts is exact.                          *)
LEMMA AccountsAreExact ==
  ASSUME NEW w, NEW h \in DOMAIN AccountMessages, NEW args \in HookArguments(h), NEW n
  PROVE  View(h, Answered(w, h, args, n)) = View(h, BlockchainHook(w, h, args))
<1> DEFINE body == Arrived(Messages[h].request, GatewayArguments(h, args))
           r == BlockchainHook(w, h, args)
           copied == IF h = "GetUserAccount" /\ ~r.err /\ r.value # Nil
                     THEN ResponseAccount(r.value) ELSE r.value
           m == readMessage(Numbered(NewResponse(h, <<copied>>, r.err), n))
<1>1. h \in DOMAIN Messages
  BY AllHooks
<1>2. Unpack(Messages[h].request, body) = Asked(h, args)
  BY DEF Asked
<1>3. Repliers(w, h, body) = NewResponse(h, <<copied>>, r.err)
  <2> HIDE DEF body
  <2>1. Repliers(w, h, body) = accountReplier(w, h, body)
    BY WhoAnswers
  <2>2. BlockchainHook(w, h, IF h = "IsPayable" THEN <<Nil>> \o Unpack(Messages[h].request, body)
                             ELSE Unpack(Messages[h].request, body)) = r
    BY <1>1, <1>2, HooksAreAsked DEF Passed
  <2> HIDE DEF r
  <2> QED BY <2>1, <2>2, Zenon DEF accountReplier
<1>4. PICK f : Messages[h].response = <<f>> /\ (f = "Account" <=> h = "GetUserAccount")
               /\ (f \in {"Data", "Code"} <=> h = "GetCode")
  BY Families, AccountCarries DEF Carries
<1>5. r.err \in BOOLEAN /\ (~Messages[h].hasError => r.err = FALSE)
  <2>1. CASE h = "GetUserAccount"
    <3>1. Messages[h].hasError = TRUE
      BY <2>1, AccountCarries DEF Carries
    <3>2. r = Unless(args[1] = Failing, IF args[1] \in Existing THEN AccountOf(args[1]) ELSE Nil)
      BY <2>1 DEF BlockchainHook
    <3> HIDE DEF r
    <3> QED BY <3>1, <3>2, Answers
  <2>2. CASE h = "GetCode"
    BY <2>2, Answers DEF BlockchainHook
  <2>3. CASE h = "GetShardOfAddress"
    BY <2>3, Answers DEF BlockchainHook
  <2>4. CASE h = "IsSmartContract"
    BY <2>4, Answers DEF BlockchainHook
  <2>5. CASE h = "IsPayable"
    <3>1. Messages[h].hasError = TRUE
      BY <2>5, AccountCarries DEF Carries
    <3>2. r = Unless(args[2] = Failing, args[2] \in Existing)
      BY <2>5 DEF BlockchainHook
    <3>3. r.err \in BOOLEAN
      BY <3>2 DEF Answer, Unless
    <3> QED BY <3>1, <3>3
  <2> QED BY <2>1, <2>2, <2>3, <2>4, <2>5, Families
<1>6. Answered(w, h, args, n) = accountGateway(h, m)
  <2> HIDE DEF copied, r
  <2> QED BY <1>3, WhoAnswers DEF Answered
<1>7. Messages[h].hasError \in BOOLEAN
  <2>1. CASE h \in {"GetUserAccount", "IsPayable"}
    <3>1. Messages[h].hasError = TRUE
      BY <2>1, AccountCarries DEF Carries
    <3> QED BY <3>1
  <2>2. CASE h \in {"GetCode", "GetShardOfAddress", "IsSmartContract"}
    <3>1. Messages[h].hasError = FALSE
      BY <2>2, AccountCarries DEF Carries
    <3> QED BY <3>1
  <2> QED BY <2>1, <2>2, Families
<1>8. accountGateway(h, m) = [value |-> Transcode(f, copied), err |-> r.err]
  <2>1. ~Failed(h, m)
    BY <1>1, NotFailed
  <2> HIDE DEF copied, r
  <2>2. Unpack(Messages[h].response, m.body)[1] = Transcode(f, copied) /\ m.error = (Messages[h].hasError /\ r.err)
    BY <1>1, <1>4, SingleField
  <2>3. (Messages[h].hasError /\ m.error) = r.err
    BY <1>5, <1>7, <2>2
  <2> HIDE DEF m
  <2> QED BY <2>1, <2>2, <2>3 DEF accountGateway
<1> DEFINE g == accountGateway(h, m)
<1>9. g.value = Transcode(f, copied) /\ g.err = r.err
  <2> HIDE DEF copied, r, g
  <2>1. g = [value |-> Transcode(f, copied), err |-> r.err]
    BY <1>8 DEF g
  <2> QED BY <2>1
<1> HIDE DEF g
<1>10. View(h, g) = View(h, r)
  <2>1. CASE h = "GetUserAccount"
    <3>1. PICK a \in Addresses : args = <<a>>
      BY <2>1, ArgumentsOf
    <3>2. r = Unless(a = Failing, IF a \in Existing THEN AccountOf(a) ELSE Nil)
      BY <2>1, <3>1 DEF BlockchainHook
    <3>3. ~r.err => r.value = Nil \/ (a \in Existing /\ r.value = AccountOf(a))
      BY <3>2, Answers
    <3> HIDE DEF r
    <3>4. CASE r.err
      BY <1>9, <3>4, SameView
    <3>5. CASE ~r.err /\ r.value = Nil
      <4>1. Transcode(f, copied) = Nil
        BY <3>5 DEF Transcode
      <4> QED BY <1>9, <3>5, <4>1, SameView
    <3>6. CASE ~r.err /\ r.value # Nil
      <4>1. a \in Existing /\ r.value = AccountOf(a) /\ copied = ResponseAccount(AccountOf(a)) /\ f = "Account"
        BY <1>4, <2>1, <3>3, <3>6
      <4> HIDE DEF copied
      <4> QED BY <1>9, <2>1, <3>6, <4>1, AccountsLookAlike
    <3> QED BY <3>4, <3>5, <3>6
  <2>2. CASE h = "GetCode"
    <3>1. copied = r.value
      <4> HIDE DEF r
      <4> QED BY <2>2
    <3>2. Seen(g.value) = Seen(r.value)
      BY <1>4, <1>9, <2>2, <3>1, SeenTranscoded
    <3> HIDE DEF r
    <3> QED BY <1>9, <2>2, <3>2, SameView
  <2>3. CASE h \notin {"GetUserAccount", "GetCode"}
    <3>1. copied = r.value
      <4> HIDE DEF r
      <4> QED BY <2>3
    <3>2. f \notin {"Account", "Data", "Code"}
      BY <1>4, <2>3
    <3> HIDE DEF r, copied
    <3> QED BY <1>9, <3>1, <3>2, PlainField, SameView
  <2> QED BY <2>1, <2>2, <2>3
<1> QED BY <1>6, <1>10 DEF g

(* A hook that the node answers gives the execution what the node's hook   *)
(* itself returns.                                                         *)
LEMMA AnswersAreExact ==
  ASSUME NEW w, w.compiled["hash"] \in {Nil, "compiled"},
         NEW h \in DOMAIN Messages, NEW args \in HookArguments(h), NEW n
  PROVE  View(h, Answered(w, h, args, n)) = View(h, BlockchainHook(w, h, args))
<1>1. CASE h \in DOMAIN LookupMessages
  BY <1>1, LookupsAreExact DEF Answered
<1>2. CASE h \in Blocks
  BY <1>2, BlocksAreExact
<1>3. CASE h \in DOMAIN StateMessages
  BY <1>3, StateIsExact
<1>4. CASE h \in DOMAIN AccountMessages
  BY <1>4, AccountsAreExact
<1>5. CASE h \in DOMAIN CompiledCodeMessages
  BY <1>5, CompiledCodeIsExact
<1> QED BY <1>1, <1>2, <1>3, <1>4, <1>5, AllHooks

-----------------------------------------------------------------------------
(* The inductive invariant.  At most one message is on its way; which one  *)
(* it is tells where both processes stand and how their counts relate.     *)

Effects == UNION {{<<h, args>> : args \in HookArguments(h)} : h \in DOMAIN Messages}
Worlds == [compiled : [{"hash"} -> {Nil, "compiled"}], effects : Seq(Effects)]
Effect(h, args) == IF AfterHook(world, h, args) = world THEN <<>> ELSE <<<<h, args>>>>

\* The request of an operation, a hook's request and response, a contract's response.
StartMessage == Numbered([kind |-> ContractCallRequest, body |-> <<>>, error |-> FALSE], 1)
RequestMessage(h, args, n) == Numbered(NewRequest(h, GatewayArguments(h, args)), n)
ReplyMessage(h, args, n) ==
  Numbered(Repliers(world, h, Arrived(Messages[h].request, GatewayArguments(h, args))), n)
EndMessage(n) ==
  Numbered([kind |-> ContractResponse, error |-> run.produced = Nil,
            body |-> Pack(<<"SerializableVMOutput">>, <<NewSerializableVMOutput(run.produced)>>)], n)

NodeTyped == node \in [pc : {"idle", "looping", "closing"}, nonce : Nat]
VMTyped ==
  vm \in [pc : {"waiting", "running", "calling", "ended", "dead"}, nonce : Nat,
          hook : DOMAIN Messages \cup {"none"}, args : {vm.args}]
RunTyped ==
  run \in [last : {run.last}, standIn : {run.standIn}, unsent : Nat, unread : Nat,
           requested : Seq(Effects), produced : {run.produced},
           accepted : {run.accepted}, returned : {run.returned}]
Types == NodeTyped /\ VMTyped /\ RunTyped /\ world \in Worlds /\ calls \in 0 .. MaxCalls

Silent == toNode = <<>> /\ toVM = <<>>

Processes ==
  /\ vm.pc = "dead" => node.pc = "idle"
  /\ node.pc = "idle" => vm.pc \in {"waiting", "ended", "dead"}
  /\ node.pc = "idle" /\ vm.pc # "dead" => Silent
  /\ vm.pc = "running" => Silent /\ vm.nonce <= 2 * calls + 1
  /\ vm.pc = "calling" => vm.hook \in DOMAIN Messages /\ vm.args \in HookArguments(vm.hook)
                          /\ vm.nonce <= 2 * calls
  /\ vm.pc \in {"waiting", "ended", "dead"} => vm.nonce = 0
  /\ node.pc = "looping" => node.nonce <= 2 * calls + 1
  /\ node.pc # "looping" => node.nonce = 0

Lost == run.standIn => run.unsent > 0 \/ run.unread > 0

Accepted ==
  run.accepted => /\ node.pc = "idle" /\ run.unsent = run.unread
                  /\ run.requested = world.effects /\ run.returned = run.produced

\* Nothing is on its way.
NoMessage ==
  /\ Silent
  /\ node.pc = "looping" =>
       /\ run.requested = world.effects
       /\ vm.pc = "running" => vm.nonce + run.unread = node.nonce + run.unsent

\* A hook's request is on its way to the node.
Asking(h, args, n) ==
  /\ toNode = <<RequestMessage(h, args, n)>> /\ toVM = <<>>
  /\ vm.pc \in {"calling", "ended", "dead"}
  /\ vm.pc = "calling" => vm.hook = h /\ vm.args = args /\ vm.nonce = n
  /\ node.pc = "looping" =>
       /\ n + run.unread = node.nonce + run.unsent + 1
       /\ node.nonce <= 2 * calls - 1
       /\ run.requested = world.effects \o Effect(h, args)

\* The response of the contract is on its way to the node.
Ending(n) ==
  /\ toNode = <<EndMessage(n)>> /\ toVM = <<>>
  /\ vm.pc \in {"waiting", "ended", "dead"} /\ run.produced \in Outputs
  /\ node.pc = "looping" => /\ n + run.unread = node.nonce + run.unsent + 1
                            /\ run.requested = world.effects

\* The request of an operation is on its way to the VM.
Starting ==
  /\ toVM = <<StartMessage>> /\ toNode = <<>>
  /\ vm.pc \in {"waiting", "ended", "dead"}
  /\ node.pc = "looping" => /\ node.nonce = 1 /\ run.unsent = 0 /\ run.unread = 0
                            /\ run.requested = world.effects

\* A hook's response is on its way to the VM.
Replying(h, args, n) ==
  /\ toVM = <<ReplyMessage(h, args, n)>> /\ toNode = <<>>
  /\ vm.pc \in {"calling", "ended", "dead"}
  /\ vm.pc = "calling" => vm.hook = h /\ vm.args = args /\ n = vm.nonce + 1
  /\ node.pc = "looping" => /\ n = node.nonce /\ run.unsent = run.unread
                            /\ run.requested = world.effects

Dialogue ==
  \/ NoMessage
  \/ \E h \in DOMAIN Messages : \E args \in HookArguments(h) : \E n \in Nat : Asking(h, args, n)
  \/ \E n \in Nat : Ending(n)
  \/ Starting
  \/ \E h \in DOMAIN Messages : \E args \in HookArguments(h) : \E n \in Nat : Replying(h, args, n)

HookInv == Types /\ Processes /\ Lost /\ Accepted /\ Dialogue /\ HookAnswersAreExact

-----------------------------------------------------------------------------
(* The messages of the invariant, as they are read.                        *)

(* A pipe with one message.                                                *)
LEMMA OneMessage ==
  ASSUME NEW m
  PROVE  /\ <<m>> # <<>> /\ Head(<<m>>) = m /\ Tail(<<m>>) = <<>> /\ Append(<<>>, m) = <<m>>
         /\ Len(<<m>>) = 1 /\ Len(<<>>) = 0 /\ Range(<<m>>) = {m} /\ Range(<<>>) = {}
  BY DEF Range

(* The node reads a hook's request.                                        *)
LEMMA ReadRequest ==
  ASSUME NEW h \in DOMAIN Messages, NEW args, NEW n
  PROVE  LET m == readMessage(RequestMessage(h, args, n))
         IN  /\ m.kind = RequestKind(h) /\ m.nonce = n /\ IsHookCall(m.kind) /\ m.kind # ContractResponse
             /\ HookNames[(m.kind - BlockchainNewAddressRequest) \div 2 + 1] = h
             /\ m.body = Arrived(Messages[h].request, GatewayArguments(h, args))
<1> DEFINE m == readMessage(RequestMessage(h, args, n))
<1>1. m.kind = RequestKind(h) /\ m.nonce = n /\ m.body = Arrived(Messages[h].request, GatewayArguments(h, args))
  <2>1. PICK vs : vs = GatewayArguments(h, args)
    OBVIOUS
  <2>2. m = readMessage(Numbered(NewRequest(h, vs), n))
    BY <2>1 DEF RequestMessage
  <2>3. LET q == readMessage(Numbered(NewRequest(h, vs), n))
        IN  q.kind = RequestKind(h) /\ q.nonce = n /\ q.body = Arrived(Messages[h].request, vs)
    BY RequestArrives
  <2> HIDE DEF m
  <2> QED BY <2>1, <2>2, <2>3
<1>2. RequestKind(h) \in 8 .. 56 /\ IsHookCall(RequestKind(h)) /\ NameOf(RequestKind(h)) = h
  BY KindsOf
<1>3. RequestKind(h) # ContractResponse
  BY <1>2 DEF ContractResponse
<1>4. /\ m.kind = RequestKind(h) /\ m.nonce = n /\ IsHookCall(m.kind) /\ m.kind # ContractResponse
      /\ HookNames[(m.kind - BlockchainNewAddressRequest) \div 2 + 1] = h
      /\ m.body = Arrived(Messages[h].request, GatewayArguments(h, args))
  <2> HIDE DEF m
  <2> QED BY <1>1, <1>2, <1>3 DEF NameOf
<1> QED BY <1>4

(* A replier answers with a response of its hook.                          *)
LEMMA RepliersRespond ==
  ASSUME NEW w, NEW h \in DOMAIN Messages, NEW body
  PROVE  \E vs, err : Repliers(w, h, body) = NewResponse(h, vs, err)
<1>1. CASE h \in DOMAIN LookupMessages
  BY <1>1, WhoAnswers DEF lookupReplier
<1>2. CASE h \in Blocks
  <2>1. Repliers(w, h, body) = blockReplier(w, h, body)
    BY <1>2, WhoAnswers
  <2>2. PICK e : e = FALSE
    OBVIOUS
  <2>3. blockReplier(w, h, body) = NewResponse(h, <<BlockchainHook(w, h, <<>>).value>>, e)
    BY <2>2, Zenon DEF blockReplier
  <2> QED BY <2>1, <2>3
<1>3. CASE h \in DOMAIN StateMessages
  <2>1. Repliers(w, h, body) = stateReplier(w, h, body)
    BY <1>3, WhoAnswers
  <2> QED BY <2>1, Zenon DEF stateReplier
<1>4. CASE h \in DOMAIN AccountMessages
  <2>1. Repliers(w, h, body) = accountReplier(w, h, body)
    BY <1>4, WhoAnswers
  <2> QED BY <2>1, Zenon DEF accountReplier
<1>5. CASE h \in DOMAIN CompiledCodeMessages
  <2>1. Repliers(w, h, body) = compiledCodeReplier(w, h, body)
    BY <1>5, WhoAnswers
  <2> QED BY <2>1, Zenon DEF compiledCodeReplier
<1> QED BY <1>1, <1>2, <1>3, <1>4, <1>5, AllHooks

(* The VM reads a hook's response.                                         *)
LEMMA ReadReply ==
  ASSUME NEW h \in DOMAIN Messages, NEW args, NEW n
  PROVE  LET m == readMessage(ReplyMessage(h, args, n))
         IN  /\ ReplyMessage(h, args, n).kind = ResponseKind(h)
             /\ ~Failed(h, m) /\ m.nonce = n /\ Gateway(h, m) = Answered(world, h, args, n)
<1> DEFINE body == Arrived(Messages[h].request, GatewayArguments(h, args))
<1>1. PICK vs, err : Repliers(world, h, body) = NewResponse(h, vs, err)
  BY RepliersRespond
<1>2. ReplyMessage(h, args, n) = Numbered(NewResponse(h, vs, err), n)
  BY <1>1 DEF ReplyMessage
<1>3. ReplyMessage(h, args, n).kind = ResponseKind(h)
  <2>1. Numbered(NewResponse(h, vs, err), n).kind = NewResponse(h, vs, err).kind
    BY DEF Numbered
  <2>2. NewResponse(h, vs, err).kind = ResponseKind(h)
    BY DEF NewResponse
  <2> QED BY <1>2, <2>1, <2>2
<1>4. readMessage(ReplyMessage(h, args, n)).nonce = n
  BY <1>2, ResponseArrives
<1>5. ~Failed(h, readMessage(ReplyMessage(h, args, n)))
  BY <1>2, NotFailed
<1>6. Gateway(h, readMessage(ReplyMessage(h, args, n))) = Answered(world, h, args, n)
  BY DEF ReplyMessage, Answered
<1> QED BY <1>3, <1>4, <1>5, <1>6

(* The node reads the response of the contract.                            *)
LEMMA ReadEnd ==
  ASSUME NEW n
  PROVE  LET m == readMessage(EndMessage(n))
         IN  /\ m.kind = ContractResponse /\ m.nonce = n /\ ~IsHookCall(m.kind)
             /\ m.error <=> run.produced = Nil
             /\ m.body["SerializableVMOutput"] = NewSerializableVMOutput(run.produced)
<1> DEFINE fs == <<"SerializableVMOutput">>
           v == NewSerializableVMOutput(run.produced)
           body == Pack(fs, <<v>>)
<1>1. PICK e : e = (run.produced = Nil)
  OBVIOUS
<1>2. EndMessage(n) = [kind |-> ContractResponse, body |-> body, error |-> e, nonce |-> n]
  <2>1. EndMessage(n) = Numbered([kind |-> ContractResponse, error |-> e, body |-> body], n)
    BY <1>1, Zenon DEF EndMessage
  <2> HIDE DEF body
  <2> QED BY <2>1 DEF Numbered
<1>3. CreateMessage(ContractResponse) = {"SerializableVMOutput"}
  <2>1. DOMAIN hookCreators = 8 .. 57
    BY LastKinds DEF hookCreators, BlockchainNewAddressRequest
  <2>2. 5 \in DOMAIN contractCreators /\ contractCreators[5] = {"SerializableVMOutput"}
    BY DEF contractCreators, ContractCallRequest, ContractResponse
  <2>3. messageCreators[5] =
            CASE 5 \in DOMAIN hookCreators -> hookCreators[5]
              [] 5 \in DOMAIN contractCreators -> contractCreators[5]
              [] OTHER -> {}
    <3>1. 5 \in 0 .. LastKind - 1
      BY LastKinds
    <3> QED BY <3>1, Zenon DEF messageCreators
  <2>4. messageCreators[5] = {"SerializableVMOutput"}
    BY <2>1, <2>2, <2>3
  <2> QED BY <2>4, LastKinds DEF CreateMessage, ContractResponse
<1>4. DOMAIN body = {"SerializableVMOutput"} /\ body["SerializableVMOutput"] = v
  BY DEF Pack, Range
<1> HIDE DEF body, v
<1>5. readMessage(EndMessage(n)) = [kind |-> ContractResponse, error |-> e, nonce |-> n,
         body |-> [f \in DOMAIN body \cap CreateMessage(ContractResponse) |-> Transcode(f, body[f])]]
  <2>1. PICK k, b, m : k = ContractResponse /\ b = body /\ m = EndMessage(n)
    OBVIOUS
  <2>2. m = [kind |-> k, body |-> b, error |-> e, nonce |-> n]
    BY <1>2, <2>1
  <2>3. readMessage(m) = [kind |-> k, error |-> e, nonce |-> n,
            body |-> [f \in DOMAIN b \cap CreateMessage(k) |-> Transcode(f, b[f])]]
    BY <2>2, ReadFields
  <2> QED BY <2>1, <2>3
<1>6. Transcode("SerializableVMOutput", v) = v
  BY PlainField
<1>7. ~IsHookCall(ContractResponse)
  BY DEF IsHookCall, ContractResponse, BlockchainNewAddressRequest
<1> DEFINE m == readMessage(EndMessage(n))
           after == [f \in DOMAIN body \cap CreateMessage(ContractResponse) |-> Transcode(f, body[f])]
<1>8. after["SerializableVMOutput"] = v
  BY <1>3, <1>4, <1>6
<1> HIDE DEF m, after
<1>9. m.kind = ContractResponse /\ m.nonce = n /\ m.error = e /\ m.body = after
  BY <1>5 DEF m, after
<1>10. /\ m.kind = ContractResponse /\ m.nonce = n /\ ~IsHookCall(m.kind)
       /\ m.error <=> run.produced = Nil
       /\ m.body["SerializableVMOutput"] = NewSerializableVMOutput(run.produced)
  BY <1>1, <1>7, <1>8, <1>9 DEF v
<1> QED BY <1>10 DEF m

-----------------------------------------------------------------------------
(* What the node's hook changes.                                           *)

(* An answer does not depend on what the call itself changed.              *)
LEMMA AnswersAreStable ==
  ASSUME NEW w, NEW h, NEW args, NEW p, NEW body
  PROVE  /\ BlockchainHook(AfterHook(w, h, args), h, p) = BlockchainHook(w, h, p)
         /\ Repliers(AfterHook(w, h, args), h, body) = Repliers(w, h, body)
<1>1. CASE h \notin {"SaveCompiledCode", "ProcessBuiltinFunction"}
  BY <1>1 DEF AfterHook
<1>2. CASE h = "SaveCompiledCode"
  <2>1. \A u : BlockchainHook(u, h, p) = Answer(Nil)
    BY <1>2 DEF BlockchainHook
  <2>2. ASSUME NEW u PROVE Repliers(u, h, body) = compiledCodeReplier(u, h, body)
    BY <1>2, WhoAnswers, Families
  <2>3. PICK e : e = FALSE
    OBVIOUS
  <2>4. ASSUME NEW u PROVE compiledCodeReplier(u, h, body) = NewResponse(h, <<>>, e)
    <3>1. h # "GetCompiledCode"
      BY <1>2
    <3> QED BY <2>3, <3>1, Zenon DEF compiledCodeReplier
  <2> QED BY <2>1, <2>2, <2>4
<1>3. CASE h = "ProcessBuiltinFunction"
  <2>1. ASSUME NEW u, NEW q
        PROVE  BlockchainHook(u, h, q) = Unless(q[1] = Failing, BuiltinOutput(q[1]))
    BY <1>3 DEF BlockchainHook
  <2>2. ASSUME NEW u PROVE Repliers(u, h, body) = stateReplier(u, h, body)
    BY <1>3, WhoAnswers, Families
  <2> DEFINE u1 == AfterHook(w, h, args)
             q == Unpack(Messages[h].request, body)
  <2> HIDE DEF u1
  <2>3. BlockchainHook(u1, h, q) = BlockchainHook(w, h, q)
    BY <2>1
  <2>4. stateReplier(u1, h, body) = stateReplier(w, h, body)
    BY <2>3, Zenon DEF stateReplier
  <2> QED BY <2>1, <2>2, <2>4 DEF u1
<1> QED BY <1>1, <1>2, <1>3

(* What the node keeps stays well formed, and its effects grow by the call.*)
LEMMA EffectsGrow ==
  ASSUME NEW w \in Worlds, NEW h \in DOMAIN Messages, NEW args \in HookArguments(h)
  PROVE  /\ AfterHook(w, h, args) \in Worlds
         /\ AfterHook(w, h, args).effects =
              w.effects \o (IF AfterHook(w, h, args) = w THEN <<>> ELSE <<<<h, args>>>>)
<1>1. <<h, args>> \in Effects
  BY DEF Effects
<1>2. w.effects \in Seq(Effects) /\ w.compiled \in [{"hash"} -> {Nil, "compiled"}]
      /\ w = [compiled |-> w.compiled, effects |-> w.effects]
  BY DEF Worlds
<1>3. w.effects \o <<>> = w.effects
  BY <1>2, ConcatEmptySeq
<1>4. PICK e : e = <<h, args>>
  OBVIOUS
<1>5. Append(w.effects, e) = w.effects \o <<e>> /\ Append(w.effects, e) \in Seq(Effects)
  BY <1>1, <1>2, <1>4, AppendIsConcat, AppendProperties
<1>6. CASE h \notin {"SaveCompiledCode", "ProcessBuiltinFunction"}
  BY <1>3, <1>6 DEF AfterHook
<1>7. CASE h = "SaveCompiledCode"
  <2>1. args = <<"hash", "compiled">>
    BY <1>7, ArgumentsOf
  <2>2. AfterHook(w, h, args) = [compiled |-> [w.compiled EXCEPT !["hash"] = "compiled"],
                                 effects |-> Append(w.effects, e)]
    BY <1>4, <1>7, <2>1 DEF AfterHook
  <2>3. AfterHook(w, h, args) \in Worlds
    BY <1>2, <1>5, <2>2 DEF Worlds
  <2>4. AfterHook(w, h, args).effects = w.effects \o <<e>>
    BY <1>5, <2>2
  <2>5. AfterHook(w, h, args) # w
    <3>1. Len(Append(w.effects, e)) = Len(w.effects) + 1 /\ Len(w.effects) \in Nat
      BY <1>1, <1>2, <1>4, AppendProperties
    <3> QED BY <2>2, <3>1
  <2> QED BY <1>4, <2>3, <2>4, <2>5
<1>8. CASE h = "ProcessBuiltinFunction"
  <2>1. AfterHook(w, h, args) = [w EXCEPT !.effects = Append(@, e)]
    BY <1>4, <1>8 DEF AfterHook
  <2>2. AfterHook(w, h, args) = [compiled |-> w.compiled, effects |-> Append(w.effects, e)]
    BY <1>2, <2>1
  <2>3. AfterHook(w, h, args) \in Worlds
    BY <1>2, <1>5, <2>2 DEF Worlds
  <2>4. AfterHook(w, h, args).effects = w.effects \o <<e>>
    BY <1>5, <2>2
  <2>5. AfterHook(w, h, args) # w
    <3>1. Len(Append(w.effects, e)) = Len(w.effects) + 1 /\ Len(w.effects) \in Nat
      BY <1>1, <1>2, <1>4, AppendProperties
    <3> QED BY <2>2, <3>1
  <2> QED BY <1>4, <2>3, <2>4, <2>5
<1> QED BY <1>6, <1>7, <1>8

(* The effect of a call is a sequence of effects.                          *)
LEMMA EffectType ==
  ASSUME NEW h \in DOMAIN Messages, NEW args \in HookArguments(h)
  PROVE  Effect(h, args) \in Seq(Effects)
<1>1. <<h, args>> \in Effects
  BY DEF Effects
<1>2. PICK e \in Effects : e = <<h, args>>
  BY <1>1
<1>3. <<e>> \in Seq(Effects) /\ <<>> \in Seq(Effects)
  OBVIOUS
<1> QED BY <1>2, <1>3 DEF Effect

-----------------------------------------------------------------------------
(* The invariant holds at first, and every step keeps it.                  *)

(* Messages on their way do not change.                                    *)
LEMMA MessagesStay ==
  ASSUME marshalizer' = marshalizer, NEW h, NEW args, NEW n
  PROVE  /\ world' = world => (ReplyMessage(h, args, n))' = ReplyMessage(h, args, n)
         /\ world' = world => (Effect(h, args))' = Effect(h, args)
         /\ run'.produced = run.produced => (EndMessage(n))' = EndMessage(n)
<1>1. ASSUME NEW fs, NEW vs PROVE (Arrived(fs, vs))' = Arrived(fs, vs)
  BY DEF Arrived, Transcode
<1>2. world' = world => (ReplyMessage(h, args, n))' = ReplyMessage(h, args, n)
  BY <1>1 DEF ReplyMessage
<1>3. world' = world => (Effect(h, args))' = Effect(h, args)
  BY DEF Effect
<1>4. run'.produced = run.produced => (EndMessage(n))' = EndMessage(n)
  BY DEF EndMessage
<1> QED BY <1>2, <1>3, <1>4

(* The dialogue stands still when a process stops.                         *)
LEMMA DialogueStays ==
  ASSUME Types, Dialogue, UNCHANGED <<marshalizer, toNode, toVM, world, run, calls>>,
         node'.pc = "looping" => node' = node,
         vm' = vm \/ vm'.pc \in {"ended", "dead"}
  PROVE  Dialogue'
<1>1. CASE NoMessage
  BY <1>1 DEF NoMessage, Silent, Dialogue
<1>2. CASE \E h \in DOMAIN Messages : \E args \in HookArguments(h) : \E n \in Nat : Asking(h, args, n)
  <2>h. PICK h \in DOMAIN Messages : \E args \in HookArguments(h) : \E n \in Nat : Asking(h, args, n)
    BY <1>2
  <2>1. PICK args \in HookArguments(h), n \in Nat : Asking(h, args, n)
    BY <2>h
  <2>2. (Effect(h, args))' = Effect(h, args)
    BY MessagesStay
  <2>3. Asking(h, args, n)'
    BY <2>1, <2>2 DEF Asking
  <2> QED BY <2>3 DEF Dialogue
<1>3. CASE \E n \in Nat : Ending(n)
  <2>1. PICK n \in Nat : Ending(n)
    BY <1>3
  <2>2. (EndMessage(n))' = EndMessage(n)
    BY MessagesStay
  <2>3. Ending(n)'
    BY <2>1, <2>2 DEF Ending
  <2> QED BY <2>3 DEF Dialogue
<1>4. CASE Starting
  <2>1. Starting'
    BY <1>4 DEF Starting
  <2> QED BY <2>1 DEF Dialogue
<1>5. CASE \E h \in DOMAIN Messages : \E args \in HookArguments(h) : \E n \in Nat : Replying(h, args, n)
  <2>h. PICK h \in DOMAIN Messages : \E args \in HookArguments(h) : \E n \in Nat : Replying(h, args, n)
    BY <1>5
  <2>1. PICK args \in HookArguments(h), n \in Nat : Replying(h, args, n)
    BY <2>h
  <2>2. (ReplyMessage(h, args, n))' = ReplyMessage(h, args, n)
    BY MessagesStay
  <2>3. Replying(h, args, n)'
    BY <2>1, <2>2 DEF Replying
  <2> QED BY <2>3 DEF Dialogue
<1> QED BY <1>1, <1>2, <1>3, <1>4, <1>5 DEF Dialogue

(* It holds at first.                                                      *)
LEMMA HookInit == Init => HookInv
<1> SUFFICES ASSUME Init PROVE HookInv
  OBVIOUS
<1>1. Types
  <2>1. world \in Worlds
    BY DEF Init, Worlds, NoCompiledCode
  <2>2. run = NewRun
    BY DEF Init
  <2>3. run \in [last : {run.last}, standIn : {run.standIn}, unsent : Nat, unread : Nat,
                 requested : Seq(Effects), produced : {run.produced},
                 accepted : {run.accepted}, returned : {run.returned}]
    BY <2>2 DEF NewRun
  <2> QED BY <2>1, <2>3, HookAssumption DEF Init, Types, NodeTyped, VMTyped, RunTyped, Waiting
<1>2. Processes
  BY DEF Init, Processes, Waiting, Silent
<1>3. Lost /\ Accepted /\ HookAnswersAreExact
  BY DEF Init, Lost, Accepted, HookAnswersAreExact, NewRun, NoCall
<1>4. Dialogue
  BY DEF Init, Dialogue, NoMessage, Silent
<1> QED BY <1>1, <1>2, <1>3, <1>4 DEF HookInv

(* A crash keeps it.                                                       *)
LEMMA CrashKeeps ==
  ASSUME HookInv, Crash
  PROVE  HookInv'
<1> USE DEF HookInv
<1>1. vm' = Ended /\ UNCHANGED <<marshalizer, node, toNode, toVM, world, run, calls>>
  BY DEF Crash
<1>2. Ended = [pc |-> "ended", nonce |-> 0, hook |-> "none", args |-> <<>>]
  BY DEF Ended, Dead
<1>3. Types'
  BY <1>1, <1>2 DEF Types, NodeTyped, VMTyped, RunTyped
<1>4. Processes'
  BY <1>1, <1>2 DEF Processes, Silent, Types, NodeTyped, VMTyped, RunTyped, Crash
<1>5. Lost' /\ Accepted' /\ HookAnswersAreExact'
  BY <1>1 DEF Lost, Accepted, HookAnswersAreExact, View, Seen, Getter
<1>6. Dialogue'
  BY <1>1, <1>2, DialogueStays
<1> QED BY <1>3, <1>4, <1>5, <1>6

(* A failed read keeps it.                                                 *)
LEMMA ReadFailsKeeps ==
  ASSUME HookInv, ReadFails
  PROVE  HookInv'
<1> USE DEF HookInv
<1>1. /\ node.pc = "looping" /\ node' = [pc |-> "closing", nonce |-> 0]
      /\ UNCHANGED <<marshalizer, vm, toNode, toVM, world, run, calls>>
  BY DEF ReadFails, LoopFails
<1>3. Types'
  BY <1>1 DEF Types, NodeTyped, VMTyped, RunTyped
<1>4. Processes'
  BY <1>1 DEF Processes, Silent, Types, NodeTyped, VMTyped, RunTyped
<1>5. Lost' /\ Accepted' /\ HookAnswersAreExact'
  BY <1>1 DEF Lost, Accepted, HookAnswersAreExact, View, Seen, Getter
<1>6. Dialogue'
  BY <1>1, DialogueStays
<1> QED BY <1>3, <1>4, <1>5, <1>6

(* Closing the driver keeps it.                                            *)
LEMMA CloseKeeps ==
  ASSUME HookInv, Close
  PROVE  HookInv'
<1> USE DEF HookInv
<1>1. /\ node.pc = "closing" /\ node' = [node EXCEPT !.pc = "idle"] /\ vm' = Dead
      /\ UNCHANGED <<marshalizer, toNode, toVM, world, run, calls>>
  BY DEF Close
<1>2. Dead = [pc |-> "dead", nonce |-> 0, hook |-> "none", args |-> <<>>]
  BY DEF Dead
<1>3. Types'
  BY <1>1, <1>2 DEF Types, NodeTyped, VMTyped, RunTyped
<1>4. Processes'
  BY <1>1, <1>2 DEF Processes, Silent, Types, NodeTyped, VMTyped, RunTyped
<1>5. Lost' /\ Accepted' /\ HookAnswersAreExact'
  BY <1>1 DEF Lost, Accepted, HookAnswersAreExact, View, Seen, Getter
<1>6. Dialogue'
  <2>1. node'.pc = "idle"
    BY <1>1 DEF Types, NodeTyped, VMTyped, RunTyped
  <2> QED BY <1>1, <1>2, <2>1, DialogueStays
<1> QED BY <1>3, <1>4, <1>5, <1>6

(* The request of an operation keeps it.                                   *)
LEMMA StartLoopKeeps ==
  ASSUME HookInv, StartLoop
  PROVE  HookInv'
<1> USE DEF HookInv
<1>1. /\ node.pc = "idle" /\ node' = [pc |-> "looping", nonce |-> 1]
      /\ toVM' = Append(PipeOfStarted(toVM), StartMessage) /\ toNode' = PipeOfStarted(toNode)
      /\ vm' = (IF vm.pc = "dead" THEN Waiting ELSE vm) /\ run' = NewRun /\ calls' = 0
      /\ world' = [compiled |-> IF vm.pc = "dead" THEN NoCompiledCode ELSE world.compiled,
                   effects |-> <<>>]
  BY DEF StartLoop, StartMessage
<1>2. toVM' = <<StartMessage>> /\ toNode' = <<>>
  <2>1. PipeOfStarted(toVM) = <<>> /\ PipeOfStarted(toNode) = <<>>
    BY <1>1 DEF Processes, Silent, PipeOfStarted
  <2> QED BY <1>1, <2>1, OneMessage
<1>3. /\ run'.last = NoCall /\ run'.standIn = FALSE /\ run'.unsent = 0 /\ run'.unread = 0
      /\ run'.requested = <<>> /\ run'.accepted = FALSE
  BY <1>1 DEF NewRun
<1>4. /\ vm'.pc \in {"waiting", "ended"} /\ vm'.nonce = 0
      /\ vm' \in [pc : {"waiting", "running", "calling", "ended", "dead"}, nonce : Nat,
                  hook : DOMAIN Messages \cup {"none"}, args : {vm'.args}]
  BY <1>1 DEF Processes, Types, NodeTyped, VMTyped, RunTyped, Waiting
<1>5. Types'
  <2>1. NoCompiledCode \in [{"hash"} -> {Nil, "compiled"}]
    BY DEF NoCompiledCode
  <2>2. world' \in Worlds
    BY <1>1, <2>1 DEF Types, NodeTyped, VMTyped, RunTyped, Worlds
  <2>3. run' \in [last : {run'.last}, standIn : {run'.standIn}, unsent : Nat, unread : Nat,
                  requested : Seq(Effects), produced : {run'.produced},
                  accepted : {run'.accepted}, returned : {run'.returned}]
    BY <1>1 DEF NewRun
  <2> QED BY <1>1, <1>4, <2>2, <2>3, HookAssumption DEF Types, NodeTyped, VMTyped, RunTyped
<1>6. Processes'
  BY <1>1, <1>4 DEF Processes
<1>7. Lost' /\ Accepted' /\ HookAnswersAreExact'
  BY <1>3 DEF Lost, Accepted, HookAnswersAreExact, NoCall
<1>8. Dialogue'
  <2>1. world'.effects = <<>>
    BY <1>1
  <2>2. Starting'
    BY <1>1, <1>2, <1>3, <1>4, <2>1 DEF Starting, StartMessage, Numbered
  <2> QED BY <2>2 DEF Dialogue
<1> QED BY <1>5, <1>6, <1>7, <1>8

(* In which states the VM waits for, and has, a message.                   *)
LEMMA PipesTell ==
  ASSUME Dialogue
  PROVE  /\ vm.pc = "waiting" /\ toVM # <<>> => Starting
         /\ vm.pc = "calling" /\ toVM # <<>> =>
              \E h \in DOMAIN Messages : \E args \in HookArguments(h) : \E n \in Nat : Replying(h, args, n)
         /\ toNode # <<>> =>
              \/ \E h \in DOMAIN Messages : \E args \in HookArguments(h) : \E n \in Nat : Asking(h, args, n)
              \/ \E n \in Nat : Ending(n)
<1>1. \A h, args, n : Asking(h, args, n) => toVM = <<>>
  BY DEF Asking
<1>2. \A n : Ending(n) => toVM = <<>>
  BY DEF Ending
<1>3. \A h, args, n : Replying(h, args, n) => toNode = <<>> /\ vm.pc # "waiting"
  BY DEF Replying
<1>4. Starting => toNode = <<>> /\ vm.pc # "calling"
  BY DEF Starting
<1>5. NoMessage => toNode = <<>> /\ toVM = <<>>
  BY DEF NoMessage, Silent
<1> QED BY <1>1, <1>2, <1>3, <1>4, <1>5 DEF Dialogue

(* A VM that goes on with another number.                                  *)
LEMMA VMGoesOn ==
  ASSUME VMTyped, NEW n \in Nat, vm' = [vm EXCEPT !.pc = "running", !.nonce = n]
  PROVE  VMTyped' /\ vm'.pc = "running" /\ vm'.nonce = n
<1>1. PICK a, k : a = vm.args /\ k = vm.hook
  OBVIOUS
<1>2. vm \in [pc : {"waiting", "running", "calling", "ended", "dead"}, nonce : Nat,
             hook : DOMAIN Messages \cup {"none"}, args : {a}] /\ vm.hook = k
  BY <1>1 DEF VMTyped
<1>3. vm' = [pc |-> "running", nonce |-> n, hook |-> k, args |-> a]
  BY <1>1, <1>2
<1>4. k \in DOMAIN Messages \cup {"none"}
  BY <1>2
<1> QED BY <1>3, <1>4 DEF VMTyped

(* The VM takes the request of an operation.                               *)
LEMMA ReceiveNodeRequestKeeps ==
  ASSUME HookInv, ReceiveNodeRequest
  PROVE  HookInv'
<1> USE DEF HookInv
<1>1. Starting /\ vm.pc = "waiting" /\ vm.nonce = 0
  BY PipesTell DEF ReceiveNodeRequest, Processes
<1>2. Head(toVM) = StartMessage /\ toVM' = <<>> /\ toNode' = <<>>
  BY <1>1, OneMessage DEF ReceiveNodeRequest, Starting
<1>3. StartMessage.nonce = 1
  BY DEF StartMessage, Numbered
<1>4. /\ vm' = [vm EXCEPT !.pc = "running", !.nonce = vm.nonce + 1]
      /\ UNCHANGED <<marshalizer, node, world, run, calls>>
  BY <1>1, <1>2, <1>3 DEF ReceiveNodeRequest, InStep
<1>5. VMTyped' /\ vm'.pc = "running" /\ vm'.nonce = 1
  <2>1. PICK k \in Nat : k = 1 /\ k = vm.nonce + 1
    BY <1>1
  <2>2. vm' = [vm EXCEPT !.pc = "running", !.nonce = k]
    BY <1>4, <2>1
  <2>3. VMTyped' /\ vm'.pc = "running" /\ vm'.nonce = k
    BY <2>2, VMGoesOn DEF Types
  <2> QED BY <2>1, <2>3
<1>6. Types'
  BY <1>4, <1>5 DEF Types, NodeTyped, RunTyped
<1>7. Processes'
  <2>1. node.pc # "idle"
    <3>1. toVM # <<>>
      BY <1>1, OneMessage DEF Starting
    <3> QED BY <1>1, <3>1 DEF Processes, Silent
  <2>2. calls \in Nat
    BY HookAssumption DEF Types
  <2> QED BY <1>2, <1>4, <1>5, <2>1, <2>2 DEF Processes, Silent
<1>8. Lost' /\ Accepted' /\ HookAnswersAreExact'
  BY <1>4 DEF Lost, Accepted, HookAnswersAreExact, View, Seen, Getter
<1>9. Dialogue'
  <2>1. NoMessage'
    BY <1>1, <1>2, <1>4, <1>5 DEF NoMessage, Silent, Starting
  <2> QED BY <2>1 DEF Dialogue
<1> QED BY <1>6, <1>7, <1>8, <1>9

(* While the VM runs nothing is on its way.                                *)
LEMMA RunningIsSilent ==
  ASSUME HookInv, vm.pc = "running"
  PROVE  Silent /\ NoMessage /\ vm.nonce <= 2 * calls + 1 /\ node.pc # "idle" /\ ~run.accepted
<1> USE DEF HookInv
<1>1. Silent /\ vm.nonce <= 2 * calls + 1 /\ node.pc # "idle" /\ ~run.accepted
  BY DEF Processes, Accepted
<1>2. \A x, y, z : ~Asking(x, y, z)
  BY <1>1, OneMessage DEF Silent, Asking
<1>3. \A z : ~Ending(z)
  BY <1>1, OneMessage DEF Silent, Ending
<1>4. ~Starting
  BY <1>1, OneMessage DEF Silent, Starting
<1>5. \A x, y, z : ~Replying(x, y, z)
  BY <1>1, OneMessage DEF Silent, Replying
<1> QED BY <1>1, <1>2, <1>3, <1>4, <1>5 DEF Dialogue

(* A call of a hook keeps it.                                              *)
LEMMA HookCallKeeps ==
  ASSUME HookInv, NEW h \in DOMAIN Messages, NEW args \in HookArguments(h), HookCall(h, args)
  PROVE  HookInv'
<1> USE DEF HookInv
<1>1. /\ vm.pc = "running" /\ calls < MaxCalls /\ calls' = calls + 1
      /\ UNCHANGED <<marshalizer, node, toVM, world>>
  BY DEF HookCall
<1>2. Silent /\ NoMessage /\ vm.nonce <= 2 * calls + 1
  BY <1>1, RunningIsSilent
<1>3. node.pc # "idle" /\ ~run.accepted
  BY <1>1, RunningIsSilent
<1>t. /\ calls \in Nat /\ calls' \in 0 .. MaxCalls /\ calls' \in Nat
      /\ vm.nonce \in Nat /\ node.nonce \in Nat /\ run.unsent \in Nat /\ run.unread \in Nat
  <2>1. calls \in Nat /\ calls' \in 0 .. MaxCalls /\ calls' \in Nat
    BY <1>1, HookAssumption DEF Types
  <2>2. vm.nonce \in Nat
    BY DEF Types, VMTyped
  <2>3. node.nonce \in Nat /\ run.unsent \in Nat /\ run.unread \in Nat
    BY DEF Types, NodeTyped, RunTyped
  <2> QED BY <2>1, <2>2, <2>3
<1>4. CASE /\ toNode' = Append(toNode, RequestMessage(h, args, vm.nonce + 1))
           /\ vm' = [pc |-> "calling", nonce |-> vm.nonce + 1, hook |-> h, args |-> args]
           /\ run' = [run EXCEPT !.requested = @ \o Effect(h, args)]
  <2>1. toNode' = <<RequestMessage(h, args, vm.nonce + 1)>> /\ toVM' = <<>>
    BY <1>1, <1>2, <1>4, OneMessage DEF Silent
  <2>2. run.requested \o Effect(h, args) \in Seq(Effects)
    BY EffectType, ConcatProperties DEF Types, RunTyped
  <2>v. VMTyped' /\ vm'.pc = "calling" /\ vm'.nonce = vm.nonce + 1 /\ vm'.hook = h /\ vm'.args = args
    BY <1>4, <1>t DEF VMTyped
  <2>3. /\ run'.last = run.last /\ run'.standIn = run.standIn /\ run'.unsent = run.unsent
        /\ run'.unread = run.unread /\ run'.requested = run.requested \o Effect(h, args)
        /\ run'.accepted = run.accepted /\ RunTyped'
    <3>1. PICK s : s = run.requested \o Effect(h, args)
      OBVIOUS
    <3>2. run' = [run EXCEPT !.requested = s]
      BY <1>4, <3>1
    <3> QED BY <2>2, <3>1, <3>2 DEF Types, RunTyped
  <2>4. Types'
    BY <1>1, <1>t, <2>v, <2>3 DEF Types, NodeTyped
  <2>5. Processes'
    BY <1>1, <1>2, <1>3, <1>t, <2>v DEF Processes
  <2>6. Lost' /\ Accepted' /\ HookAnswersAreExact'
    BY <1>3, <2>3 DEF Lost, Accepted, HookAnswersAreExact, View, Seen, Getter
  <2>7. Dialogue'
    <3>1. (Effect(h, args))' = Effect(h, args)
      BY <1>1, MessagesStay
    <3>2. PICK n \in Nat : n = vm.nonce + 1
      BY <1>t
    <3>3. ASSUME node.pc = "looping"
          PROVE  /\ run'.requested = world'.effects \o Effect(h, args)
                 /\ n + run'.unread = node'.nonce + run'.unsent + 1
                 /\ node'.nonce <= 2 * calls' - 1
      <4>1. run.requested = world.effects /\ vm.nonce + run.unread = node.nonce + run.unsent
        BY <1>1, <1>2, <3>3 DEF NoMessage
      <4>2. node.nonce <= 2 * calls + 1
        BY <3>3 DEF Processes
      <4>3. run'.requested = world'.effects \o Effect(h, args)
        BY <1>1, <2>3, <4>1
      <4>4. run'.unread = run.unread /\ run'.unsent = run.unsent /\ node'.nonce = node.nonce /\ calls' = calls + 1
        BY <1>1, <2>3
      <4>5. n + run'.unread = node'.nonce + run'.unsent + 1 /\ node'.nonce <= 2 * calls' - 1
        BY <1>t, <3>2, <4>1, <4>2, <4>4
      <4> QED BY <4>3, <4>5
    <3>4. Asking(h, args, n)'
      BY <1>1, <2>1, <2>v, <3>1, <3>2, <3>3 DEF Asking
    <3> QED BY <3>4 DEF Dialogue
  <2> QED BY <2>4, <2>5, <2>6, <2>7
<1>5. CASE /\ vm' = [vm EXCEPT !.nonce = vm.nonce + 1]
           /\ run' = [run EXCEPT !.standIn = TRUE, !.unsent = @ + 1,
                         !.last = [hook |-> h, answer |-> Gateway(h, NoResponse),
                                   direct |-> Answer(Nil), standIn |-> TRUE]]
           /\ UNCHANGED toNode
  <2>1. VMTyped' /\ vm'.pc = "running" /\ vm'.nonce = vm.nonce + 1
    BY <1>1, <1>5, <1>t DEF Types, VMTyped
  <2>2. PICK last : last = [hook |-> h, answer |-> Gateway(h, NoResponse), direct |-> Answer(Nil), standIn |-> TRUE]
    OBVIOUS
  <2>3. /\ run'.last = last /\ run'.unsent = run.unsent + 1 /\ run'.unread = run.unread
        /\ run'.requested = run.requested /\ run'.accepted = run.accepted /\ RunTyped'
    <3>1. run' = [run EXCEPT !.standIn = TRUE, !.unsent = run.unsent + 1, !.last = last]
      BY <1>5, <2>2
    <3>2. PICK p, a, q : p = run.produced /\ a = run.accepted /\ q = run.returned
      OBVIOUS
    <3>3. run \in [last : {run.last}, standIn : {run.standIn}, unsent : Nat, unread : Nat,
                  requested : Seq(Effects), produced : {p}, accepted : {a}, returned : {q}]
      BY <3>2 DEF Types, RunTyped
    <3>4. run' = [last |-> last, standIn |-> TRUE, unsent |-> run.unsent + 1, unread |-> run.unread,
                  requested |-> run.requested, produced |-> p, accepted |-> a, returned |-> q]
      BY <3>1, <3>2, <3>3
    <3>5. run.unsent + 1 \in Nat /\ run.unread \in Nat /\ run.requested \in Seq(Effects)
      BY <1>t, <3>3
    <3>6. RunTyped'
      BY <3>4, <3>5 DEF RunTyped
    <3> QED BY <3>2, <3>4, <3>6
  <2>4. Types'
    BY <1>1, <1>t, <2>1, <2>3 DEF Types, NodeTyped
  <2>5. Processes'
    BY <1>1, <1>2, <1>3, <1>5, <1>t, <2>1 DEF Processes, Silent
  <2>6. Lost' /\ Accepted'
    BY <1>3, <1>t, <2>3 DEF Lost, Accepted
  <2>7. HookAnswersAreExact'
    <3>1. run'.last.standIn = TRUE
      BY <2>2, <2>3
    <3> QED BY <3>1 DEF HookAnswersAreExact
  <2>8. Dialogue'
    <3>1. node.pc = "looping" =>
            /\ run'.requested = world'.effects
            /\ vm'.nonce + run'.unread = node'.nonce + run'.unsent
      <4>1. SUFFICES ASSUME node.pc = "looping"
                     PROVE  /\ run'.requested = world'.effects
                            /\ vm'.nonce + run'.unread = node'.nonce + run'.unsent
        OBVIOUS
      <4>2. run.requested = world.effects /\ vm.nonce + run.unread = node.nonce + run.unsent
        BY <1>1, <1>2, <4>1 DEF NoMessage
      <4> QED BY <1>1, <1>t, <2>1, <2>3, <4>2
    <3>2. NoMessage'
      BY <1>1, <1>2, <1>5, <3>1 DEF NoMessage, Silent
    <3> QED BY <3>2 DEF Dialogue
  <2> QED BY <2>4, <2>5, <2>6, <2>7, <2>8
<1> QED BY <1>4, <1>5 DEF HookCall, NonceAfterSend, RequestMessage, Effect

(* Numbers of the state.                                                   *)
LEMMA Counts ==
  ASSUME Types
  PROVE  /\ calls \in Nat /\ vm.nonce \in Nat /\ node.nonce \in Nat
         /\ run.unsent \in Nat /\ run.unread \in Nat
<1>1. calls \in Nat
  BY HookAssumption DEF Types
<1>2. vm.nonce \in Nat
  BY DEF Types, VMTyped
<1>3. node.nonce \in Nat
  BY DEF Types, NodeTyped
<1>4. run.unsent \in Nat /\ run.unread \in Nat
  BY DEF Types, RunTyped
<1> QED BY <1>1, <1>2, <1>3, <1>4

(* What the node has got is the only message.                              *)
LEMMA NodeHasOne ==
  ASSUME Dialogue, toNode # <<>>
  PROVE  toVM = <<>> /\ Tail(toNode) = <<>> /\ vm.pc # "running"
<1>1. \A h, args, n : Asking(h, args, n) => toVM = <<>> /\ Tail(toNode) = <<>> /\ vm.pc # "running"
  BY OneMessage DEF Asking
<1>2. \A n : Ending(n) => toVM = <<>> /\ Tail(toNode) = <<>> /\ vm.pc # "running"
  BY OneMessage DEF Ending
<1> QED BY <1>1, <1>2, PipesTell

(* A rejected message keeps it.                                            *)
LEMMA RejectMessageKeeps ==
  ASSUME HookInv, RejectMessage
  PROVE  HookInv'
<1> USE DEF HookInv
<1>1. /\ node.pc = "looping" /\ node' = [pc |-> "closing", nonce |-> 0] /\ toNode # <<>>
      /\ toNode' = Tail(toNode) /\ UNCHANGED <<marshalizer, vm, toVM, world, run, calls>>
  BY DEF RejectMessage, LoopFails
<1>2. Silent'
  BY <1>1, NodeHasOne DEF Silent
<1>3. Types'
  BY <1>1 DEF Types, NodeTyped, VMTyped, RunTyped
<1>4. Processes'
  BY <1>1, <1>2 DEF Processes
<1>5. Lost' /\ Accepted' /\ HookAnswersAreExact'
  BY <1>1 DEF Lost, Accepted, HookAnswersAreExact, View, Seen, Getter
<1>6. NoMessage'
  BY <1>1, <1>2 DEF NoMessage
<1> QED BY <1>3, <1>4, <1>5, <1>6 DEF Dialogue

(* The node takes a hook's request for what it is.                         *)
LEMMA ReplyMeans ==
  ASSUME HookInv, ReplyToHookCall
  PROVE  \E h \in DOMAIN Messages : \E args \in HookArguments(h) : \E n \in Nat :
           /\ Asking(h, args, n) /\ n = node.nonce + 1
           /\ world' = AfterHook(world, h, args)
           /\ \/ /\ toVM' = Append(toVM, ReplyMessage(h, args, node.nonce + 2))
                 /\ node' = [node EXCEPT !.nonce = @ + 2]
              \/ LoopFails /\ toVM' = toVM
<1> USE DEF HookInv
<1> DEFINE m == readMessage(Head(toNode))
<1>1. node.pc = "looping" /\ toNode # <<>> /\ InStep(m, node.nonce) /\ IsHookCall(m.kind)
  BY DEF ReplyToHookCall
<1>2. \A n : ~Ending(n)
  <2>1. ASSUME NEW n, Ending(n) PROVE m = readMessage(EndMessage(n))
    BY <2>1, OneMessage DEF Ending
  <2> QED BY <1>1, <2>1, ReadEnd
<1>3. PICK h \in DOMAIN Messages : \E args \in HookArguments(h) : \E n \in Nat : Asking(h, args, n)
  BY <1>1, <1>2, PipesTell
<1>4. PICK args \in HookArguments(h), n \in Nat : Asking(h, args, n)
  BY <1>3
<1>5. m = readMessage(RequestMessage(h, args, n))
  BY <1>4, OneMessage DEF Asking
<1> DEFINE body == Arrived(Messages[h].request, GatewayArguments(h, args))
<1>6. /\ m.nonce = n /\ m.body = body
      /\ HookNames[(m.kind - BlockchainNewAddressRequest) \div 2 + 1] = h
  BY <1>5, ReadRequest
<1>7. n = node.nonce + 1
  BY <1>1, <1>6 DEF InStep
<1> HIDE DEF m
<1>8. /\ world' = AfterHook(world, h, IF h = "IsPayable" THEN <<Nil>> \o Unpack(Messages[h].request, m.body)
                                      ELSE Unpack(Messages[h].request, m.body))
      /\ \/ /\ toVM' = Append(toVM, Numbered(Repliers(world, h, m.body), node.nonce + 2))
            /\ node' = [node EXCEPT !.nonce = @ + 2]
         \/ LoopFails /\ toVM' = toVM
  BY <1>6 DEF ReplyToHookCall, m
<1>9. world' = AfterHook(world, h, args)
  <2>1. Unpack(Messages[h].request, m.body) = Asked(h, args)
    BY <1>6 DEF Asked
  <2>2. world' = AfterHook(world, h, Passed(h, Asked(h, args)))
    BY <1>8, <2>1 DEF Passed
  <2> QED BY <2>2, HooksAreAsked
<1>10. Numbered(Repliers(world, h, m.body), node.nonce + 2) = ReplyMessage(h, args, node.nonce + 2)
  BY <1>6 DEF ReplyMessage
<1> QED BY <1>4, <1>7, <1>8, <1>9, <1>10

(* A reply to a hook's request keeps it.                                   *)
LEMMA ReplyToHookCallKeeps ==
  ASSUME HookInv, ReplyToHookCall
  PROVE  HookInv'
<1> USE DEF HookInv
<1>1. /\ node.pc = "looping" /\ toNode # <<>> /\ toNode' = Tail(toNode)
      /\ UNCHANGED <<marshalizer, vm, run, calls>>
  BY DEF ReplyToHookCall
<1>2. PICK h \in DOMAIN Messages : \E args \in HookArguments(h) : \E n \in Nat :
           /\ Asking(h, args, n) /\ n = node.nonce + 1
           /\ world' = AfterHook(world, h, args)
           /\ \/ /\ toVM' = Append(toVM, ReplyMessage(h, args, node.nonce + 2))
                 /\ node' = [node EXCEPT !.nonce = @ + 2]
              \/ LoopFails /\ toVM' = toVM
  BY ReplyMeans
<1>3. PICK args \in HookArguments(h), n \in Nat :
           /\ Asking(h, args, n) /\ n = node.nonce + 1
           /\ world' = AfterHook(world, h, args)
           /\ \/ /\ toVM' = Append(toVM, ReplyMessage(h, args, node.nonce + 2))
                 /\ node' = [node EXCEPT !.nonce = @ + 2]
              \/ LoopFails /\ toVM' = toVM
  BY <1>2
<1>4. toNode' = <<>> /\ toVM = <<>> /\ vm.pc # "running"
  BY <1>1, NodeHasOne
<1>5. world' \in Worlds /\ world'.effects = world.effects \o Effect(h, args)
  BY <1>3, EffectsGrow DEF Types, Effect
<1>6. run.requested = world'.effects /\ run.unread = run.unsent /\ node.nonce <= 2 * calls - 1
  <2>1. run.requested = world.effects \o Effect(h, args) /\ node.nonce <= 2 * calls - 1
        /\ n + run.unread = node.nonce + run.unsent + 1
    BY <1>1, <1>3 DEF Asking
  <2>2. run.requested = world'.effects
    BY <1>5, <2>1
  <2>3. run.unread = run.unsent
    BY <1>3, <2>1, Counts
  <2> QED BY <2>1, <2>2, <2>3
<1>7. ~run.accepted
  BY <1>1 DEF Accepted
<1>8. Lost' /\ Accepted' /\ HookAnswersAreExact'
  BY <1>1, <1>7 DEF Lost, Accepted, HookAnswersAreExact, View, Seen, Getter
<1>9. CASE /\ toVM' = Append(toVM, ReplyMessage(h, args, node.nonce + 2))
           /\ node' = [node EXCEPT !.nonce = @ + 2]
  <2>1. node'.pc = "looping" /\ node'.nonce = node.nonce + 2 /\ NodeTyped'
    BY <1>1, <1>9 DEF Types, NodeTyped
  <2>2. Types'
    BY <1>1, <1>5, <2>1 DEF Types, VMTyped, RunTyped
  <2>3. Processes'
    BY <1>1, <1>4, <1>6, <2>1, Counts DEF Processes
  <2>4. PICK k \in Nat : k = node.nonce + 2
    BY Counts
  <2>5. ReplyMessage(h, args, k) = (ReplyMessage(h, args, k))'
    <3>1. (Arrived(Messages[h].request, GatewayArguments(h, args)))' =
            Arrived(Messages[h].request, GatewayArguments(h, args))
      BY <1>1 DEF Arrived, Transcode
    <3>2. ASSUME NEW body PROVE Repliers(world', h, body) = Repliers(world, h, body)
      BY <1>3, AnswersAreStable
    <3> QED BY <3>1, <3>2 DEF ReplyMessage
  <2>6. toVM' = <<(ReplyMessage(h, args, k))'>>
    BY <1>4, <1>9, <2>4, <2>5, OneMessage
  <2>7. vm.pc \in {"calling", "ended", "dead"} /\ (vm.pc = "calling" => vm.hook = h /\ vm.args = args /\ vm.nonce = n)
    BY <1>3 DEF Asking
  <2>8. k = vm.nonce + 1 \/ vm.pc # "calling"
    BY <1>3, <2>4, <2>7, Counts
  <2>9. Replying(h, args, k)'
    BY <1>1, <1>4, <1>6, <2>1, <2>4, <2>6, <2>7, <2>8 DEF Replying
  <2>10. Dialogue'
    BY <2>9 DEF Dialogue
  <2> QED BY <1>8, <2>2, <2>3, <2>10
<1>10. CASE LoopFails /\ toVM' = toVM
  <2>1. node' = [pc |-> "closing", nonce |-> 0]
    BY <1>10 DEF LoopFails
  <2>2. Types'
    BY <1>1, <1>5, <2>1 DEF Types, NodeTyped, VMTyped, RunTyped
  <2>3. Processes'
    BY <1>1, <1>4, <2>1 DEF Processes
  <2>4. NoMessage'
    BY <1>4, <1>10, <2>1 DEF NoMessage, Silent
  <2> QED BY <1>8, <2>2, <2>3, <2>4 DEF Dialogue
<1> QED BY <1>3, <1>9, <1>10

(* The node takes the response of the contract for what it is.             *)
LEMMA AcceptMeans ==
  ASSUME HookInv, AcceptResponse
  PROVE  \E n \in Nat : /\ Ending(n) /\ n = node.nonce + 1
                        /\ run' = [run EXCEPT !.accepted = TRUE, !.returned = run.produced]
<1> USE DEF HookInv
<1> DEFINE m == readMessage(Head(toNode))
<1>1. node.pc = "looping" /\ toNode # <<>> /\ InStep(m, node.nonce) /\ ~IsHookCall(m.kind)
  BY DEF AcceptResponse
<1>2. \A h \in DOMAIN Messages : \A args, n : ~Asking(h, args, n)
  <2>1. ASSUME NEW h \in DOMAIN Messages, NEW args, NEW n, Asking(h, args, n)
        PROVE  m = readMessage(RequestMessage(h, args, n))
    BY <2>1, OneMessage DEF Asking
  <2>2. ASSUME NEW h \in DOMAIN Messages, NEW args, NEW n, Asking(h, args, n)
        PROVE  FALSE
    BY <1>1, <2>1, <2>2, ReadRequest
  <2> QED BY <2>2
<1>3. PICK n \in Nat : Ending(n)
  BY <1>1, <1>2, PipesTell
<1>4. m = readMessage(EndMessage(n))
  BY <1>3, OneMessage DEF Ending
<1>5. /\ m.nonce = n /\ (m.error <=> run.produced = Nil)
      /\ m.body["SerializableVMOutput"] = NewSerializableVMOutput(run.produced)
  BY <1>4, ReadEnd
<1>6. n = node.nonce + 1
  BY <1>1, <1>5 DEF InStep
<1>7. run.produced \in Outputs
  BY <1>3 DEF Ending
<1>8. (IF m.error THEN Nil ELSE ConvertToVMOutput(m.body.SerializableVMOutput)) = run.produced
  <2>1. CASE run.produced = Nil
    BY <1>5, <2>1
  <2>2. CASE run.produced # Nil
    <3>1. IsVMOutput(run.produced)
      BY <1>7, <2>2, ValueAssumption
    <3>2. ConvertToVMOutput(NewSerializableVMOutput(run.produced)) = run.produced
      BY <2>2, <3>1, OutputsAreRebuilt
    <3> HIDE DEF m
    <3> QED BY <1>5, <2>2, <3>2
  <2> QED BY <2>1, <2>2
<1>9. run' = [run EXCEPT !.accepted = TRUE,
                !.returned = IF m.error THEN Nil ELSE ConvertToVMOutput(m.body.SerializableVMOutput)]
  BY DEF AcceptResponse
<1> HIDE DEF m
<1> QED BY <1>3, <1>6, <1>8, <1>9

(* An accepted response keeps it.                                          *)
LEMMA AcceptResponseKeeps ==
  ASSUME HookInv, AcceptResponse
  PROVE  HookInv'
<1> USE DEF HookInv
<1>1. /\ node.pc = "looping" /\ toNode # <<>> /\ toNode' = Tail(toNode)
      /\ node' = [pc |-> "idle", nonce |-> 0]
      /\ UNCHANGED <<marshalizer, vm, toVM, world, calls>>
  BY DEF AcceptResponse
<1>2. PICK n \in Nat : /\ Ending(n) /\ n = node.nonce + 1
                       /\ run' = [run EXCEPT !.accepted = TRUE, !.returned = run.produced]
  BY AcceptMeans
<1>3. Silent'
  BY <1>1, NodeHasOne DEF Silent
<1>4. vm.pc \in {"waiting", "ended", "dead"} /\ run.requested = world.effects
      /\ n + run.unread = node.nonce + run.unsent + 1
  BY <1>1, <1>2 DEF Ending
<1>5. run.unsent = run.unread
  BY <1>2, <1>4, Counts
<1>6. /\ run'.last = run.last /\ run'.standIn = run.standIn /\ run'.unsent = run.unsent
      /\ run'.unread = run.unread /\ run'.requested = run.requested
      /\ run'.returned = run'.produced /\ RunTyped'
  <2>1. PICK l, s, p : l = run.last /\ s = run.standIn /\ p = run.produced
    OBVIOUS
  <2>2. run \in [last : {l}, standIn : {s}, unsent : Nat, unread : Nat,
                 requested : Seq(Effects), produced : {p}, accepted : {run.accepted},
                 returned : {run.returned}]
    BY <2>1 DEF Types, RunTyped
  <2>3. run' = [last |-> l, standIn |-> s, unsent |-> run.unsent, unread |-> run.unread,
                requested |-> run.requested, produced |-> p, accepted |-> TRUE, returned |-> p]
    BY <1>2, <2>1, <2>2
  <2>4. run.unsent \in Nat /\ run.unread \in Nat /\ run.requested \in Seq(Effects)
    BY <2>2
  <2>5. RunTyped'
    BY <2>3, <2>4 DEF RunTyped
  <2> QED BY <2>1, <2>3, <2>5
<1>7. Types'
  BY <1>1, <1>6 DEF Types, NodeTyped, VMTyped
<1>8. Processes'
  BY <1>1, <1>3, <1>4 DEF Processes
<1>9. Lost' /\ HookAnswersAreExact'
  BY <1>1, <1>6 DEF Lost, HookAnswersAreExact, View, Seen, Getter
<1>10. Accepted'
  BY <1>1, <1>4, <1>5, <1>6 DEF Accepted
<1>11. NoMessage'
  BY <1>1, <1>3 DEF NoMessage
<1> QED BY <1>7, <1>8, <1>9, <1>10, <1>11 DEF Dialogue

(* The end of an execution keeps it.                                       *)
LEMMA SendContractResponseKeeps ==
  ASSUME HookInv, NEW vmOutput \in Outputs, SendContractResponse(vmOutput)
  PROVE  HookInv'
<1> USE DEF HookInv
<1>1. /\ vm.pc = "running" /\ run' = [run EXCEPT !.produced = vmOutput]
      /\ UNCHANGED <<marshalizer, node, toVM, world, calls>>
  BY DEF SendContractResponse
<1>2. Silent /\ NoMessage /\ node.pc # "idle" /\ ~run.accepted
  BY <1>1, RunningIsSilent
<1>3. /\ run'.last = run.last /\ run'.standIn = run.standIn /\ run'.unsent = run.unsent
      /\ run'.unread = run.unread /\ run'.requested = run.requested
      /\ run'.accepted = run.accepted /\ run'.produced = vmOutput /\ RunTyped'
  BY <1>1 DEF Types, RunTyped
<1>4. Lost' /\ Accepted' /\ HookAnswersAreExact'
  BY <1>1, <1>2, <1>3 DEF Lost, Accepted, HookAnswersAreExact, View, Seen, Getter
<1>5. vm' \in {Waiting, Ended} => Types' /\ Processes'
  <2>1. SUFFICES ASSUME vm' \in {Waiting, Ended} PROVE Types' /\ Processes'
    OBVIOUS
  <2>2. VMTyped' /\ vm'.pc \in {"waiting", "ended"} /\ vm'.nonce = 0
    BY <2>1 DEF VMTyped, Waiting, Ended, Dead
  <2>3. Types'
    BY <1>1, <1>3, <2>2 DEF Types, NodeTyped
  <2>4. Processes'
    BY <1>1, <1>2, <2>2 DEF Processes
  <2> QED BY <2>3, <2>4
<1>6. PICK n \in Nat : n = vm.nonce + 1
  BY Counts
<1>7. CASE vm' = Waiting /\ toNode' = Append(toNode, (EndMessage(n))')
  <2>1. toNode' = <<(EndMessage(n))'>> /\ toVM' = <<>>
    BY <1>1, <1>2, <1>7, OneMessage DEF Silent
  <2>2. node.pc = "looping" => vm.nonce + run.unread = node.nonce + run.unsent /\ run.requested = world.effects
    BY <1>1, <1>2 DEF NoMessage
  <2>3. node.pc = "looping" => n + run.unread = node.nonce + run.unsent + 1
    BY <1>6, <2>2, Counts
  <2>4. vm'.pc = "waiting"
    BY <1>7 DEF Waiting
  <2>5. Ending(n)'
    BY <1>1, <1>3, <2>1, <2>2, <2>3, <2>4 DEF Ending
  <2>6. Dialogue'
    BY <2>5 DEF Dialogue
  <2> QED BY <1>4, <1>5, <1>7, <2>6
<1>8. CASE vm' = Ended /\ toNode' = toNode
  <2>1. vm'.pc = "ended"
    BY <1>8 DEF Ended, Dead
  <2>2. NoMessage'
    BY <1>1, <1>2, <1>3, <1>8, <2>1 DEF NoMessage, Silent
  <2> QED BY <1>4, <1>5, <1>8, <2>2 DEF Dialogue
<1>9. (EndMessage(n))' =
        Numbered([kind |-> ContractResponse, error |-> vmOutput = Nil,
                  body |-> Pack(<<"SerializableVMOutput">>, <<NewSerializableVMOutput(vmOutput)>>)],
                 vm.nonce + 1)
  BY <1>3, <1>6, Zenon DEF EndMessage
<1> QED BY <1>7, <1>8, <1>9 DEF SendContractResponse, NonceAfterSend

(* No response is never a hook's response.                                 *)
LEMMA NoResponseFails ==
  ASSUME NEW h \in DOMAIN Messages
  PROVE  Failed(h, NoResponse)
<1>1. NoResponse.kind = 62
  BY LastKinds DEF NoResponse, NewUndefinedMessage
<1>2. ResponseKind(h) \in 9 .. 57
  BY KindsOf
<1> QED BY <1>1, <1>2 DEF Failed

(* An execution that goes on with an answer.                               *)
LEMMA RunGoesOn ==
  ASSUME RunTyped, NEW last, NEW s, NEW u \in Nat,
         run' = [run EXCEPT !.last = last, !.standIn = s, !.unread = u]
  PROVE  /\ run'.last = last /\ run'.standIn = s /\ run'.unread = u
         /\ run'.unsent = run.unsent /\ run'.requested = run.requested
         /\ run'.accepted = run.accepted /\ RunTyped'
<1>1. PICK p, a, q : p = run.produced /\ a = run.accepted /\ q = run.returned
  OBVIOUS
<1>2. run \in [last : {run.last}, standIn : {run.standIn}, unsent : Nat, unread : Nat,
               requested : Seq(Effects), produced : {p}, accepted : {a}, returned : {q}]
  BY <1>1 DEF RunTyped
<1>3. run' = [last |-> last, standIn |-> s, unsent |-> run.unsent, unread |-> u,
              requested |-> run.requested, produced |-> p, accepted |-> a, returned |-> q]
  BY <1>1, <1>2
<1>4. run.unsent \in Nat /\ run.requested \in Seq(Effects)
  BY <1>2
<1>5. RunTyped'
  BY <1>3, <1>4 DEF RunTyped
<1> QED BY <1>1, <1>3, <1>5

\* The VM goes on after response n, with what the method returned.
Continues(n, decoded, last, s) ==
  /\ vm' = [vm EXCEPT !.pc = "running", !.nonce = IF decoded THEN n ELSE vm.nonce]
  /\ run' = [run EXCEPT !.last = last, !.standIn = s,
               !.unread = IF decoded THEN run.unread ELSE run.unread + 1]
  /\ decoded /\ s => run.standIn
  /\ decoded => View(last.hook, last.answer) = View(last.hook, last.direct)
  /\ ~decoded => last.standIn

(* The VM takes a hook's response for what it is: what the method returns  *)
(* is exact, or a stand-in that is counted.                                *)
LEMMA ReturnMeans ==
  ASSUME HookInv, HookReturns
  PROVE  \E h \in DOMAIN Messages : \E args \in HookArguments(h) : \E n \in Nat :
           /\ Replying(h, args, n) /\ n = vm.nonce + 1
           /\ \E decoded \in BOOLEAN : \E last, s : Continues(n, decoded, last, s)
<1> USE DEF HookInv
<1> DEFINE m == readMessage(Head(toVM))
<1>1. vm.pc = "calling" /\ toVM # <<>>
  BY DEF HookReturns
<1>2. PICK h \in DOMAIN Messages : \E args \in HookArguments(h) : \E n \in Nat : Replying(h, args, n)
  BY <1>1, PipesTell
<1>3. PICK args \in HookArguments(h), n \in Nat : Replying(h, args, n)
  BY <1>2
<1>4. vm.hook = h /\ vm.args = args /\ n = vm.nonce + 1
  BY <1>1, <1>3 DEF Replying
<1>5. m = readMessage(ReplyMessage(h, args, n))
  BY <1>3, OneMessage DEF Replying
<1>6. ~Failed(h, m) /\ m.nonce = n /\ Gateway(h, m) = Answered(world, h, args, n)
  BY <1>5, ReadReply
<1>7. View(h, Answered(world, h, args, n)) = View(h, BlockchainHook(world, h, args))
  <2>1. world.compiled["hash"] \in {Nil, "compiled"}
    BY DEF Types, Worlds
  <2> QED BY <2>1, AnswersAreExact
<1>8. InStep(m, vm.nonce)
  BY <1>4, <1>6 DEF InStep
<1> HIDE DEF m
<1>9. PICK decoded \in BOOLEAN :
        /\ vm' = [vm EXCEPT !.pc = "running", !.nonce = NonceAfterReceive(decoded, m)]
        /\ Returns(vm.hook, BlockchainHook(world, vm.hook, vm.args),
                   IF decoded /\ InStep(m, vm.nonce) THEN m ELSE NoResponse, decoded)
  BY DEF HookReturns, m
<1>10. NonceAfterReceive(decoded, m) = IF decoded THEN n ELSE vm.nonce
  BY <1>6, <1>8 DEF NonceAfterReceive
<1> DEFINE response == IF decoded THEN m ELSE NoResponse
           direct == BlockchainHook(world, h, args)
           last == [hook |-> h, answer |-> Gateway(h, response), direct |-> direct,
                    standIn |-> Failed(h, response)]
           s == run.standIn \/ Failed(h, response)
<1>11. Returns(h, direct, response, decoded)
  BY <1>4, <1>8, <1>9
<1>12. run' = [run EXCEPT !.last = last, !.standIn = s,
                 !.unread = IF decoded THEN run.unread ELSE run.unread + 1]
  BY <1>11, Zenon DEF Returns
<1>13. decoded => response = m
  OBVIOUS
<1>14. ~decoded => response = NoResponse
  OBVIOUS
<1>15. last.hook = h /\ last.answer = Gateway(h, response) /\ last.direct = direct
  <2>1. PICK f : f = Failed(h, response)
    OBVIOUS
  <2>2. last = [hook |-> h, answer |-> Gateway(h, response), direct |-> direct, standIn |-> f]
    BY <2>1, Zenon
  <2> HIDE DEF response, direct, last
  <2> QED BY <2>2
<1>16. last.standIn = Failed(h, response)
  OBVIOUS
<1>17. decoded => View(last.hook, last.answer) = View(last.hook, last.direct)
  <2> HIDE DEF last, response
  <2> QED BY <1>6, <1>7, <1>13, <1>15
<1>18. ~decoded => last.standIn
  <2>1. Failed(h, NoResponse)
    BY NoResponseFails
  <2> HIDE DEF last, response
  <2> QED BY <1>14, <1>16, <2>1
<1>19. decoded /\ s => run.standIn
  <2> HIDE DEF last, response
  <2> QED BY <1>6, <1>13
<1>20. vm' = [vm EXCEPT !.pc = "running", !.nonce = IF decoded THEN n ELSE vm.nonce]
  BY <1>9, <1>10
<1>21. Continues(n, decoded, last, s)
  <2> HIDE DEF last, s
  <2> QED BY <1>12, <1>17, <1>18, <1>19, <1>20 DEF Continues
<1>22. \E x, y : Continues(n, decoded, x, y)
  <2> HIDE DEF last, s
  <2> QED BY <1>21
<1> QED BY <1>3, <1>4, <1>22

(* The return of a hook keeps it.                                          *)
LEMMA HookReturnsKeeps ==
  ASSUME HookInv, HookReturns
  PROVE  HookInv'
<1> USE DEF HookInv
<1>1. /\ vm.pc = "calling" /\ toVM # <<>> /\ toVM' = Tail(toVM)
      /\ UNCHANGED <<marshalizer, node, toNode, world, calls>>
  BY DEF HookReturns
<1>2. PICK h \in DOMAIN Messages : \E args \in HookArguments(h) : \E n \in Nat :
        /\ Replying(h, args, n) /\ n = vm.nonce + 1
        /\ \E decoded \in BOOLEAN : \E last, s : Continues(n, decoded, last, s)
  BY ReturnMeans
<1>3. PICK args \in HookArguments(h), n \in Nat :
        /\ Replying(h, args, n) /\ n = vm.nonce + 1
        /\ \E decoded \in BOOLEAN : \E last, s : Continues(n, decoded, last, s)
  BY <1>2
<1>4. PICK decoded \in BOOLEAN : \E last, s : Continues(n, decoded, last, s)
  BY <1>3
<1>5. PICK last, s : Continues(n, decoded, last, s)
  BY <1>4
<1>6. PICK k \in Nat, u \in Nat : k = (IF decoded THEN n ELSE vm.nonce)
                                  /\ u = (IF decoded THEN run.unread ELSE run.unread + 1)
  BY Counts
<1>7. /\ vm' = [vm EXCEPT !.pc = "running", !.nonce = k]
      /\ run' = [run EXCEPT !.last = last, !.standIn = s, !.unread = u]
  BY <1>5, <1>6 DEF Continues
<1>8. VMTyped' /\ vm'.pc = "running" /\ vm'.nonce = k
  BY <1>7, VMGoesOn DEF Types
<1>9. /\ run'.last = last /\ run'.standIn = s /\ run'.unread = u
      /\ run'.unsent = run.unsent /\ run'.requested = run.requested
      /\ run'.accepted = run.accepted /\ RunTyped'
  BY <1>7, RunGoesOn DEF Types
<1>10. Silent'
  BY <1>1, <1>3, OneMessage DEF Replying, Silent
<1>11. node.pc # "idle"
  BY <1>1 DEF Processes
<1>12. Types'
  BY <1>1, <1>8, <1>9 DEF Types, NodeTyped
<1>13. vm.nonce <= 2 * calls /\ k <= 2 * calls + 1
  <2>1. vm.nonce <= 2 * calls
    BY <1>1 DEF Processes
  <2> QED BY <1>3, <1>6, <2>1, Counts
<1>14. Processes'
  BY <1>1, <1>8, <1>10, <1>11, <1>13 DEF Processes
<1>15. Lost'
  <2>1. CASE decoded
    <3>1. s => run.standIn
      BY <1>5, <2>1 DEF Continues
    <3>2. u = run.unread
      BY <1>6, <2>1
    <3> QED BY <1>9, <3>1, <3>2 DEF Lost
  <2>2. CASE ~decoded
    <3>1. u = run.unread + 1
      BY <1>6, <2>2
    <3>2. u > 0
      BY <3>1, Counts
    <3> QED BY <1>9, <3>2 DEF Lost
  <2> QED BY <2>1, <2>2
<1>16. Accepted'
  BY <1>9, <1>11 DEF Accepted
<1>17. HookAnswersAreExact'
  <2>1. ~last.standIn => View(last.hook, last.answer) = View(last.hook, last.direct)
    BY <1>5 DEF Continues
  <2>2. ASSUME NEW x, NEW y PROVE (View(x, y))' = View(x, y)
    BY DEF View, Seen, Getter
  <2> QED BY <1>9, <2>1, <2>2 DEF HookAnswersAreExact
<1>18. NoMessage'
  <2>1. node.pc = "looping" => n = node.nonce /\ run.unsent = run.unread /\ run.requested = world.effects
    BY <1>3 DEF Replying
  <2>2. node.pc = "looping" => k + u = node.nonce + run.unsent
    BY <1>3, <1>6, <2>1, Counts
  <2> QED BY <1>1, <1>8, <1>9, <1>10, <2>1, <2>2 DEF NoMessage
<1> QED BY <1>12, <1>14, <1>15, <1>16, <1>17, <1>18 DEF Dialogue

-----------------------------------------------------------------------------
(* The theorems.                                                           *)

(* Every step keeps it.                                                    *)
LEMMA HookStep == HookInv /\ [Next]_vars => HookInv'
<1> SUFFICES ASSUME HookInv, [Next]_vars PROVE HookInv'
  OBVIOUS
<1>1. CASE Crash
  BY <1>1, CrashKeeps
<1>2. CASE StartLoop
  BY <1>2, StartLoopKeeps
<1>3. CASE ReceiveNodeRequest
  BY <1>3, ReceiveNodeRequestKeeps
<1>4. CASE \E h \in DOMAIN Messages : \E args \in HookArguments(h) : HookCall(h, args)
  <2>1. PICK h \in DOMAIN Messages : \E args \in HookArguments(h) : HookCall(h, args)
    BY <1>4
  <2>2. PICK args \in HookArguments(h) : HookCall(h, args)
    BY <2>1
  <2> QED BY <2>2, HookCallKeeps
<1>5. CASE ReplyToHookCall
  BY <1>5, ReplyToHookCallKeeps
<1>6. CASE AcceptResponse
  BY <1>6, AcceptResponseKeeps
<1>7. CASE RejectMessage
  BY <1>7, RejectMessageKeeps
<1>8. CASE ReadFails
  BY <1>8, ReadFailsKeeps
<1>9. CASE Close
  BY <1>9, CloseKeeps
<1>10. CASE HookReturns
  BY <1>10, HookReturnsKeeps
<1>11. CASE \E vmOutput \in Outputs : SendContractResponse(vmOutput)
  BY <1>11, SendContractResponseKeeps
<1>12. CASE UNCHANGED vars
  <2>1. UNCHANGED <<marshalizer, node, vm, toNode, toVM, world, run, calls>>
    BY <1>12 DEF vars
  <2>2. Dialogue'
    BY <2>1, DialogueStays DEF HookInv
  <2>3. Types' /\ Processes' /\ Lost' /\ Accepted'
    BY <2>1 DEF HookInv, Types, NodeTyped, VMTyped, RunTyped, Processes, Silent, Lost, Accepted
  <2>4. HookAnswersAreExact'
    BY <2>1 DEF HookInv, HookAnswersAreExact, View, Seen, Getter
  <2> QED BY <2>2, <2>3, <2>4 DEF HookInv
<1> QED BY <1>1, <1>2, <1>3, <1>4, <1>5, <1>6, <1>7, <1>8, <1>9, <1>10, <1>11, <1>12 DEF Next

(* At any time at most one message is on its way between the two           *)
(* processes, and it tells where they stand: the inductive invariant of    *)
(* the dialogue.                                                           *)
THEOREM DialogueInvariant == Spec => []HookInv
  BY HookInit, HookStep, PTL DEF Spec

(* A hook called through the gateway, the pipes and the repliers returns   *)
(* what the node's hook itself returns, unless it returns a stand-in.      *)
THEOREM HookAnswersExact == Spec => []HookAnswersAreExact
<1>1. HookInv => HookAnswersAreExact
  BY DEF HookInv
<1> QED BY <1>1, DialogueInvariant, PTL

(* The driver returns the output of an execution that got a stand-in only  *)
(* if as many requests as responses were lost, for any number of faults.   *)
THEOREM StandInsDiscarded == Spec => []StandInsAreDiscarded
<1>1. HookInv => StandInsAreDiscarded
  <2> SUFFICES ASSUME HookInv, run.accepted, run.standIn
               PROVE  run.unsent = run.unread /\ run.unread > 0
    BY DEF StandInsAreDiscarded
  <2>1. run.unsent = run.unread /\ (run.unsent > 0 \/ run.unread > 0)
    BY DEF HookInv, Accepted, Lost
  <2> QED BY <2>1
<1> QED BY <1>1, DialogueInvariant, PTL

(* Numbers stay below the bound that the hook calls set.                   *)
LEMMA NumbersAreBounded ==
  ASSUME HookInv
  PROVE  /\ node \in [pc : {"idle", "looping", "closing"}, nonce : 0 .. 2 * MaxCalls + 1]
         /\ vm.pc \in {"waiting", "running", "calling", "ended", "dead"}
         /\ vm.hook \in DOMAIN Messages \cup {"none"} /\ vm.nonce \in 0 .. 2 * MaxCalls + 1
<1> USE DEF HookInv
<1>1. calls <= MaxCalls /\ calls \in Nat /\ MaxCalls \in Nat /\ vm.nonce \in Nat /\ node.nonce \in Nat
  BY Counts, HookAssumption DEF Types
<1>2. vm.pc \in {"waiting", "running", "calling", "ended", "dead"} /\ vm.hook \in DOMAIN Messages \cup {"none"}
  BY DEF Types, VMTyped
<1>3. vm.nonce <= 2 * calls + 1
  <2>1. vm.nonce <= 2 * calls + 1 \/ vm.nonce <= 2 * calls \/ vm.nonce = 0
    BY <1>2 DEF Processes
  <2> QED BY <1>1, <2>1
<1>4. node.nonce <= 2 * calls + 1
  <2>1. node.nonce <= 2 * calls + 1 \/ node.nonce = 0
    BY DEF Processes
  <2> QED BY <1>1, <2>1
<1>5. vm.nonce \in 0 .. 2 * MaxCalls + 1 /\ node.nonce \in 0 .. 2 * MaxCalls + 1
  BY <1>1, <1>3, <1>4
<1>6. node \in [pc : {"idle", "looping", "closing"}, nonce : 0 .. 2 * MaxCalls + 1]
  BY <1>5 DEF Types, NodeTyped
<1> QED BY <1>2, <1>5, <1>6

(* The kinds of the messages that the invariant names.                     *)
LEMMA KindsAreNamed ==
  /\ StartMessage.kind \in 1 .. 62
  /\ \A n : EndMessage(n).kind \in 1 .. 62
  /\ \A h \in DOMAIN Messages : \A args, n :
       RequestMessage(h, args, n).kind \in 1 .. 62 /\ ReplyMessage(h, args, n).kind \in 1 .. 62
<1>1. StartMessage.kind \in 1 .. 62
  BY DEF StartMessage, Numbered, ContractCallRequest
<1>2. ASSUME NEW n PROVE EndMessage(n).kind \in 1 .. 62
  <2>1. PICK e, b : EndMessage(n) = Numbered([kind |-> ContractResponse, error |-> e, body |-> b], n)
    BY Zenon DEF EndMessage
  <2>2. Numbered([kind |-> ContractResponse, error |-> e, body |-> b], n).kind = 5
    BY DEF Numbered, ContractResponse
  <2> QED BY <2>1, <2>2
<1>3. ASSUME NEW h \in DOMAIN Messages, NEW args, NEW n
      PROVE  RequestMessage(h, args, n).kind \in 1 .. 62 /\ ReplyMessage(h, args, n).kind \in 1 .. 62
  <2>1. RequestKind(h) \in 8 .. 56 /\ ResponseKind(h) \in 9 .. 57
    BY KindsOf
  <2>2. ReplyMessage(h, args, n).kind = ResponseKind(h)
    BY ReadReply
  <2>3. RequestMessage(h, args, n).kind = RequestKind(h)
    <3>1. PICK vs : vs = GatewayArguments(h, args)
      OBVIOUS
    <3>2. NewRequest(h, vs).kind = RequestKind(h)
      BY DEF NewRequest
    <3>3. Numbered(NewRequest(h, vs), n).kind = NewRequest(h, vs).kind
      BY DEF Numbered
    <3> QED BY <3>1, <3>2, <3>3 DEF RequestMessage
  <2> QED BY <2>1, <2>2, <2>3
<1> QED BY <1>1, <1>2, <1>3

(* At most one message in a direction, of a kind that has a name.          *)
LEMMA PipesAreTyped ==
  ASSUME HookInv
  PROVE  /\ Len(toNode) <= 1 /\ Len(toVM) <= 1
         /\ \A m \in Range(toNode) \cup Range(toVM) : m.kind \in 1 .. LastKind - 1
<1>1. \/ toNode = <<>> /\ toVM = <<>>
      \/ \E m : m.kind \in 1 .. 62 /\ toNode = <<m>> /\ toVM = <<>>
      \/ \E m : m.kind \in 1 .. 62 /\ toVM = <<m>> /\ toNode = <<>>
  <2>1. CASE NoMessage
    BY <2>1 DEF NoMessage, Silent
  <2>2. CASE \E h \in DOMAIN Messages : \E args \in HookArguments(h) : \E n \in Nat : Asking(h, args, n)
    <3>1. \A h \in DOMAIN Messages : \A args, n :
            Asking(h, args, n) => toNode = <<RequestMessage(h, args, n)>> /\ toVM = <<>>
      BY DEF Asking
    <3> QED BY <2>2, <3>1, KindsAreNamed
  <2>3. CASE \E n \in Nat : Ending(n)
    <3>1. \A n : Ending(n) => toNode = <<EndMessage(n)>> /\ toVM = <<>>
      BY DEF Ending
    <3> QED BY <2>3, <3>1, KindsAreNamed
  <2>4. CASE Starting
    BY <2>4, KindsAreNamed DEF Starting
  <2>5. CASE \E h \in DOMAIN Messages : \E args \in HookArguments(h) : \E n \in Nat : Replying(h, args, n)
    <3>1. \A h \in DOMAIN Messages : \A args, n :
            Replying(h, args, n) => toVM = <<ReplyMessage(h, args, n)>> /\ toNode = <<>>
      BY DEF Replying
    <3> QED BY <2>5, <3>1, KindsAreNamed
  <2> QED BY <2>1, <2>2, <2>3, <2>4, <2>5 DEF HookInv, Dialogue
<1>2. Len(<<>>) = 0 /\ Range(<<>>) = {}
  BY OneMessage
<1>3. ASSUME NEW m PROVE Len(<<m>>) = 1 /\ Range(<<m>>) = {m}
  BY OneMessage
<1>4. /\ Len(toNode) \in {0, 1} /\ Len(toVM) \in {0, 1}
      /\ \A m \in Range(toNode) \cup Range(toVM) : m.kind \in 1 .. 62
  <2>1. CASE toNode = <<>> /\ toVM = <<>>
    BY <1>2, <2>1, Zenon
  <2>2. CASE \E m : m.kind \in 1 .. 62 /\ toNode = <<m>> /\ toVM = <<>>
    <3>1. PICK m : m.kind \in 1 .. 62 /\ toNode = <<m>> /\ toVM = <<>>
      BY <2>2
    <3>2. Len(<<m>>) = 1 /\ Range(<<m>>) = {m}
      BY <1>3
    <3> QED BY <1>2, <3>1, <3>2, Zenon
  <2>3. CASE \E m : m.kind \in 1 .. 62 /\ toVM = <<m>> /\ toNode = <<>>
    <3>1. PICK m : m.kind \in 1 .. 62 /\ toVM = <<m>> /\ toNode = <<>>
      BY <2>3
    <3>2. Len(<<m>>) = 1 /\ Range(<<m>>) = {m}
      BY <1>3
    <3> QED BY <1>2, <3>1, <3>2, Zenon
  <2> QED BY <1>1, <2>1, <2>2, <2>3
<1>5. Len(toNode) <= 1 /\ Len(toVM) <= 1
  <2>1. PICK i \in {0, 1}, j \in {0, 1} : i = Len(toNode) /\ j = Len(toVM)
    BY <1>4
  <2>2. i <= 1 /\ j <= 1
    OBVIOUS
  <2> QED BY <2>1, <2>2
<1> QED BY <1>4, <1>5, LastKinds

(* What the driver returns is what the host produced, and the node's hook  *)
(* did exactly what the execution asked of it; the control state is well   *)
(* typed.                                                                  *)
THEOREM AcceptedRunsExact == Spec => []AcceptedRunsAreExact
<1>1. HookInv => AcceptedRunsAreExact
  <2> SUFFICES ASSUME HookInv PROVE AcceptedRunsAreExact
    OBVIOUS
  <2>1. TypeOK
    BY NumbersAreBounded, PipesAreTyped DEF TypeOK
  <2>2. EffectsMatchOutput /\ OutputsAreExact
    BY DEF HookInv, Accepted, EffectsMatchOutput, OutputsAreExact
  <2> QED BY <2>1, <2>2 DEF AcceptedRunsAreExact
<1> QED BY <1>1, DialogueInvariant, PTL

-----------------------------------------------------------------------------
(* BigIntHooks: the maps from handles to cells.  The i-th map is the one   *)
(* that the i-th call in progress pushed, the last is the active one.      *)

MapOf(vs, st, i) == IF i = Len(st) + 1 THEN vs ELSE st[i].values
NumbersOf(ex, st, i) == IF i = Len(st) + 1 THEN ex ELSE st[i].expect

(* No two handles share a cell, neither in one map nor in two.             *)
Separate(vs, st) ==
  \A i, j \in 1 .. Len(st) + 1 :
    \A g \in DOMAIN MapOf(vs, st, i), h \in DOMAIN MapOf(vs, st, j) :
      MapOf(vs, st, i)[g] = MapOf(vs, st, j)[h] => i = j /\ g = h

(* What holds of the active map vs, the heap hp and the calls st, also     *)
(* within a hook.                                                          *)
Sound(vs, hp, st) ==
  /\ Separate(vs, st) /\ IsFiniteSet(DOMAIN hp) /\ Reachable(vs, st) \subseteq DOMAIN hp

(* Every handle of every map has the number that was computed for it.      *)
Exact(vs, hp, st, ex) ==
  \A i \in 1 .. Len(st) + 1 :
    /\ DOMAIN MapOf(vs, st, i) = DOMAIN NumbersOf(ex, st, i)
    /\ \A h \in DOMAIN MapOf(vs, st, i) :
         hp[MapOf(vs, st, i)[h]] = NumbersOf(ex, st, i)[h]

IsSequence(st) == \E S : st \in Seq(S)

GoodNumbers(vs, hp, st, ex) == IsSequence(st) /\ Sound(vs, hp, st) /\ Exact(vs, hp, st, ex)

NumbersInv == GoodNumbers(values, heap, stack, expect)

(* The cells that can be reached are those of the maps.                    *)
LEMMA ReachableCells ==
  ASSUME NEW vs, NEW st, Len(st) \in Nat, DOMAIN st = 1 .. Len(st), NEW p
  PROVE  p \in Reachable(vs, st) <=>
           \E i \in 1 .. Len(st) + 1 : \E h \in DOMAIN MapOf(vs, st, i) :
             p = MapOf(vs, st, i)[h]
<1>1. Range(vs) = {vs[h] : h \in DOMAIN vs}
  BY DEF Range
<1>2. \A i \in DOMAIN st : Range(st[i].values) = {st[i].values[h] : h \in DOMAIN st[i].values}
  BY DEF Range
<1>3. p \in Range(vs) <=> \E h \in DOMAIN vs : p = vs[h]
  BY <1>1
<1>4. p \in UNION {Range(st[i].values) : i \in DOMAIN st} <=>
        \E i \in 1 .. Len(st) : \E h \in DOMAIN st[i].values : p = st[i].values[h]
  BY <1>2
<1>5. MapOf(vs, st, Len(st) + 1) = vs
  BY DEF MapOf
<1>6. \A i \in 1 .. Len(st) : MapOf(vs, st, i) = st[i].values
  BY DEF MapOf
<1>7. 1 .. Len(st) + 1 = (1 .. Len(st)) \cup {Len(st) + 1}
  OBVIOUS
<1>8. (\E i \in 1 .. Len(st) + 1 : \E h \in DOMAIN MapOf(vs, st, i) : p = MapOf(vs, st, i)[h])
      <=> \/ \E h \in DOMAIN vs : p = vs[h]
          \/ \E i \in 1 .. Len(st) : \E h \in DOMAIN st[i].values : p = st[i].values[h]
  BY <1>5, <1>6, <1>7
<1> QED BY <1>3, <1>4, <1>8 DEF Reachable

(* A sequence has its length as domain.                                    *)
LEMMA SequenceDomain ==
  ASSUME NEW st, IsSequence(st)
  PROVE  Len(st) \in Nat /\ DOMAIN st = 1 .. Len(st)
<1>1. PICK S : st \in Seq(S)
  BY DEF IsSequence
<1> QED BY <1>1

-----------------------------------------------------------------------------
(* New cells and new handles.                                              *)

(* There is a cell that is not in use.                                     *)
LEMMA FreshCellIsNew ==
  ASSUME NEW used, IsFiniteSet(used)
  PROVE  FreshCell(used) \notin used
<1> DEFINE n == Cardinality(used)
<1>1. n \in Nat
  BY FS_CardinalityType
<1>2. IsFiniteSet(0 .. n) /\ Cardinality(0 .. n) = n + 1
  BY <1>1, FS_Interval
<1>3. ASSUME 0 .. n \subseteq used PROVE FALSE
  <2>1. Cardinality(0 .. n) <= n
    BY <1>3, FS_Subset
  <2> QED BY <1>1, <1>2, <2>1
<1>4. \E p \in 0 .. n : p \notin used
  BY <1>3
<1> QED BY <1>4 DEF FreshCell

(* Put finds a handle that is free.                                        *)
LEMMA NewHandleIsFree ==
  ASSUME IsFiniteSet(DOMAIN values)
  PROVE  NewHandle \notin DOMAIN values
<1> DEFINE D == DOMAIN values
           n == Cardinality(D)
           T == {h \in n .. 2 * n : h \notin D}
<1>1. n \in Nat
  BY FS_CardinalityType
<1> HIDE DEF n, D
<1>2. IsFiniteSet(n .. 2 * n) /\ Cardinality(n .. 2 * n) = n + 1
  <2>1. n \in Int /\ 2 * n \in Int /\ ~ (n > 2 * n) /\ 2 * n - n + 1 = n + 1
    BY <1>1
  <2>2. /\ IsFiniteSet(n .. 2 * n)
        /\ Cardinality(n .. 2 * n) = IF n > 2 * n THEN 0 ELSE 2 * n - n + 1
    BY <2>1, FS_Interval
  <2> QED BY <2>1, <2>2
<1>3. ASSUME n .. 2 * n \subseteq D PROVE FALSE
  <2>1. Cardinality(n .. 2 * n) <= n
    BY <1>3, FS_Subset DEF n, D
  <2> QED BY <1>1, <1>2, <2>1
<1>4. T # {} /\ T \in SUBSET Nat
  BY <1>1, <1>3
<1>5. PICK k \in T : \A j \in T : j >= k
  BY <1>4, SmallestNumber
<1>6. k \in n .. 2 * n /\ k \notin D
  BY <1>5
<1>7. \A x \in n .. k - 1 : x \in D
  BY <1>1, <1>5, <1>6
<1>8. \E h \in n .. 2 * n : h \notin D /\ \A x \in n .. h - 1 : x \in D
  BY <1>6, <1>7
<1> QED BY <1>8 DEF NewHandle, n, D

(* clone finds a new cell for every handle.                                *)
LEMMA NewCellsAreNew ==
  ASSUME IsFiniteSet(DOMAIN heap),
         \A h \in DOMAIN values : values[h] \in DOMAIN heap,
         \A g, h \in DOMAIN values : values[g] = values[h] => g = h
  PROVE  /\ DOMAIN NewCells = DOMAIN values /\ IsFiniteSet(Range(NewCells))
         /\ \A h \in DOMAIN values : NewCells[h] \notin DOMAIN heap
         /\ \A g, h \in DOMAIN values : NewCells[g] = NewCells[h] => g = h
<1> DEFINE D == DOMAIN values
           H == DOMAIN heap
           c == Cardinality(H)
           U == (0 .. 2 * c) \ H
           v == [h \in D |-> values[h]]
<1>1. c \in Nat
  BY FS_CardinalityType
<1>2. v \in Injection(D, H)
  BY DEF Injection, IsInjective
<1> HIDE DEF v
<1>3. IsFiniteSet(D) /\ Cardinality(D) <= c
  BY <1>2, FS_Injection
<1>4. Cardinality(D) \in Nat
  BY <1>3, FS_CardinalityType
<1> HIDE DEF D, H, c
<1>5. IsFiniteSet(0 .. 2 * c) /\ Cardinality(0 .. 2 * c) = 2 * c + 1
  <2>1. 0 \in Int /\ 2 * c \in Int /\ ~ (0 > 2 * c) /\ 2 * c - 0 + 1 = 2 * c + 1
    BY <1>1
  <2>2. /\ IsFiniteSet(0 .. 2 * c)
        /\ Cardinality(0 .. 2 * c) = IF 0 > 2 * c THEN 0 ELSE 2 * c - 0 + 1
    BY <2>1, FS_Interval
  <2> QED BY <2>1, <2>2
<1>6. /\ IsFiniteSet(U)
      /\ Cardinality(U) = Cardinality(0 .. 2 * c) - Cardinality((0 .. 2 * c) \cap H)
  BY <1>5, FS_Difference
<1>7. IsFiniteSet((0 .. 2 * c) \cap H) /\ Cardinality((0 .. 2 * c) \cap H) <= c
  <2>1. IsFiniteSet(H) /\ (0 .. 2 * c) \cap H \in SUBSET H
    BY DEF H
  <2> QED BY <2>1, FS_Subset DEF c
<1>8. Cardinality((0 .. 2 * c) \cap H) \in Nat
  BY <1>7, FS_CardinalityType
<1>9. Cardinality(U) \in Nat /\ Cardinality(D) <= Cardinality(U)
  BY <1>1, <1>3, <1>4, <1>5, <1>6, <1>7, <1>8
<1> DEFINE d == Cardinality(D)
           u == Cardinality(U)
<1>10. IsFiniteSet(1 .. d) /\ Cardinality(1 .. d) = d
  <2>1. IsFiniteSet(1 .. d) /\ Cardinality(1 .. d) = IF 1 > d THEN 0 ELSE d - 1 + 1
    BY <1>4, FS_Interval
  <2> QED BY <1>4, <2>1
<1>11. ExistsBijection(D, 1 .. d)
  BY <1>3, <1>10, FS_SameCardinalityBij
<1>12. PICK a \in Bijection(D, 1 .. d) : TRUE
  BY <1>11 DEF ExistsBijection
<1>13. PICK b \in Bijection(1 .. u, U) : TRUE
  BY <1>6, FS_CardinalityType DEF ExistsBijection
<1>14. a \in [D -> 1 .. d] /\ \A g, h \in D : a[g] = a[h] => g = h
  BY <1>12 DEF Bijection, Injection, IsInjective
<1>15. b \in [1 .. u -> U] /\ \A i, j \in 1 .. u : b[i] = b[j] => i = j
  BY <1>13 DEF Bijection, Injection, IsInjective
<1>16. 1 .. d \subseteq 1 .. u
  BY <1>4, <1>9
<1> DEFINE f == [h \in D |-> b[a[h]]]
<1> HIDE DEF d, u
<1>17. f \in [D -> 0 .. 2 * c] /\ \A h \in D : f[h] \notin H
  <2>1. \A h \in D : b[a[h]] \in U
    BY <1>14, <1>15, <1>16
  <2> QED BY <2>1
<1>18. \A g, h \in D : f[g] = f[h] => g = h
  BY <1>14, <1>15, <1>16
<1> DEFINE New(x) == /\ \A h \in D : x[h] \notin H
                     /\ \A g, h \in D : x[g] = x[h] => g = h
<1>19. New(f)
  BY <1>17, <1>18
<1> HIDE DEF f
<1>20. \E x \in [D -> 0 .. 2 * c] : New(x)
  BY <1>17, <1>19
<1>21. NewCells = CHOOSE x \in [D -> 0 .. 2 * c] : New(x)
  BY DEF NewCells, D, H, c
<1>22. NewCells \in [D -> 0 .. 2 * c] /\ New(NewCells)
  BY <1>20, <1>21, Zenon
<1>23. Range(NewCells) \in SUBSET (0 .. 2 * c)
  BY <1>22 DEF Range
<1>24. IsFiniteSet(Range(NewCells))
  BY <1>5, <1>23, FS_Subset
<1> QED BY <1>22, <1>24 DEF D, H

-----------------------------------------------------------------------------
(* Hooks: missing handles are created, one number may change.              *)

(* State t has the handles and cells of s and perhaps new ones, with 0.    *)
Grown(s, t, st) ==
  /\ t = [values |-> t.values, heap |-> t.heap]
  /\ Sound(t.values, t.heap, st)
  /\ DOMAIN s.values \subseteq DOMAIN t.values
  /\ \A x \in DOMAIN s.values : t.values[x] = s.values[x]
  /\ DOMAIN s.heap \subseteq DOMAIN t.heap
  /\ \A p \in DOMAIN s.heap : t.heap[p] = s.heap[p]
  /\ \A x \in DOMAIN t.values \ DOMAIN s.values : t.heap[t.values[x]] = 0

(* The maps of the calls in progress and the active one.                   *)
LEMMA MapsAre ==
  ASSUME NEW st, Len(st) \in Nat, NEW vs
  PROVE  /\ Len(st) + 1 \in 1 .. Len(st) + 1 /\ MapOf(vs, st, Len(st) + 1) = vs
         /\ \A i \in 1 .. Len(st) : i \in 1 .. Len(st) + 1 /\ MapOf(vs, st, i) = st[i].values
         /\ \A i \in 1 .. Len(st) + 1 : i \in 1 .. Len(st) \/ i = Len(st) + 1
  BY DEF MapOf

(* Separate, one kind of pairs at a time.                                  *)
LEMMA SeparateParts ==
  ASSUME NEW st, Len(st) \in Nat, NEW vs
  PROVE  Separate(vs, st) <=>
           /\ \A g, h \in DOMAIN vs : vs[g] = vs[h] => g = h
           /\ \A i \in 1 .. Len(st) : \A g \in DOMAIN st[i].values, h \in DOMAIN vs :
                st[i].values[g] # vs[h]
           /\ \A i, j \in 1 .. Len(st) :
                \A g \in DOMAIN st[i].values, h \in DOMAIN st[j].values :
                  st[i].values[g] = st[j].values[h] => i = j /\ g = h
<1> DEFINE n == Len(st) + 1
           M(i) == MapOf(vs, st, i)
<1>1. /\ n \in 1 .. n /\ M(n) = vs
      /\ \A i \in 1 .. Len(st) : i \in 1 .. n /\ M(i) = st[i].values
      /\ \A i \in 1 .. n : i \in 1 .. Len(st) \/ i = n
  BY MapsAre
<1>2. \A i \in 1 .. Len(st) : i # n
  OBVIOUS
<1>3. Separate(vs, st) <=>
        \A i, j \in 1 .. n : \A g \in DOMAIN M(i), h \in DOMAIN M(j) :
          M(i)[g] = M(j)[h] => i = j /\ g = h
  BY DEF Separate
<1> HIDE DEF n, M
<1>4. ASSUME Separate(vs, st)
      PROVE  /\ \A g, h \in DOMAIN vs : vs[g] = vs[h] => g = h
             /\ \A i \in 1 .. Len(st) : \A g \in DOMAIN st[i].values, h \in DOMAIN vs :
                  st[i].values[g] # vs[h]
             /\ \A i, j \in 1 .. Len(st) :
                  \A g \in DOMAIN st[i].values, h \in DOMAIN st[j].values :
                    st[i].values[g] = st[j].values[h] => i = j /\ g = h
  <2>1. \A g, h \in DOMAIN vs : vs[g] = vs[h] => g = h
    BY <1>1, <1>3, <1>4
  <2>2. \A i \in 1 .. Len(st) : \A g \in DOMAIN st[i].values, h \in DOMAIN vs :
          st[i].values[g] # vs[h]
    BY <1>1, <1>2, <1>3, <1>4
  <2>3. \A i, j \in 1 .. Len(st) :
          \A g \in DOMAIN st[i].values, h \in DOMAIN st[j].values :
            st[i].values[g] = st[j].values[h] => i = j /\ g = h
    BY <1>1, <1>3, <1>4
  <2> QED BY <2>1, <2>2, <2>3
<1>5. ASSUME \A g, h \in DOMAIN vs : vs[g] = vs[h] => g = h,
             \A i \in 1 .. Len(st) : \A g \in DOMAIN st[i].values, h \in DOMAIN vs :
               st[i].values[g] # vs[h],
             \A i, j \in 1 .. Len(st) :
               \A g \in DOMAIN st[i].values, h \in DOMAIN st[j].values :
                 st[i].values[g] = st[j].values[h] => i = j /\ g = h
      PROVE  Separate(vs, st)
  <2> SUFFICES ASSUME NEW i \in 1 .. n, NEW j \in 1 .. n, NEW g \in DOMAIN M(i),
                      NEW h \in DOMAIN M(j), M(i)[g] = M(j)[h]
               PROVE  i = j /\ g = h
    BY <1>3
  <2>1. CASE i = n /\ j = n
    BY <1>1, <1>5, <2>1
  <2>2. CASE i = n /\ j \in 1 .. Len(st)
    BY <1>1, <1>5, <2>2
  <2>3. CASE i \in 1 .. Len(st) /\ j = n
    BY <1>1, <1>5, <2>3
  <2>4. CASE i \in 1 .. Len(st) /\ j \in 1 .. Len(st)
    BY <1>1, <1>5, <2>4
  <2> QED BY <1>1, <2>1, <2>2, <2>3, <2>4
<1> QED BY <1>4, <1>5

(* Every handle has a cell in the heap.                                    *)
LEMMA CellsExist ==
  ASSUME NEW st, IsSequence(st), NEW vs, NEW hp, Sound(vs, hp, st)
  PROVE  /\ \A h \in DOMAIN vs : vs[h] \in Reachable(vs, st) /\ vs[h] \in DOMAIN hp
         /\ \A i \in 1 .. Len(st) : \A h \in DOMAIN st[i].values :
              st[i].values[h] \in Reachable(vs, st) /\ st[i].values[h] \in DOMAIN hp
         /\ \A g, h \in DOMAIN vs : vs[g] = vs[h] => g = h
         /\ \A i \in 1 .. Len(st) : \A g \in DOMAIN st[i].values, h \in DOMAIN vs :
              st[i].values[g] # vs[h]
<1> DEFINE n == Len(st) + 1
<1>1. Len(st) \in Nat /\ DOMAIN st = 1 .. Len(st)
  BY SequenceDomain
<1>2. /\ n \in 1 .. n /\ MapOf(vs, st, n) = vs
      /\ \A i \in 1 .. Len(st) : i \in 1 .. n /\ MapOf(vs, st, i) = st[i].values
  BY <1>1, MapsAre
<1>3. \A i \in 1 .. n : \A h \in DOMAIN MapOf(vs, st, i) : MapOf(vs, st, i)[h] \in Reachable(vs, st)
  BY <1>1, ReachableCells
<1>4. Reachable(vs, st) \subseteq DOMAIN hp /\ Separate(vs, st)
  BY DEF Sound
<1> HIDE DEF n
<1>5. \A h \in DOMAIN vs : vs[h] \in Reachable(vs, st)
  BY <1>2, <1>3
<1>6. \A i \in 1 .. Len(st) : \A h \in DOMAIN st[i].values : st[i].values[h] \in Reachable(vs, st)
  BY <1>2, <1>3
<1>7. /\ \A g, h \in DOMAIN vs : vs[g] = vs[h] => g = h
      /\ \A i \in 1 .. Len(st) : \A g \in DOMAIN st[i].values, h \in DOMAIN vs :
           st[i].values[g] # vs[h]
  BY <1>1, <1>4, SeparateParts
<1> QED BY <1>4, <1>5, <1>6, <1>7

(* A new cell for a new handle keeps the maps separate.                    *)
LEMMA OneMoreHandle ==
  ASSUME NEW st, IsSequence(st), NEW vs, NEW hp, Sound(vs, hp, st),
         NEW h, h \notin DOMAIN vs, NEW p, p \notin DOMAIN hp
  PROVE  LET vs2 == [x \in DOMAIN vs \cup {h} |-> IF x = h THEN p ELSE vs[x]]
             hp2 == [x \in DOMAIN hp \cup {p} |-> IF x = p THEN 0 ELSE hp[x]]
         IN  Sound(vs2, hp2, st)
<1> DEFINE vs2 == [x \in DOMAIN vs \cup {h} |-> IF x = h THEN p ELSE vs[x]]
           hp2 == [x \in DOMAIN hp \cup {p} |-> IF x = p THEN 0 ELSE hp[x]]
           n == Len(st) + 1
<1>1. Len(st) \in Nat /\ DOMAIN st = 1 .. Len(st)
  BY SequenceDomain
<1>2. /\ \A x \in DOMAIN vs : vs[x] \in DOMAIN hp
      /\ \A i \in 1 .. Len(st) : \A x \in DOMAIN st[i].values : st[i].values[x] \in DOMAIN hp
      /\ \A x, y \in DOMAIN vs : vs[x] = vs[y] => x = y
      /\ \A i \in 1 .. Len(st) : \A x \in DOMAIN st[i].values, y \in DOMAIN vs :
           st[i].values[x] # vs[y]
  BY CellsExist
<1>3. /\ MapOf(vs, st, n) = vs /\ MapOf(vs2, st, n) = vs2
      /\ \A i \in 1 .. Len(st) : i \in 1 .. n /\ MapOf(vs, st, i) = st[i].values
                                 /\ MapOf(vs2, st, i) = st[i].values
      /\ \A i \in 1 .. n : i \in 1 .. Len(st) \/ i = n
  BY <1>1, MapsAre
<1>4. IsFiniteSet(DOMAIN hp2)
  <2>1. DOMAIN hp2 = DOMAIN hp \cup {p} /\ IsFiniteSet(DOMAIN hp)
    BY DEF Sound
  <2> QED BY <2>1, FS_AddElement
<1>5. Reachable(vs2, st) \subseteq DOMAIN hp2
  <2> SUFFICES ASSUME NEW q \in Reachable(vs2, st) PROVE q \in DOMAIN hp \cup {p}
    OBVIOUS
  <2>1. PICK i \in 1 .. n : \E x \in DOMAIN MapOf(vs2, st, i) : q = MapOf(vs2, st, i)[x]
    BY <1>1, ReachableCells
  <2>2. CASE i = n
    <3>1. \E x \in DOMAIN vs2 : q = vs2[x]
      BY <1>3, <2>1, <2>2
    <3> QED BY <1>2, <3>1
  <2>3. CASE i \in 1 .. Len(st)
    <3>1. MapOf(vs2, st, i) = st[i].values
      BY <1>3, <2>3
    <3>2. \E x \in DOMAIN st[i].values : q = st[i].values[x]
      BY <2>1, <3>1
    <3> QED BY <1>2, <2>3, <3>2
  <2> QED BY <1>3, <2>2, <2>3
<1>6. \A x, y \in DOMAIN vs2 : vs2[x] = vs2[y] => x = y
  BY <1>2
<1>7. \A i \in 1 .. Len(st) : \A x \in DOMAIN st[i].values, y \in DOMAIN vs2 :
        st[i].values[x] # vs2[y]
  BY <1>2
<1>8. \A i, j \in 1 .. Len(st) :
        \A x \in DOMAIN st[i].values, y \in DOMAIN st[j].values :
          st[i].values[x] = st[j].values[y] => i = j /\ x = y
  BY <1>1, SeparateParts DEF Sound
<1> HIDE DEF vs2, hp2
<1>9. Separate(vs2, st)
  BY <1>1, <1>6, <1>7, <1>8, SeparateParts
<1> QED BY <1>4, <1>5, <1>9 DEF Sound, vs2, hp2

(* GetOne adds at most the handle that was asked for.                      *)
LEMMA GetOneGrows ==
  ASSUME NEW st, IsSequence(st), NEW s, s = [values |-> s.values, heap |-> s.heap],
         Sound(s.values, s.heap, st), NEW h
  PROVE  Grown(s, GetOne(s, h), st) /\ h \in DOMAIN GetOne(s, h).values
<1>1. CASE h \in DOMAIN s.values
  <2>1. GetOne(s, h) = s
    BY <1>1 DEF GetOne
  <2> QED BY <1>1, <2>1 DEF Grown
<1>2. CASE h \notin DOMAIN s.values
  <2> DEFINE vs == s.values
             hp == s.heap
             p == FreshCell(DOMAIN hp)
             vs2 == [x \in DOMAIN vs \cup {h} |-> IF x = h THEN p ELSE vs[x]]
             hp2 == [x \in DOMAIN hp \cup {p} |-> IF x = p THEN 0 ELSE hp[x]]
             t == GetOne(s, h)
  <2>1. t = [values |-> vs2, heap |-> hp2]
    BY <1>2 DEF GetOne
  <2>2. p \notin DOMAIN hp
    BY FreshCellIsNew DEF Sound
  <2> HIDE DEF p
  <2>3. Sound(vs2, hp2, st)
    BY <1>2, <2>2, OneMoreHandle
  <2>4. /\ DOMAIN vs \subseteq DOMAIN vs2 /\ \A x \in DOMAIN vs : vs2[x] = vs[x]
        /\ DOMAIN hp \subseteq DOMAIN hp2 /\ \A q \in DOMAIN hp : hp2[q] = hp[q]
        /\ \A x \in DOMAIN vs2 \ DOMAIN vs : hp2[vs2[x]] = 0
        /\ h \in DOMAIN vs2
    BY <1>2, <2>2
  <2> HIDE DEF vs2, hp2, t
  <2>5. t.values = vs2 /\ t.heap = hp2
    BY <2>1
  <2>6. Grown(s, t, st) /\ h \in DOMAIN t.values
    BY <2>1, <2>3, <2>4, <2>5 DEF Grown
  <2> QED BY <2>6 DEF t
<1> QED BY <1>1, <1>2

(* Growing twice is growing.                                               *)
LEMMA GrowsTwice ==
  ASSUME NEW st, IsSequence(st), NEW s, NEW t, NEW u, Grown(s, t, st), Grown(t, u, st)
  PROVE  Grown(s, u, st)
<1>1. \A x \in DOMAIN t.values : t.values[x] \in DOMAIN t.heap
  BY CellsExist DEF Grown
<1>2. \A x \in DOMAIN u.values \ DOMAIN s.values : u.heap[u.values[x]] = 0
  BY <1>1 DEF Grown
<1> QED BY <1>2 DEF Grown

(* GetTwo and GetThree add at most the handles that were asked for.        *)
LEMMA GetTwoGrows ==
  ASSUME NEW st, IsSequence(st), NEW s, s = [values |-> s.values, heap |-> s.heap],
         Sound(s.values, s.heap, st), NEW g, NEW h
  PROVE  /\ Grown(s, GetTwo(s, g, h), st)
         /\ g \in DOMAIN GetTwo(s, g, h).values /\ h \in DOMAIN GetTwo(s, g, h).values
<1> DEFINE t == GetOne(s, g)
           u == GetOne(t, h)
<1>1. Grown(s, t, st) /\ g \in DOMAIN t.values
  BY GetOneGrows
<1> HIDE DEF t
<1>2. Grown(t, u, st) /\ h \in DOMAIN u.values
  BY <1>1, GetOneGrows DEF Grown
<1> HIDE DEF u
<1>3. Grown(s, u, st) /\ g \in DOMAIN u.values /\ h \in DOMAIN u.values
  <2>1. g \in DOMAIN u.values
    BY <1>1, <1>2 DEF Grown
  <2> QED BY <1>1, <1>2, <2>1, GrowsTwice
<1>4. GetTwo(s, g, h) = u
  BY DEF GetTwo, t, u
<1> QED BY <1>3, <1>4

LEMMA GetThreeGrows ==
  ASSUME NEW st, IsSequence(st), NEW s, s = [values |-> s.values, heap |-> s.heap],
         Sound(s.values, s.heap, st), NEW d, NEW g, NEW h
  PROVE  /\ Grown(s, GetThree(s, d, g, h), st) /\ d \in DOMAIN GetThree(s, d, g, h).values
<1> DEFINE t == GetTwo(s, d, g)
           u == GetOne(t, h)
<1>1. Grown(s, t, st) /\ d \in DOMAIN t.values
  BY GetTwoGrows
<1> HIDE DEF t
<1>2. Grown(t, u, st)
  BY <1>1, GetOneGrows DEF Grown
<1> HIDE DEF u
<1>3. Grown(s, u, st) /\ d \in DOMAIN u.values
  <2>1. d \in DOMAIN u.values
    BY <1>1, <1>2 DEF Grown
  <2> QED BY <1>1, <1>2, <2>1, GrowsTwice
<1>4. GetThree(s, d, g, h) = u
  BY DEF GetThree, t, u
<1> QED BY <1>3, <1>4

(* Sound and Exact, the active map and those of the calls apart.           *)
LEMMA SoundParts ==
  ASSUME NEW st, IsSequence(st), NEW vs, NEW hp
  PROVE  Sound(vs, hp, st) <=>
           /\ IsFiniteSet(DOMAIN hp)
           /\ \A h \in DOMAIN vs : vs[h] \in DOMAIN hp
           /\ \A i \in 1 .. Len(st) : \A h \in DOMAIN st[i].values : st[i].values[h] \in DOMAIN hp
           /\ \A g, h \in DOMAIN vs : vs[g] = vs[h] => g = h
           /\ \A i \in 1 .. Len(st) : \A g \in DOMAIN st[i].values, h \in DOMAIN vs :
                st[i].values[g] # vs[h]
           /\ \A i, j \in 1 .. Len(st) :
                \A g \in DOMAIN st[i].values, h \in DOMAIN st[j].values :
                  st[i].values[g] = st[j].values[h] => i = j /\ g = h
<1> DEFINE Cells == /\ \A h \in DOMAIN vs : vs[h] \in DOMAIN hp
                    /\ \A i \in 1 .. Len(st) : \A h \in DOMAIN st[i].values :
                         st[i].values[h] \in DOMAIN hp
           Apart == /\ \A g, h \in DOMAIN vs : vs[g] = vs[h] => g = h
                    /\ \A i \in 1 .. Len(st) : \A g \in DOMAIN st[i].values, h \in DOMAIN vs :
                         st[i].values[g] # vs[h]
                    /\ \A i, j \in 1 .. Len(st) :
                         \A g \in DOMAIN st[i].values, h \in DOMAIN st[j].values :
                           st[i].values[g] = st[j].values[h] => i = j /\ g = h
<1>1. Len(st) \in Nat /\ DOMAIN st = 1 .. Len(st)
  BY SequenceDomain
<1>2. Separate(vs, st) <=> Apart
  BY <1>1, SeparateParts
<1>3. Sound(vs, hp, st) => Cells
  BY CellsExist
<1>4. Cells => Reachable(vs, st) \subseteq DOMAIN hp
  <2> SUFFICES ASSUME Cells, NEW p \in Reachable(vs, st) PROVE p \in DOMAIN hp
    OBVIOUS
  <2>1. PICK i \in 1 .. Len(st) + 1 : \E x \in DOMAIN MapOf(vs, st, i) : p = MapOf(vs, st, i)[x]
    BY <1>1, ReachableCells
  <2>2. CASE i = Len(st) + 1
    <3>1. MapOf(vs, st, i) = vs
      BY <2>2 DEF MapOf
    <3> QED BY <2>1, <3>1
  <2>3. CASE i \in 1 .. Len(st)
    <3>1. MapOf(vs, st, i) = st[i].values
      BY <1>1, <2>3, MapsAre
    <3> QED BY <2>1, <2>3, <3>1
  <2> QED BY <1>1, <2>2, <2>3
<1> HIDE DEF Cells, Apart
<1>5. Sound(vs, hp, st) <=> IsFiniteSet(DOMAIN hp) /\ Cells /\ Apart
  BY <1>2, <1>3, <1>4 DEF Sound
<1> QED BY <1>5 DEF Cells, Apart

LEMMA ExactParts ==
  ASSUME NEW st, IsSequence(st), NEW vs, NEW hp, NEW ex
  PROVE  Exact(vs, hp, st, ex) <=>
           /\ DOMAIN vs = DOMAIN ex /\ \A h \in DOMAIN vs : hp[vs[h]] = ex[h]
           /\ \A i \in 1 .. Len(st) :
                /\ DOMAIN st[i].values = DOMAIN st[i].expect
                /\ \A h \in DOMAIN st[i].values : hp[st[i].values[h]] = st[i].expect[h]
<1> DEFINE n == Len(st) + 1
           E(i) == /\ DOMAIN MapOf(vs, st, i) = DOMAIN NumbersOf(ex, st, i)
                   /\ \A h \in DOMAIN MapOf(vs, st, i) :
                        hp[MapOf(vs, st, i)[h]] = NumbersOf(ex, st, i)[h]
           F(i) == /\ DOMAIN st[i].values = DOMAIN st[i].expect
                   /\ \A h \in DOMAIN st[i].values : hp[st[i].values[h]] = st[i].expect[h]
<1>1. Len(st) \in Nat
  BY SequenceDomain
<1>2. Exact(vs, hp, st, ex) <=> \A i \in 1 .. n : E(i)
  BY DEF Exact
<1>3. E(n) <=> DOMAIN vs = DOMAIN ex /\ \A h \in DOMAIN vs : hp[vs[h]] = ex[h]
  BY DEF MapOf, NumbersOf
<1>4. ASSUME NEW i \in 1 .. Len(st) PROVE E(i) <=> F(i)
  <2>1. i # n
    BY <1>1
  <2>2. MapOf(vs, st, i) = st[i].values /\ NumbersOf(ex, st, i) = st[i].expect
    BY <2>1 DEF MapOf, NumbersOf
  <2> QED BY <2>2
<1>5. 1 .. n = (1 .. Len(st)) \cup {n}
  BY <1>1
<1> HIDE DEF n, E, F
<1>6. (\A i \in 1 .. n : E(i)) <=> E(n) /\ \A i \in 1 .. Len(st) : F(i)
  BY <1>4, <1>5
<1> QED BY <1>2, <1>3, <1>6 DEF F

(* Forgetting the cells that nothing points to changes no number.          *)
LEMMA CollectedIsGood ==
  ASSUME NEW st, IsSequence(st), NEW vs, NEW hp, NEW ex,
         Sound(vs, hp, st), Exact(vs, hp, st, ex)
  PROVE  GoodNumbers(vs, Collected(hp, vs, st), st, ex)
<1> DEFINE c == Collected(hp, vs, st)
<1>1. DOMAIN c = Reachable(vs, st) /\ \A p \in Reachable(vs, st) : c[p] = hp[p]
  BY DEF Collected
<1> HIDE DEF c
<1>2. Sound(vs, c, st)
  <2>1. IsFiniteSet(DOMAIN c)
    BY <1>1, FS_Subset DEF Sound
  <2> QED BY <1>1, <2>1 DEF Sound
<1>3. /\ \A h \in DOMAIN vs : vs[h] \in Reachable(vs, st)
      /\ \A i \in 1 .. Len(st) : \A h \in DOMAIN st[i].values :
           st[i].values[h] \in Reachable(vs, st)
  BY CellsExist
<1>4. /\ DOMAIN vs = DOMAIN ex /\ \A h \in DOMAIN vs : c[vs[h]] = ex[h]
      /\ \A i \in 1 .. Len(st) :
           /\ DOMAIN st[i].values = DOMAIN st[i].expect
           /\ \A h \in DOMAIN st[i].values : c[st[i].values[h]] = st[i].expect[h]
  BY <1>1, <1>3, ExactParts
<1>5. Exact(vs, c, st, ex)
  BY <1>4, ExactParts
<1> QED BY <1>2, <1>5 DEF GoodNumbers, c

(* A number that changes in place changes for its handle only.             *)
LEMMA ChangeOne ==
  ASSUME NEW st, NEW vs, NEW hp, NEW ex, GoodNumbers(vs, hp, st, ex),
         NEW t, Grown([values |-> vs, heap |-> hp], t, st), NEW h \in DOMAIN t.values, NEW n
  PROVE  LET hp2 == [t.heap EXCEPT ![t.values[h]] = n]
             ex2 == [x \in DOMAIN t.values |->
                       IF x = h THEN n ELSE IF x \in DOMAIN ex THEN ex[x] ELSE 0]
         IN  /\ Sound(t.values, hp2, st) /\ Exact(t.values, hp2, st, ex2)
             /\ \A x \in DOMAIN vs \ {h} : hp2[t.values[x]] = hp[vs[x]]
<1> DEFINE ws == t.values
           hp2 == [t.heap EXCEPT ![ws[h]] = n]
           ex2 == [x \in DOMAIN ws |->
                     IF x = h THEN n ELSE IF x \in DOMAIN ex THEN ex[x] ELSE 0]
<1>1. IsSequence(st) /\ Sound(vs, hp, st) /\ Exact(vs, hp, st, ex)
  BY DEF GoodNumbers
<1>2. /\ Sound(ws, t.heap, st) /\ DOMAIN vs \subseteq DOMAIN ws
      /\ \A x \in DOMAIN vs : ws[x] = vs[x]
      /\ \A p \in DOMAIN hp : t.heap[p] = hp[p]
      /\ \A x \in DOMAIN ws \ DOMAIN vs : t.heap[ws[x]] = 0
  BY DEF Grown
<1>3. DOMAIN hp2 = DOMAIN t.heap
      /\ \A p \in DOMAIN t.heap : hp2[p] = IF p = ws[h] THEN n ELSE t.heap[p]
  OBVIOUS
<1>4. DOMAIN ex2 = DOMAIN ws
      /\ \A x \in DOMAIN ws :
           ex2[x] = IF x = h THEN n ELSE IF x \in DOMAIN ex THEN ex[x] ELSE 0
  OBVIOUS
<1> HIDE DEF hp2, ex2
<1>5. Sound(ws, hp2, st)
  BY <1>2, <1>3 DEF Sound
<1>6. /\ \A x \in DOMAIN ws : ws[x] \in DOMAIN t.heap
      /\ \A i \in 1 .. Len(st) : \A x \in DOMAIN st[i].values : st[i].values[x] \in DOMAIN t.heap
      /\ \A x, y \in DOMAIN ws : ws[x] = ws[y] => x = y
      /\ \A i \in 1 .. Len(st) : \A x \in DOMAIN st[i].values, y \in DOMAIN ws :
           st[i].values[x] # ws[y]
  BY <1>1, <1>2, CellsExist
<1>7. /\ \A x \in DOMAIN vs : vs[x] \in DOMAIN hp
      /\ \A i \in 1 .. Len(st) : \A x \in DOMAIN st[i].values : st[i].values[x] \in DOMAIN hp
  BY <1>1, CellsExist
<1>8. /\ DOMAIN vs = DOMAIN ex /\ \A x \in DOMAIN vs : hp[vs[x]] = ex[x]
      /\ \A i \in 1 .. Len(st) :
           /\ DOMAIN st[i].values = DOMAIN st[i].expect
           /\ \A x \in DOMAIN st[i].values : hp[st[i].values[x]] = st[i].expect[x]
  BY <1>1, ExactParts
<1>9. \A x \in DOMAIN vs \ {h} : hp2[ws[x]] = hp[vs[x]]
  <2> SUFFICES ASSUME NEW x \in DOMAIN vs \ {h} PROVE hp2[ws[x]] = hp[vs[x]]
    OBVIOUS
  <2>1. x \in DOMAIN ws /\ ws[x] # ws[h] /\ ws[x] \in DOMAIN t.heap
    BY <1>2, <1>6
  <2>2. hp2[ws[x]] = t.heap[ws[x]]
    BY <1>3, <2>1
  <2> QED BY <1>2, <1>7, <2>2
<1>10. \A x \in DOMAIN ws : hp2[ws[x]] = ex2[x]
  <2> SUFFICES ASSUME NEW x \in DOMAIN ws PROVE hp2[ws[x]] = ex2[x]
    OBVIOUS
  <2>1. CASE x = h
    BY <1>3, <1>4, <1>6, <2>1
  <2>2. CASE x # h /\ x \in DOMAIN vs
    BY <1>4, <1>8, <1>9, <2>2
  <2>3. CASE x # h /\ x \notin DOMAIN vs
    <3>1. hp2[ws[x]] = t.heap[ws[x]]
      BY <1>3, <1>6, <2>3
    <3> QED BY <1>2, <1>4, <1>8, <2>3, <3>1
  <2> QED BY <2>1, <2>2, <2>3
<1>11. \A i \in 1 .. Len(st) : \A x \in DOMAIN st[i].values :
         hp2[st[i].values[x]] = st[i].expect[x]
  <2> SUFFICES ASSUME NEW i \in 1 .. Len(st), NEW x \in DOMAIN st[i].values
               PROVE  hp2[st[i].values[x]] = st[i].expect[x]
    OBVIOUS
  <2>1. hp2[st[i].values[x]] = t.heap[st[i].values[x]]
    BY <1>3, <1>6
  <2> QED BY <1>2, <1>7, <1>8, <2>1
<1>12. Exact(ws, hp2, st, ex2)
  BY <1>1, <1>4, <1>8, <1>10, <1>11, ExactParts
<1> QED BY <1>5, <1>9, <1>12 DEF hp2, ex2

(* A hook that only creates the handles that it misses.                    *)
LEMMA ChangeNone ==
  ASSUME NEW st, NEW vs, NEW hp, NEW ex, GoodNumbers(vs, hp, st, ex),
         NEW t, Grown([values |-> vs, heap |-> hp], t, st)
  PROVE  LET ex2 == [x \in DOMAIN t.values |-> IF x \in DOMAIN ex THEN ex[x] ELSE 0]
         IN  Sound(t.values, t.heap, st) /\ Exact(t.values, t.heap, st, ex2)
<1> DEFINE ws == t.values
           ex2 == [x \in DOMAIN ws |-> IF x \in DOMAIN ex THEN ex[x] ELSE 0]
<1>1. IsSequence(st) /\ Sound(vs, hp, st) /\ Exact(vs, hp, st, ex)
  BY DEF GoodNumbers
<1>2. /\ Sound(ws, t.heap, st) /\ DOMAIN vs \subseteq DOMAIN ws
      /\ \A x \in DOMAIN vs : ws[x] = vs[x]
      /\ \A p \in DOMAIN hp : t.heap[p] = hp[p]
      /\ \A x \in DOMAIN ws \ DOMAIN vs : t.heap[ws[x]] = 0
  BY DEF Grown
<1>3. DOMAIN ex2 = DOMAIN ws
      /\ \A x \in DOMAIN ws : ex2[x] = IF x \in DOMAIN ex THEN ex[x] ELSE 0
  OBVIOUS
<1> HIDE DEF ex2
<1>4. /\ \A x \in DOMAIN vs : vs[x] \in DOMAIN hp
      /\ \A i \in 1 .. Len(st) : \A x \in DOMAIN st[i].values : st[i].values[x] \in DOMAIN hp
  BY <1>1, CellsExist
<1>5. /\ DOMAIN vs = DOMAIN ex /\ \A x \in DOMAIN vs : hp[vs[x]] = ex[x]
      /\ \A i \in 1 .. Len(st) :
           /\ DOMAIN st[i].values = DOMAIN st[i].expect
           /\ \A x \in DOMAIN st[i].values : hp[st[i].values[x]] = st[i].expect[x]
  BY <1>1, ExactParts
<1>6. \A x \in DOMAIN ws : t.heap[ws[x]] = ex2[x]
  BY <1>2, <1>3, <1>4, <1>5
<1>7. \A i \in 1 .. Len(st) : \A x \in DOMAIN st[i].values :
         t.heap[st[i].values[x]] = st[i].expect[x]
  BY <1>2, <1>4, <1>5
<1>8. Exact(ws, t.heap, st, ex2)
  BY <1>1, <1>3, <1>5, <1>6, <1>7, ExactParts
<1> QED BY <1>2, <1>8 DEF ex2

-----------------------------------------------------------------------------
(* Steps: hooks.                                                           *)

(* The states in which hooks work.                                         *)
LEMMA HookStates ==
  ASSUME NumbersInv
  PROVE  /\ IsSequence(stack) /\ Grown(Current, Current, stack)
         /\ \A h : /\ Grown(Current, GetOne(Current, h), stack)
                   /\ h \in DOMAIN GetOne(Current, h).values
         /\ \A g, h : /\ Grown(Current, GetTwo(Current, g, h), stack)
                      /\ g \in DOMAIN GetTwo(Current, g, h).values
         /\ \A d, g, h : /\ Grown(Current, GetThree(Current, d, g, h), stack)
                         /\ d \in DOMAIN GetThree(Current, d, g, h).values
<1>1. IsSequence(stack) /\ Sound(values, heap, stack)
  BY DEF NumbersInv, GoodNumbers
<1>2. Current.values = values /\ Current.heap = heap
      /\ Current = [values |-> Current.values, heap |-> Current.heap]
  BY DEF Current
<1>3. Grown(Current, Current, stack)
  BY <1>1, <1>2 DEF Grown
<1>4. \A h : /\ Grown(Current, GetOne(Current, h), stack)
             /\ h \in DOMAIN GetOne(Current, h).values
  BY <1>1, <1>2, GetOneGrows
<1>5. \A g, h : /\ Grown(Current, GetTwo(Current, g, h), stack)
                /\ g \in DOMAIN GetTwo(Current, g, h).values
  BY <1>1, <1>2, GetTwoGrows
<1>6. \A d, g, h : /\ Grown(Current, GetThree(Current, d, g, h), stack)
                   /\ d \in DOMAIN GetThree(Current, d, g, h).values
  BY <1>1, <1>2, GetThreeGrows
<1> QED BY <1>1, <1>3, <1>4, <1>5, <1>6

(* A hook that sets a number.                                              *)
LEMMA AssignKeeps ==
  ASSUME NumbersInv, NEW t, Grown(Current, t, stack), NEW h \in DOMAIN t.values, NEW n,
         Assign(t, h, n)
  PROVE  /\ NumbersInv'
         /\ \A x \in DOMAIN values \ {h} : heap'[values'[x]] = heap[values[x]]
<1> DEFINE hp2 == [t.heap EXCEPT ![t.values[h]] = n]
           ex2 == [x \in DOMAIN t.values |->
                     IF x = h THEN n ELSE IF x \in DOMAIN expect THEN expect[x] ELSE 0]
           new == SetInPlace(t, h, n)
<1>1. t = [values |-> t.values, heap |-> t.heap]
  BY DEF Grown
<1>2. new.values = t.values /\ new.heap = hp2
  BY <1>1 DEF SetInPlace
<1>3. /\ values' = new.values /\ heap' = Collected(new.heap, new.values, stack)
      /\ expect' = [x \in DOMAIN new.values |->
                      IF x = h THEN n
                      ELSE IF x \in DOMAIN expect THEN expect[x] ELSE 0]
      /\ stack' = stack
  BY DEF Assign, Keeps
<1> HIDE DEF new
<1>4. /\ values' = t.values /\ heap' = Collected(hp2, t.values, stack)
      /\ expect' = ex2 /\ stack' = stack
  BY <1>2, <1>3
<1>5. /\ Sound(t.values, hp2, stack) /\ Exact(t.values, hp2, stack, ex2)
      /\ \A x \in DOMAIN values \ {h} : hp2[t.values[x]] = heap[values[x]]
  <2>1. GoodNumbers(values, heap, stack, expect)
    BY DEF NumbersInv
  <2>2. Grown([values |-> values, heap |-> heap], t, stack)
    BY DEF Current
  <2> QED BY <2>1, <2>2, ChangeOne
<1> HIDE DEF hp2, ex2
<1>6. IsSequence(stack)
  BY DEF NumbersInv, GoodNumbers
<1>7. GoodNumbers(t.values, Collected(hp2, t.values, stack), stack, ex2)
  BY <1>5, <1>6, CollectedIsGood
<1>8. NumbersInv'
  BY <1>4, <1>7 DEF NumbersInv
<1>9. \A x \in DOMAIN values \ {h} : heap'[values'[x]] = heap[values[x]]
  <2>1. \A x \in DOMAIN t.values : t.values[x] \in Reachable(t.values, stack)
    BY <1>5, <1>6, CellsExist
  <2>2. DOMAIN values \subseteq DOMAIN t.values
    BY DEF Grown, Current
  <2>3. \A p \in Reachable(t.values, stack) : heap'[p] = hp2[p]
    BY <1>4 DEF Collected
  <2> QED BY <1>4, <1>5, <2>1, <2>2, <2>3
<1> QED BY <1>8, <1>9

(* A hook that sets none.                                                  *)
LEMMA TouchKeeps ==
  ASSUME NumbersInv, NEW t, Grown(Current, t, stack), Touch(t), stack' = stack
  PROVE  NumbersInv'
<1> DEFINE ex2 == [x \in DOMAIN t.values |-> IF x \in DOMAIN expect THEN expect[x] ELSE 0]
<1>1. values' = t.values /\ heap' = Collected(t.heap, t.values, stack) /\ expect' = ex2
  BY DEF Touch
<1>2. Sound(t.values, t.heap, stack) /\ Exact(t.values, t.heap, stack, ex2)
  BY ChangeNone DEF NumbersInv, Current
<1> HIDE DEF ex2
<1>3. GoodNumbers(t.values, Collected(t.heap, t.values, stack), stack, ex2)
  BY <1>2, CollectedIsGood DEF NumbersInv, GoodNumbers
<1> QED BY <1>1, <1>3 DEF NumbersInv

LEMMA ReadOnlyKeeps ==
  ASSUME NumbersInv, NEW t, Grown(Current, t, stack), ReadOnly(t) \/ Fault(t)
  PROVE  NumbersInv'
BY TouchKeeps DEF ReadOnly, Fault, Keeps

(* Nothing changes.                                                        *)
LEMMA NumbersStutter ==
  ASSUME NumbersInv, UNCHANGED <<values, heap, stack, expect>>
  PROVE  NumbersInv'
BY DEF NumbersInv, GoodNumbers, Sound, Exact, IsSequence, Separate, MapOf, NumbersOf, Reachable, Range

(* The hooks on big integers.                                              *)
LEMMA BigIntHookKeeps == ASSUME NumbersInv, BigIntHook PROVE NumbersInv'
<1>1. CASE bigIntNew
  BY <1>1, HookStates, AssignKeeps DEF bigIntNew
<1>2. CASE bigIntSetInt64
  BY <1>2, HookStates, AssignKeeps DEF bigIntSetInt64
<1>3. CASE bigIntGetArgument
  <2>1. CASE ReadOnly(Current)
    BY <2>1, HookStates, ReadOnlyKeeps
  <2>2. CASE UNCHANGED <<values, heap, stack, storage, returned, expect, meant>>
    BY <2>2, NumbersStutter
  <2>3. CASE \E h \in Handles : \E n : Assign(GetOne(Current, h), h, n)
    BY <2>3, HookStates, AssignKeeps
  <2> QED BY <1>3, <2>1, <2>2, <2>3 DEF bigIntGetArgument
<1>4. CASE bigIntGetAmount
  BY <1>4, HookStates, AssignKeeps, ReadOnlyKeeps DEF bigIntGetAmount
<1>5. CASE bigIntSetBytes
  BY <1>5, HookStates, AssignKeeps, ReadOnlyKeeps DEF bigIntSetBytes
<1>6. CASE bigIntRead
  BY <1>6, HookStates, ReadOnlyKeeps DEF bigIntRead
<1>7. CASE bigIntArithmetic
  BY <1>7, HookStates, AssignKeeps DEF bigIntArithmetic
<1>8. CASE bigIntDivide
  BY <1>8, HookStates, AssignKeeps, ReadOnlyKeeps DEF bigIntDivide
<1>9. CASE bigIntUnary
  BY <1>9, HookStates, AssignKeeps DEF bigIntUnary
<1>10. CASE bigIntNot
  BY <1>10, HookStates, AssignKeeps, ReadOnlyKeeps DEF bigIntNot
<1>11. CASE bigIntBitwise
  <2>1. PICK d, x, y : \/ Fault(GetThree(Current, d, x, y))
                       \/ \E n : Assign(GetThree(Current, d, x, y), d, n)
    BY <1>11 DEF bigIntBitwise
  <2> QED BY <2>1, HookStates, AssignKeeps, ReadOnlyKeeps
<1>12. CASE bigIntShift
  BY <1>12, HookStates, AssignKeeps, ReadOnlyKeeps DEF bigIntShift
<1>13. CASE bigIntStorageStoreUnsigned
  BY <1>13, HookStates, TouchKeeps, ReadOnlyKeeps DEF bigIntStorageStoreUnsigned, Store, Keeps
<1>14. CASE bigIntStorageLoadUnsigned
  BY <1>14, HookStates, AssignKeeps DEF bigIntStorageLoadUnsigned
<1>15. CASE bigIntFinishUnsigned
  BY <1>15, HookStates, TouchKeeps DEF bigIntFinishUnsigned, Finish, Keeps
<1>16. CASE bigIntFinishSigned
  BY <1>16, HookStates, TouchKeeps DEF bigIntFinishSigned, Finish, Keeps
<1> QED BY <1>1, <1>2, <1>3, <1>4, <1>5, <1>6, <1>7, <1>8, <1>9, <1>10, <1>11, <1>12,
           <1>13, <1>14, <1>15, <1>16 DEF BigIntHook

(* The hooks on small integers leave the big ones alone.                   *)
LEMMA SmallIntHookKeeps == ASSUME NumbersInv, SmallIntHook PROVE NumbersInv'
<1>1. CASE smallIntFinishUnsigned
  BY <1>1, HookStates, TouchKeeps DEF smallIntFinishUnsigned, Finish, Keeps
<1>2. CASE smallIntFinishSigned
  BY <1>2, HookStates, TouchKeeps DEF smallIntFinishSigned, Finish, Keeps
<1>3. CASE smallIntStorageStoreUnsigned
  BY <1>3, HookStates, TouchKeeps, ReadOnlyKeeps DEF smallIntStorageStoreUnsigned, Store, Keeps
<1>4. CASE smallIntStorageStoreSigned
  BY <1>4, HookStates, TouchKeeps, ReadOnlyKeeps DEF smallIntStorageStoreSigned, Store, Keeps
<1>5. CASE smallIntStorageLoad
  BY <1>5, HookStates, ReadOnlyKeeps DEF smallIntStorageLoad
<1>6. CASE smallIntGetArgument
  BY <1>6, HookStates, ReadOnlyKeeps DEF smallIntGetArgument
<1> QED BY <1>1, <1>2, <1>3, <1>4, <1>5, <1>6 DEF SmallIntHook

-----------------------------------------------------------------------------
(* Steps: calls.                                                           *)

(* Appending a call, and taking the last one away.                         *)
LEMMA CallAppended ==
  ASSUME NEW st, IsSequence(st), NEW f
  PROVE  /\ IsSequence(Append(st, f)) /\ Len(Append(st, f)) = Len(st) + 1
         /\ Append(st, f)[Len(st) + 1] = f
         /\ \A i \in 1 .. Len(st) : Append(st, f)[i] = st[i]
<1>1. PICK S : st \in Seq(S)
  BY DEF IsSequence
<1>2. st \in Seq(S \cup {f}) /\ f \in S \cup {f}
  BY <1>1
<1> QED BY <1>2 DEF IsSequence

LEMMA CallTaken ==
  ASSUME NEW st, IsSequence(st), st # <<>>
  PROVE  /\ IsSequence(Front(st)) /\ Len(st) \in Nat \ {0} /\ Len(Front(st)) = Len(st) - 1
         /\ Last(st) = st[Len(st)]
         /\ \A i \in 1 .. Len(Front(st)) : i \in 1 .. Len(st) /\ i # Len(st) /\ Front(st)[i] = st[i]
<1>1. PICK S : st \in Seq(S)
  BY DEF IsSequence
<1>2. Len(st) \in Nat \ {0}
  BY <1>1
<1> DEFINE n == Len(st) - 1
<1>3. n \in Nat /\ 1 \in Int /\ n \in Int /\ \A i \in 1 .. n : st[i] \in S
  BY <1>1, <1>2
<1>4. /\ SubSeq(st, 1, n) \in Seq(S)
      /\ Len(SubSeq(st, 1, n)) = IF 1 <= n THEN n - 1 + 1 ELSE 0
      /\ \A i \in 1 .. n - 1 + 1 : SubSeq(st, 1, n)[i] = st[1 + i - 1]
  BY <1>3, SubSeqProperties
<1>5. Front(st) = SubSeq(st, 1, n) /\ Last(st) = st[Len(st)]
  BY DEF Front, Last
<1> HIDE DEF n
<1>6. /\ Front(st) \in Seq(S) /\ Len(Front(st)) = n
      /\ \A i \in 1 .. n : Front(st)[i] = st[i]
  BY <1>3, <1>4, <1>5
<1>7. IsSequence(Front(st))
  BY <1>6 DEF IsSequence
<1>8. \A i \in 1 .. n : i \in 1 .. Len(st) /\ i # Len(st)
  BY <1>2 DEF n
<1> QED BY <1>2, <1>5, <1>6, <1>7, <1>8 DEF n

(* clone copies every number to a cell of its own.                         *)
LEMMA CloneCopies ==
  ASSUME NumbersInv
  PROVE  /\ DOMAIN clone.values = DOMAIN values /\ IsFiniteSet(DOMAIN clone.heap)
         /\ DOMAIN heap \subseteq DOMAIN clone.heap
         /\ \A p \in DOMAIN heap : clone.heap[p] = heap[p]
         /\ \A h \in DOMAIN values :
              /\ clone.values[h] \in DOMAIN clone.heap \ DOMAIN heap
              /\ clone.heap[clone.values[h]] = heap[values[h]]
         /\ \A g, h \in DOMAIN values : clone.values[g] = clone.values[h] => g = h
<1> DEFINE cells == NewCells
           hp2 == [p \in DOMAIN heap \cup Range(cells) |->
                     IF p \in DOMAIN heap THEN heap[p]
                     ELSE heap[values[CHOOSE h \in DOMAIN values : cells[h] = p]]]
<1>1. /\ IsFiniteSet(DOMAIN heap)
      /\ \A h \in DOMAIN values : values[h] \in DOMAIN heap
      /\ \A g, h \in DOMAIN values : values[g] = values[h] => g = h
  BY CellsExist DEF NumbersInv, GoodNumbers, Sound
<1>2. /\ DOMAIN cells = DOMAIN values /\ IsFiniteSet(Range(cells))
      /\ \A h \in DOMAIN values : cells[h] \notin DOMAIN heap
      /\ \A g, h \in DOMAIN values : cells[g] = cells[h] => g = h
  BY <1>1, NewCellsAreNew
<1>3. clone.values = cells /\ clone.heap = hp2
  BY DEF clone
<1> HIDE DEF cells
<1>4. \A h \in DOMAIN values : cells[h] \in Range(cells)
  BY <1>2 DEF Range
<1>5. DOMAIN hp2 = DOMAIN heap \cup Range(cells) /\ \A p \in DOMAIN heap : hp2[p] = heap[p]
  OBVIOUS
<1>6. ASSUME NEW h \in DOMAIN values PROVE hp2[cells[h]] = heap[values[h]]
  <2>1. (CHOOSE g \in DOMAIN values : cells[g] = cells[h]) = h
    BY <1>2
  <2>2. hp2[cells[h]] = heap[values[CHOOSE g \in DOMAIN values : cells[g] = cells[h]]]
    BY <1>2, <1>4
  <2> QED BY <2>1, <2>2
<1>7. IsFiniteSet(DOMAIN hp2)
  BY <1>1, <1>2, <1>5, FS_Union
<1> HIDE DEF hp2
<1> QED BY <1>2, <1>3, <1>4, <1>5, <1>6, <1>7

(* A call begins with no big integers or with those of its caller.         *)
LEMMA PushKeeps ==
  ASSUME NumbersInv, NEW kind, PushState(kind)
  PROVE  NumbersInv'
<1> DEFINE f == [kind |-> kind, values |-> clone.values, storage |-> storage,
                 returned |-> returned, expect |-> expect, meant |-> meant]
           st == Append(stack, f)
           vs == IF kind = "dest" THEN <<>> ELSE values
           ex == IF kind = "dest" THEN <<>> ELSE expect
           hp == clone.heap
           n == Len(stack)
<1>1. /\ stack' = st /\ values' = vs /\ heap' = Collected(hp, values', stack') /\ expect' = ex
  BY DEF PushState
<1>2. f.values = clone.values /\ f.expect = expect
  OBVIOUS
<1> HIDE DEF f
<1>3. IsSequence(stack) /\ Sound(values, heap, stack) /\ Exact(values, heap, stack, expect)
  BY DEF NumbersInv, GoodNumbers
<1>4. /\ IsSequence(st) /\ Len(st) = n + 1 /\ st[n + 1] = f
      /\ \A i \in 1 .. n : st[i] = stack[i]
  BY <1>3, CallAppended
<1>5. n \in Nat
  BY <1>3, SequenceDomain
<1> HIDE DEF st, n
<1>6. \A i \in 1 .. Len(st) : i \in 1 .. n \/ i = n + 1
  BY <1>4, <1>5
<1>7. /\ DOMAIN clone.values = DOMAIN values /\ IsFiniteSet(DOMAIN hp)
      /\ DOMAIN heap \subseteq DOMAIN hp
      /\ \A p \in DOMAIN heap : hp[p] = heap[p]
      /\ \A h \in DOMAIN values : /\ clone.values[h] \in DOMAIN hp \ DOMAIN heap
                                  /\ hp[clone.values[h]] = heap[values[h]]
      /\ \A g, h \in DOMAIN values : clone.values[g] = clone.values[h] => g = h
  BY CloneCopies
<1> HIDE DEF hp
<1>8. /\ \A h \in DOMAIN values : values[h] \in DOMAIN heap
      /\ \A i \in 1 .. n : \A h \in DOMAIN stack[i].values : stack[i].values[h] \in DOMAIN heap
      /\ \A g, h \in DOMAIN values : values[g] = values[h] => g = h
      /\ \A i \in 1 .. n : \A g \in DOMAIN stack[i].values, h \in DOMAIN values :
           stack[i].values[g] # values[h]
      /\ \A i, j \in 1 .. n :
           \A g \in DOMAIN stack[i].values, h \in DOMAIN stack[j].values :
             stack[i].values[g] = stack[j].values[h] => i = j /\ g = h
  BY <1>3, SoundParts DEF n
<1>9. /\ DOMAIN values = DOMAIN expect /\ \A h \in DOMAIN values : heap[values[h]] = expect[h]
      /\ \A i \in 1 .. n :
           /\ DOMAIN stack[i].values = DOMAIN stack[i].expect
           /\ \A h \in DOMAIN stack[i].values : heap[stack[i].values[h]] = stack[i].expect[h]
  BY <1>3, ExactParts DEF n
<1>10. DOMAIN vs \subseteq DOMAIN values /\ DOMAIN ex = DOMAIN vs
       /\ \A h \in DOMAIN vs : vs[h] = values[h] /\ ex[h] = expect[h]
  BY <1>9
<1> HIDE DEF vs, ex
<1>11. ASSUME NEW i \in 1 .. n PROVE st[i].values = stack[i].values /\ st[i].expect = stack[i].expect
  BY <1>4
<1>12. st[n + 1].values = clone.values /\ st[n + 1].expect = expect
  BY <1>2, <1>4
<1>13. Sound(vs, hp, st)
  <2>1. \A h \in DOMAIN vs : vs[h] \in DOMAIN hp /\ vs[h] \in DOMAIN heap
    BY <1>7, <1>8, <1>10
  <2>2. \A i \in 1 .. Len(st) : \A h \in DOMAIN st[i].values : st[i].values[h] \in DOMAIN hp
    BY <1>6, <1>7, <1>8, <1>11, <1>12
  <2>3. \A g, h \in DOMAIN vs : vs[g] = vs[h] => g = h
    BY <1>8, <1>10
  <2>4. ASSUME NEW i \in 1 .. Len(st), NEW g \in DOMAIN st[i].values, NEW h \in DOMAIN vs
        PROVE  st[i].values[g] # vs[h]
    <3>1. CASE i \in 1 .. n
      BY <1>8, <1>10, <1>11, <3>1
    <3>2. CASE i = n + 1
      BY <1>7, <1>12, <2>1, <3>2
    <3> QED BY <1>6, <3>1, <3>2
  <2>5. ASSUME NEW i \in 1 .. Len(st), NEW j \in 1 .. Len(st),
               NEW g \in DOMAIN st[i].values, NEW h \in DOMAIN st[j].values,
               st[i].values[g] = st[j].values[h]
        PROVE  i = j /\ g = h
    <3>1. CASE i \in 1 .. n /\ j \in 1 .. n
      BY <1>8, <1>11, <2>5, <3>1
    <3>2. CASE i = n + 1 /\ j = n + 1
      BY <1>7, <1>12, <2>5, <3>2
    <3>3. CASE i \in 1 .. n /\ j = n + 1
      BY <1>7, <1>8, <1>11, <1>12, <2>5, <3>3
    <3>4. CASE i = n + 1 /\ j \in 1 .. n
      BY <1>7, <1>8, <1>11, <1>12, <2>5, <3>4
    <3> QED BY <1>6, <3>1, <3>2, <3>3, <3>4
  <2> QED BY <1>4, <1>7, <2>1, <2>2, <2>3, <2>4, <2>5, SoundParts
<1>14. Exact(vs, hp, st, ex)
  <2>1. \A h \in DOMAIN vs : hp[vs[h]] = ex[h]
    BY <1>7, <1>8, <1>9, <1>10
  <2>2. ASSUME NEW i \in 1 .. Len(st)
        PROVE  /\ DOMAIN st[i].values = DOMAIN st[i].expect
               /\ \A h \in DOMAIN st[i].values : hp[st[i].values[h]] = st[i].expect[h]
    <3>1. CASE i \in 1 .. n
      BY <1>7, <1>8, <1>9, <1>11, <3>1
    <3>2. CASE i = n + 1
      BY <1>7, <1>9, <1>12, <3>2
    <3> QED BY <1>6, <3>1, <3>2
  <2> QED BY <1>4, <1>10, <2>1, <2>2, ExactParts
<1>15. GoodNumbers(vs, Collected(hp, vs, st), st, ex)
  BY <1>4, <1>13, <1>14, CollectedIsGood
<1> QED BY <1>1, <1>15 DEF NumbersInv

(* A call ends: the numbers of its caller are those it pushed, or those    *)
(* of the callee on the same context.                                      *)
LEMMA PopKeeps ==
  ASSUME NumbersInv, stack # <<>>,
         \/ PopSetActiveState /\ expect' = Last(stack).expect
         \/ PopDiscard /\ expect' = expect
  PROVE  NumbersInv'
<1> DEFINE n == Len(stack)
           st == Front(stack)
<1>1. IsSequence(stack) /\ Sound(values, heap, stack) /\ Exact(values, heap, stack, expect)
  BY DEF NumbersInv, GoodNumbers
<1>2. /\ IsSequence(st) /\ n \in Nat \ {0} /\ Len(st) = n - 1 /\ Last(stack) = stack[n]
      /\ \A i \in 1 .. Len(st) : i \in 1 .. n /\ i # n /\ st[i] = stack[i]
  BY <1>1, CallTaken
<1>3. n \in 1 .. n
  BY <1>2
<1>4. /\ IsFiniteSet(DOMAIN heap)
      /\ \A h \in DOMAIN values : values[h] \in DOMAIN heap
      /\ \A i \in 1 .. n : \A h \in DOMAIN stack[i].values : stack[i].values[h] \in DOMAIN heap
      /\ \A g, h \in DOMAIN values : values[g] = values[h] => g = h
      /\ \A i \in 1 .. n : \A g \in DOMAIN stack[i].values, h \in DOMAIN values :
           stack[i].values[g] # values[h]
      /\ \A i, j \in 1 .. n :
           \A g \in DOMAIN stack[i].values, h \in DOMAIN stack[j].values :
             stack[i].values[g] = stack[j].values[h] => i = j /\ g = h
  BY <1>1, SoundParts
<1>5. /\ DOMAIN values = DOMAIN expect /\ \A h \in DOMAIN values : heap[values[h]] = expect[h]
      /\ \A i \in 1 .. n :
           /\ DOMAIN stack[i].values = DOMAIN stack[i].expect
           /\ \A h \in DOMAIN stack[i].values : heap[stack[i].values[h]] = stack[i].expect[h]
  BY <1>1, ExactParts
<1> HIDE DEF st, n
<1>6. CASE PopSetActiveState /\ expect' = Last(stack).expect
  <2> DEFINE vs == stack[n].values
             ex == stack[n].expect
  <2>1. values' = vs /\ stack' = st /\ heap' = Collected(heap, vs, st) /\ expect' = ex
    BY <1>2, <1>6 DEF PopSetActiveState, st
  <2>2. Sound(vs, heap, st)
    <3>1. \A i \in 1 .. Len(st) : \A g \in DOMAIN st[i].values, h \in DOMAIN vs :
            st[i].values[g] # vs[h]
      BY <1>2, <1>3, <1>4
    <3>2. \A g, h \in DOMAIN vs : vs[g] = vs[h] => g = h
      BY <1>3, <1>4
    <3>3. /\ \A h \in DOMAIN vs : vs[h] \in DOMAIN heap
          /\ \A i \in 1 .. Len(st) : \A h \in DOMAIN st[i].values : st[i].values[h] \in DOMAIN heap
      BY <1>2, <1>3, <1>4
    <3>4. \A i, j \in 1 .. Len(st) :
            \A g \in DOMAIN st[i].values, h \in DOMAIN st[j].values :
              st[i].values[g] = st[j].values[h] => i = j /\ g = h
      BY <1>2, <1>4
    <3> HIDE DEF vs
    <3> QED BY <1>2, <1>4, <3>1, <3>2, <3>3, <3>4, SoundParts
  <2>3. Exact(vs, heap, st, ex)
    <3>1. DOMAIN vs = DOMAIN ex /\ \A h \in DOMAIN vs : heap[vs[h]] = ex[h]
      BY <1>3, <1>5
    <3>2. \A i \in 1 .. Len(st) :
            /\ DOMAIN st[i].values = DOMAIN st[i].expect
            /\ \A h \in DOMAIN st[i].values : heap[st[i].values[h]] = st[i].expect[h]
      BY <1>2, <1>5
    <3> HIDE DEF vs, ex
    <3> QED BY <1>2, <3>1, <3>2, ExactParts
  <2> HIDE DEF vs, ex
  <2>4. GoodNumbers(vs, Collected(heap, vs, st), st, ex)
    BY <1>2, <2>2, <2>3, CollectedIsGood
  <2> QED BY <2>1, <2>4 DEF NumbersInv
<1>7. CASE PopDiscard /\ expect' = expect
  <2>1. values' = values /\ stack' = st /\ heap' = Collected(heap, values, st) /\ expect' = expect
    BY <1>7 DEF PopDiscard, st
  <2>2. Sound(values, heap, st)
    <3>1. \A i \in 1 .. Len(st) : \A g \in DOMAIN st[i].values, h \in DOMAIN values :
            st[i].values[g] # values[h]
      BY <1>2, <1>4
    <3>2. \A i \in 1 .. Len(st) : \A h \in DOMAIN st[i].values : st[i].values[h] \in DOMAIN heap
      BY <1>2, <1>4
    <3>3. \A i, j \in 1 .. Len(st) :
            \A g \in DOMAIN st[i].values, h \in DOMAIN st[j].values :
              st[i].values[g] = st[j].values[h] => i = j /\ g = h
      BY <1>2, <1>4
    <3> QED BY <1>2, <1>4, <3>1, <3>2, <3>3, SoundParts
  <2>3. Exact(values, heap, st, expect)
    <3>1. \A i \in 1 .. Len(st) :
            /\ DOMAIN st[i].values = DOMAIN st[i].expect
            /\ \A h \in DOMAIN st[i].values : heap[st[i].values[h]] = st[i].expect[h]
      BY <1>2, <1>5
    <3> QED BY <1>2, <1>5, <3>1, ExactParts
  <2>4. GoodNumbers(values, Collected(heap, values, st), st, expect)
    BY <1>2, <2>2, <2>3, CollectedIsGood
  <2> QED BY <2>1, <2>4 DEF NumbersInv
<1> QED BY <1>6, <1>7

LEMMA InitNumbersInv == NumbersInit => NumbersInv
<1> SUFFICES ASSUME NumbersInit PROVE NumbersInv
  OBVIOUS
<1>1. values = <<>> /\ heap = <<>> /\ stack = <<>> /\ expect = <<>>
  BY DEF NumbersInit
<1>2. IsSequence(stack) /\ Len(stack) = 0
  <2>1. stack \in Seq({}) /\ Len(stack) = 0
    BY <1>1
  <2> QED BY <2>1 DEF IsSequence
<1>3. DOMAIN values = {} /\ DOMAIN heap = {} /\ DOMAIN expect = {}
  BY <1>1
<1>4. Sound(values, heap, stack)
  BY <1>2, <1>3, FS_EmptySet, SoundParts
<1>5. Exact(values, heap, stack, expect)
  BY <1>2, <1>3, ExactParts
<1> QED BY <1>2, <1>4, <1>5 DEF NumbersInv, GoodNumbers

LEMMA StepNumbersInv == NumbersInv /\ [NumbersNext]_numberVars => NumbersInv'
<1> SUFFICES ASSUME NumbersInv, [NumbersNext]_numberVars PROVE NumbersInv'
  OBVIOUS
<1>1. CASE BigIntHook
  BY <1>1, BigIntHookKeeps
<1>2. CASE SmallIntHook
  BY <1>2, SmallIntHookKeeps
<1>3. CASE ExecuteOnDestContext \/ ExecuteOnSameContext
  BY <1>3, PushKeeps DEF ExecuteOnDestContext, ExecuteOnSameContext
<1>4. CASE ReturnFromCall
  BY <1>4, PopKeeps DEF ReturnFromCall
<1>5. CASE FailCall
  BY <1>5, PopKeeps DEF FailCall
<1>6. CASE FailExecution \/ EndTransaction \/ NumbersEnded \/ UNCHANGED numberVars
  BY <1>6, NumbersStutter DEF FailExecution, EndTransaction, NumbersEnded, numberVars
<1> QED BY <1>1, <1>2, <1>3, <1>4, <1>5, <1>6 DEF NumbersNext

-----------------------------------------------------------------------------
(* The theorems on BigIntHooks.                                            *)

(* No two handles share a big.Int, in any of the maps that the context     *)
(* holds, and each has the number that the contract computed (GetOne,      *)
(* clone, PushState, PopSetActiveState and PopDiscard of bigint.go).       *)
THEOREM NumbersInvariant == NumbersSpec => []NumbersInv
<1>1. NumbersInit => NumbersInv
  BY InitNumbersInv
<1>2. NumbersInv /\ [NumbersNext]_numberVars => NumbersInv'
  BY StepNumbersInv
<1> QED BY <1>1, <1>2, PTL DEF NumbersSpec

(* Every handle holds what the contract computed, for any hooks, handles,  *)
(* bytes and depth of calls, whichever of the calls fail.                  *)
THEOREM NumbersAreComputed == NumbersSpec => []ValuesAreComputed
<1>1. NumbersInv => ValuesAreComputed
  BY ExactParts DEF NumbersInv, GoodNumbers, ValuesAreComputed
<1> QED BY <1>1, NumbersInvariant, PTL

(* bigIntNew takes a handle that is free, whatever handles the contract    *)
(* has made (Put of bigint.go).                                            *)
THEOREM NewHandlesAreFresh == NumbersSpec => NewHandleIsFresh
<1> DEFINE Kept == \A h \in DOMAIN values : heap'[values'[h]] = heap[values[h]]
<1>1. ASSUME NumbersInv, bigIntNew PROVE Kept
  <2>1. IsFiniteSet(DOMAIN values)
    <3> DEFINE v == [h \in DOMAIN values |-> values[h]]
    <3>1. /\ IsFiniteSet(DOMAIN heap)
          /\ \A h \in DOMAIN values : values[h] \in DOMAIN heap
          /\ \A g, h \in DOMAIN values : values[g] = values[h] => g = h
      BY <1>1, CellsExist DEF NumbersInv, GoodNumbers, Sound
    <3>2. v \in Injection(DOMAIN values, DOMAIN heap)
      BY <3>1 DEF Injection, IsInjective
    <3> HIDE DEF v
    <3> QED BY <3>1, <3>2, FS_Injection
  <2>2. NewHandle \notin DOMAIN values
    BY <2>1, NewHandleIsFree
  <2>3. PICK v \in Smalls : Assign(GetOne(Current, NewHandle), NewHandle, v)
    BY <1>1 DEF bigIntNew
  <2>4. \A x \in DOMAIN values \ {NewHandle} : heap'[values'[x]] = heap[values[x]]
    BY <1>1, <2>3, HookStates, AssignKeeps
  <2> QED BY <2>2, <2>4
<1>2. NumbersInv /\ [NumbersNext]_numberVars => [bigIntNew => Kept]_numberVars
  BY <1>1
<1> QED BY <1>2, NumbersInvariant, PTL DEF NumbersSpec, NewHandleIsFresh
=============================================================================
