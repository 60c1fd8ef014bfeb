------------------------------ MODULE VMHooks ------------------------------
(***************************************************************************)
(* The hooks between a contract and the host that exchange bytes through   *)
(* the memory of the Wasmer instance: arguments, caller, call value and    *)
(* tokens, data of the chain, return data, logs and cryptography           *)
(* (src/vmhost/vmhooks/baseOps.go, src/vmhost/cryptoapi/cryptoei.go), with *)
(* MemLoad, MemLoadMultiple and MemStore of contexts/runtime.go and the    *)
(* return data and the logs of contexts/output.go.                         *)
(*                                                                         *)
(* Memory is a sequence of bytes of Base values, in pages.  An int32 has   *)
(* IntLen bytes and wraps at their width; offsets, lengths and counts are  *)
(* arbitrary int32.  The contract is arbitrary: it writes its own memory,  *)
(* calls any hook and nests calls, each of which may fail.  Gas is modelled *)
(* in Metering; here an execution may run out of it at any hook.           *)
(***************************************************************************)
EXTENDS Integers, Sequences, FiniteSetsExt, SequencesExt

CONSTANTS
  Base,         \* number of values of a byte
  IntLen,       \* bytes of an int32
  PageSize,     \* bytes of a memory page
  MaxPages,     \* pages at which Grow fails
  AddressLen, BalanceLen, HashLen,
  Offsets,      \* int32 values that the contract passes as offset, length or count
  Places,       \* the ones among them where it looks for addresses and keys
  Addresses,    \* byte strings of AddressLen bytes
  Amounts,      \* numbers: call values and token values
  Strings,      \* byte strings: arguments, names, data of the node
  Written,      \* bound: bytes that its own instructions write
  Hooks,        \* hooks that this instance calls
  MaxDepth,     \* bound: nested calls
  MaxHookOps    \* bound: hooks, calls and writes of a transaction

VARIABLES
  mem,     \* memory of the running instance
  input,   \* runtime.vmInput and scAddress of the running call
  output,  \* ReturnData and Logs of outputState
  stack,   \* the callers: their memory, input, output and ghosts
  status,  \* "running", "failed" or "ended"
  hookOps, \* hooks, calls and writes so far
  done     \* ghost: results of all calls that have not failed, in order

hookVars == <<mem, input, output, stack, status, hookOps, done>>

-----------------------------------------------------------------------------
(* int32 (src/math/overflow.go).                                           *)

TwoTo32 == Base ^ IntLen
MaxInt32 == (TwoTo32 \div 2) - 1
Int32 == -MaxInt32 - 1 .. MaxInt32
Wrap32(n) == ((n + MaxInt32 + 1) % TwoTo32) - MaxInt32 - 1
Uint32(n) == n % TwoTo32

ASSUME SizesAssumption ==
  /\ {Base, IntLen, PageSize, MaxPages, AddressLen, BalanceLen, HashLen} \subseteq Nat \ {0}
  /\ TwoTo32 \in Nat /\ TwoTo32 % 2 = 0
  /\ PageSize * MaxPages < MaxInt32            \* memory below 2 GB
  /\ Offsets \subseteq Int32
  /\ \A s \in Strings : s \in Seq(0 .. Base - 1) /\ Len(s) <= MaxInt32

AddInt32(a, b) ==
  LET res == Wrap32(a + b)
  IN  IF (res > a) <=> (b > 0) THEN res ELSE MaxInt32

-----------------------------------------------------------------------------
(* The memory of an instance.                                              *)

Loaded(data) == [ok |-> TRUE, data |-> data]
BadBounds == [ok |-> FALSE, data |-> <<>>]

\* A load past the end of the memory is filled with zeros.
LoadUnfilled(m, offset, length) ==
  LET end == IF Uint32(AddInt32(offset, length)) > Len(m) THEN Len(m)
             ELSE AddInt32(offset, length)
  IN  IF length = 0 THEN Loaded(<<>>)
      ELSE IF offset < 0 \/ Uint32(offset) > Len(m) \/ length < 0 THEN BadBounds
      ELSE Loaded(SubSeq(m, offset + 1, end))

MemLoad(m, offset, length) ==
  LET part == LoadUnfilled(m, offset, length)
  IN  IF part.ok
        THEN Loaded(part.data \o [i \in 1 .. length - Len(part.data) |-> 0])
        ELSE part

\* The loop of MemLoadMultiple; the offset wraps silently.
LoadFrom(m, offset, lengths) ==
  FoldLeft(LAMBDA acc, n :
             LET part == MemLoad(m, acc.offset, n)
             IN  IF acc.ok /\ part.ok
                   THEN [ok |-> TRUE, data |-> Append(acc.data, part.data),
                         offset |-> Wrap32(acc.offset + n)]
                   ELSE [ok |-> FALSE, data |-> <<>>, offset |-> 0],
           [ok |-> TRUE, data |-> <<>>, offset |-> offset], lengths)

MemLoadMultiple(m, offset, lengths) ==
  LET all == LoadFrom(m, offset, lengths) IN [ok |-> all.ok, data |-> all.data]

\* Memory after MemStore; it grows by one page at most.
Stored(m) == [ok |-> TRUE, mem |-> m]
NotStored(m) == [ok |-> FALSE, mem |-> m]
Zeros(n) == [i \in 1 .. n |-> 0]
Overwrite(m, offset, end, data) ==
  [i \in 1 .. Len(m) |-> IF i \in offset + 1 .. end THEN data[i - offset] ELSE m[i]]

(* Mutant: a store past the end writes what fits.                          *)
MemStoreTruncated(m, offset, data) ==
  IF data = <<>> THEN Stored(m)
  ELSE IF offset < 0 \/ offset > Len(m) THEN NotStored(m)
  ELSE Stored(Overwrite(m, offset, offset + Len(data), data))

MemStore(m, offset, data) ==
  LET end == Uint32(AddInt32(offset, Len(data)))
      grown == m \o Zeros(PageSize)
      view == IF end > Len(m) THEN grown ELSE m
  IN  IF data = <<>> THEN Stored(m)
      ELSE IF offset < 0 THEN NotStored(m)
      ELSE IF end > Len(m) /\ Len(grown) > PageSize * MaxPages THEN NotStored(m)
      ELSE IF end > Len(view) THEN NotStored(view)
      ELSE Stored(Overwrite(view, offset, end, data))

\* Numbers in memory: big-endian amounts, padded; little-endian int32.
(* Mutant: bytes that are not cut to their width.                          *)
DigitsUncut(n, k) == [i \in 1 .. k |-> n \div Base ^ (k - i)]

Digits(n, k) == [i \in 1 .. k |-> (n \div Base ^ (k - i)) % Base]
Bytes(n) == Digits(n, CHOOSE k \in 0 .. n : n < Base ^ k /\ (k > 0 => Base ^ (k - 1) <= n))

PadBytesLeft(data, size) ==
  IF data = <<>> \/ Len(data) >= size THEN data
  ELSE Zeros(size - Len(data)) \o data

LittleEndian(bytes) == FoldRight(LAMBDA b, n : Base * n + b, bytes, 0)

createInt32Array(raw, n) ==
  [i \in 1 .. n |->
     IF i * IntLen <= Len(raw)
       THEN Wrap32(LittleEndian(SubSeq(raw, (i - 1) * IntLen + 1, i * IntLen)))
       ELSE 0]

(* Mutant: every argument is loaded from the start of the data.            *)
ArgumentsFromStart(m, n, lengthsOffset, dataOffset) ==
  LET raw == MemLoad(m, lengthsOffset, Wrap32(n * IntLen))
      lengths == createInt32Array(raw.data, n)
      parts == [i \in 1 .. n |-> MemLoad(m, dataOffset, lengths[i])]
  IN  IF n < 0 \/ ~ raw.ok \/ (\E i \in 1 .. n : ~ parts[i].ok) THEN BadBounds
      ELSE Loaded([i \in 1 .. n |-> parts[i].data])

\* numArguments * 4 wraps as an int32.
getArgumentsFromMemory(m, n, lengthsOffset, dataOffset) ==
  LET raw == MemLoad(m, lengthsOffset, Wrap32(n * IntLen))
  IN  IF n < 0 \/ ~ raw.ok THEN BadBounds
      ELSE MemLoadMultiple(m, dataOffset, createInt32Array(raw.data, n))

-----------------------------------------------------------------------------
(* Steps of a hook.                                                        *)

Called(hook) ==
  status = "running" /\ hookOps < MaxHookOps /\ hook \in Hooks /\ hookOps' = hookOps + 1

\* The number goes to the contract, which is arbitrary.
Returns(n) == n \in Int32 /\ status' = "running"

\* WithFault: the execution fails; the hook's value does not matter.
Fault == status' = "failed"

\* A nil dereference or a bad index: Go panics, the transaction ends.
Panic == status' = "ended" /\ UNCHANGED <<mem, input, output, stack, done>>

NoOutput == UNCHANGED <<input, output, stack, done>>

\* The hook stores data and returns r, or fails.
StoreResult(offset, data, r) ==
  LET new == MemStore(mem, offset, data)
  IN  /\ mem' = new.mem
      /\ IF new.ok THEN Returns(r) ELSE Fault
      /\ NoOutput

\* Two stores in a row, the second only if the first succeeded.
StoreTwo(o1, d1, o2, d2, r) ==
  LET first == MemStore(mem, o1, d1)
      second == MemStore(first.mem, o2, d2)
  IN  /\ mem' = IF first.ok THEN second.mem ELSE first.mem
      /\ IF first.ok /\ second.ok THEN Returns(r) ELSE Fault
      /\ NoOutput

\* A hook that loads what it asks the node for, and stores the answer.
LoadThen(offset, length, P(_)) ==
  LET part == MemLoad(mem, offset, length)
  IN  \/ part.ok /\ P(part.data)
      \/ ~ part.ok /\ Fault /\ UNCHANGED mem /\ NoOutput

Gives(r) == Returns(r) /\ UNCHANGED mem /\ NoOutput
Refuse == Fault /\ UNCHANGED mem /\ NoOutput

-----------------------------------------------------------------------------
(* What the contract knows of its call.                                    *)

getSCAddress ==
  Called("call") /\ \E o \in Offsets : StoreResult(o, input.address, 0)

getCaller ==
  Called("call") /\ \E o \in Offsets : StoreResult(o, input.caller, 0)

getFunction ==
  Called("call") /\ \E o \in Offsets :
    StoreResult(o, input.function, Len(input.function))

getNumArguments == Called("call") /\ Gives(Len(input.args))

\* An index out of range is answered by -1.
getArgumentLength ==
  /\ Called("call")
  /\ \E id \in Offsets :
       Gives(IF id \in 0 .. Len(input.args) - 1 THEN Len(input.args[id + 1]) ELSE -1)

getArgument ==
  /\ Called("call")
  /\ \E id, o \in Offsets :
       IF id \in 0 .. Len(input.args) - 1
         THEN StoreResult(o, input.args[id + 1], Len(input.args[id + 1]))
         ELSE Gives(-1)

getOriginalTxHash ==
  Called("call") /\ \E o \in Offsets, hash \in Strings : StoreResult(o, hash, 0)

-----------------------------------------------------------------------------
(* Payment: the call value and the first token transfer.                   *)

NoTransfer == [value |-> 0, token |-> <<>>, nonce |-> 0, type |-> 0]

getFirstDCDTTransferIfExist ==
  IF input.transfers # <<>> THEN Head(input.transfers) ELSE NoTransfer

checkNoPayment ==
  /\ Called("payment")
  /\ IF input.value > 0 \/ input.transfers # <<>> THEN Refuse ELSE Gives(0)

callValue ==
  LET value == PadBytesLeft(Bytes(input.value), BalanceLen)
  IN  Called("payment") /\ \E o \in Offsets : StoreResult(o, value, Len(value))

getDCDTValue ==
  LET value == PadBytesLeft(Bytes(getFirstDCDTTransferIfExist.value), BalanceLen)
  IN  Called("payment") /\ \E o \in Offsets : StoreResult(o, value, Len(value))

getDCDTTokenName ==
  LET name == getFirstDCDTTransferIfExist.token
  IN  Called("payment") /\ \E o \in Offsets : StoreResult(o, name, Len(name))

getDCDTTokenNonceOrType ==
  /\ Called("payment")
  /\ \/ Gives(getFirstDCDTTransferIfExist.nonce)
     \/ Gives(getFirstDCDTTransferIfExist.type)

\* The copy of the token's name goes to a slice of length 0: nothing is
\* stored for the name, and 0 is returned.
getCallValueTokenName ==
  LET transfer == getFirstDCDTTransferIfExist
      amount == IF transfer.token # <<>> THEN transfer.value ELSE input.value
  IN  /\ Called("payment")
      /\ \E vo, no \in Offsets :
           StoreTwo(no, <<>>, vo, PadBytesLeft(Bytes(amount), BalanceLen), 0)

-----------------------------------------------------------------------------
(* Data of the chain, as the blockchain context passes it on.  The answers *)
(* of the node are arbitrary.                                              *)

GetOwnerAddress ==
  /\ Called("chain")
  /\ \/ \E o \in Offsets, owner \in Addresses \cup {<<>>} : StoreResult(o, owner, 0)
     \/ Refuse

\* getShardOfAddress, isSmartContract.
AskAboutAddress ==
  /\ Called("chain")
  /\ \E o \in Places : LoadThen(o, AddressLen, LAMBDA a : \E r \in {0, 1} : Gives(r))

getExternalBalance ==
  /\ Called("chain")
  /\ \E a \in Places, o \in Offsets :
       LoadThen(a, AddressLen,
                LAMBDA address : \E n \in Amounts : StoreResult(o, Bytes(n), 0))

\* No block of a negative number, nor one that the node does not know.
blockHash ==
  /\ Called("chain")
  /\ \E o, number \in Offsets :
       \E hash \in {<<>>} \cup (IF number < 0 THEN {} ELSE Strings) : StoreResult(o, hash, 0)

\* Timestamp, nonce, round and epoch of the current and the last block.
BlockNumbers == Called("chain") /\ \E n \in Amounts : Gives(n)

\* Random seeds and the state root hash.
BlockData == Called("chain") /\ \E o \in Offsets, data \in Strings : StoreResult(o, data, 0)

\* Values in storage: storageLoad, storageLoadFromAddress.
storageLoad ==
  /\ Called("storage")
  /\ \E k, l \in Places, o \in Offsets :
       LoadThen(k, l, LAMBDA key : \E data \in Strings \cup {<<>>} :
                                     StoreResult(o, data, Len(data)))

\* storageLoadLength, getStorageLock, isStorageLocked.
storageLoadLength ==
  /\ Called("storage")
  /\ \E k, l \in Places :
       LoadThen(k, l, LAMBDA key : \E data \in Strings \cup {<<>>} : Gives(Len(data)))

\* getCurrentDCDTNFTNonce answers 0 for a bad address, without a fault.
getCurrentDCDTNFTNonce ==
  /\ Called("token")
  /\ \E a, t, l \in Places :
       IF MemLoad(mem, a, AddressLen).ok /\ MemLoad(mem, t, l).ok
         THEN \E n \in Amounts : Gives(n)
         ELSE Gives(0)

\* A token at the node: none, a fungible one or one with metadata.
Tokens ==
  {[kind |-> "none"]}
  \cup [kind : {"fungible"}, value : Amounts]
  \cup [kind : {"nft"}, value : Amounts, name : Strings]

getDCDTDataFromBlockchainHook(a, t, l, P(_)) ==
  LoadThen(a, AddressLen, LAMBDA address :
    LoadThen(t, l, LAMBDA token : (\E data \in Tokens : P(data)) \/ Refuse))

\* Without the token getDCDTBalance and getDCDTTokenData dereference nil.
getDCDTBalance ==
  /\ Called("token")
  /\ \E a, t, l \in Places, o \in Offsets :
       getDCDTDataFromBlockchainHook(a, t, l, LAMBDA data :
         IF data.kind = "none" THEN Panic
         ELSE StoreResult(o, Bytes(data.value), Len(Bytes(data.value))))

\* Lengths of the name, the attributes and the first URI.
getDCDTNFTLengths ==
  /\ Called("token")
  /\ \E a, t, l \in Places :
       getDCDTDataFromBlockchainHook(a, t, l, LAMBDA data :
         Gives(IF data.kind = "nft" THEN Len(data.name) ELSE 0))

\* The value, and for a token with metadata its name; the properties, hash,
\* attributes, creator, royalties and URI are stored in the same way.
getDCDTTokenData ==
  /\ Called("token")
  /\ \E a, t, l \in Places, vo, no \in Offsets :
       getDCDTDataFromBlockchainHook(a, t, l, LAMBDA data :
         IF data.kind = "none" THEN Panic
         ELSE StoreTwo(vo, Bytes(data.value), no,
                       IF data.kind = "nft" THEN data.name ELSE <<>>,
                       Len(Bytes(data.value))))

-----------------------------------------------------------------------------
(* Cryptography: the hash or the verdict is arbitrary.                     *)

Hash ==
  /\ Called("crypto")
  /\ \E d, l \in Places, o \in Offsets :
       LoadThen(d, l, LAMBDA data : \/ \E h \in Strings : StoreResult(o, h, 0)
                                    \/ Gives(1))

\* Lengths of keys and signatures are fixed.
VerifySignature ==
  /\ Called("crypto")
  /\ \E k, d, l, s \in Places :
       LoadThen(k, HashLen, LAMBDA key : LoadThen(d, l, LAMBDA message :
         LoadThen(s, HashLen, LAMBDA sig : \E r \in {0, -1} : Gives(r))))

\* The key may have two lengths, the second byte of the signature is the
\* length of its rest.
verifySecp256k1 ==
  /\ Called("crypto")
  /\ \E k, d, l, s \in Places, kl \in Offsets :
       IF kl \notin {HashLen, 2 * HashLen} THEN Refuse
       ELSE LoadThen(k, kl, LAMBDA key : LoadThen(d, l, LAMBDA message :
              LoadThen(s, 2, LAMBDA header :
                LoadThen(s, header[2] + 2, LAMBDA sig : \E r \in {0, -1} : Gives(r)))))

-----------------------------------------------------------------------------
(* Results.                                                                *)

FinishData(data) ==
  /\ output' = [output EXCEPT !.data = Append(@, data)]
  /\ done' = [done EXCEPT !.data = Append(@, data)]

returnData ==
  /\ Called("result")
  /\ \E o, l \in Offsets :
       LoadThen(o, l, LAMBDA data :
         FinishData(data) /\ Returns(0) /\ UNCHANGED <<mem, input, stack>>)

\* An index that is too large is answered by 0, a negative one panics.
getReturnData ==
  /\ Called("result")
  /\ \E id, o \in Offsets :
       IF id < 0 THEN Panic
       ELSE IF id >= Len(output.data) THEN Gives(0)
       ELSE StoreResult(o, output.data[id + 1], Len(output.data[id + 1]))

getReturnDataSize ==
  /\ Called("result")
  /\ \E id \in Offsets :
       IF id < 0 THEN Panic
       ELSE Gives(IF id < Len(output.data) THEN Len(output.data[id + 1]) ELSE 0)

getNumReturnData == Called("result") /\ Gives(Len(output.data))

\* No log is written in read-only mode; the first topic is the identifier.
WriteLog(topics, data) ==
  LET entry == [address |-> input.address, data |-> data,
                identifier |-> IF topics = <<>> THEN <<>> ELSE Head(topics),
                topics |-> IF topics = <<>> THEN <<>> ELSE Tail(topics)]
  IN  /\ IF input.readOnly
           THEN UNCHANGED <<output, done>>
           ELSE /\ output' = [output EXCEPT !.logs = Append(@, entry)]
                /\ done' = [done EXCEPT !.logs = Append(@, entry)]
      /\ Returns(0) /\ UNCHANGED <<mem, input, stack>>

\* Topics of the deprecated writeLog all have HashLen bytes; the offset of a
\* topic wraps.
writeLog ==
  /\ Called("log")
  /\ \E d \in Places, l, t, n \in Offsets :
       LoadThen(d, l, LAMBDA data :
         LET topics == [i \in 1 .. n |-> MemLoad(mem, Wrap32(t + Wrap32((i - 1) * HashLen)), HashLen)]
         IN  IF n < 0 \/ \E i \in 1 .. n : ~ topics[i].ok THEN Refuse
             ELSE WriteLog([i \in 1 .. n |-> topics[i].data], data))

writeEventLog ==
  /\ Called("log")
  /\ \E to, d, l \in Places, n, o \in Offsets :
       LET topics == getArgumentsFromMemory(mem, n, to, o)
       IN  IF ~ topics.ok THEN Refuse
           ELSE LoadThen(d, l, LAMBDA data : WriteLog(topics.data, data))

\* A message that cannot be loaded is a fault, otherwise a user error.
signalError ==
  Called("result") /\ \E o, l \in Offsets : LoadThen(o, l, LAMBDA message : Refuse)

\* The end of the gas.
OutOfGas == status = "running" /\ UNCHANGED hookOps /\ Refuse

\* The contract's own instructions.
Write ==
  /\ Called("write")
  /\ \E i \in 1 .. Len(mem), b \in Written : mem' = [mem EXCEPT ![i] = b]
  /\ UNCHANGED <<input, output, stack, status, done>>

-----------------------------------------------------------------------------
(* Calls (src/vmhost/hostCore/execution.go).  The instance of the callee   *)
(* has a memory of its own.                                                *)

Empty == [data |-> <<>>, logs |-> <<>>]

\* SetVMInput copies the input.
Inputs ==
  [address : Addresses, caller : Addresses, function : Strings, value : Amounts,
   transfers : {<<>>} \cup {<<[value |-> n, token |-> t, nonce |-> 0, type |-> 0]>> :
                              n \in Amounts, t \in Strings},
   args : {<<>>} \cup {<<s>> : s \in Strings}, readOnly : {FALSE}]

(* Mutant: the callee of ExecuteOnDestContext sees the results so far.     *)
CensorNothing == output

\* CensorVMOutput: the callee appears isolated.
CensorVMOutput == Empty

PushState(kind, in, out) ==
  /\ status = "running" /\ hookOps < MaxHookOps /\ hookOps' = hookOps + 1
  /\ kind \in Hooks /\ Len(stack) < MaxDepth
  /\ stack' = Append(stack, [kind |-> kind, mem |-> mem, input |-> input,
                             output |-> output, done |-> done])
  /\ mem' = Zeros(PageSize) /\ input' = in /\ output' = out
  /\ UNCHANGED <<status, done>>

\* The address and the caller are taken from the caller's memory.
Callee(kind) ==
  [address |-> input.caller, caller |-> input.address, function |-> <<>>,
   value |-> 0, transfers |-> <<>>, args |-> <<>>,
   readOnly |-> input.readOnly \/ kind = "readOnly"]

ExecuteOnDestContext == PushState("dest", Callee("dest"), CensorVMOutput)
ExecuteOnSameContext == PushState("same", Callee("same"), output)
\* executeReadOnly sets the flag, calls on the same context and clears it.
executeReadOnly == PushState("readOnly", Callee("readOnly"), output)

PopMergeActiveState(saved) ==
  [data |-> saved.data \o output.data, logs |-> saved.logs \o output.logs]

Resume(r) ==
  /\ mem' = Last(stack).mem
  /\ input' = IF Last(stack).kind = "readOnly"
                THEN [Last(stack).input EXCEPT !.readOnly = FALSE]
                ELSE Last(stack).input
  /\ stack' = Front(stack)
  /\ Returns(r) /\ UNCHANGED hookOps

ReturnFromCall ==
  /\ status = "running" /\ stack # <<>>
  /\ Resume(0)
  /\ output' = IF Last(stack).kind = "dest"
                 THEN PopMergeActiveState(Last(stack).output)
                 ELSE output
  /\ UNCHANGED done

\* The caller goes on after transferValueExecute and the like; after the
\* other calls it fails as well, which FailExecution allows.
FailCall ==
  /\ status = "failed" /\ stack # <<>>
  /\ Resume(1)
  /\ output' = Last(stack).output /\ done' = Last(stack).done

EndTransaction ==
  /\ status \in {"running", "failed"} /\ stack = <<>> /\ status' = "ended"
  /\ UNCHANGED <<mem, input, output, stack, hookOps, done>>

Ended == status = "ended" /\ UNCHANGED hookVars

HooksInit ==
  /\ mem = Zeros(PageSize) /\ input \in Inputs /\ output = Empty /\ stack = <<>>
  /\ status = "running" /\ hookOps = 0 /\ done = Empty

BaseOpsHook ==
  \/ getSCAddress \/ getCaller \/ getFunction \/ getNumArguments
  \/ getArgumentLength \/ getArgument \/ getOriginalTxHash
  \/ checkNoPayment \/ callValue \/ getDCDTValue \/ getDCDTTokenName
  \/ getDCDTTokenNonceOrType \/ getCallValueTokenName
  \/ GetOwnerAddress \/ AskAboutAddress \/ getExternalBalance \/ blockHash
  \/ BlockNumbers \/ BlockData \/ storageLoad \/ storageLoadLength
  \/ getCurrentDCDTNFTNonce \/ getDCDTBalance \/ getDCDTNFTLengths
  \/ getDCDTTokenData
  \/ returnData \/ getReturnData \/ getReturnDataSize \/ getNumReturnData
  \/ writeLog \/ writeEventLog \/ signalError

CryptoHook == Hash \/ VerifySignature \/ verifySecp256k1

HooksNext ==
  \/ BaseOpsHook \/ CryptoHook \/ Write \/ OutOfGas
  \/ ExecuteOnDestContext \/ ExecuteOnSameContext \/ executeReadOnly
  \/ ReturnFromCall \/ FailCall \/ EndTransaction \/ Ended

HooksSpec == HooksInit /\ [][HooksNext]_hookVars

-----------------------------------------------------------------------------
(* Memory consists of bytes, in whole pages within the limit.              *)
HooksTypeOK ==
  /\ mem \in Seq(0 .. Base - 1)
  /\ Len(mem) % PageSize = 0 /\ Len(mem) \in PageSize .. PageSize * MaxPages
  /\ status \in {"running", "failed", "ended"}
  /\ hookOps \in 0 .. MaxHookOps

(* A load returns exactly the bytes asked for, zeros past the end, whatever *)
(* offset and length the contract passes; only an offset outside of the    *)
(* memory or a negative length is refused (MemLoad).                       *)
LoadsAreExact == status = "running" =>
  \A offset \in Int32, length \in Offsets :
    LET part == MemLoad(mem, offset, length)
    IN  /\ part.ok <=> length = 0 \/ (offset \in 0 .. Len(mem) /\ length > 0)
        /\ part.ok => /\ Len(part.data) = length
                      /\ \A i \in 1 .. length : part.data[i] =
                           IF offset + i <= Len(mem) THEN mem[offset + i] ELSE 0

(* What a hook stores is what the contract finds, at the offset that it    *)
(* gave, and nothing else changes: memory grows by a page of zeros at most *)
(* and a refused store changes no byte (MemStore).                         *)
StoresAreExact == status = "running" =>
  \A o \in Offsets, data \in Strings :
    LET new == MemStore(mem, o, data)
    IN  /\ Len(new.mem) - Len(mem) \in {0, PageSize}
        /\ new.ok /\ data # <<>> => MemLoad(new.mem, o, Len(data)) = Loaded(data)
        /\ \A i \in 1 .. Len(new.mem) :
             ~ (new.ok /\ i - o \in 1 .. Len(data)) =>
               new.mem[i] = IF i <= Len(mem) THEN mem[i] ELSE 0

(* Contract and host agree on every byte that they exchange, wherever in   *)
(* memory, through its growth and its end and through wrapped offsets      *)
(* (MemLoad, MemStore).                                                    *)
MemoryIsExact == LoadsAreExact /\ StoresAreExact

(* Arguments of a nested call lie one after the other in the caller's      *)
(* memory: wherever the tables are, a wrapped offset is refused and never  *)
(* mixes up the arguments (getArgumentsFromMemory, MemLoadMultiple), as    *)
(* long as the length of the table itself does not wrap.                   *)
ArgumentsAreContiguous == HooksTypeOK /\ (status = "running" =>
  \A n \in {k \in 0 .. MaxInt32 : k * IntLen <= MaxInt32}, t, o \in Offsets :
    LET args == getArgumentsFromMemory(mem, n, t, o)
        lengths == createInt32Array(MemLoad(mem, t, n * IntLen).data, n)
        start(i) == o + FoldLeft(LAMBDA a, b : a + b, 0, SubSeq(lengths, 1, i - 1))
    IN  args.ok => /\ Len(args.data) = n
                   /\ \A i \in 1 .. n : args.data[i] =
                        [j \in 1 .. lengths[i] |->
                           IF start(i) + j <= Len(mem) THEN mem[start(i) + j] ELSE 0])

(* The results of the running call are those that were made, by it and by  *)
(* calls that did not fail, since the last call on a new context began,    *)
(* in chronological order; so it was for each of its callers.  A callee    *)
(* starts without results, these are merged after what the caller had      *)
(* before, and dropped when the callee failed (PushState, CensorVMOutput,  *)
(* PopMergeActiveState, PopSetActiveState of output.go).                   *)
Isolated(calls, n) == {i \in 1 .. n : calls[i].kind = "dest"}

Earlier(calls, n) ==
  IF Isolated(calls, n) = {} THEN Empty ELSE calls[Max(Isolated(calls, n))].done

InOrder(calls, n, out, all) ==
  /\ all.data = Earlier(calls, n).data \o out.data
  /\ all.logs = Earlier(calls, n).logs \o out.logs

ResultsInOrder ==
  /\ InOrder(stack, Len(stack), output, done)
  /\ \A i \in 1 .. Len(stack) : InOrder(stack, i - 1, stack[i].output, stack[i].done)
=============================================================================
