------------------------------- MODULE Storage -------------------------------
(***************************************************************************)
(* The storage of contracts during one transaction                         *)
(* (vmhost/contexts/storage.go and the hooks over it).  Reads and writes   *)
(* go to the StorageUpdates of the output accounts, which are both the     *)
(* cache of the node's storage and the list of changes that the VMOutput   *)
(* reports; they are pushed, merged and popped with the output context.    *)
(* The gas refunded for released bytes is part of the same output state.   *)
(*                                                                         *)
(* A key is a sequence of parts, so that prefixes and the concatenation of *)
(* CustomStorageKey can be told apart.  A value is a number that stands    *)
(* for its big-endian bytes: 0 is the empty value.  Of gas, only what a    *)
(* write pays and frees is kept; a frame may fail at any time.             *)
(*                                                                         *)
(* history is auxiliary: the storage as it should be, after the writes of  *)
(* all calls that did not fail, and the refund that they earned.           *)
(***************************************************************************)
EXTENDS Integers, Sequences, FiniteSets, Functions

CONSTANTS
  Addresses,           \* contracts of this shard
  Readable,            \* those whose code metadata says readable
  BaseKeys,            \* keys that contracts use
  ProtectedKeyPrefix,  \* part reserved by the node
  TimeLockKeyPrefix,   \* part that begins with ProtectedStoragePrefix
  Values,              \* values, 0 among them
  Length,              \* number of bytes of a value
  StoredValues,        \* values that the node may hold at the start
  Timestamps,          \* arguments of setStorageLock
  StorePerByte, PersistPerByte, ReleasePerByte,   \* BaseOperationCost
  Hooks,               \* hooks that contracts call
  MaxDepth,            \* bound: nested calls
  MaxOps               \* bound: hooks of the transaction

Magnitude(t) == IF t < 0 THEN -t ELSE t

ASSUME StorageAssumption ==
  /\ IsFiniteSet(Addresses) /\ IsFiniteSet(BaseKeys)
  /\ Readable \subseteq Addresses
  /\ \A k \in BaseKeys : k \in Seq({ProtectedKeyPrefix, TimeLockKeyPrefix, "k"})
  /\ Values \subseteq Nat /\ 0 \in Values /\ StoredValues \subseteq Values
  /\ Length \in [Values -> Nat] /\ \A v \in Values : Length[v] = 0 <=> v = 0
  /\ Timestamps \subseteq Int /\ \A t \in Timestamps : Magnitude(t) \in Values
  /\ StorePerByte \in Nat /\ PersistPerByte \in Nat /\ ReleasePerByte \in Nat
  /\ MaxDepth \in Nat /\ MaxOps \in Nat

(* The gas schedule refunds no more for a byte than it costs.              *)
ASSUME ReleaseAssumption == ReleasePerByte <= StorePerByte

VARIABLES
  chain,      \* storage held by the node
  output,     \* storage updates and refund of the active output state
  address,    \* address of the storage context
  readOnly,   \* flag of the runtime context
  frames,     \* nested calls, each with the states pushed when it began
  status,     \* "running", "failing" (innermost frame) or "done"
  paid,       \* gas used by writes
  read,       \* last read: its hook, key, value and what it should have been
  history,    \* auxiliary: expected storage and refund
  ops         \* bounded counter

vars == <<chain, output, address, readOnly, frames, status, paid, read, history, ops>>

-----------------------------------------------------------------------------
(* Keys.                                                                   *)

NoUpdate == -1   \* the key is not among the storage updates

CustomStorageKey(keyType, key) == Append(key, keyType)

Keys == BaseKeys \cup {CustomStorageKey(TimeLockKeyPrefix, k) : k \in BaseKeys}

HasPrefix(key, prefix) == key # <<>> /\ key[1] = prefix
IsVMProtectedKey(key) == HasPrefix(key, TimeLockKeyPrefix)
IsProtocolProtectedKey(key) == HasPrefix(key, ProtectedKeyPrefix)

-----------------------------------------------------------------------------
(* Storage updates and refund.                                             *)

NewVMOutput ==
  [updates |-> [a \in Addresses |-> [k \in Keys |-> NoUpdate]], refund |-> 0]

(* The value that a contract sees: the cached one, else that of the node.  *)
Visible(out, a, k) ==
  IF out.updates[a][k] # NoUpdate THEN out.updates[a][k] ELSE chain[a][k]

(* getStorageFromAddressUnmetered: what was read is kept as an update.     *)
Cache(out, a, k) == [out EXCEPT !.updates[a][k] = Visible(out, a, k)]

(* Mutant: updates of the callee are dropped for keys the caller has.      *)
MergeKeepsLeft(left, right) ==
  [updates |-> [a \in Addresses |-> [k \in Keys |->
     IF left.updates[a][k] # NoUpdate THEN left.updates[a][k]
                                      ELSE right.updates[a][k]]],
   refund |-> right.refund]

(* mergeVMOutputs: the right side wins, and its refund replaces the other. *)
MergeVMOutputs(left, right) ==
  [updates |-> [a \in Addresses |-> [k \in Keys |->
     IF right.updates[a][k] # NoUpdate THEN right.updates[a][k]
                                       ELSE left.updates[a][k]]],
   refund |-> right.refund]

CensorVMOutput(out) == [out EXCEPT !.refund = 0]

(* Gas of a write that changes a value; a value that is added or deleted   *)
(* has length 0 before or after.  A new value of the same length is free.  *)
PaidFor(old, new) ==
  IF Length[new] > Length[old]
    THEN PersistPerByte * Length[old] + StorePerByte * (Length[new] - Length[old])
  ELSE IF Length[new] < Length[old] THEN PersistPerByte * Length[new]
  ELSE 0

(* Mutant: a value that grows takes from the refund.                       *)
FreedUnguarded(old, new) == ReleasePerByte * (Length[old] - Length[new])

(* Mutant: all bytes of a value that shrinks are refunded.                 *)
FreedWhole(old, new) ==
  IF Length[new] < Length[old] THEN ReleasePerByte * Length[old] ELSE 0

FreedFor(old, new) ==
  IF Length[new] < Length[old] THEN ReleasePerByte * (Length[old] - Length[new])
                               ELSE 0

-----------------------------------------------------------------------------
(* The transaction.                                                        *)

NoRead == [hook |-> "none", key |-> <<>>, value |-> 0, expected |-> 0]

Init ==
  /\ \E stored \in [BaseKeys -> StoredValues] :
       chain = [a \in Addresses |-> [k \in Keys |->
                  IF k \in BaseKeys THEN stored[k] ELSE 0]]
  /\ output = NewVMOutput /\ address \in Addresses /\ readOnly = FALSE
  /\ frames = <<>> /\ status = "running" /\ paid = 0 /\ read = NoRead
  /\ history = [storage |-> chain, refund |-> 0]
  /\ ops = 0

(* A hook called by the running contract.                                  *)
Hook(name) ==
  /\ status = "running" /\ name \in Hooks
  /\ ops < MaxOps /\ ops' = ops + 1

-----------------------------------------------------------------------------
(* Writes.                                                                 *)

Refused(key, protection) ==
  IsProtocolProtectedKey(key) \/ (IsVMProtectedKey(key) /\ protection)

(* A read-only execution writes nothing and goes on; a protected key fails *)
(* the execution (WithFault).                                              *)
SetStorage(key, value, protection) ==
  LET old == Visible(output, address, key)
      expected == history.storage[address][key]
  IN  /\ \/ /\ readOnly
            /\ UNCHANGED <<output, status, paid, history>>
         \/ /\ ~ readOnly /\ Refused(key, protection)
            /\ status' = "failing"
            /\ UNCHANGED <<output, paid, history>>
         \/ /\ ~ readOnly /\ ~ Refused(key, protection)
            /\ output' = [output EXCEPT !.updates[address][key] = value,
                                        !.refund = @ + FreedFor(old, value)]
            /\ paid' = paid + PaidFor(old, value)
            /\ history' = [history EXCEPT !.storage[address][key] = value,
                                          !.refund = @ + FreedFor(expected, value)]
            /\ UNCHANGED status
      /\ UNCHANGED <<chain, address, readOnly, frames, read>>

StorageStore(key, value) ==
  /\ Hook("store")
  /\ SetStorage(key, value, TRUE)

(* setStorageLock and clearStorageLock (timestamp 0): the protection is    *)
(* off during the write, and the sign of the timestamp is not stored.      *)
SetStorageLock(key, timestamp) ==
  /\ Hook("lock")
  /\ SetStorage(CustomStorageKey(TimeLockKeyPrefix, key), Magnitude(timestamp), FALSE)

-----------------------------------------------------------------------------
(* Reads.                                                                  *)

Expected(a, k) ==
  IF IsProtocolProtectedKey(k) THEN chain[a][k] ELSE history.storage[a][k]

(* Mutant: a key protected by the node is read through the cache.          *)
ReadCached(a, key) ==
  /\ output' = Cache(output, a, key)
  /\ read' = [hook |-> "loadFrom", key |-> key, value |-> Visible(output, a, key),
              expected |-> Expected(a, key)]

(* A key protected by the node is read from the node and not cached.       *)
ReadUncached(a, key) ==
  \/ /\ IsProtocolProtectedKey(key)
     /\ read' = [hook |-> "loadFrom", key |-> key, value |-> chain[a][key],
                 expected |-> Expected(a, key)]
     /\ UNCHANGED output
  \/ /\ ~ IsProtocolProtectedKey(key)
     /\ ReadCached(a, key)

(* storageLoad, storageLoadLength and, with the key of a lock,             *)
(* getStorageLock.                                                         *)
StorageLoad(key) ==
  /\ Hook("load")
  /\ output' = Cache(output, address, key)
  /\ read' = [hook |-> "load", key |-> key, value |-> Visible(output, address, key),
              expected |-> Expected(address, key)]
  /\ UNCHANGED <<chain, address, readOnly, frames, status, paid, history>>

(* Nothing is read of another contract that is not readable.               *)
StorageLoadFromAddress(a, key) ==
  /\ Hook("loadFrom")
  /\ \/ /\ a = address \/ a \in Readable
        /\ ReadUncached(a, key)
     \/ /\ a # address /\ a \notin Readable
        /\ UNCHANGED <<output, read>>
  /\ UNCHANGED <<chain, address, readOnly, frames, status, paid, history>>

(* A built-in function of the node changes a key that the node protects.   *)
ProcessBuiltInFunction(a, key, value) ==
  /\ Hook("builtin")
  /\ IsProtocolProtectedKey(key)
  /\ chain' = [chain EXCEPT ![a][key] = value]
  /\ UNCHANGED <<output, address, readOnly, frames, status, paid, read, history>>

-----------------------------------------------------------------------------
(* Calls.                                                                  *)

OwnContext == {"dest", "transferExecute"}
SameContext == {"same", "readOnly"}

Frame(kind) ==
  [kind |-> kind, pushed |-> output, address |-> address, readOnly |-> readOnly,
   history |-> history]

Call(kind, a) ==
  /\ Hook(kind)
  /\ Len(frames) < MaxDepth
  /\ frames' = Append(frames, Frame(kind))
  /\ \/ /\ kind \in OwnContext
        /\ output' = CensorVMOutput(output)
        /\ address' = a
     \/ /\ kind \in SameContext
        /\ UNCHANGED <<output, address>>
  /\ readOnly' = (readOnly \/ kind = "readOnly")
  /\ UNCHANGED <<chain, status, paid, read, history>>

Innermost == frames[Len(frames)]

(* The pops that both ends of a call have in common; executeReadOnly ends  *)
(* with SetReadOnly(false).                                                *)
Pop ==
  /\ frames # <<>>
  /\ frames' = SubSeq(frames, 1, Len(frames) - 1)
  /\ address' = Innermost.address
  /\ readOnly' = (Innermost.readOnly /\ Innermost.kind # "readOnly")
  /\ UNCHANGED <<chain, paid, read, ops>>

EndCall ==
  /\ status = "running"
  /\ Pop
  /\ output' = IF Innermost.kind \in OwnContext
                 THEN MergeVMOutputs(Innermost.pushed, output) ELSE output
  /\ UNCHANGED <<status, history>>

(* Mutant: the refund survives the failure of the call.                    *)
RefundSurvives(pushed) == [pushed EXCEPT !.refund = output.refund]

PopSetActiveState(pushed) == pushed

(* transferValueExecute goes on after a failed call, the others fail too.  *)
FailCall ==
  /\ status \in {"running", "failing"}
  /\ Pop
  /\ output' = PopSetActiveState(Innermost.pushed)
  /\ history' = Innermost.history
  /\ status' = IF Innermost.kind = "transferExecute" THEN "running" ELSE "failing"

EndTransaction ==
  /\ status = "running" /\ frames = <<>>
  /\ status' = "done"
  /\ UNCHANGED <<chain, output, address, readOnly, frames, paid, read, history, ops>>

(* The VMOutput of a failure has no accounts and no refund.                *)
FailTransaction ==
  /\ status \in {"running", "failing"} /\ frames = <<>>
  /\ status' = "done"
  /\ output' = NewVMOutput
  /\ history' = [storage |-> chain, refund |-> 0]
  /\ UNCHANGED <<chain, address, readOnly, frames, paid, read, ops>>

Next ==
  \/ \E k \in Keys, v \in Values : StorageStore(k, v)
  \/ \E k \in BaseKeys, t \in Timestamps : SetStorageLock(k, t)
  \/ \E k \in Keys : StorageLoad(k)
  \/ \E a \in Addresses, k \in Keys : StorageLoadFromAddress(a, k)
  \/ \E a \in Addresses, k \in Keys, v \in Values : ProcessBuiltInFunction(a, k, v)
  \/ \E c \in OwnContext \cup SameContext, a \in Addresses : Call(c, a)
  \/ EndCall
  \/ FailCall
  \/ EndTransaction
  \/ FailTransaction

Spec == Init /\ [][Next]_vars

-----------------------------------------------------------------------------
(* Type correctness.                                                       *)

StorageType == [Addresses -> [Keys -> Values]]
OutputType ==
  [updates : [Addresses -> [Keys -> Values \cup {NoUpdate}]], refund : Nat]
HistoryType == [storage : StorageType, refund : Nat]
FrameType ==
  [kind : OwnContext \cup SameContext, pushed : OutputType, address : Addresses,
   readOnly : BOOLEAN, history : HistoryType]

(* Every context keeps its type; in particular no refund is negative.      *)
TypeOK ==
  /\ chain \in StorageType /\ output \in OutputType
  /\ address \in Addresses /\ readOnly \in BOOLEAN
  /\ frames \in Seq(FrameType)
  /\ status \in {"running", "failing", "done"}
  /\ paid \in Nat
  /\ read \in [hook : {"none", "load", "loadFrom"}, key : Keys \cup {<<>>},
               value : Values, expected : Values]
  /\ history \in HistoryType
  /\ ops \in 0 .. MaxOps

-----------------------------------------------------------------------------
(* Properties.                                                             *)

(* What contracts see, and what the VMOutput would make of the node's      *)
(* storage, is what was written by the calls that did not fail: no write   *)
(* of a failed call survives in the cache and none of a successful call is *)
(* lost, however calls nest and whatever was cached before or inside them. *)
Coherent(out, storage) ==
  \A a \in Addresses, k \in Keys :
    ~ IsProtocolProtectedKey(k) => Visible(out, a, k) = storage[a][k]
StorageIsWritten == Coherent(output, history.storage)

(* A read returns the latest value: of the calls that did not fail, or, of *)
(* keys the node protects read with storageLoadFromAddress, of the node.   *)
ReadsAreCurrent ==
  (read.hook = "loadFrom" \/ ~ IsProtocolProtectedKey(read.key)) =>
     read.value = read.expected

(* Contracts cannot use the refund to be paid for bytes that they do not   *)
(* release: the gas that writes cost, less the refund, pays for the growth *)
(* of the storage at the price of a released byte.  (The state is well     *)
(* typed: neither the refund nor what was paid is ever negative.)          *)
Growth(storage, a, k) ==
  IF IsProtocolProtectedKey(k) THEN 0
  ELSE Length[storage[a][k]] - Length[chain[a][k]]
TotalGrowth(storage) ==
  SumFunction([p \in Addresses \X Keys |-> Growth(storage, p[1], p[2])])
RefundIsEarned ==
  /\ TypeOK
  /\ paid - output.refund >= ReleasePerByte * TotalGrowth(history.storage)

(* The refund is that of calls that did not fail: what a failed call freed *)
(* is not refunded (CensorVMOutput, mergeVMOutputs and PopSetActiveState   *)
(* handle the refund with the storage).                                    *)
RefundOfSuccess == output.refund <= history.refund
=============================================================================
