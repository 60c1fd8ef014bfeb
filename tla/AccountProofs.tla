---------------------------- MODULE AccountProofs ----------------------------
(***************************************************************************)
(* Proofs about what accounts hold during a transaction.                   *)
(*                                                                         *)
(* Storage, for any contracts, keys, values, prices and depth of calls:    *)
(* the storage that contracts see is the storage written by the calls that *)
(* did not fail, reads return it, and no refund is unearned.               *)
(*                                                                         *)
(* TokenTransfers, for any accounts, amounts, supply and depth of calls:   *)
(* no token is made or lost, the tokens attached to a call are owned by    *)
(* its contract, and the tokens of a failed call are back when its caller  *)
(* goes on.                                                                *)
(***************************************************************************)
EXTENDS Storage, TokenTransfers, SumProofs, SequenceTheorems

-----------------------------------------------------------------------------
(* Operators.                                                              *)

(* The key of a lock is a key.                                             *)
LEMMA LockKey ==
  ASSUME NEW k \in BaseKeys
  PROVE  CustomStorageKey(TimeLockKeyPrefix, k) \in Keys
BY DEF Keys

(* A visible value is a value.                                             *)
LEMMA VisibleType ==
  ASSUME chain \in StorageType, NEW out \in OutputType,
         NEW a \in Addresses, NEW k \in Keys
  PROVE  Visible(out, a, k) \in Values
BY DEF Visible, StorageType, OutputType

(* What a write pays and frees is a natural number.                        *)
LEMMA GasType ==
  ASSUME NEW old \in Values, NEW new \in Values
  PROVE  PaidFor(old, new) \in Nat /\ FreedFor(old, new) \in Nat
<1> DEFINE l == Length[old]
           m == Length[new]
<1>1. l \in Nat /\ m \in Nat
  BY StorageAssumption
<1>2. StorePerByte \in Nat /\ PersistPerByte \in Nat /\ ReleasePerByte \in Nat
  BY StorageAssumption
<1> HIDE DEF l, m
<1>3. \A p, x \in Nat : p * x \in Nat
  OBVIOUS
<1>4. m > l => PersistPerByte * l + StorePerByte * (m - l) \in Nat
  <2> SUFFICES ASSUME m > l PROVE PersistPerByte * l + StorePerByte * (m - l) \in Nat
    OBVIOUS
  <2>1. m - l \in Nat
    BY <1>1
  <2>2. PersistPerByte * l \in Nat
    BY <1>1, <1>2, <1>3
  <2>3. StorePerByte * (m - l) \in Nat
    BY <2>1, <1>2, <1>3
  <2> QED BY <2>2, <2>3
<1>5. PersistPerByte * m \in Nat
  BY <1>1, <1>2, <1>3
<1>6. m < l => ReleasePerByte * (l - m) \in Nat
  <2> SUFFICES ASSUME m < l PROVE ReleasePerByte * (l - m) \in Nat
    OBVIOUS
  <2>1. l - m \in Nat
    BY <1>1
  <2> QED BY <2>1, <1>2, <1>3
<1>7. PaidFor(old, new) \in Nat
  BY <1>4, <1>5 DEF PaidFor, l, m
<1>8. FreedFor(old, new) \in Nat
  BY <1>6 DEF FreedFor, l, m
<1> QED BY <1>7, <1>8

(* Caching a value keeps every visible value.                              *)
LEMMA CacheKeeps ==
  ASSUME chain \in StorageType, NEW out \in OutputType,
         NEW a \in Addresses, NEW k \in Keys
  PROVE  /\ Cache(out, a, k) \in OutputType
         /\ \A b \in Addresses, j \in Keys :
              Visible(Cache(out, a, k), b, j) = Visible(out, b, j)
<1>1. Visible(out, a, k) \in Values
  BY VisibleType
<1>2. Cache(out, a, k) \in OutputType
  BY <1>1 DEF Cache, OutputType
<1>3. ASSUME NEW b \in Addresses, NEW j \in Keys
      PROVE  Visible(Cache(out, a, k), b, j) = Visible(out, b, j)
  <2>1. CASE b = a /\ j = k
    <3>1. Cache(out, a, k).updates[b][j] = Visible(out, a, k)
      BY <2>1 DEF Cache, OutputType
    <3>2. Visible(out, a, k) # NoUpdate
      BY <1>1, StorageAssumption DEF NoUpdate
    <3> QED BY <3>1, <3>2, <2>1 DEF Visible
  <2>2. CASE ~ (b = a /\ j = k)
    <3>1. Cache(out, a, k).updates[b][j] = out.updates[b][j]
      BY <2>2 DEF Cache, OutputType
    <3> QED BY <3>1 DEF Visible
  <2> QED BY <2>1, <2>2
<1> QED BY <1>2, <1>3

(* A write sets the visible value of its key and keeps the others.         *)
LEMMA StoreSets ==
  ASSUME chain \in StorageType, NEW out \in OutputType,
         NEW a \in Addresses, NEW k \in Keys, NEW v \in Values, NEW r \in Nat
  PROVE  LET new == [out EXCEPT !.updates[a][k] = v, !.refund = r]
         IN  /\ new \in OutputType
             /\ \A b \in Addresses, j \in Keys :
                  Visible(new, b, j) =
                    IF b = a /\ j = k THEN v ELSE Visible(out, b, j)
<1> DEFINE new == [out EXCEPT !.updates[a][k] = v, !.refund = r]
<1>1. new \in OutputType
  BY DEF OutputType
<1>2. ASSUME NEW b \in Addresses, NEW j \in Keys
      PROVE  Visible(new, b, j) = IF b = a /\ j = k THEN v ELSE Visible(out, b, j)
  <2>1. new.updates[b][j] = IF b = a /\ j = k THEN v ELSE out.updates[b][j]
    BY DEF OutputType
  <2>2. v # NoUpdate
    BY StorageAssumption DEF NoUpdate
  <2> QED BY <2>1, <2>2 DEF Visible
<1> QED BY <1>1, <1>2

(* One output state has an entry for every key that another has.           *)
Covers(out, earlier) ==
  \A a \in Addresses, k \in Keys :
    earlier.updates[a][k] # NoUpdate => out.updates[a][k] # NoUpdate

(* Merging into a state that is covered keeps every visible value.         *)
LEMMA MergeKeeps ==
  ASSUME chain \in StorageType, NEW left \in OutputType, NEW right \in OutputType,
         Covers(right, left)
  PROVE  /\ MergeVMOutputs(left, right) \in OutputType
         /\ \A a \in Addresses, k \in Keys :
              /\ MergeVMOutputs(left, right).updates[a][k] = right.updates[a][k]
              /\ Visible(MergeVMOutputs(left, right), a, k) = Visible(right, a, k)
<1>1. MergeVMOutputs(left, right) \in OutputType
  BY DEF MergeVMOutputs, OutputType
<1>2. ASSUME NEW a \in Addresses, NEW k \in Keys
      PROVE  MergeVMOutputs(left, right).updates[a][k] = right.updates[a][k]
  <2>1. MergeVMOutputs(left, right).updates[a][k] =
          IF right.updates[a][k] # NoUpdate THEN right.updates[a][k]
                                            ELSE left.updates[a][k]
    BY DEF MergeVMOutputs
  <2>2. left.updates[a][k] # NoUpdate => right.updates[a][k] # NoUpdate
    BY DEF Covers
  <2> QED BY <2>1, <2>2
<1>3. ASSUME NEW a \in Addresses, NEW k \in Keys
      PROVE  Visible(MergeVMOutputs(left, right), a, k) = Visible(right, a, k)
  BY <1>2 DEF Visible
<1> QED BY <1>1, <1>2, <1>3

(* A fresh output state shows the storage of the node.                     *)
LEMMA NewOutput ==
  /\ NewVMOutput \in OutputType
  /\ \A a \in Addresses, k \in Keys : Visible(NewVMOutput, a, k) = chain[a][k]
BY DEF NewVMOutput, OutputType, Visible

(* Censoring keeps the updates.                                            *)
LEMMA CensorKeeps ==
  ASSUME NEW out \in OutputType
  PROVE  CensorVMOutput(out) \in OutputType /\ CensorVMOutput(out).updates = out.updates
BY DEF CensorVMOutput, OutputType

-----------------------------------------------------------------------------
(* Type correctness.                                                       *)

(* The innermost frame and the frames below it.                            *)
LEMMA Innermosts ==
  ASSUME frames \in Seq(FrameType), frames # <<>>
  PROVE  /\ Len(frames) \in Nat /\ Len(frames) >= 1
         /\ Innermost \in FrameType
         /\ SubSeq(frames, 1, Len(frames) - 1) \in Seq(FrameType)
         /\ Len(SubSeq(frames, 1, Len(frames) - 1)) = Len(frames) - 1
         /\ \A i \in 1 .. Len(frames) - 1 :
              SubSeq(frames, 1, Len(frames) - 1)[i] = frames[i]
<1>1. PICK n \in Nat : n = Len(frames)
  OBVIOUS
<1>2. n >= 1
  BY <1>1
<1>3. \A i \in 1 .. n : frames[i] \in FrameType
  BY <1>1
<1>4. Innermost \in FrameType
  BY <1>1, <1>2, <1>3 DEF Innermost
<1>5. SubSeq(frames, 1, n - 1) \in Seq(FrameType)
  BY <1>1, <1>2
<1>6. Len(SubSeq(frames, 1, n - 1)) = n - 1
  BY <1>1, <1>2
<1>7. \A i \in 1 .. n - 1 : SubSeq(frames, 1, n - 1)[i] = frames[i]
  BY <1>1, <1>2
<1> QED BY <1>1, <1>2, <1>4, <1>5, <1>6, <1>7

(* What the expected storage becomes by a write.                           *)
LEMMA HistoryStore ==
  ASSUME history \in HistoryType, NEW a \in Addresses, NEW k \in Keys,
         NEW v \in Values, NEW r \in Nat
  PROVE  LET new == [history EXCEPT !.storage[a][k] = v, !.refund = r]
         IN  /\ new \in HistoryType
             /\ \A b \in Addresses, j \in Keys :
                  new.storage[b][j] = IF b = a /\ j = k THEN v ELSE history.storage[b][j]
BY DEF HistoryType, StorageType

(* What is expected of a read is a value.                                  *)
LEMMA ExpectedType ==
  ASSUME chain \in StorageType, history \in HistoryType,
         NEW a \in Addresses, NEW k \in Keys
  PROVE  Expected(a, k) \in Values
BY DEF Expected, StorageType, HistoryType

(* The value is stored in output and expected storage.                     *)
Stored(k, v) ==
  \E r, e \in Nat :
    /\ output' = [output EXCEPT !.updates[address][k] = v, !.refund = r]
    /\ history' = [history EXCEPT !.storage[address][k] = v, !.refund = e]

(* SetStorage as a whole: nothing happens, the execution fails, or the     *)
(* value is stored in output and expected storage.                         *)
LEMMA SetStorageCases ==
  ASSUME TypeOK, NEW k \in Keys, NEW v \in Values, NEW p \in BOOLEAN,
         SetStorage(k, v, p)
  PROVE  /\ status' \in {status, "failing"} /\ paid' \in Nat
         /\ UNCHANGED <<chain, address, readOnly, frames, read>>
         /\ UNCHANGED <<output, history>> \/ Stored(k, v)
<1> DEFINE old == Visible(output, address, k)
           expected == history.storage[address][k]
<1>1. old \in Values /\ expected \in Values
  BY VisibleType DEF TypeOK, HistoryType, StorageType
<1> HIDE DEF old, expected
<1>2. output.refund + FreedFor(old, v) \in Nat
  <2>1. FreedFor(old, v) \in Nat
    BY <1>1, GasType
  <2>2. output.refund \in Nat
    BY DEF TypeOK, OutputType
  <2> QED BY <2>1, <2>2
<1>3. history.refund + FreedFor(expected, v) \in Nat
  <2>1. FreedFor(expected, v) \in Nat
    BY <1>1, GasType
  <2>2. history.refund \in Nat
    BY DEF TypeOK, HistoryType
  <2> QED BY <2>1, <2>2
<1>4. paid + PaidFor(old, v) \in Nat
  <2>1. PaidFor(old, v) \in Nat
    BY <1>1, GasType
  <2> QED BY <2>1 DEF TypeOK
<1>5. UNCHANGED <<chain, address, readOnly, frames, read>>
  BY DEF SetStorage
<1>6. CASE readOnly
  BY <1>5, <1>6 DEF SetStorage, TypeOK
<1>7. CASE ~ readOnly /\ Refused(k, p)
  BY <1>5, <1>7 DEF SetStorage, TypeOK
<1>8. CASE ~ readOnly /\ ~ Refused(k, p)
  <2>1. output' = [output EXCEPT !.updates[address][k] = v,
                                 !.refund = output.refund + FreedFor(old, v)]
    BY <1>8 DEF SetStorage, old
  <2>2. history' = [history EXCEPT !.storage[address][k] = v,
                                   !.refund = history.refund + FreedFor(expected, v)]
    BY <1>8 DEF SetStorage, expected
  <2>3. paid' \in Nat /\ status' = status
    BY <1>8, <1>4 DEF SetStorage, old
  <2>4. Stored(k, v)
    BY <2>1, <2>2, <1>2, <1>3, Zenon DEF Stored
  <2> QED BY <2>3, <2>4, <1>5
<1> QED BY <1>6, <1>7, <1>8

(* The initial state is well typed.                                        *)
LEMMA InitType == Init => TypeOK
<1> SUFFICES ASSUME Init PROVE TypeOK
  OBVIOUS
<1>1. chain \in StorageType
  <2>1. PICK stored \in [BaseKeys -> StoredValues] :
          chain = [a \in Addresses |-> [k \in Keys |->
                     IF k \in BaseKeys THEN stored[k] ELSE 0]]
    BY DEF Init
  <2>2. \A k \in Keys : (IF k \in BaseKeys THEN stored[k] ELSE 0) \in Values
    BY StorageAssumption
  <2> QED BY <2>1, <2>2 DEF StorageType
<1>2. history \in HistoryType
  BY <1>1 DEF Init, HistoryType
<1>3. output \in OutputType
  BY NewOutput DEF Init
<1>4. read \in [hook : {"none", "load", "loadFrom"}, key : Keys \cup {<<>>},
                value : Values, expected : Values]
  BY StorageAssumption DEF Init, NoRead
<1>5. frames \in Seq(FrameType)
  BY DEF Init
<1>6. ops \in 0 .. MaxOps /\ paid \in Nat
  BY StorageAssumption DEF Init
<1>7. status \in {"running", "failing", "done"}
  BY DEF Init
<1>8. address \in Addresses /\ readOnly \in BOOLEAN
  BY DEF Init
<1> QED BY <1>1, <1>2, <1>3, <1>4, <1>5, <1>6, <1>7, <1>8 DEF TypeOK

(* Every step keeps the types.                                             *)
LEMMA StepType == TypeOK /\ [Next]_vars => TypeOK'
<1> SUFFICES ASSUME TypeOK, [Next]_vars PROVE TypeOK'
  OBVIOUS
<1> DEFINE ReadType == [hook : {"none", "load", "loadFrom"}, key : Keys \cup {<<>>},
                        value : Values, expected : Values]
<1>0. MaxOps \in Nat
  BY StorageAssumption
<1>1. ASSUME NEW name, Hook(name)
      PROVE  ops' \in 0 .. MaxOps
  BY <1>0, <1>1 DEF Hook, TypeOK
<1>2. ASSUME NEW k \in Keys, NEW v \in Values, NEW p \in BOOLEAN,
             SetStorage(k, v, p), ops' \in 0 .. MaxOps
      PROVE  TypeOK'
  <2>1. /\ status' \in {status, "failing"} /\ paid' \in Nat
        /\ UNCHANGED <<chain, address, readOnly, frames, read>>
    BY <1>2, SetStorageCases
  <2>2. output' \in OutputType /\ history' \in HistoryType
    <3>1. CASE UNCHANGED <<output, history>>
      BY <3>1 DEF TypeOK
    <3>2. CASE Stored(k, v)
      <4>1. PICK r \in Nat, e \in Nat :
              /\ output' = [output EXCEPT !.updates[address][k] = v, !.refund = r]
              /\ history' = [history EXCEPT !.storage[address][k] = v, !.refund = e]
        BY <3>2, Zenon DEF Stored
      <4>2. output' \in OutputType
        BY <4>1, StoreSets DEF TypeOK
      <4>3. history' \in HistoryType
        BY <4>1, HistoryStore DEF TypeOK
      <4> QED BY <4>2, <4>3
    <3> QED BY <1>2, <3>1, <3>2, SetStorageCases
  <2> QED BY <2>1, <2>2, <1>2 DEF TypeOK
<1>3. ASSUME NEW k \in Keys, NEW v \in Values, StorageStore(k, v)
      PROVE  TypeOK'
  BY <1>3, <1>1, <1>2 DEF StorageStore
<1>4. ASSUME NEW k \in BaseKeys, NEW t \in Timestamps, SetStorageLock(k, t)
      PROVE  TypeOK'
  <2>1. Magnitude(t) \in Values
    BY StorageAssumption
  <2> QED BY <1>4, <1>1, <1>2, <2>1, LockKey DEF SetStorageLock
<1>5. ASSUME NEW k \in Keys, StorageLoad(k)
      PROVE  TypeOK'
  <2>1. output' \in OutputType
    BY <1>5, CacheKeeps DEF StorageLoad, TypeOK
  <2>2. Visible(output, address, k) \in Values /\ Expected(address, k) \in Values
    BY VisibleType, ExpectedType DEF TypeOK
  <2>3. read' \in ReadType
    BY <1>5, <2>2 DEF StorageLoad
  <2>4. ops' \in 0 .. MaxOps
    BY <1>5, <1>1 DEF StorageLoad
  <2> QED BY <1>5, <2>1, <2>3, <2>4 DEF StorageLoad, TypeOK
<1>6. ASSUME NEW a \in Addresses, NEW k \in Keys, StorageLoadFromAddress(a, k)
      PROVE  TypeOK'
  <2>1. Cache(output, a, k) \in OutputType
    BY CacheKeeps DEF TypeOK
  <2>2. Visible(output, a, k) \in Values /\ Expected(a, k) \in Values
    BY VisibleType, ExpectedType DEF TypeOK
  <2>3. chain[a][k] \in Values
    BY DEF TypeOK, StorageType
  <2>4. output' \in OutputType /\ read' \in ReadType
    BY <1>6, <2>1, <2>2, <2>3
       DEF StorageLoadFromAddress, ReadUncached, ReadCached, TypeOK
  <2>5. ops' \in 0 .. MaxOps
    BY <1>6, <1>1 DEF StorageLoadFromAddress
  <2> QED BY <1>6, <2>4, <2>5 DEF StorageLoadFromAddress, TypeOK
<1>7. ASSUME NEW a \in Addresses, NEW k \in Keys, NEW v \in Values,
             ProcessBuiltInFunction(a, k, v)
      PROVE  TypeOK'
  <2>1. chain' \in StorageType
    BY <1>7 DEF ProcessBuiltInFunction, TypeOK, StorageType
  <2>2. ops' \in 0 .. MaxOps
    BY <1>7, <1>1 DEF ProcessBuiltInFunction
  <2> QED BY <1>7, <2>1, <2>2 DEF ProcessBuiltInFunction, TypeOK
<1>8. ASSUME NEW c \in OwnContext \cup SameContext, NEW a \in Addresses, Call(c, a)
      PROVE  TypeOK'
  <2>1. Frame(c) \in FrameType
    BY DEF Frame, FrameType, TypeOK
  <2>2. frames' \in Seq(FrameType)
    BY <1>8, <2>1 DEF Call, TypeOK
  <2>3. output' \in OutputType /\ address' \in Addresses
    BY <1>8, CensorKeeps DEF Call, TypeOK
  <2>4. readOnly' \in BOOLEAN
    BY <1>8 DEF Call
  <2>5. ops' \in 0 .. MaxOps
    BY <1>8, <1>1 DEF Call
  <2> QED BY <1>8, <2>2, <2>3, <2>4, <2>5 DEF Call, TypeOK
<1>9. ASSUME Pop
      PROVE  /\ Innermost \in FrameType /\ frames' \in Seq(FrameType)
             /\ address' \in Addresses /\ readOnly' \in BOOLEAN
             /\ UNCHANGED <<chain, paid, read, ops>>
  <2>1. Innermost \in FrameType /\ SubSeq(frames, 1, Len(frames) - 1) \in Seq(FrameType)
    BY <1>9, Innermosts DEF Pop, TypeOK
  <2> QED BY <1>9, <2>1 DEF Pop, FrameType
<1>10. ASSUME EndCall
       PROVE  TypeOK'
  <2>1. Pop /\ status' = status /\ history' = history
    BY <1>10 DEF EndCall
  <2>2. MergeVMOutputs(Innermost.pushed, output) \in OutputType
    <3>1. Innermost.pushed \in OutputType /\ output \in OutputType
      BY <1>9, <2>1 DEF FrameType, TypeOK
    <3> QED BY <3>1 DEF MergeVMOutputs, OutputType
  <2>3. output' \in OutputType
    BY <1>10, <2>2 DEF EndCall, TypeOK
  <2> QED BY <1>9, <2>1, <2>3 DEF TypeOK
<1>11. ASSUME FailCall
       PROVE  TypeOK'
  <2>1. Pop /\ status' \in {"running", "failing"}
    BY <1>11 DEF FailCall
  <2>2. output' \in OutputType /\ history' \in HistoryType
    BY <1>9, <1>11, <2>1 DEF FailCall, PopSetActiveState, FrameType
  <2> QED BY <1>9, <2>1, <2>2 DEF TypeOK
<1>12. ASSUME EndTransaction
       PROVE  TypeOK'
  BY <1>12 DEF EndTransaction, TypeOK
<1>13. ASSUME FailTransaction
       PROVE  TypeOK'
  <2>1. output' \in OutputType
    BY <1>13, NewOutput DEF FailTransaction
  <2>2. history' \in HistoryType
    BY <1>13 DEF FailTransaction, HistoryType, TypeOK
  <2> QED BY <1>13, <2>1, <2>2 DEF FailTransaction, TypeOK
<1>14. ASSUME UNCHANGED vars
       PROVE  TypeOK'
  BY <1>14 DEF vars, TypeOK
<1> QED BY <1>3, <1>4, <1>5, <1>6, <1>7, <1>8, <1>10, <1>11, <1>12, <1>13, <1>14
        DEF Next

(* TypeOK of Storage for every value of the constants: addresses, keys and *)
(* values stay what they are and no refund or payment becomes negative.    *)
THEOREM StorageTypeCorrect == Spec => []TypeOK
<1>1. Init => TypeOK
  BY InitType
<1>2. TypeOK /\ [Next]_vars => TypeOK'
  BY StepType
<1> QED BY <1>1, <1>2, PTL DEF Spec

-----------------------------------------------------------------------------
(* The inductive invariant.  Every pushed output state shows the storage   *)
(* that was expected when it was pushed, so that a pop of a failed call    *)
(* brings both back; and output states only gain entries from a frame to   *)
(* those above it, so that a merge adds nothing to what the callee saw.    *)

FramesCoherent ==
  \A i \in 1 .. Len(frames) : Coherent(frames[i].pushed, frames[i].history.storage)

CacheGrows ==
  \A i \in 1 .. Len(frames) :
    /\ Covers(output, frames[i].pushed)
    /\ \A j \in 1 .. Len(frames) : i < j => Covers(frames[j].pushed, frames[i].pushed)

StorageInv ==
  TypeOK /\ StorageIsWritten /\ FramesCoherent /\ CacheGrows /\ ReadsAreCurrent

(* The invariant holds initially.                                          *)
LEMMA InitStorageInv == Init => StorageInv
<1> SUFFICES ASSUME Init PROVE StorageInv
  OBVIOUS
<1>1. TypeOK
  BY InitType
<1>2. StorageIsWritten
  <2>1. output = NewVMOutput /\ history.storage = chain
    BY DEF Init
  <2> QED BY <2>1, NewOutput DEF StorageIsWritten, Coherent
<1>3. FramesCoherent /\ CacheGrows
  <2>1. Len(frames) = 0
    BY DEF Init
  <2> QED BY <2>1 DEF FramesCoherent, CacheGrows
<1>4. ReadsAreCurrent
  BY DEF Init, NoRead, ReadsAreCurrent
<1> QED BY <1>1, <1>2, <1>3, <1>4 DEF StorageInv

(* Covering is transitive.                                                 *)
LEMMA CoversTransitive ==
  ASSUME NEW x, NEW y, NEW z, Covers(x, y), Covers(y, z)
  PROVE  Covers(x, z)
BY DEF Covers

(* A step that leaves the frames alone, keeps the entries of the output    *)
(* and gives no unprotected key of a pushed state another value.           *)
LEMMA FramesKept ==
  ASSUME StorageInv, UNCHANGED frames, Covers(output', output),
         \A a \in Addresses, k \in Keys :
           ~ IsProtocolProtectedKey(k) => chain'[a][k] = chain[a][k]
  PROVE  FramesCoherent' /\ CacheGrows'
<1>1. FramesCoherent'
  <2> SUFFICES ASSUME NEW i \in 1 .. Len(frames)
               PROVE  Coherent(frames[i].pushed, frames[i].history.storage)'
    BY DEF FramesCoherent
  <2>1. Coherent(frames[i].pushed, frames[i].history.storage)
    BY DEF StorageInv, FramesCoherent
  <2>2. frames' = frames
    OBVIOUS
  <2> SUFFICES ASSUME NEW a \in Addresses, NEW k \in Keys, ~ IsProtocolProtectedKey(k)
               PROVE  Visible(frames[i].pushed, a, k)' = frames[i].history.storage[a][k]
    BY <2>2 DEF Coherent
  <2>3. Visible(frames[i].pushed, a, k) = frames[i].history.storage[a][k]
    BY <2>1 DEF Coherent
  <2>4. chain'[a][k] = chain[a][k]
    OBVIOUS
  <2> QED BY <2>2, <2>3, <2>4 DEF Visible
<1>2. CacheGrows'
  <2> SUFFICES ASSUME NEW i \in 1 .. Len(frames)
               PROVE  /\ Covers(output', frames[i].pushed)
                      /\ \A j \in 1 .. Len(frames) :
                           i < j => Covers(frames[j].pushed, frames[i].pushed)
    BY DEF CacheGrows, Covers
  <2>1. Covers(output, frames[i].pushed)
    BY DEF StorageInv, CacheGrows
  <2>2. Covers(output', frames[i].pushed)
    BY <2>1, CoversTransitive
  <2>3. \A j \in 1 .. Len(frames) : i < j => Covers(frames[j].pushed, frames[i].pushed)
    BY DEF StorageInv, CacheGrows
  <2> QED BY <2>2, <2>3
<1> QED BY <1>1, <1>2

(* A write keeps the invariant, whatever its outcome.                      *)
LEMMA SetStorageKeeps ==
  ASSUME StorageInv, NEW k \in Keys, NEW v \in Values, NEW p \in BOOLEAN,
         SetStorage(k, v, p)
  PROVE  StorageIsWritten' /\ FramesCoherent' /\ CacheGrows' /\ ReadsAreCurrent'
<1>1. UNCHANGED <<chain, address, frames, read>>
  BY SetStorageCases DEF StorageInv
<1>2. ReadsAreCurrent'
  BY <1>1 DEF StorageInv, ReadsAreCurrent
<1>3. CASE UNCHANGED <<output, history>>
  <2>1. StorageIsWritten'
    BY <1>1, <1>3 DEF StorageInv, StorageIsWritten, Coherent, Visible
  <2>2. Covers(output', output)
    BY <1>3 DEF Covers
  <2>3. FramesCoherent' /\ CacheGrows'
    BY <1>1, <2>2, FramesKept
  <2> QED BY <1>2, <2>1, <2>3
<1>4. CASE Stored(k, v)
  <2>1. PICK r \in Nat, e \in Nat :
          /\ output' = [output EXCEPT !.updates[address][k] = v, !.refund = r]
          /\ history' = [history EXCEPT !.storage[address][k] = v, !.refund = e]
    BY <1>4, Zenon DEF Stored
  <2>2. ASSUME NEW b \in Addresses, NEW j \in Keys
        PROVE  /\ output'.updates[b][j] =
                    IF b = address /\ j = k THEN v ELSE output.updates[b][j]
               /\ history'.storage[b][j] =
                    IF b = address /\ j = k THEN v ELSE history.storage[b][j]
    <3>1. output'.updates[b][j] =
            IF b = address /\ j = k THEN v ELSE output.updates[b][j]
      BY <2>1 DEF StorageInv, TypeOK, OutputType
    <3>2. history'.storage[b][j] =
            IF b = address /\ j = k THEN v ELSE history.storage[b][j]
      BY <2>1 DEF StorageInv, TypeOK, HistoryType, StorageType
    <3> QED BY <3>1, <3>2
  <2>3. StorageIsWritten'
    <3> SUFFICES ASSUME NEW b \in Addresses, NEW j \in Keys,
                        ~ IsProtocolProtectedKey(j)
                 PROVE  Visible(output, b, j)' = history'.storage[b][j]
      BY DEF StorageIsWritten, Coherent
    <3>1. Visible(output, b, j) = history.storage[b][j]
      BY DEF StorageInv, StorageIsWritten, Coherent
    <3>2. v # NoUpdate
      BY StorageAssumption DEF NoUpdate
    <3> QED BY <1>1, <2>2, <3>1, <3>2 DEF Visible
  <2>4. Covers(output', output)
    <3>1. v # NoUpdate
      BY StorageAssumption DEF NoUpdate
    <3> QED BY <2>2, <3>1 DEF Covers
  <2>5. FramesCoherent' /\ CacheGrows'
    BY <1>1, <2>4, FramesKept
  <2> QED BY <1>2, <2>3, <2>5
<1> QED BY <1>3, <1>4, SetStorageCases DEF StorageInv

(* Reading through the cache keeps what is visible.                        *)
LEMMA ReadKeeps ==
  ASSUME StorageInv, NEW a \in Addresses, NEW k \in Keys,
         output' \in {output, Cache(output, a, k)},
         UNCHANGED <<chain, frames, history>>
  PROVE  StorageIsWritten' /\ FramesCoherent' /\ CacheGrows'
<1>1. \A b \in Addresses, j \in Keys : Visible(output', b, j) = Visible(output, b, j)
  BY CacheKeeps DEF StorageInv, TypeOK
<1>2. StorageIsWritten'
  <2> SUFFICES ASSUME NEW b \in Addresses, NEW j \in Keys, ~ IsProtocolProtectedKey(j)
               PROVE  Visible(output, b, j)' = history.storage[b][j]
    BY DEF StorageIsWritten, Coherent
  <2>1. Visible(output, b, j) = history.storage[b][j]
    BY DEF StorageInv, StorageIsWritten, Coherent
  <2>2. Visible(output, b, j)' = Visible(output', b, j)
    BY DEF Visible
  <2> QED BY <1>1, <2>1, <2>2
<1>3. Covers(Cache(output, a, k), output)
  <2> SUFFICES ASSUME NEW b \in Addresses, NEW j \in Keys,
                      output.updates[b][j] # NoUpdate
               PROVE  Cache(output, a, k).updates[b][j] # NoUpdate
    BY DEF Covers
  <2>1. Cache(output, a, k).updates[b][j] =
          IF b = a /\ j = k THEN Visible(output, a, k) ELSE output.updates[b][j]
    BY DEF Cache, StorageInv, TypeOK, OutputType
  <2>2. Visible(output, a, k) # NoUpdate
    BY VisibleType, StorageAssumption DEF StorageInv, TypeOK, NoUpdate
  <2> QED BY <2>1, <2>2
<1>4. Covers(output', output)
  BY <1>3 DEF Covers
<1>5. FramesCoherent' /\ CacheGrows'
  BY <1>4, FramesKept
<1> QED BY <1>2, <1>5

(* The frames that remain after a pop.                                     *)
LEMMA PopKeeps ==
  ASSUME StorageInv, Pop, output' \in OutputType,
         Covers(output', Innermost.pushed)
  PROVE  FramesCoherent' /\ CacheGrows' /\ ReadsAreCurrent'
<1>1. PICK n \in Nat : n = Len(frames)
  BY DEF StorageInv, TypeOK
<1>2. /\ n >= 1 /\ Len(frames') = n - 1
      /\ \A i \in 1 .. n - 1 : frames'[i] = frames[i]
      /\ Innermost = frames[n] /\ chain' = chain /\ read' = read
  BY <1>1, Innermosts DEF Pop, StorageInv, TypeOK, Innermost
<1>3. FramesCoherent'
  <2> SUFFICES ASSUME NEW i \in 1 .. n - 1
               PROVE  Coherent(frames[i].pushed, frames[i].history.storage)'
    BY <1>2 DEF FramesCoherent
  <2>1. Coherent(frames[i].pushed, frames[i].history.storage)
    BY <1>1, <1>2 DEF StorageInv, FramesCoherent
  <2> QED BY <1>2, <2>1 DEF Coherent, Visible
<1>4. CacheGrows'
  <2> SUFFICES ASSUME NEW i \in 1 .. n - 1
               PROVE  /\ Covers(output', frames'[i].pushed)
                      /\ \A j \in 1 .. n - 1 :
                           i < j => Covers(frames'[j].pushed, frames'[i].pushed)
    BY <1>2 DEF CacheGrows, Covers
  <2>1. i \in 1 .. n /\ n \in 1 .. n /\ i < n
    BY <1>2
  <2>2. \A j \in 1 .. n : i < j => Covers(frames[j].pushed, frames[i].pushed)
    BY <1>1, <2>1 DEF StorageInv, CacheGrows
  <2>3. Covers(frames[n].pushed, frames[i].pushed)
    BY <2>1, <2>2
  <2>4. Covers(output', frames[i].pushed)
    BY <1>2, <2>3, CoversTransitive
  <2>5. \A j \in 1 .. n - 1 : i < j => Covers(frames[j].pushed, frames[i].pushed)
    BY <1>2, <2>2
  <2> QED BY <1>2, <2>4, <2>5
<1>5. ReadsAreCurrent'
  BY <1>2 DEF StorageInv, ReadsAreCurrent
<1> QED BY <1>3, <1>4, <1>5

(* The frames with the one that Call pushes.                               *)
LEMMA CallKeeps ==
  ASSUME StorageInv, NEW c \in OwnContext \cup SameContext, NEW a \in Addresses,
         Call(c, a)
  PROVE  StorageIsWritten' /\ FramesCoherent' /\ CacheGrows' /\ ReadsAreCurrent'
<1>1. PICK n \in Nat : n = Len(frames)
  BY DEF StorageInv, TypeOK
<1>2. /\ frames' = Append(frames, Frame(c))
      /\ chain' = chain /\ read' = read /\ history' = history
  BY DEF Call
<1>3. /\ Len(frames') = n + 1 /\ frames'[n + 1] = Frame(c)
      /\ \A i \in 1 .. n : frames'[i] = frames[i]
  <2>1. Frame(c) \in FrameType
    BY DEF Frame, FrameType, StorageInv, TypeOK
  <2>2. frames \in Seq(FrameType)
    BY DEF StorageInv, TypeOK
  <2> QED BY <1>1, <1>2, <2>1, <2>2
<1>4. Frame(c).pushed = output /\ Frame(c).history = history
  BY DEF Frame
<1>5. output'.updates = output.updates
  BY CensorKeeps DEF Call, StorageInv, TypeOK
<1>6. StorageIsWritten'
  BY <1>2, <1>5 DEF StorageInv, StorageIsWritten, Coherent, Visible
<1>7. FramesCoherent'
  <2> SUFFICES ASSUME NEW i \in 1 .. n + 1
               PROVE  Coherent(frames[i].pushed, frames[i].history.storage)'
    BY <1>3 DEF FramesCoherent
  <2>1. CASE i = n + 1
    <3>1. Coherent(output, history.storage)
      BY DEF StorageInv, StorageIsWritten
    <3> QED BY <1>2, <1>3, <1>4, <2>1, <3>1 DEF Coherent, Visible
  <2>2. CASE i \in 1 .. n
    <3>1. Coherent(frames[i].pushed, frames[i].history.storage)
      BY <1>1, <2>2 DEF StorageInv, FramesCoherent
    <3> QED BY <1>2, <1>3, <2>2, <3>1 DEF Coherent, Visible
  <2>3. i = n + 1 \/ i \in 1 .. n
    OBVIOUS
  <2> QED BY <2>1, <2>2, <2>3
<1>8. CacheGrows'
  <2> SUFFICES ASSUME NEW i \in 1 .. n + 1
               PROVE  /\ Covers(output', frames'[i].pushed)
                      /\ \A j \in 1 .. n + 1 :
                           i < j => Covers(frames'[j].pushed, frames'[i].pushed)
    BY <1>3 DEF CacheGrows, Covers
  <2>1. Covers(output', output) /\ Covers(output, output)
    BY <1>5 DEF Covers
  <2>2. CASE i = n + 1
    <3>1. \A j \in 1 .. n + 1 : ~ (i < j)
      BY <2>2
    <3>2. Covers(output', frames'[i].pushed)
      BY <1>3, <1>4, <2>1, <2>2
    <3> QED BY <3>1, <3>2
  <2>3. CASE i \in 1 .. n
    <3>1. Covers(output, frames[i].pushed)
      BY <1>1, <2>3 DEF StorageInv, CacheGrows
    <3>2. Covers(output', frames'[i].pushed)
      BY <1>3, <2>1, <2>3, <3>1, CoversTransitive
    <3>3. ASSUME NEW j \in 1 .. n + 1, i < j
          PROVE  Covers(frames'[j].pushed, frames'[i].pushed)
      <4>1. CASE j = n + 1
        BY <1>3, <1>4, <2>3, <3>1, <4>1
      <4>2. CASE j \in 1 .. n
        <5>1. Covers(frames[j].pushed, frames[i].pushed)
          BY <1>1, <2>3, <3>3, <4>2 DEF StorageInv, CacheGrows
        <5> QED BY <1>3, <2>3, <4>2, <5>1
      <4>3. j = n + 1 \/ j \in 1 .. n
        OBVIOUS
      <4> QED BY <4>1, <4>2, <4>3
    <3> QED BY <3>2, <3>3
  <2>4. i = n + 1 \/ i \in 1 .. n
    OBVIOUS
  <2> QED BY <2>2, <2>3, <2>4
<1>9. ReadsAreCurrent'
  BY <1>2 DEF StorageInv, ReadsAreCurrent
<1> QED BY <1>6, <1>7, <1>8, <1>9

(* The frame that Pop removes: the state it brings back, and the state     *)
(* that the callee made of it.                                             *)
LEMMA InnermostCoherent ==
  ASSUME StorageInv, Pop
  PROVE  /\ Innermost \in FrameType
         /\ Coherent(Innermost.pushed, Innermost.history.storage)
         /\ Covers(output, Innermost.pushed)
<1>1. PICK n \in Nat : n = Len(frames)
  BY DEF StorageInv, TypeOK
<1>2. n \in 1 .. n /\ Innermost = frames[n] /\ Innermost \in FrameType
  BY <1>1, Innermosts DEF Pop, StorageInv, TypeOK, Innermost
<1>3. Coherent(frames[n].pushed, frames[n].history.storage)
  BY <1>1, <1>2 DEF StorageInv, FramesCoherent
<1>4. Covers(output, frames[n].pushed)
  BY <1>1, <1>2 DEF StorageInv, CacheGrows
<1> QED BY <1>2, <1>3, <1>4

(* A successful call: the merge leaves what the callee saw.                *)
LEMMA EndCallKeeps ==
  ASSUME StorageInv, EndCall, TypeOK'
  PROVE  StorageIsWritten' /\ FramesCoherent' /\ CacheGrows' /\ ReadsAreCurrent'
<1>1. Pop /\ chain' = chain /\ history' = history
  BY DEF EndCall, Pop
<1>2. /\ Innermost.pushed \in OutputType /\ Covers(output, Innermost.pushed)
      /\ output \in OutputType /\ chain \in StorageType
  BY <1>1, InnermostCoherent DEF FrameType, StorageInv, TypeOK
<1>3. ASSUME NEW a \in Addresses, NEW k \in Keys
      PROVE  output'.updates[a][k] = output.updates[a][k]
  <2>1. MergeVMOutputs(Innermost.pushed, output).updates[a][k] = output.updates[a][k]
    BY <1>2, MergeKeeps
  <2> QED BY <2>1 DEF EndCall
<1>4. StorageIsWritten'
  BY <1>1, <1>3 DEF StorageInv, StorageIsWritten, Coherent, Visible
<1>5. Covers(output', Innermost.pushed)
  BY <1>2, <1>3 DEF Covers
<1>6. output' \in OutputType
  BY DEF TypeOK
<1> QED BY <1>1, <1>4, <1>5, <1>6, PopKeeps

(* A failed call: what was pushed shows what was expected then.            *)
LEMMA FailCallKeeps ==
  ASSUME StorageInv, FailCall, TypeOK'
  PROVE  StorageIsWritten' /\ FramesCoherent' /\ CacheGrows' /\ ReadsAreCurrent'
<1>1. /\ Pop /\ chain' = chain
      /\ output' = Innermost.pushed /\ history' = Innermost.history
  BY DEF FailCall, Pop, PopSetActiveState
<1>2. Coherent(Innermost.pushed, Innermost.history.storage)
  BY <1>1, InnermostCoherent
<1>3. StorageIsWritten'
  BY <1>1, <1>2 DEF StorageIsWritten, Coherent, Visible
<1>4. Covers(output', Innermost.pushed)
  BY <1>1 DEF Covers
<1>5. output' \in OutputType
  BY DEF TypeOK
<1> QED BY <1>1, <1>3, <1>4, <1>5, PopKeeps

(* Every step keeps the invariant.                                         *)
LEMMA StepStorageInv == StorageInv /\ [Next]_vars => StorageInv'
<1> SUFFICES ASSUME StorageInv, [Next]_vars PROVE StorageInv'
  OBVIOUS
<1> DEFINE Rest == StorageIsWritten /\ FramesCoherent /\ CacheGrows /\ ReadsAreCurrent
<1>1. TypeOK'
  BY StepType DEF StorageInv
<1>2. ASSUME NEW k \in Keys, NEW v \in Values, StorageStore(k, v)
      PROVE  Rest'
  BY <1>2, SetStorageKeeps DEF StorageStore
<1>3. ASSUME NEW k \in BaseKeys, NEW t \in Timestamps, SetStorageLock(k, t)
      PROVE  Rest'
  <2>1. Magnitude(t) \in Values
    BY StorageAssumption
  <2> QED BY <1>3, <2>1, LockKey, SetStorageKeeps DEF SetStorageLock
<1>4. ASSUME NEW k \in Keys, StorageLoad(k)
      PROVE  Rest'
  <2>1. address \in Addresses
    BY DEF StorageInv, TypeOK
  <2>2. StorageIsWritten' /\ FramesCoherent' /\ CacheGrows'
    BY <1>4, <2>1, ReadKeeps DEF StorageLoad
  <2>3. read' = [hook |-> "load", key |-> k, value |-> Visible(output, address, k),
                 expected |-> Expected(address, k)]
    BY <1>4 DEF StorageLoad
  <2>4. ~ IsProtocolProtectedKey(k) =>
          Visible(output, address, k) = Expected(address, k)
    BY <2>1 DEF StorageInv, StorageIsWritten, Coherent, Expected
  <2>5. ReadsAreCurrent'
    BY <2>3, <2>4 DEF ReadsAreCurrent
  <2> QED BY <2>2, <2>5
<1>5. ASSUME NEW a \in Addresses, NEW k \in Keys, StorageLoadFromAddress(a, k)
      PROVE  Rest'
  <2>1. StorageIsWritten' /\ FramesCoherent' /\ CacheGrows'
    BY <1>5, ReadKeeps DEF StorageLoadFromAddress, ReadUncached, ReadCached
  <2>2. ~ IsProtocolProtectedKey(k) => Visible(output, a, k) = Expected(a, k)
    BY DEF StorageInv, StorageIsWritten, Coherent, Expected
  <2>3. IsProtocolProtectedKey(k) => chain[a][k] = Expected(a, k)
    BY DEF Expected
  <2>4. read' = read \/ read'.value = read'.expected
    BY <1>5, <2>2, <2>3 DEF StorageLoadFromAddress, ReadUncached, ReadCached
  <2>5. ReadsAreCurrent'
    BY <2>4 DEF StorageInv, ReadsAreCurrent
  <2> QED BY <2>1, <2>5
<1>6. ASSUME NEW a \in Addresses, NEW k \in Keys, NEW v \in Values,
             ProcessBuiltInFunction(a, k, v)
      PROVE  Rest'
  <2>1. /\ UNCHANGED <<output, frames, read, history>> /\ IsProtocolProtectedKey(k)
        /\ chain' = [chain EXCEPT ![a][k] = v]
    BY <1>6 DEF ProcessBuiltInFunction
  <2>2. chain \in [Addresses -> [Keys -> Values]]
    BY DEF StorageInv, TypeOK, StorageType
  <2>3. \A b \in Addresses, j \in Keys :
          ~ IsProtocolProtectedKey(j) => chain'[b][j] = chain[b][j]
    BY <2>1, <2>2
  <2>4. StorageIsWritten'
    BY <2>1, <2>3 DEF StorageInv, StorageIsWritten, Coherent, Visible
  <2>5. Covers(output', output)
    BY <2>1 DEF Covers
  <2>6. FramesCoherent' /\ CacheGrows'
    BY <2>1, <2>3, <2>5, FramesKept
  <2>7. ReadsAreCurrent'
    BY <2>1 DEF StorageInv, ReadsAreCurrent
  <2> QED BY <2>4, <2>6, <2>7
<1>7. ASSUME NEW c \in OwnContext \cup SameContext, NEW a \in Addresses, Call(c, a)
      PROVE  Rest'
  BY <1>7, CallKeeps
<1>8. ASSUME EndCall
      PROVE  Rest'
  BY <1>1, <1>8, EndCallKeeps
<1>9. ASSUME FailCall
      PROVE  Rest'
  BY <1>1, <1>9, FailCallKeeps
<1>10. ASSUME UNCHANGED <<chain, output, frames, read, history>>
       PROVE  Rest'
  <2>1. StorageIsWritten'
    BY <1>10 DEF StorageInv, StorageIsWritten, Coherent, Visible
  <2>2. Covers(output', output)
    BY <1>10 DEF Covers
  <2>3. FramesCoherent' /\ CacheGrows'
    BY <1>10, <2>2, FramesKept
  <2>4. ReadsAreCurrent'
    BY <1>10 DEF StorageInv, ReadsAreCurrent
  <2> QED BY <2>1, <2>3, <2>4
<1>11. ASSUME EndTransaction
       PROVE  Rest'
  BY <1>10, <1>11 DEF EndTransaction
<1>12. ASSUME FailTransaction
       PROVE  Rest'
  <2>1. /\ output' = NewVMOutput /\ history'.storage = chain
        /\ frames = <<>> /\ frames' = frames /\ chain' = chain /\ read' = read
    BY <1>12 DEF FailTransaction
  <2>2. \A a \in Addresses, k \in Keys : Visible(NewVMOutput, a, k) = chain[a][k]
    BY NewOutput
  <2>3. StorageIsWritten'
    BY <2>1, <2>2 DEF StorageIsWritten, Coherent, Visible
  <2>4. Len(frames') = 0
    BY <2>1
  <2>5. FramesCoherent' /\ CacheGrows'
    BY <2>4 DEF FramesCoherent, CacheGrows
  <2>6. ReadsAreCurrent'
    BY <2>1 DEF StorageInv, ReadsAreCurrent
  <2> QED BY <2>3, <2>5, <2>6
<1>13. ASSUME UNCHANGED vars
       PROVE  Rest'
  BY <1>10, <1>13 DEF vars
<1>14. Rest'
  BY <1>2, <1>3, <1>4, <1>5, <1>6, <1>7, <1>8, <1>9, <1>11, <1>12, <1>13 DEF Next
<1> QED BY <1>1, <1>14 DEF StorageInv

-----------------------------------------------------------------------------
(* The refund.  Pushed states keep the refund of their time, so that the   *)
(* pop of a failed call brings back no more than was earned until then.    *)

RefundsCoherent ==
  \A i \in 1 .. Len(frames) : frames[i].pushed.refund <= frames[i].history.refund

RefundInv == RefundOfSuccess /\ RefundsCoherent

(* A write frees the same in the output and in the expected storage, since *)
(* they agree on the old value.                                            *)
LEMMA SetStorageRefund ==
  ASSUME StorageInv, RefundOfSuccess, NEW k \in Keys, NEW v \in Values,
         NEW p \in BOOLEAN, SetStorage(k, v, p)
  PROVE  RefundOfSuccess' /\ UNCHANGED frames
<1>1. UNCHANGED frames
  BY DEF SetStorage
<1>2. CASE UNCHANGED <<output, history>>
  BY <1>1, <1>2 DEF RefundOfSuccess
<1>3. CASE ~ readOnly /\ ~ Refused(k, p)
  <2> DEFINE old == Visible(output, address, k)
             expected == history.storage[address][k]
             freed == FreedFor(old, v)
  <2>1. old = expected
    <3>1. ~ IsProtocolProtectedKey(k)
      BY <1>3 DEF Refused
    <3>2. address \in Addresses
      BY DEF StorageInv, TypeOK
    <3> QED BY <3>1, <3>2 DEF StorageInv, StorageIsWritten, Coherent
  <2>2. /\ output' = [output EXCEPT !.updates[address][k] = v,
                                    !.refund = output.refund + FreedFor(old, v)]
        /\ history' = [history EXCEPT !.storage[address][k] = v,
                                      !.refund = history.refund + FreedFor(expected, v)]
    BY <1>3 DEF SetStorage
  <2>3. freed \in Nat
    <3>1. old \in Values
      BY VisibleType DEF StorageInv, TypeOK
    <3> QED BY <3>1, GasType
  <2>4. output.refund \in Nat /\ history.refund \in Nat
    BY DEF StorageInv, TypeOK, OutputType, HistoryType
  <2> HIDE DEF old, expected
  <2>5. output'.refund = output.refund + freed
    BY <2>2 DEF StorageInv, TypeOK, OutputType
  <2>6. history'.refund = history.refund + freed
    BY <2>1, <2>2 DEF StorageInv, TypeOK, HistoryType
  <2> HIDE DEF freed
  <2> QED BY <1>1, <2>3, <2>4, <2>5, <2>6 DEF RefundOfSuccess
<1> QED BY <1>2, <1>3 DEF SetStorage

(* Every step keeps the refund within what was earned.                     *)
LEMMA StepRefundInv == StorageInv /\ RefundInv /\ [Next]_vars => RefundInv'
<1> SUFFICES ASSUME StorageInv, RefundInv, [Next]_vars PROVE RefundInv'
  OBVIOUS
<1>1. PICK n \in Nat : n = Len(frames)
  BY DEF StorageInv, TypeOK
<1>2. ASSUME UNCHANGED frames, RefundOfSuccess'
      PROVE  RefundInv'
  BY <1>2 DEF RefundInv, RefundsCoherent
<1>3. ASSUME NEW k \in Keys, NEW v \in Values, StorageStore(k, v)
      PROVE  RefundInv'
  BY <1>2, <1>3, SetStorageRefund DEF StorageStore, RefundInv
<1>4. ASSUME NEW k \in BaseKeys, NEW t \in Timestamps, SetStorageLock(k, t)
      PROVE  RefundInv'
  <2>1. Magnitude(t) \in Values
    BY StorageAssumption
  <2> QED BY <1>2, <1>4, <2>1, LockKey, SetStorageRefund DEF SetStorageLock, RefundInv
<1>5. ASSUME NEW a \in Addresses, NEW k \in Keys,
             output' \in {output, Cache(output, a, k)}, UNCHANGED <<frames, history>>
      PROVE  RefundInv'
  <2>1. Cache(output, a, k).refund = output.refund
    BY DEF Cache, StorageInv, TypeOK, OutputType
  <2>2. output'.refund = output.refund
    BY <1>5, <2>1
  <2> QED BY <1>2, <1>5, <2>2 DEF RefundInv, RefundOfSuccess
<1>6. ASSUME NEW k \in Keys, StorageLoad(k)
      PROVE  RefundInv'
  BY <1>5, <1>6 DEF StorageLoad, StorageInv, TypeOK
<1>7. ASSUME NEW a \in Addresses, NEW k \in Keys, StorageLoadFromAddress(a, k)
      PROVE  RefundInv'
  BY <1>5, <1>7 DEF StorageLoadFromAddress, ReadUncached, ReadCached
<1>8. ASSUME UNCHANGED <<output, frames, history>>
      PROVE  RefundInv'
  BY <1>2, <1>8 DEF RefundInv, RefundOfSuccess
<1>9. ASSUME NEW c \in OwnContext \cup SameContext, NEW a \in Addresses, Call(c, a)
      PROVE  RefundInv'
  <2>1. output.refund \in Nat /\ history.refund \in Nat
    BY DEF StorageInv, TypeOK, OutputType, HistoryType
  <2>2. output'.refund \in {0, output.refund} /\ history' = history
    BY <1>9 DEF Call, CensorVMOutput, StorageInv, TypeOK, OutputType
  <2>3. RefundOfSuccess'
    BY <2>1, <2>2 DEF RefundInv, RefundOfSuccess
  <2>4. /\ Len(frames') = n + 1 /\ frames'[n + 1] = Frame(c)
        /\ \A i \in 1 .. n : frames'[i] = frames[i]
    <3>1. Frame(c) \in FrameType
      BY DEF Frame, FrameType, StorageInv, TypeOK
    <3>2. frames \in Seq(FrameType) /\ frames' = Append(frames, Frame(c))
      BY <1>9 DEF Call, StorageInv, TypeOK
    <3> QED BY <1>1, <3>1, <3>2
  <2>5. Frame(c).pushed.refund <= Frame(c).history.refund
    BY DEF Frame, RefundInv, RefundOfSuccess
  <2>6. \A i \in 1 .. n : frames[i].pushed.refund <= frames[i].history.refund
    BY <1>1 DEF RefundInv, RefundsCoherent
  <2>7. ASSUME NEW i \in 1 .. n + 1
        PROVE  frames'[i].pushed.refund <= frames'[i].history.refund
    <3>1. i = n + 1 \/ i \in 1 .. n
      OBVIOUS
    <3> QED BY <2>4, <2>5, <2>6, <3>1
  <2>8. RefundsCoherent'
    BY <2>4, <2>7 DEF RefundsCoherent
  <2> QED BY <2>3, <2>8 DEF RefundInv
<1>10. ASSUME Pop
       PROVE  RefundsCoherent' /\ Innermost.pushed.refund <= Innermost.history.refund
  <2>1. /\ n >= 1 /\ Len(frames') = n - 1 /\ Innermost = frames[n]
        /\ \A i \in 1 .. n - 1 : frames'[i] = frames[i]
    BY <1>1, <1>10, Innermosts DEF Pop, StorageInv, TypeOK, Innermost
  <2>2. \A i \in 1 .. n : frames[i].pushed.refund <= frames[i].history.refund
    BY <1>1 DEF RefundInv, RefundsCoherent
  <2>3. RefundsCoherent'
    BY <2>1, <2>2 DEF RefundsCoherent
  <2> QED BY <2>1, <2>2, <2>3
<1>11. ASSUME EndCall
       PROVE  RefundInv'
  <2>1. output'.refund = output.refund /\ history' = history /\ Pop
    BY <1>11 DEF EndCall, MergeVMOutputs
  <2> QED BY <1>10, <2>1 DEF RefundInv, RefundOfSuccess
<1>12. ASSUME FailCall
       PROVE  RefundInv'
  BY <1>10, <1>12 DEF FailCall, PopSetActiveState, RefundInv, RefundOfSuccess
<1>13. ASSUME FailTransaction
       PROVE  RefundInv'
  <2>1. output'.refund = 0 /\ history'.refund = 0 /\ frames' = frames
    BY <1>13 DEF FailTransaction, NewVMOutput
  <2> QED BY <1>2, <2>1 DEF RefundOfSuccess
<1>14. ASSUME NEW a \in Addresses, NEW k \in Keys, NEW v \in Values,
              ProcessBuiltInFunction(a, k, v)
       PROVE  RefundInv'
  BY <1>8, <1>14 DEF ProcessBuiltInFunction
<1>15. CASE EndTransaction
  BY <1>8, <1>15 DEF EndTransaction
<1>16. CASE UNCHANGED vars
  BY <1>8, <1>16 DEF vars
<1> QED BY <1>3, <1>4, <1>6, <1>7, <1>9, <1>11, <1>12, <1>13, <1>14, <1>15, <1>16
        DEF Next

-----------------------------------------------------------------------------
(* What the refund pays for.  For the storage of the moment, and for the   *)
(* one that the failure of any call in progress would bring back, the gas  *)
(* paid so far less the refund of that moment covers the growth.           *)

Earned(h) == paid - h.refund >= ReleasePerByte * TotalGrowth(h.storage)
EarnedInv ==
  Earned(history) /\ \A i \in 1 .. Len(frames) : Earned(frames[i].history)

(* The slots of the storage are finitely many.                             *)
LEMMA SlotsAreFinite == IsFiniteSet(Addresses \X Keys)
<1>1. IsFiniteSet(Addresses) /\ IsFiniteSet(BaseKeys)
  BY StorageAssumption
<1>2. IsFiniteSet({CustomStorageKey(TimeLockKeyPrefix, k) : k \in BaseKeys})
  <2> DEFINE f == [k \in BaseKeys |-> CustomStorageKey(TimeLockKeyPrefix, k)]
             T == {CustomStorageKey(TimeLockKeyPrefix, k) : k \in BaseKeys}
  <2>1. f \in Surjection(BaseKeys, T)
    BY DEF Surjection
  <2> QED BY <1>1, <2>1, FS_Surjection
<1>3. IsFiniteSet(Keys)
  BY <1>1, <1>2, FS_Union DEF Keys
<1> QED BY <1>1, <1>3, FS_Product

(* The growths of the slots are integers, and so is their sum.             *)
LEMMA GrowthType ==
  ASSUME chain \in StorageType, NEW s \in StorageType
  PROVE  /\ [p \in Addresses \X Keys |-> Growth(s, p[1], p[2])]
              \in [Addresses \X Keys -> Int]
         /\ TotalGrowth(s) \in Int
<1>1. ASSUME NEW a \in Addresses, NEW k \in Keys PROVE Growth(s, a, k) \in Int
  <2>1. s[a][k] \in Values /\ chain[a][k] \in Values
    BY DEF StorageType
  <2>2. Length[s[a][k]] \in Nat /\ Length[chain[a][k]] \in Nat
    BY <2>1, StorageAssumption
  <2> QED BY <2>2 DEF Growth
<1>2. [p \in Addresses \X Keys |-> Growth(s, p[1], p[2])] \in [Addresses \X Keys -> Int]
  BY <1>1
<1> QED BY <1>2, SlotsAreFinite, SumTyped DEF TotalGrowth

(* A write changes the growth by the change of the length of its value.    *)
LEMMA GrowthOfWrite ==
  ASSUME chain \in StorageType, NEW s \in StorageType, NEW t \in StorageType,
         NEW a \in Addresses, NEW k \in Keys, ~ IsProtocolProtectedKey(k),
         \A b \in Addresses, j \in Keys : ~ (b = a /\ j = k) => t[b][j] = s[b][j]
  PROVE  TotalGrowth(t) = TotalGrowth(s) + (Length[t[a][k]] - Length[s[a][k]])
<1> DEFINE S == Addresses \X Keys
           f == [p \in S |-> Growth(s, p[1], p[2])]
           g == [p \in S |-> Growth(t, p[1], p[2])]
<1>1. f \in [S -> Int] /\ g \in [S -> Int] /\ IsFiniteSet(S)
  BY GrowthType, SlotsAreFinite
<1>2. PICK q \in S : q = <<a, k>>
  OBVIOUS
<1>3. ASSUME NEW p \in S \ {q} PROVE g[p] = f[p]
  <2>1. PICK b \in Addresses, j \in Keys : p = <<b, j>>
    OBVIOUS
  <2>2. t[b][j] = s[b][j]
    BY <1>2, <1>3, <2>1
  <2> QED BY <2>1, <2>2 DEF Growth
<1>4. f[q] = Growth(s, a, k) /\ g[q] = Growth(t, a, k)
  BY <1>2
<1>5. TotalGrowth(s) = SumFunction(f) /\ TotalGrowth(t) = SumFunction(g)
  BY DEF TotalGrowth
<1> HIDE DEF f, g, S
<1>6. SumFunction(g) = SumFunction(f) - f[q] + g[q]
  BY <1>1, <1>3, SumExcept
<1>7. SumFunction(f) \in Int
  BY <1>1, SumTyped
<1>8. s[a][k] \in Values /\ t[a][k] \in Values /\ chain[a][k] \in Values
  BY DEF StorageType
<1>9. PICK x \in Nat, y \in Nat, z \in Nat :
        x = Length[s[a][k]] /\ y = Length[t[a][k]] /\ z = Length[chain[a][k]]
  <2>1. Length[s[a][k]] \in Nat /\ Length[t[a][k]] \in Nat /\ Length[chain[a][k]] \in Nat
    BY <1>8, StorageAssumption
  <2> QED BY <2>1
<1>10. f[q] = x - z /\ g[q] = y - z
  BY <1>4, <1>9 DEF Growth
<1> QED BY <1>5, <1>6, <1>7, <1>9, <1>10

(* Storage that is the node's has not grown.                               *)
LEMMA NoGrowth == ASSUME chain \in StorageType PROVE TotalGrowth(chain) = 0
<1>1. ASSUME NEW p \in Addresses \X Keys PROVE Growth(chain, p[1], p[2]) = 0
  <2>1. chain[p[1]][p[2]] \in Values
    BY DEF StorageType
  <2>2. Length[chain[p[1]][p[2]]] \in Nat
    BY <2>1, StorageAssumption
  <2> QED BY <2>2 DEF Growth
<1>2. [p \in Addresses \X Keys |-> Growth(chain, p[1], p[2])]
        = [p \in Addresses \X Keys |-> 0]
  BY <1>1
<1> QED BY <1>2, SlotsAreFinite, SumOfZeros DEF TotalGrowth

(* Of products.                                                            *)
LEMMA ProductsGrow ==
  ASSUME NEW r \in Nat, NEW s \in Nat, NEW d \in Nat, r <= s
  PROVE  r * d \in Nat /\ s * d \in Nat /\ r * d <= s * d
<1>1. PICK e \in Nat : s = r + e
  <2>1. s - r \in Nat /\ s = r + (s - r)
    OBVIOUS
  <2> QED BY <2>1
<1>2. r * d \in Nat /\ e * d \in Nat /\ s * d = r * d + e * d
  BY <1>1
<1> QED BY <1>2

(* A write costs at least what it changes the storage by, at the price of  *)
(* a released byte, plus what it frees.                                    *)
LEMMA PriceOfWrite ==
  ASSUME NEW old \in Values, NEW new \in Values
  PROVE  PaidFor(old, new) - FreedFor(old, new) >=
           ReleasePerByte * (Length[new] - Length[old])
<1>1. PICK l \in Nat, m \in Nat : l = Length[old] /\ m = Length[new]
  BY StorageAssumption
<1>2. PICK r \in Nat, s \in Nat, p \in Nat :
        r = ReleasePerByte /\ s = StorePerByte /\ p = PersistPerByte /\ r <= s
  BY StorageAssumption, ReleaseAssumption
<1>3. CASE m > l
  <2>1. PICK d \in Nat : d = m - l
    BY <1>3
  <2>2. PaidFor(old, new) = p * l + s * d /\ FreedFor(old, new) = 0
    BY <1>1, <1>2, <1>3, <2>1 DEF PaidFor, FreedFor
  <2>3. r * d \in Nat /\ s * d \in Nat /\ r * d <= s * d
    BY <1>2, ProductsGrow
  <2>4. p * l \in Nat
    OBVIOUS
  <2>5. p * l + s * d - 0 >= r * d
    BY <2>3, <2>4
  <2> QED BY <1>1, <1>2, <2>1, <2>2, <2>5
<1>4. CASE m < l
  <2>1. PICK d \in Nat : d = l - m
    BY <1>4
  <2>2. PaidFor(old, new) = p * m /\ FreedFor(old, new) = r * d
    BY <1>1, <1>2, <1>4, <2>1 DEF PaidFor, FreedFor
  <2>3. p * m \in Nat /\ r * d \in Nat /\ r * (m - l) = - (r * d)
    BY <2>1
  <2>4. p * m - r * d >= r * (m - l)
    BY <2>3
  <2> QED BY <1>1, <1>2, <2>2, <2>4
<1>5. CASE m = l
  <2>1. PaidFor(old, new) = 0 /\ FreedFor(old, new) = 0
    BY <1>1, <1>5 DEF PaidFor, FreedFor
  <2>2. r * (m - l) = 0
    BY <1>5
  <2> QED BY <1>1, <1>2, <2>1, <2>2
<1> QED BY <1>3, <1>4, <1>5

(* The growth counts only slots that the node does not protect, whose      *)
(* value at the node does not change; what is paid only grows.             *)
LEMMA StillEarned ==
  ASSUME TypeOK, TypeOK', NEW h \in HistoryType, Earned(h), paid' >= paid,
         \A a \in Addresses, k \in Keys :
           ~ IsProtocolProtectedKey(k) => chain'[a][k] = chain[a][k]
  PROVE  Earned(h)'
<1>1. \A a \in Addresses, k \in Keys : Growth(h.storage, a, k)' = Growth(h.storage, a, k)
  BY DEF Growth
<1>2. [p \in Addresses \X Keys |-> Growth(h.storage, p[1], p[2])']
        = [p \in Addresses \X Keys |-> Growth(h.storage, p[1], p[2])]
  BY <1>1
<1>3. TotalGrowth(h.storage)' = TotalGrowth(h.storage)
  BY <1>2 DEF TotalGrowth
<1>4. TotalGrowth(h.storage) \in Int
  BY GrowthType DEF TypeOK, HistoryType
<1>5. ReleasePerByte * TotalGrowth(h.storage) \in Int
  BY <1>4, StorageAssumption
<1>6. paid \in Nat /\ paid' \in Nat /\ h.refund \in Nat
  BY DEF TypeOK, HistoryType
<1> QED BY <1>3, <1>5, <1>6 DEF Earned

(* A write that is carried out is paid for.                                *)
LEMMA WriteIsEarned ==
  ASSUME StorageInv, TypeOK', Earned(history), NEW k \in Keys, NEW v \in Values,
         NEW p \in BOOLEAN, SetStorage(k, v, p), ~ readOnly, ~ Refused(k, p)
  PROVE  Earned(history)' /\ paid' >= paid
<1> DEFINE old == history.storage[address][k]
<1>1. ~ IsProtocolProtectedKey(k) /\ address \in Addresses
  BY DEF Refused, StorageInv, TypeOK
<1>2. Visible(output, address, k) = old
  BY <1>1 DEF StorageInv, StorageIsWritten, Coherent
<1>3. /\ chain' = chain /\ paid' = paid + PaidFor(old, v)
      /\ history' = [history EXCEPT !.storage[address][k] = v,
                                    !.refund = @ + FreedFor(old, v)]
  BY <1>2 DEF SetStorage
<1>4. history \in HistoryType /\ chain \in StorageType /\ paid \in Nat
  BY DEF StorageInv, TypeOK
<1>5. PICK s \in StorageType, t \in StorageType :
        s = history.storage /\ t = history'.storage
  <2>1. history.storage \in StorageType /\ history'.storage \in StorageType
    BY <1>4 DEF TypeOK, HistoryType
  <2> QED BY <2>1
<1>6. /\ history'.refund = history.refund + FreedFor(old, v)
      /\ t[address][k] = v /\ s[address][k] = old
      /\ \A b \in Addresses, j \in Keys : ~ (b = address /\ j = k) => t[b][j] = s[b][j]
  BY <1>1, <1>3, <1>4, <1>5 DEF HistoryType, StorageType
<1>7. old \in Values
  BY <1>1, <1>4 DEF HistoryType, StorageType
<1> HIDE DEF old
<1>8. TotalGrowth(t) = TotalGrowth(s) + (Length[v] - Length[old]) /\ TotalGrowth(s) \in Int
  BY <1>1, <1>4, <1>6, GrowthOfWrite, GrowthType
<1>9. TotalGrowth(history.storage)' = TotalGrowth(t)
  BY <1>3, <1>5 DEF TotalGrowth, Growth
<1>10. PICK d \in Int : d = Length[v] - Length[old]
  <2>1. Length[v] \in Nat /\ Length[old] \in Nat
    BY <1>7, StorageAssumption
  <2> QED BY <2>1
<1>11. PICK x \in Nat, y \in Nat : x = PaidFor(old, v) /\ y = FreedFor(old, v)
  BY <1>7, GasType
<1>12. x - y >= ReleasePerByte * d
  BY <1>7, <1>10, <1>11, PriceOfWrite
<1>13. PICK g \in Int, r \in Nat, f \in Nat :
         g = TotalGrowth(s) /\ r = ReleasePerByte /\ f = history.refund
  BY <1>4, <1>8, StorageAssumption DEF HistoryType
<1>14. r * (g + d) = r * g + r * d /\ r * g \in Int /\ r * d \in Int
  OBVIOUS
<1>15. paid - f >= r * g
  BY <1>5, <1>13 DEF Earned
<1>16. (paid + x) - (f + y) >= r * (g + d)
  BY <1>4, <1>12, <1>13, <1>14, <1>15
<1>17. TotalGrowth(history.storage)' = g + d
  BY <1>8, <1>9, <1>10, <1>13
<1>18. paid' = paid + x /\ history'.refund = f + y
  BY <1>3, <1>6, <1>11, <1>13
<1>19. Earned(history)'
  BY <1>13, <1>16, <1>17, <1>18 DEF Earned
<1> QED BY <1>4, <1>18, <1>19

(* What a call in progress would bring back is a history.                  *)
LEMMA FrameHistory ==
  ASSUME TypeOK, NEW i \in 1 .. Len(frames)
  PROVE  frames[i].history \in HistoryType
<1>1. frames \in Seq(FrameType)
  BY DEF TypeOK
<1>2. frames[i] \in FrameType
  BY <1>1
<1> QED BY <1>2 DEF FrameType

(* A call keeps the history that it was pushed with.                       *)
LEMMA FrameStaysEarned ==
  ASSUME TypeOK, TypeOK', EarnedInv, paid' >= paid,
         \A a \in Addresses, k \in Keys :
           ~ IsProtocolProtectedKey(k) => chain'[a][k] = chain[a][k],
         NEW i \in 1 .. Len(frames), frames'[i] = frames[i]
  PROVE  Earned(frames[i].history)'
<1>1. PICK h \in HistoryType : h = frames[i].history
  BY FrameHistory
<1>2. Earned(h)
  BY <1>1 DEF EarnedInv
<1>3. Earned(h)'
  BY <1>1, <1>2, StillEarned
<1>4. (frames[i].history)' = h
  BY <1>1
<1> QED BY ONLY <1>3, <1>4 DEF Earned, TotalGrowth, Growth

(* Every step keeps what is paid in step with what is refunded.            *)
LEMMA StepEarnedInv ==
  StorageInv /\ EarnedInv /\ TypeOK' /\ [Next]_vars => EarnedInv'
<1> SUFFICES ASSUME StorageInv, EarnedInv, TypeOK', [Next]_vars PROVE EarnedInv'
  OBVIOUS
<1>t. TypeOK
  BY DEF StorageInv
<1>1. PICK n \in Nat : n = Len(frames)
  BY <1>t DEF TypeOK
<1>2. Earned(history) /\ history \in HistoryType /\ paid \in Nat
  BY <1>t DEF EarnedInv, TypeOK
<1> DEFINE NodeKeeps == \A a \in Addresses, k \in Keys :
                          ~ IsProtocolProtectedKey(k) => chain'[a][k] = chain[a][k]
<1>3. ASSUME UNCHANGED frames, paid' >= paid, NodeKeeps, Earned(history)'
      PROVE  EarnedInv'
  <2>1. \A i \in 1 .. Len(frames) : Earned(frames[i].history)'
    BY <1>3, <1>t, FrameStaysEarned
  <2> QED BY <1>3, <2>1 DEF EarnedInv
<1>4. ASSUME UNCHANGED history, paid' >= paid, NodeKeeps
      PROVE  Earned(history)'
  <2>1. PICK h \in HistoryType : h = history
    BY <1>2
  <2>2. Earned(h)
    BY <1>2, <2>1
  <2>3. Earned(h)'
    BY <1>4, <1>t, <2>2, StillEarned
  <2>4. history' = h
    BY <1>4, <2>1
  <2> QED BY ONLY <2>3, <2>4 DEF Earned, TotalGrowth, Growth
<1>5. ASSUME UNCHANGED <<paid, chain>>
      PROVE  paid' >= paid /\ NodeKeeps
  BY <1>2, <1>5
<1>6. ASSUME NEW k \in Keys, NEW v \in Values, NEW p \in BOOLEAN, SetStorage(k, v, p)
      PROVE  EarnedInv'
  <2>1. UNCHANGED <<chain, frames>>
    BY <1>6 DEF SetStorage
  <2>2. CASE UNCHANGED <<paid, history>>
    BY <1>3, <1>4, <1>5, <2>1, <2>2
  <2>3. CASE ~ readOnly /\ ~ Refused(k, p)
    <3>1. Earned(history)' /\ paid' >= paid
      BY <1>2, <1>6, <2>3, WriteIsEarned
    <3> QED BY <1>3, <2>1, <3>1
  <2> QED BY <1>6, <2>2, <2>3 DEF SetStorage
<1>7. ASSUME NEW k \in Keys, NEW v \in Values, StorageStore(k, v)
      PROVE  EarnedInv'
  BY <1>6, <1>7 DEF StorageStore
<1>8. ASSUME NEW k \in BaseKeys, NEW t \in Timestamps, SetStorageLock(k, t)
      PROVE  EarnedInv'
  <2>1. Magnitude(t) \in Values
    BY StorageAssumption
  <2> QED BY <1>6, <1>8, <2>1, LockKey DEF SetStorageLock
<1>9. ASSUME UNCHANGED <<chain, frames, paid, history>>
      PROVE  EarnedInv'
  BY <1>3, <1>4, <1>5, <1>9
<1>10. ASSUME NEW k \in Keys, StorageLoad(k)
       PROVE  EarnedInv'
  BY <1>9, <1>10 DEF StorageLoad
<1>11. ASSUME NEW a \in Addresses, NEW k \in Keys, StorageLoadFromAddress(a, k)
       PROVE  EarnedInv'
  BY <1>9, <1>11 DEF StorageLoadFromAddress
<1>12. ASSUME NEW a \in Addresses, NEW k \in Keys, NEW v \in Values,
              ProcessBuiltInFunction(a, k, v)
       PROVE  EarnedInv'
  <2>1. /\ UNCHANGED <<frames, history, paid>> /\ IsProtocolProtectedKey(k)
        /\ chain' = [chain EXCEPT ![a][k] = v]
    BY <1>12 DEF ProcessBuiltInFunction
  <2>2. chain \in [Addresses -> [Keys -> Values]]
    BY <1>t DEF TypeOK, StorageType
  <2>3. NodeKeeps /\ paid' >= paid
    BY <1>2, <2>1, <2>2
  <2> QED BY <1>3, <1>4, <2>1, <2>3
<1>13. ASSUME NEW c \in OwnContext \cup SameContext, NEW a \in Addresses, Call(c, a)
       PROVE  EarnedInv'
  <2>1. UNCHANGED <<chain, paid, history>> /\ frames' = Append(frames, Frame(c))
    BY <1>13 DEF Call
  <2>2. paid' >= paid /\ NodeKeeps
    BY <1>5, <2>1
  <2>3. Earned(history)'
    BY <1>4, <2>1, <2>2
  <2>4. /\ Len(frames') = n + 1 /\ frames'[n + 1] = Frame(c)
        /\ \A i \in 1 .. n : frames'[i] = frames[i]
    <3>1. Frame(c) \in FrameType
      BY <1>t DEF Frame, FrameType, TypeOK
    <3>2. frames \in Seq(FrameType)
      BY <1>t DEF TypeOK
    <3> QED BY <1>1, <2>1, <3>1, <3>2
  <2>5. frames'[n + 1].history = history'
    BY <2>1, <2>4 DEF Frame
  <2>6. ASSUME NEW i \in 1 .. n + 1
        PROVE  Earned(frames[i].history)'
    <3>1. CASE i \in 1 .. n
      BY <1>1, <1>t, <2>2, <2>4, <3>1, FrameStaysEarned
    <3>2. CASE i = n + 1
      <4>1. PICK h : h = history'
        OBVIOUS
      <4>2. (frames[i].history)' = h
        BY <2>5, <3>2, <4>1
      <4>3. Earned(h)'
        BY ONLY <2>3, <4>1 DEF Earned, TotalGrowth, Growth
      <4> QED BY ONLY <4>2, <4>3 DEF Earned, TotalGrowth, Growth
    <3>3. i \in 1 .. n \/ i = n + 1
      OBVIOUS
    <3> QED BY <3>1, <3>2, <3>3
  <2> QED BY <2>3, <2>4, <2>6 DEF EarnedInv
<1>14. ASSUME Pop
       PROVE  /\ \A i \in 1 .. Len(frames') : Earned(frames[i].history)'
              /\ Innermost.history \in HistoryType /\ Earned(Innermost.history)
              /\ paid' >= paid /\ NodeKeeps
  <2>1. /\ n >= 1 /\ Len(frames') = n - 1 /\ Innermost = frames[n]
        /\ \A i \in 1 .. n - 1 : frames'[i] = frames[i]
    BY <1>1, <1>14, <1>t, Innermosts DEF Pop, TypeOK, Innermost
  <2>2. paid' >= paid /\ NodeKeeps
    BY <1>5, <1>14 DEF Pop
  <2>3. \A i \in 1 .. Len(frames') : Earned(frames[i].history)'
    <3> SUFFICES ASSUME NEW i \in 1 .. n - 1 PROVE Earned(frames[i].history)'
      BY <2>1
    <3>1. i \in 1 .. Len(frames) /\ frames'[i] = frames[i]
      BY <1>1, <2>1
    <3> QED BY <1>t, <2>2, <3>1, FrameStaysEarned
  <2>4. n \in 1 .. Len(frames)
    BY <1>1, <2>1
  <2>5. Earned(frames[n].history) /\ frames[n].history \in HistoryType
    BY <1>t, <2>4, FrameHistory DEF EarnedInv
  <2> QED BY <2>1, <2>2, <2>3, <2>5
<1>15. ASSUME EndCall
       PROVE  EarnedInv'
  <2>1. Pop /\ UNCHANGED history
    BY <1>15 DEF EndCall
  <2> QED BY <1>4, <1>14, <2>1 DEF EarnedInv
<1>16. ASSUME FailCall
       PROVE  EarnedInv'
  <2>1. Pop /\ history' = Innermost.history
    BY <1>16 DEF FailCall
  <2>2. PICK h \in HistoryType : h = Innermost.history
    BY <1>14, <2>1
  <2>3. Earned(h)'
    <3>1. Earned(h) /\ paid' >= paid /\ NodeKeeps
      BY <1>14, <2>1, <2>2
    <3> QED BY <1>t, <3>1, StillEarned
  <2>4. history' = h
    BY <2>1, <2>2
  <2>5. Earned(history)'
    BY ONLY <2>3, <2>4 DEF Earned, TotalGrowth, Growth
  <2> QED BY <1>14, <2>1, <2>5 DEF EarnedInv
<1>17. ASSUME FailTransaction
       PROVE  EarnedInv'
  <2>1. /\ history' = [storage |-> chain, refund |-> 0] /\ frames' = <<>>
        /\ chain' = chain /\ paid' = paid
    BY <1>17 DEF FailTransaction
  <2>2. chain \in StorageType
    BY <1>t DEF TypeOK
  <2>3. TotalGrowth(chain) = 0
    BY <2>2, NoGrowth
  <2>4. TotalGrowth(history.storage)' = TotalGrowth(chain)
    BY <2>1 DEF TotalGrowth, Growth
  <2>5. Earned(history)'
    BY <1>2, <2>1, <2>3, <2>4, StorageAssumption DEF Earned
  <2>6. Len(frames') = 0
    BY <2>1
  <2> QED BY <2>5, <2>6 DEF EarnedInv
<1>18. CASE EndTransaction
  BY <1>9, <1>18 DEF EndTransaction
<1>19. CASE UNCHANGED vars
  BY <1>9, <1>19 DEF vars
<1> QED BY <1>7, <1>8, <1>10, <1>11, <1>12, <1>13, <1>15, <1>16, <1>17, <1>18, <1>19
        DEF Next

-----------------------------------------------------------------------------
(* Theorems.                                                               *)

(* The inductive invariant of storage.go's cache, push, merge and pop.     *)
THEOREM StorageInvariant == Spec => []StorageInv
<1>1. Init => StorageInv
  BY InitStorageInv
<1>2. StorageInv /\ [Next]_vars => StorageInv'
  BY StepStorageInv
<1> QED BY <1>1, <1>2, PTL DEF Spec

(* What contracts see, and what the VMOutput makes of the node's storage,  *)
(* is what the calls that did not fail wrote, however calls nest           *)
(* (mergeVMOutputs, PopSetActiveState and the cache of GetStorage agree).  *)
THEOREM StorageIsWhatWasWritten == Spec => []StorageIsWritten
<1>1. StorageInv => StorageIsWritten
  BY DEF StorageInv
<1> QED BY <1>1, StorageInvariant, PTL

(* storageLoad and storageLoadFromAddress return the latest value: of the  *)
(* calls that did not fail or, of keys the node protects read with the     *)
(* latter, of the node.                                                    *)
THEOREM ReadsReturnCurrentValues == Spec => []ReadsAreCurrent
<1>1. StorageInv => ReadsAreCurrent
  BY DEF StorageInv
<1> QED BY <1>1, StorageInvariant, PTL

(* The refund of the VMOutput is never more than what calls that did not   *)
(* fail have freed (FreeGas, CensorVMOutput, mergeVMOutputs and            *)
(* PopSetActiveState).                                                     *)
THEOREM RefundsOnlyForSuccess == Spec => []RefundOfSuccess
<1>1. Init => RefundInv
  <2> SUFFICES ASSUME Init PROVE RefundInv
    OBVIOUS
  <2>1. output.refund = 0 /\ history.refund = 0 /\ Len(frames) = 0
    BY DEF Init, NewVMOutput
  <2> QED BY <2>1 DEF RefundInv, RefundOfSuccess, RefundsCoherent
<1>2. StorageInv /\ RefundInv /\ [Next]_vars => RefundInv'
  BY StepRefundInv
<1>3. RefundInv => RefundOfSuccess
  BY DEF RefundInv
<1> QED BY <1>1, <1>2, <1>3, StorageInvariant, PTL DEF Spec

(* The refund is no source of gas: what writes were charged, less the      *)
(* refund of the output, pays for the growth of the storage at the price   *)
(* of a released byte, at every moment and whatever calls failed (the gas  *)
(* and FreeGas of SetStorage against the storage that remains).            *)
THEOREM RefundsAreEarned == Spec => []RefundIsEarned
<1>1. Init => EarnedInv
  <2> SUFFICES ASSUME Init PROVE EarnedInv
    OBVIOUS
  <2>1. /\ history = [storage |-> chain, refund |-> 0] /\ Len(frames) = 0 /\ paid = 0
    BY DEF Init
  <2>2. chain \in StorageType
    BY InitType DEF TypeOK
  <2>3. TotalGrowth(chain) = 0
    BY <2>2, NoGrowth
  <2> QED BY <2>1, <2>3, StorageAssumption DEF EarnedInv, Earned
<1>2. StorageInv /\ EarnedInv /\ TypeOK' /\ [Next]_vars => EarnedInv'
  BY StepEarnedInv
<1>3. StorageInv => TypeOK
  BY DEF StorageInv
<1>4. StorageInv /\ EarnedInv /\ RefundOfSuccess => RefundIsEarned
  <2> SUFFICES ASSUME StorageInv, EarnedInv, RefundOfSuccess PROVE RefundIsEarned
    OBVIOUS
  <2>1. /\ paid \in Nat /\ output.refund \in Nat /\ history.refund \in Nat
        /\ chain \in StorageType /\ history.storage \in StorageType
    BY DEF StorageInv, TypeOK, OutputType, HistoryType
  <2>2. TotalGrowth(history.storage) \in Int
    BY <2>1, GrowthType
  <2>3. ReleasePerByte * TotalGrowth(history.storage) \in Int
    BY <2>2, StorageAssumption
  <2>4. output.refund <= history.refund
    BY DEF RefundOfSuccess
  <2>5. paid - history.refund >= ReleasePerByte * TotalGrowth(history.storage)
    BY DEF EarnedInv, Earned
  <2>6. paid - output.refund >= ReleasePerByte * TotalGrowth(history.storage)
    BY <2>1, <2>3, <2>4, <2>5
  <2>7. TypeOK
    BY DEF StorageInv
  <2> QED BY <2>6, <2>7 DEF RefundIsEarned
<1> QED BY <1>1, <1>2, <1>3, <1>4, StorageInvariant, RefundsOnlyForSuccess, PTL DEF Spec

-----------------------------------------------------------------------------
(* TokenTransfers.                                                         *)

-----------------------------------------------------------------------------
(* Types.                                                                  *)

ArgumentType == {"token", "call", "callBack"} \cup Accounts \cup Nat
InputType ==
  [function : Kinds \cup {"none"}, caller : Local, recipient : Accounts, args : Seq(ArgumentType)]
TransferType == [function : Kinds, value : Amounts, sender : Local]
TransfersType == [Accounts -> Seq(TransferType)]
BalanceType == [Kinds -> [Local -> Nat]]
CallKinds == {"root", "hook", "sync", "async", "cross", "callback"}
NestedType ==
  [self : Contracts, kind : CallKinds, caller : Accounts, in : InputType,
   out : TransfersType, attached : [function : Kinds \cup {"none"}, value : Nat],
   finish : Seq(InputType), ran : BOOLEAN, moved : BOOLEAN, before : Nat,
   touched : BOOLEAN, used : BOOLEAN, sent : Nat]

(* A built-in call with the arguments of its function.                     *)
WellFormed(in) ==
  /\ in \in InputType /\ in.function \in Kinds
  /\ Len(in.args) >= MinLenArguments(in.function)
  /\ Amount(in) \in Amounts /\ Receiver(in) \in Accounts

(* Tokens with a nonce stay in the shard when contracts send none abroad.  *)
Home(in) == ~ AsyncNFTAbroad /\ in.function = "DCDTNFTTransfer" => Receiver(in) \in Local

-----------------------------------------------------------------------------
(* The invariant.                                                          *)

(* What holds of a call with the balances b.                               *)
GoodCall(b, f) ==
  /\ f \in NestedType
  /\ f.kind = "root" =>
       ~ f.moved /\ ~ f.ran /\ f.attached = NoTransfer /\ f.out = NoOutput
  /\ f.kind # "root" => WellFormed(f.in)
  /\ f.kind \in {"hook", "sync"} => f.moved /\ f.ran
  /\ f.kind = "async" => f.in.recipient \in Local
  /\ f.ran => f.moved /\ f.self = Receiver(f.in)
  /\ f.attached # NoTransfer =>
       f.ran /\ f.attached = [function |-> f.in.function, value |-> Amount(f.in)]
  /\ f.finish # <<>> => WellFormed(f.finish[1]) /\ Home(f.finish[1])
  /\ f.moved /\ ~ f.touched => b[f.in.function][f.in.caller] = f.before - Spent(f.in)
  /\ f.attached # NoTransfer /\ ~ f.used => b[f.in.function][f.self] >= Amount(f.in)

(* Every account of the later output begins with the transfers of the      *)
(* earlier one.                                                            *)
Extends(earlier, later) ==
  \A a \in Accounts :
    /\ Len(earlier[a]) <= Len(later[a])
    /\ \A i \in 1 .. Len(earlier[a]) : later[a][i] = earlier[a][i]

SameCarried(o, p) == \A k \in Kinds : Carried(o, k) = Carried(p, k)

(* The output when the call above the i-th began, or now.                  *)
Level(fs, o, i) == IF i = Len(fs) THEN o ELSE fs[i + 1].out

(* The call that the tokens paid for has begun; no tokens left the shard   *)
(* with a transfer that paid for no call.                                  *)
Settled(f) == f.moved => f.ran
Stays(f) == f.moved /\ ~ f.ran => Receiver(f.in) \notin Remote

(* What holds of the nested calls fs with the balances b and the output o. *)
GoodNest(b, fs, o) ==
  /\ Len(fs) >= 1
  /\ \A i \in 1 .. Len(fs) :
       /\ fs[i].kind = "root" <=> i = 1
       /\ GoodCall(b, fs[i])
       /\ i < Len(fs) => Settled(fs[i])
       /\ Extends(fs[i].out, Level(fs, o, i))
       /\ fs[i].sent = 0 /\ Stays(fs[i]) => SameCarried(fs[i].out, Level(fs, o, i))

Conserved(b, o) ==
  \A k \in Kinds : Held(b, k) + Carried(o, k) = Held(InitialBalances, k)

(* Balances b, output o, nested calls fs, outcome s, m transfers, ghost d. *)
GoodState(b, o, fs, s, m, d) ==
  /\ b \in BalanceType /\ o \in TransfersType
  /\ fs \in Seq(NestedType) /\ Len(fs) <= MaxNest + 1 /\ m \in 0 .. MaxTransfers
  /\ s \in {"running", "ended", "failed", "late", "done"}
  /\ GoodNest(b, fs, o)
  /\ ~ Settled(Last(fs)) => s \in {"ended", "late"}
  /\ ~ AsyncNFTAbroad /\ ~ d /\ (s = "failed" => Last(fs).sent = 0) => Conserved(b, o)

TokensInv == GoodState(bal, outTransfers, nest, outcome, made, dirty)

-----------------------------------------------------------------------------
(* Inputs of built-in calls.                                               *)

(* Short tuples are sequences.                                             *)
LEMMA Tuples ==
  ASSUME NEW S, NEW a \in S, NEW b \in S, NEW c \in S, NEW d \in S
  PROVE  <<>> \in Seq(S) /\ <<a>> \in Seq(S) /\ <<a, b>> \in Seq(S)
         /\ <<a, b, c, d>> \in Seq(S)
OBVIOUS

(* The arguments of a transfer.                                            *)
LEMMA ArgumentsTyped ==
  ASSUME NEW fn, NEW v \in Nat, NEW d \in Accounts
  PROVE  Arguments(fn, v, d) \in Seq(ArgumentType)
<1>1. "token" \in ArgumentType /\ v \in ArgumentType /\ d \in ArgumentType
      /\ Nonce \in ArgumentType
  BY TokensAssumption DEF ArgumentType
<1>2. <<"token", v>> \in Seq(ArgumentType) /\ <<"token", Nonce, v, d>> \in Seq(ArgumentType)
  BY ONLY <1>1, Tuples
<1> QED BY <1>2 DEF Arguments

(* The transfers that hooks make.                                          *)
LEMMA TransferInput ==
  ASSUME NEW dest \in Accounts, NEW sender \in Local, NEW fn \in Kinds, NEW v \in Amounts
  PROVE  LET in == DCDTTransferInput(dest, sender, fn, v)
         IN  /\ WellFormed(in) /\ in.function = fn /\ in.caller = sender
             /\ Amount(in) = v /\ Receiver(in) = dest
<1> DEFINE in == DCDTTransferInput(dest, sender, fn, v)
<1>1. sender \in Accounts /\ v \in Nat /\ Nonce \in Nat
  BY TokensAssumption DEF Accounts
<1>2. fn \in Kinds \cup {"none"} /\ (fn = "DCDTTransfer" \/ fn = "DCDTNFTTransfer")
  BY DEF Kinds
<1>3. Arguments(fn, v, dest) \in Seq(ArgumentType)
  BY <1>1, ArgumentsTyped
<1>4. in \in InputType
  BY <1>1, <1>2, <1>3 DEF DCDTTransferInput, InputType
<1>5. in.function = fn /\ in.caller = sender /\ in.args = Arguments(fn, v, dest)
      /\ (fn = "DCDTTransfer" => in.recipient = dest)
  BY <1>2 DEF DCDTTransferInput
<1> HIDE DEF in
<1>6. Len(in.args) >= MinLenArguments(in.function)
  BY <1>2, <1>5 DEF Arguments, MinLenArguments
<1>7. Amount(in) = v /\ Receiver(in) = dest
  BY <1>2, <1>5 DEF Amount, Receiver, Arguments
<1> QED BY <1>4, <1>5, <1>6, <1>7 DEF WellFormed, in

(* The parts of a well-formed call.                                        *)
LEMMA InputTyped ==
  ASSUME NEW in, WellFormed(in)
  PROVE  /\ Amount(in) \in Nat /\ in.function \in Kinds /\ in.caller \in Local
         /\ in.caller \in Accounts /\ in.recipient \in Accounts /\ Receiver(in) \in Accounts
BY TokensAssumption DEF WellFormed, InputType, Accounts

(* Arguments that follow do not change the amount and the receiver.        *)
LEMMA MoreArguments ==
  ASSUME NEW s \in Seq(ArgumentType), NEW c \in Seq(ArgumentType)
  PROVE  /\ s \o c \in Seq(ArgumentType) /\ Len(s \o c) = Len(s) + Len(c)
         /\ \A i \in 1 .. Len(s) : (s \o c)[i] = s[i]
BY ConcatProperties

(* An argument that follows three.                                         *)
LEMMA OneMoreArgument ==
  ASSUME NEW S, NEW s \in Seq(S), Len(s) = 3, NEW x \in S
  PROVE  /\ s \o <<x>> \in Seq(S) /\ Len(s \o <<x>>) = 4
         /\ (s \o <<x>>)[3] = s[3] /\ (s \o <<x>>)[4] = x
<1> DEFINE t == <<x>>
<1>1. t \in Seq(S) /\ Len(t) = 1 /\ t[1] = x
  OBVIOUS
<1> HIDE DEF t
<1>2. /\ s \o t \in Seq(S) /\ Len(s \o t) = 4
      /\ \A i \in 1 .. 4 : (s \o t)[i] = IF i <= 3 THEN s[i] ELSE t[i - 3]
  BY <1>1, ConcatProperties
<1>3. (s \o t)[3] = s[3] /\ (s \o t)[4] = t[1]
  <2>1. 3 \in 1 .. 4 /\ 4 \in 1 .. 4 /\ 4 - 3 = 1 /\ 3 <= 3 /\ ~ (4 <= 3)
    OBVIOUS
  <2> QED BY <1>2, <2>1
<1> QED BY <1>1, <1>2, <1>3 DEF t

(* The built-in calls of asyncCall.                                        *)
LEMMA AsyncInput ==
  ASSUME Self \in Contracts, NEW in \in AsyncInputs
  PROVE  WellFormed(in) /\ Home(in) /\ in.caller = Self
<1>1. PICK fn \in Kinds, r \in Accounts, v \in Amounts, d \in Accounts, c \in {<<>>, <<"call">>} :
        /\ in = [function |-> fn, caller |-> Self, recipient |-> r,
                 args |-> Arguments(fn, v, d) \o c]
        /\ ~ AsyncNFTAbroad => in.function = "DCDTTransfer" \/ in.args[4] \in Local
  BY DEF AsyncInputs
<1>2. Self \in Local /\ v \in Nat /\ Nonce \in Nat /\ fn \in Kinds \cup {"none"}
      /\ (fn = "DCDTTransfer" \/ fn = "DCDTNFTTransfer")
  BY TokensAssumption DEF Local, Kinds
<1> DEFINE s == Arguments(fn, v, d)
<1>3. s \in Seq(ArgumentType) /\ c \in Seq(ArgumentType)
  <2>1. "call" \in ArgumentType
    BY DEF ArgumentType
  <2> QED BY <1>2, <2>1, ArgumentsTyped, Tuples
<1>4. in.function = fn /\ in.caller = Self /\ in.recipient = r /\ in.args = s \o c
  BY <1>1
<1>5. in \in InputType
  BY <1>1, <1>2, <1>3, MoreArguments DEF InputType
<1>6. fn = "DCDTTransfer" => Len(s) = 2 /\ s[2] = v
  BY DEF Arguments
<1>7. fn = "DCDTNFTTransfer" => Len(s) = 4 /\ s[3] = v /\ s[4] = d
  BY DEF Arguments
<1> HIDE DEF s
<1>8. Len(c) \in Nat /\ Len(in.args) = Len(s) + Len(c)
      /\ \A i \in 1 .. Len(s) : in.args[i] = s[i]
  BY <1>3, <1>4, MoreArguments
<1>9. Len(in.args) >= MinLenArguments(in.function)
  BY <1>2, <1>4, <1>6, <1>7, <1>8 DEF MinLenArguments
<1>10. Amount(in) = v
  BY <1>2, <1>4, <1>6, <1>7, <1>8 DEF Amount
<1>11. Receiver(in) = IF fn = "DCDTTransfer" THEN r ELSE d
  BY <1>2, <1>4, <1>6, <1>7, <1>8 DEF Receiver
<1>12. Home(in)
  BY <1>1, <1>2, <1>4 DEF Home, Receiver
<1> QED BY <1>2, <1>4, <1>5, <1>9, <1>10, <1>11, <1>12 DEF WellFormed

(* The transfer that a callback makes.                                     *)
LEMMA CallbackInput ==
  ASSUME NEW asked, WellFormed(asked), NEW caller \in Local, NEW recipient \in Local
  PROVE  LET in == [function |-> asked.function, caller |-> caller, recipient |-> recipient,
                    args |-> asked.args \o <<"callBack">>]
         IN  /\ WellFormed(in) /\ in.function = asked.function /\ in.caller = caller
             /\ (Home(asked) => Home(in))
<1> DEFINE in == [function |-> asked.function, caller |-> caller, recipient |-> recipient,
                  args |-> asked.args \o <<"callBack">>]
           s == asked.args
<1>1. asked \in InputType /\ asked.function \in Kinds /\ s \in Seq(ArgumentType)
      /\ Len(s) >= MinLenArguments(asked.function)
      /\ Amount(asked) \in Amounts /\ Receiver(asked) \in Accounts
  BY DEF WellFormed, InputType
<1>2. asked.function = "DCDTTransfer" \/ asked.function = "DCDTNFTTransfer"
  BY <1>1 DEF Kinds
<1>3. <<"callBack">> \in Seq(ArgumentType)
  BY DEF ArgumentType
<1>4. in.function = asked.function /\ in.caller = caller /\ in.recipient = recipient
      /\ in.args = s \o <<"callBack">>
  OBVIOUS
<1>5. in.args \in Seq(ArgumentType) /\ Len(in.args) = Len(s) + 1 /\ Len(s) \in Nat
      /\ \A i \in 1 .. Len(s) : in.args[i] = s[i]
  BY <1>1, <1>3, <1>4, MoreArguments
<1>6. in \in InputType
  BY <1>1, <1>5 DEF InputType, Accounts
<1> HIDE DEF in
<1>7. Len(in.args) >= MinLenArguments(in.function)
  BY <1>1, <1>2, <1>4, <1>5 DEF MinLenArguments
<1>8. Amount(in) = Amount(asked)
  BY <1>1, <1>2, <1>4, <1>5 DEF MinLenArguments, Amount
<1>9. Receiver(in) = IF asked.function = "DCDTTransfer" THEN recipient ELSE Receiver(asked)
  BY <1>1, <1>2, <1>4, <1>5 DEF MinLenArguments, Receiver
<1>10. recipient \in Accounts
  BY DEF Accounts
<1>11. Home(asked) => Home(in)
  BY <1>4, <1>9, <1>2 DEF Home
<1> QED BY <1>1, <1>4, <1>6, <1>7, <1>8, <1>9, <1>10, <1>11 DEF WellFormed, in

(* The revert exchanges sender and receiver and keeps the amount.          *)
LEMMA RevertInput ==
  ASSUME NEW in, WellFormed(in), Receiver(in) \in Local
  PROVE  LET back == revertInput(in)
         IN  /\ WellFormed(back) /\ back.function = in.function
             /\ back.caller = Receiver(in) /\ Receiver(back) = in.caller
             /\ Amount(back) = Amount(in)
<1> DEFINE back == revertInput(in)
           s == in.args
<1>1. in \in InputType /\ in.function \in Kinds /\ s \in Seq(ArgumentType)
      /\ Len(s) >= MinLenArguments(in.function) /\ in.caller \in Local
      /\ Amount(in) \in Amounts /\ Receiver(in) \in Accounts /\ in.caller \in Accounts
  BY DEF WellFormed, InputType, Accounts
<1>2. CASE in.function = "DCDTTransfer"
  <2>1. Receiver(in) = in.recipient /\ Amount(in) = s[2] /\ Len(s) >= 2 /\ Len(s) \in Nat
    BY <1>1, <1>2 DEF Receiver, Amount, MinLenArguments
  <2> DEFINE t == SubSeq(s, 1, 2)
  <2>2. t \in Seq(ArgumentType) /\ Len(t) = 2 /\ t[2] = s[2]
    <3>1. t \in Seq(ArgumentType) /\ Len(t) = 2
      BY <1>1, <2>1
    <3>2. \A i \in 1 .. 2 : t[i] = s[1 + i - 1]
      BY <1>1, <2>1
    <3> QED BY <3>1, <3>2
  <2> HIDE DEF t
  <2>3. back = [in EXCEPT !.caller = in.recipient, !.recipient = in.caller, !.args = t]
    BY <1>2 DEF revertInput, t
  <2>4. back.function = in.function /\ back.caller = in.recipient
        /\ back.recipient = in.caller /\ back.args = t
    BY <1>1, <2>3 DEF InputType
  <2>5. back \in InputType
    BY <1>1, <2>1, <2>2, <2>3 DEF InputType
  <2> HIDE DEF back
  <2>6. Amount(back) = Amount(in) /\ Receiver(back) = in.caller
        /\ Len(back.args) >= MinLenArguments(back.function)
    <3>1. Amount(back) = t[2] /\ Receiver(back) = back.recipient
          /\ MinLenArguments(back.function) = 2
      BY <1>2, <2>4 DEF Amount, Receiver, MinLenArguments
    <3>2. Amount(back) = Amount(in) /\ Receiver(back) = in.caller
      BY ONLY <2>1, <2>2, <2>4, <3>1
    <3>3. Len(back.args) = 2
      BY ONLY <2>2, <2>4
    <3> QED BY ONLY <3>1, <3>2, <3>3
  <2> QED BY <1>1, <2>1, <2>4, <2>5, <2>6 DEF WellFormed, back
<1>3. CASE in.function = "DCDTNFTTransfer"
  <2>1. Receiver(in) = s[4] /\ Amount(in) = s[3] /\ Len(s) >= 4 /\ Len(s) \in Nat
    BY <1>1, <1>3 DEF Receiver, Amount, MinLenArguments
  <2> DEFINE u == SubSeq(s, 1, 3)
             t == u \o <<in.caller>>
  <2>2. u \in Seq(ArgumentType) /\ Len(u) = 3 /\ u[3] = s[3]
    <3>1. u \in Seq(ArgumentType) /\ Len(u) = 3
      BY <1>1, <2>1
    <3>2. \A i \in 1 .. 3 : u[i] = s[1 + i - 1]
      BY <1>1, <2>1
    <3> QED BY <3>1, <3>2
  <2> HIDE DEF u
  <2>3. <<in.caller>> \in Seq(ArgumentType) /\ Len(<<in.caller>>) = 1
    BY <1>1 DEF ArgumentType
  <2>4. t \in Seq(ArgumentType) /\ Len(t) = 4 /\ t[3] = s[3] /\ t[4] = in.caller
    BY <1>1, <2>2, <2>3, OneMoreArgument DEF ArgumentType
  <2>5. back = [in EXCEPT !.caller = s[4], !.recipient = s[4], !.args = t]
    BY <1>3 DEF revertInput, u
  <2> HIDE DEF t
  <2>6. back.function = in.function /\ back.caller = s[4]
        /\ back.recipient = s[4] /\ back.args = t
    BY <1>1, <2>5 DEF InputType
  <2>7. back \in InputType
    BY <1>1, <2>1, <2>4, <2>5 DEF InputType
  <2> HIDE DEF back
  <2>8. Amount(back) = Amount(in) /\ Receiver(back) = in.caller
        /\ Len(back.args) >= MinLenArguments(back.function)
    <3>1. Amount(back) = t[3] /\ Receiver(back) = t[4]
          /\ MinLenArguments(back.function) = 4
      BY <1>3, <2>6 DEF Amount, Receiver, MinLenArguments
    <3>2. Amount(back) = Amount(in) /\ Receiver(back) = in.caller
      BY ONLY <2>1, <2>4, <2>6, <3>1
    <3>3. Len(back.args) = 4
      BY ONLY <2>4, <2>6
    <3> QED BY ONLY <3>1, <3>2, <3>3
  <2> QED BY <1>1, <2>1, <2>6, <2>7, <2>8 DEF WellFormed, back
<1> QED BY <1>1, <1>2, <1>3 DEF Kinds

-----------------------------------------------------------------------------
(* Balances.                                                               *)

(* A balance after a transfer.                                             *)
LEMMA MovedAt ==
  ASSUME bal \in BalanceType, NEW in, WellFormed(in), Accepts(in)
  PROVE  /\ Moved(in) \in BalanceType
         /\ \A k \in Kinds, a \in Local : Moved(in)[k][a] =
              IF k = in.function
                THEN bal[k][a] - (IF a = in.caller THEN Amount(in) ELSE 0)
                               + (IF a = Receiver(in) THEN Amount(in) ELSE 0)
                ELSE bal[k][a]
<1> DEFINE m == Amount(in)
           New(a) == bal[in.function][a] - (IF a = in.caller THEN m ELSE 0)
                                         + (IF a = Receiver(in) THEN m ELSE 0)
<1>1. m \in Nat /\ in.function \in Kinds /\ in.caller \in Local
  BY TokensAssumption DEF WellFormed, InputType
<1>2. bal[in.function][in.caller] >= m
  BY DEF Accepts
<1> HIDE DEF m
<1>3. ASSUME NEW a \in Local PROVE New(a) \in Nat
  <2>1. bal[in.function][a] \in Nat
    BY <1>1 DEF BalanceType
  <2> QED BY <1>1, <1>2, <2>1
<1> HIDE DEF New
<1>4. Moved(in) = [bal EXCEPT ![in.function] = [a \in Local |-> New(a)]]
  BY DEF Moved, New, m
<1>5. [a \in Local |-> New(a)] \in [Local -> Nat]
  BY <1>3
<1>6. Moved(in) \in BalanceType
  BY <1>1, <1>4, <1>5 DEF BalanceType
<1>7. ASSUME NEW k \in Kinds, NEW a \in Local
      PROVE  Moved(in)[k][a] = IF k = in.function THEN New(a) ELSE bal[k][a]
  BY <1>1, <1>4 DEF BalanceType
<1> QED BY <1>6, <1>7 DEF New, m

(* What a transfer takes from the accounts of this shard.                  *)
LEMMA MovedHeld ==
  ASSUME bal \in BalanceType, NEW in, WellFormed(in), Accepts(in), NEW k \in Kinds
  PROVE  /\ Held(bal, k) \in Int /\ Held(Moved(in), k) \in Int
         /\ Held(Moved(in), k) = Held(bal, k) -
              (IF k = in.function /\ Receiver(in) \in Remote THEN Amount(in) ELSE 0)
<1> DEFINE m == Amount(in)
           c == in.caller
           r == Receiver(in)
           f == bal[k]
           g == Moved(in)[k]
<1>1. m \in Nat /\ in.function \in Kinds /\ c \in Local /\ r \in Accounts
  BY TokensAssumption DEF WellFormed, InputType
<1>2. f \in [Local -> Nat] /\ g \in [Local -> Nat]
  BY MovedAt DEF BalanceType
<1>3. IsFiniteSet(Local) /\ f \in [Local -> Int] /\ g \in [Local -> Int]
  BY <1>2, TokensAssumption
<1>4. \A a \in Local : g[a] =
        IF k = in.function
          THEN f[a] - (IF a = c THEN m ELSE 0) + (IF a = r THEN m ELSE 0)
          ELSE f[a]
  BY MovedAt
<1>5. r \in Local \/ r \in Remote
  BY <1>1 DEF Accounts
<1>6. r \in Remote => r \notin Local
  BY TokensAssumption
<1> HIDE DEF m, c, r, f, g
<1>7. SumFunction(f) \in Int /\ SumFunction(g) \in Int
  BY <1>3, SumTyped
<1>8. CASE k # in.function
  <2>1. g = f
    BY <1>3, <1>4, <1>8
  <2> QED BY <1>7, <1>8, <2>1 DEF Held, f, g
<1>9. CASE k = in.function /\ r \in Remote
  <2>1. \A x \in Local \ {c} : g[x] = f[x]
    BY <1>1, <1>2, <1>4, <1>6, <1>9
  <2>2. g[c] = f[c] - m /\ f[c] \in Int /\ g[c] \in Int
    BY <1>1, <1>2, <1>4, <1>6, <1>9
  <2>3. SumFunction(g) = SumFunction(f) - f[c] + g[c]
    BY <1>1, <1>3, <2>1, SumExcept
  <2>4. SumFunction(g) = SumFunction(f) - m
    BY <1>1, <1>7, <2>2, <2>3
  <2> QED BY <1>7, <1>9, <2>4 DEF Held, f, g, r, m
<1>10. CASE k = in.function /\ r \in Local
  <2> DEFINE h == [f EXCEPT ![c] = f[c] - m]
  <2>1. h \in [Local -> Int] /\ h[c] = f[c] - m /\ \A x \in Local \ {c} : h[x] = f[x]
    BY <1>1, <1>2
  <2> HIDE DEF h
  <2>2. \A x \in Local : g[x] = h[x] + (IF x = r THEN m ELSE 0)
    BY <1>1, <1>2, <1>4, <1>10, <2>1
  <2>3. \A x \in Local \ {r} : g[x] = h[x]
    BY <2>1, <2>2
  <2>4. g[r] = h[r] + m /\ h[r] \in Int /\ f[c] \in Int
    BY <1>1, <1>2, <1>10, <2>1, <2>2
  <2>5. SumFunction(h) = SumFunction(f) - f[c] + h[c]
    BY <1>1, <1>3, <2>1, SumExcept
  <2>6. SumFunction(g) = SumFunction(h) - h[r] + g[r]
    BY <1>3, <1>10, <2>1, <2>3, SumExcept
  <2>7. SumFunction(h) \in Int
    BY <1>3, <2>1, SumTyped
  <2>8. SumFunction(h) = SumFunction(f) - m
    BY <1>1, <1>7, <2>1, <2>4, <2>5
  <2>9. SumFunction(g) = SumFunction(f)
    BY <1>1, <1>7, <2>4, <2>6, <2>7, <2>8
  <2>10. r \notin Remote
    BY <1>6, <1>10
  <2> QED BY <1>7, <1>10, <2>9, <2>10 DEF Held, f, g, r
<1> QED BY <1>5, <1>8, <1>9, <1>10

-----------------------------------------------------------------------------
(* Output transfers.                                                       *)

(* What a transfer carries is a number.                                    *)
LEMMA CarriesTyped ==
  ASSUME NEW t \in TransferType, NEW k
  PROVE  Carries(t, k) \in Int
<1>1. t.value \in Amounts
  BY DEF TransferType
<1>2. \A v \in Amounts : v \in Int
  BY TokensAssumption
<1>3. PICK v \in Int : v = t.value
  BY <1>1, <1>2
<1> QED BY <1>3 DEF Carries

(* What transfers to an account carry is a number.                         *)
LEMMA CarriedTyped ==
  ASSUME NEW o \in TransfersType, NEW k \in Kinds
  PROVE  /\ \A a \in Remote : CarriedTo(o, k, a) \in Int
         /\ Carried(o, k) \in Int
<1>1. ASSUME NEW a \in Remote PROVE CarriedTo(o, k, a) \in Int
  <2> DEFINE s == o[a]
             f == [i \in DOMAIN s |-> Carries(s[i], k)]
  <2>1. s \in Seq(TransferType)
    BY DEF TransfersType, Accounts
  <2>2. DOMAIN s = 1 .. Len(s) /\ IsFiniteSet(1 .. Len(s))
    BY <2>1, FS_Interval
  <2>3. ASSUME NEW i \in 1 .. Len(s) PROVE Carries(s[i], k) \in Int
    <3>1. s[i] \in TransferType
      BY <2>1
    <3> QED BY <3>1, CarriesTyped
  <2>4. f \in [1 .. Len(s) -> Int]
    BY <2>2, <2>3
  <2> HIDE DEF f
  <2>5. SumFunction(f) \in Int
    BY <2>2, <2>4, SumTyped
  <2> QED BY <2>5 DEF CarriedTo, f
<1> DEFINE g == [a \in Remote |-> CarriedTo(o, k, a)]
<1>2. g \in [Remote -> Int] /\ IsFiniteSet(Remote)
  BY <1>1, TokensAssumption
<1> HIDE DEF g
<1>3. SumFunction(g) \in Int
  BY <1>2, SumTyped
<1> QED BY <1>1, <1>3 DEF Carried, g

(* A transfer that is added is carried, if it leaves the shard.            *)
LEMMA AddedIsCarried ==
  ASSUME NEW o \in TransfersType, NEW a \in Accounts, NEW t \in TransferType
  PROVE  LET p == AddOutputTransfer(o, a, t)
         IN  /\ p \in TransfersType /\ Extends(o, p)
             /\ \A k \in Kinds : Carried(p, k) =
                  Carried(o, k) + (IF a \in Remote THEN Carries(t, k) ELSE 0)
<1> DEFINE p == AddOutputTransfer(o, a, t)
<1>1. p = [o EXCEPT ![a] = Append(o[a], t)]
  BY DEF AddOutputTransfer
<1>2. \A b \in Accounts : o[b] \in Seq(TransferType)
  BY DEF TransfersType
<1>3. /\ Append(o[a], t) \in Seq(TransferType) /\ Len(Append(o[a], t)) = Len(o[a]) + 1
      /\ \A i \in 1 .. Len(o[a]) : Append(o[a], t)[i] = o[a][i]
      /\ Append(o[a], t)[Len(o[a]) + 1] = t /\ Len(o[a]) \in Nat
  BY <1>2, AppendProperties
<1>4. p[a] = Append(o[a], t) /\ \A b \in Accounts \ {a} : p[b] = o[b]
  BY <1>1 DEF TransfersType
<1>5. p \in TransfersType
  BY <1>1, <1>3 DEF TransfersType
<1> HIDE DEF p
<1>6. ASSUME NEW b \in Accounts
      PROVE  Len(o[b]) <= Len(p[b]) /\ \A i \in 1 .. Len(o[b]) : p[b][i] = o[b][i]
  <2>1. CASE b = a
    BY <1>3, <1>4, <2>1
  <2>2. CASE b # a
    <3>1. p[b] = o[b] /\ Len(o[b]) \in Nat
      BY <1>2, <1>4, <2>2
    <3> QED BY <3>1
  <2> QED BY <2>1, <2>2
<1>7. ASSUME NEW k \in Kinds
      PROVE  Carried(p, k) = Carried(o, k) + (IF a \in Remote THEN Carries(t, k) ELSE 0)
  <2> DEFINE F == [b \in Remote |-> CarriedTo(o, k, b)]
             G == [b \in Remote |-> CarriedTo(p, k, b)]
  <2>1. F \in [Remote -> Int] /\ G \in [Remote -> Int] /\ IsFiniteSet(Remote)
    BY <1>5, CarriedTyped, TokensAssumption
  <2>2. \A b \in Remote : b # a => G[b] = F[b]
    BY <1>4 DEF CarriedTo, Accounts
  <2>3. CASE a \notin Remote
    <3>1. F = G
      BY <2>1, <2>2, <2>3
    <3>2. Carried(p, k) = Carried(o, k)
      BY <3>1 DEF Carried
    <3> QED BY <2>3, <3>2, CarriedTyped
  <2>4. CASE a \in Remote
    <3> DEFINE n == Len(o[a])
               f == [i \in DOMAIN o[a] |-> Carries(o[a][i], k)]
               g == [i \in DOMAIN p[a] |-> Carries(p[a][i], k)]
    <3>1. n \in Nat /\ DOMAIN o[a] = 1 .. n /\ DOMAIN p[a] = 1 .. n + 1
      BY <1>2, <1>3, <1>4
    <3>2. ASSUME NEW u \in TransferType PROVE Carries(u, k) \in Int
      BY CarriesTyped
    <3>3. f \in [1 .. n -> Int]
      <4>1. \A i \in 1 .. n : o[a][i] \in TransferType
        BY <1>2
      <4> QED BY <3>1, <3>2, <4>1
    <3>4. g \in [1 .. n + 1 -> Int]
      <4>1. \A i \in 1 .. n + 1 : p[a][i] \in TransferType
        BY <1>3, <1>4
      <4> QED BY <3>1, <3>2, <4>1
    <3>5. \A i \in 1 .. n : g[i] = f[i]
      BY <1>3, <1>4, <3>1
    <3>6. g[n + 1] = Carries(t, k)
      BY <1>3, <1>4, <3>1
    <3> HIDE DEF n, f, g
    <3>7. SumFunction(g) = SumFunction(f) + g[n + 1]
      BY <3>1, <3>3, <3>4, <3>5, SumOneMore
    <3>8. G[a] = F[a] + Carries(t, k)
      BY <2>4, <3>6, <3>7 DEF CarriedTo, f, g
    <3>9. F[a] \in Int /\ G[a] \in Int /\ Carries(t, k) \in Int
      BY <2>1, <2>4, <3>2
    <3> HIDE DEF F, G
    <3>10. SumFunction(G) = SumFunction(F) - F[a] + G[a]
      BY <2>1, <2>2, <2>4, SumExcept
    <3>11. SumFunction(F) \in Int
      BY <2>1, SumTyped
    <3>12. SumFunction(G) = SumFunction(F) + Carries(t, k)
      BY <3>8, <3>9, <3>10, <3>11
    <3> QED BY <2>4, <3>12 DEF Carried, F, G
  <2> QED BY <2>3, <2>4
<1> QED BY <1>5, <1>6, <1>7 DEF p, Extends

(* Nothing is carried at first.                                            *)
LEMMA NothingCarried ==
  NoOutput \in TransfersType /\ \A k \in Kinds : Carried(NoOutput, k) = 0
<1>1. NoOutput \in TransfersType
  BY DEF NoOutput, TransfersType
<1>2. ASSUME NEW k \in Kinds PROVE Carried(NoOutput, k) = 0
  <2>1. ASSUME NEW a \in Remote PROVE CarriedTo(NoOutput, k, a) = 0
    <3>1. NoOutput[a] = <<>>
      BY DEF NoOutput, Accounts
    <3>2. DOMAIN <<>> = {}
      OBVIOUS
    <3>3. [i \in DOMAIN NoOutput[a] |-> Carries(NoOutput[a][i], k)] = [i \in {} |-> 0]
      BY <3>1, <3>2
    <3>4. IsFiniteSet({})
      BY FS_EmptySet
    <3>5. SumFunction([i \in {} |-> 0]) = 0
      BY <3>4, SumOfZeros
    <3> QED BY <3>3, <3>5 DEF CarriedTo
  <2>2. [a \in Remote |-> CarriedTo(NoOutput, k, a)] = [a \in Remote |-> 0]
    BY <2>1
  <2> QED BY <2>2, SumOfZeros, TokensAssumption DEF Carried
<1> QED BY <1>1, <1>2

(* Extends is an order.                                                    *)
LEMMA ExtendsOrder ==
  ASSUME NEW o \in TransfersType, NEW p \in TransfersType, NEW q \in TransfersType
  PROVE  Extends(o, o) /\ (Extends(o, p) /\ Extends(p, q) => Extends(o, q))
<1>1. \A a \in Accounts : Len(o[a]) \in Nat /\ Len(p[a]) \in Nat /\ Len(q[a]) \in Nat
  BY DEF TransfersType
<1>2. Extends(o, o)
  BY <1>1 DEF Extends
<1>3. ASSUME Extends(o, p), Extends(p, q), NEW a \in Accounts
      PROVE  Len(o[a]) <= Len(q[a]) /\ \A i \in 1 .. Len(o[a]) : q[a][i] = o[a][i]
  BY <1>1, <1>3 DEF Extends
<1> QED BY <1>2, <1>3 DEF Extends

(* An output that extends the saved one is what merging gives.             *)
LEMMA MergeOfExtension ==
  ASSUME outTransfers \in TransfersType, NEW saved \in TransfersType,
         Extends(saved, outTransfers)
  PROVE  PopMergeActiveState(saved) = outTransfers
<1>1. ASSUME NEW a \in Accounts
      PROVE  mergeOutputAccounts(saved[a], outTransfers[a]) = outTransfers[a]
  <2> DEFINE l == saved[a]
             r == outTransfers[a]
  <2>1. l \in Seq(TransferType) /\ r \in Seq(TransferType)
    BY DEF TransfersType
  <2>2. Len(l) \in Nat /\ Len(r) \in Nat /\ Len(l) <= Len(r)
        /\ \A i \in 1 .. Len(l) : r[i] = l[i]
    BY <2>1 DEF Extends
  <2> HIDE DEF l, r
  <2>3. CASE Len(r) > Len(l)
    <3> DEFINE t == SubSeq(r, Len(l) + 1, Len(r))
    <3>1. t \in Seq(TransferType) /\ Len(t) = Len(r) - Len(l)
          /\ \A i \in 1 .. Len(r) - Len(l) : t[i] = r[Len(l) + i]
      BY <2>1, <2>2, <2>3
    <3> HIDE DEF t
    <3>2. /\ l \o t \in Seq(TransferType) /\ Len(l \o t) = Len(r)
          /\ \A i \in 1 .. Len(r) : (l \o t)[i] = IF i <= Len(l) THEN l[i] ELSE t[i - Len(l)]
      BY <2>1, <2>2, <3>1, ConcatProperties
    <3>3. ASSUME NEW i \in 1 .. Len(r) PROVE (l \o t)[i] = r[i]
      <4>1. CASE i <= Len(l)
        BY <2>2, <3>2, <4>1
      <4>2. CASE ~ (i <= Len(l))
        <5>1. i - Len(l) \in 1 .. Len(r) - Len(l) /\ Len(l) + (i - Len(l)) = i
          BY <2>2, <4>2
        <5> QED BY <3>1, <3>2, <4>2, <5>1
      <4> QED BY <4>1, <4>2
    <3>4. l \o t = r
      BY <2>1, <3>2, <3>3, SeqEqual
    <3> QED BY <2>3, <3>4 DEF mergeOutputAccounts, t, l, r
  <2>4. CASE Len(r) = Len(l)
    <3>1. l = r
      BY <2>1, <2>2, <2>4, SeqEqual
    <3>2. ~ (Len(r) > Len(l))
      BY <2>2, <2>4
    <3> QED BY <3>1, <3>2 DEF mergeOutputAccounts, l, r
  <2> QED BY <2>2, <2>3, <2>4
<1> QED BY <1>1 DEF PopMergeActiveState, TransfersType

-----------------------------------------------------------------------------
(* One call.                                                               *)

Party(f, in, a) == f.in.function = in.function /\ a \in {in.caller, Receiver(in)}

TouchedBy(f, in) ==
  [f EXCEPT !.touched = @ \/ Party(f, in, f.in.caller),
            !.used = @ \/ Party(f, in, f.self)]

(* Two calls that differ at most in their ghosts and results.              *)
Alike(g, f) ==
  /\ g \in NestedType
  /\ g.self = f.self /\ g.kind = f.kind /\ g.in = f.in /\ g.out = f.out
  /\ g.attached = f.attached /\ (g.ran <=> f.ran) /\ (g.moved <=> f.moved)
  /\ g.before = f.before

(* A transfer changes no more than two ghosts of a call.                   *)
LEMMA TouchedFields ==
  ASSUME NEW f \in NestedType, NEW in
  PROVE  LET g == TouchedBy(f, in)
         IN  /\ Alike(g, f) /\ g.finish = f.finish /\ g.sent = f.sent
             /\ g.touched <=> f.touched \/ Party(f, in, f.in.caller)
             /\ g.used <=> f.used \/ Party(f, in, f.self)
<1> DEFINE t == f.touched \/ Party(f, in, f.in.caller)
           u == f.used \/ Party(f, in, f.self)
           g == [f EXCEPT !.touched = t, !.used = u]
<1>1. t \in BOOLEAN /\ u \in BOOLEAN
  OBVIOUS
<1>2. TouchedBy(f, in) = g
  BY DEF TouchedBy
<1> HIDE DEF t, u
<1>3. /\ g \in NestedType /\ g.finish = f.finish /\ g.sent = f.sent
      /\ g.self = f.self /\ g.kind = f.kind /\ g.in = f.in /\ g.out = f.out
      /\ g.attached = f.attached /\ g.ran = f.ran /\ g.moved = f.moved
      /\ g.before = f.before /\ g.touched = t /\ g.used = u
  BY <1>1 DEF NestedType
<1> HIDE DEF g
<1>4. Alike(g, f)
  BY <1>3 DEF Alike
<1> QED BY <1>2, <1>3, <1>4 DEF t, u

(* Balances of others do not matter to a call.                             *)
LEMMA GoodCallTouched ==
  ASSUME bal \in BalanceType, NEW in, WellFormed(in), Accepts(in),
         NEW f, GoodCall(bal, f)
  PROVE  GoodCall(Moved(in), TouchedBy(f, in))
<1> DEFINE g == TouchedBy(f, in)
           b == Moved(in)
<1>1. f \in NestedType
  BY DEF GoodCall
<1>2. /\ Alike(g, f) /\ g.finish = f.finish
      /\ g.touched <=> f.touched \/ Party(f, in, f.in.caller)
      /\ g.used <=> f.used \/ Party(f, in, f.self)
  BY <1>1, TouchedFields
<1>3. \A k \in Kinds, a \in Local :
        ~ (k = in.function /\ a \in {in.caller, Receiver(in)}) => b[k][a] = bal[k][a]
  <2>1. ASSUME NEW k \in Kinds, NEW a \in Local,
               ~ (k = in.function /\ a \in {in.caller, Receiver(in)})
        PROVE  b[k][a] = bal[k][a]
    <3>1. bal[k][a] \in Nat
      BY DEF BalanceType
    <3>2. b[k][a] = IF k = in.function
                      THEN bal[k][a] - (IF a = in.caller THEN Amount(in) ELSE 0)
                                     + (IF a = Receiver(in) THEN Amount(in) ELSE 0)
                      ELSE bal[k][a]
      BY MovedAt
    <3> QED BY <2>1, <3>1, <3>2
  <2> QED BY <2>1
<1> HIDE DEF g, b
<1>4. g.moved => f.kind # "root" /\ f.in.function \in Kinds /\ f.in.caller \in Local
  BY <1>2 DEF GoodCall, Alike, WellFormed, InputType
<1>5. g.attached # NoTransfer => f.ran /\ g.moved /\ f.self \in Local
  BY <1>1, <1>2 DEF GoodCall, Alike, NestedType, Local
<1>6. g.moved /\ ~ g.touched => b[g.in.function][g.in.caller] = g.before - Spent(g.in)
  <2> SUFFICES ASSUME g.moved, ~ g.touched
               PROVE  b[g.in.function][g.in.caller] = g.before - Spent(g.in)
    OBVIOUS
  <2>1. b[f.in.function][f.in.caller] = bal[f.in.function][f.in.caller]
    BY <1>2, <1>3, <1>4 DEF Party
  <2> QED BY <1>2, <2>1 DEF GoodCall, Alike
<1>7. g.attached # NoTransfer /\ ~ g.used => b[g.in.function][g.self] >= Amount(g.in)
  <2> SUFFICES ASSUME g.attached # NoTransfer, ~ g.used
               PROVE  b[g.in.function][g.self] >= Amount(g.in)
    OBVIOUS
  <2>1. b[f.in.function][f.self] = bal[f.in.function][f.self]
    BY <1>2, <1>3, <1>4, <1>5 DEF Party
  <2> QED BY <1>2, <2>1 DEF GoodCall, Alike
<1> QED BY <1>2, <1>6, <1>7 DEF GoodCall, Alike, g, b

(* A new call that tokens paid for.                                        *)
LEMMA GoodCallPaid ==
  ASSUME bal \in BalanceType, NEW in, WellFormed(in), Accepts(in),
         NEW f \in NestedType, f.kind # "root", f.in = in, f.moved, ~ f.touched, ~ f.used,
         f.before = bal[in.function][in.caller], f.finish = <<>>,
         f.kind = "async" => in.recipient \in Local,
         f.kind \in {"hook", "sync"} => f.ran,
         f.ran => f.self = Receiver(in)
                  /\ f.attached = [function |-> in.function, value |-> Amount(in)],
         ~ f.ran => f.attached = NoTransfer
  PROVE  GoodCall(Moved(in), f)
<1> DEFINE b == Moved(in)
<1>1. in.function \in Kinds /\ in.caller \in Local /\ Amount(in) \in Nat
  BY TokensAssumption DEF WellFormed, InputType
<1>2. bal[in.function][in.caller] \in Nat /\ bal[in.function][in.caller] >= Amount(in)
  BY <1>1 DEF BalanceType, Accepts
<1>3. b[in.function][in.caller] = f.before - Spent(in)
  <2>1. b[in.function][in.caller] =
          bal[in.function][in.caller] - Amount(in)
            + (IF in.caller = Receiver(in) THEN Amount(in) ELSE 0)
    BY <1>1, MovedAt
  <2> QED BY <1>1, <1>2, <2>1 DEF Spent
<1>4. f.ran => b[in.function][f.self] >= Amount(in)
  <2> SUFFICES ASSUME f.ran PROVE b[in.function][f.self] >= Amount(in)
    OBVIOUS
  <2>1. f.self \in Local /\ f.self = Receiver(in)
    BY DEF NestedType, Local
  <2>2. bal[in.function][f.self] \in Nat
    BY <1>1, <2>1 DEF BalanceType
  <2>3. b[in.function][f.self] =
          bal[in.function][f.self] - (IF f.self = in.caller THEN Amount(in) ELSE 0) + Amount(in)
    BY <1>1, <2>1, MovedAt
  <2> QED BY <1>1, <1>2, <2>2, <2>3
<1> HIDE DEF b
<1>5. f.attached # NoTransfer => f.ran
  OBVIOUS
<1> QED BY <1>3, <1>4, <1>5 DEF GoodCall, b

(* A new call before tokens have moved.                                    *)
LEMMA GoodCallUnpaid ==
  ASSUME NEW b, NEW f \in NestedType, f.kind \notin {"root", "hook", "sync"},
         WellFormed(f.in), ~ f.moved, ~ f.ran, f.attached = NoTransfer, f.finish = <<>>,
         f.kind = "async" => f.in.recipient \in Local
  PROVE  GoodCall(b, f)
BY DEF GoodCall

-----------------------------------------------------------------------------
(* Nested calls.                                                           *)

(* The last call.                                                          *)
LEMMA LastCall ==
  ASSUME NEW fs \in Seq(NestedType), NEW b, NEW o, GoodNest(b, fs, o)
  PROVE  /\ Len(fs) \in Nat /\ Len(fs) >= 1 /\ Len(fs) \in 1 .. Len(fs)
         /\ Last(fs) = fs[Len(fs)] /\ GoodCall(b, Last(fs)) /\ Last(fs) \in NestedType
         /\ Last(fs).kind = "root" <=> Len(fs) = 1
         /\ Extends(Last(fs).out, o)
         /\ Last(fs).sent = 0 /\ Stays(Last(fs)) => SameCarried(Last(fs).out, o)
<1>1. Len(fs) \in Nat /\ Len(fs) >= 1
  BY DEF GoodNest
<1>2. Len(fs) \in 1 .. Len(fs) /\ Last(fs) = fs[Len(fs)]
  BY <1>1 DEF Last
<1>3. Level(fs, o, Len(fs)) = o
  BY DEF Level
<1>4. /\ fs[Len(fs)].kind = "root" <=> Len(fs) = 1
      /\ GoodCall(b, fs[Len(fs)])
      /\ Extends(fs[Len(fs)].out, Level(fs, o, Len(fs)))
      /\ fs[Len(fs)].sent = 0 /\ Stays(fs[Len(fs)]) =>
           SameCarried(fs[Len(fs)].out, Level(fs, o, Len(fs)))
  BY <1>2 DEF GoodNest
<1>5. fs[Len(fs)] \in NestedType
  BY <1>2
<1> QED BY <1>1, <1>2, <1>3, <1>4, <1>5

(* Transfers keep the nest.                                                *)
LEMMA GoodNestTouched ==
  ASSUME bal \in BalanceType, NEW in, WellFormed(in), Accepts(in),
         NEW fs \in Seq(NestedType), NEW o, GoodNest(bal, fs, o)
  PROVE  LET gs == Touched(fs, in)
         IN  /\ gs \in Seq(NestedType) /\ Len(gs) = Len(fs) /\ GoodNest(Moved(in), gs, o)
             /\ Last(gs).sent = Last(fs).sent /\ Last(gs).self = Last(fs).self
             /\ Settled(Last(gs)) <=> Settled(Last(fs))
<1> DEFINE gs == Touched(fs, in)
           n == Len(fs)
<1>1. n \in Nat /\ n >= 1 /\ DOMAIN fs = 1 .. n /\ \A i \in 1 .. n : fs[i] \in NestedType
  BY DEF GoodNest
<1>2. gs = [i \in 1 .. n |-> TouchedBy(fs[i], in)]
  BY <1>1 DEF Touched, TouchedBy, Party
<1> HIDE DEF n, gs
<1>3. \A i \in 1 .. n : gs[i] = TouchedBy(fs[i], in) /\ gs[i] \in NestedType
                        /\ Alike(gs[i], fs[i]) /\ gs[i].sent = fs[i].sent
  BY <1>1, <1>2, TouchedFields DEF Alike
<1>4. gs \in Seq(NestedType) /\ Len(gs) = n
  BY <1>1, <1>2, <1>3
<1>5. ASSUME NEW i \in 1 .. n
      PROVE  /\ gs[i].kind = "root" <=> i = 1
             /\ GoodCall(Moved(in), gs[i])
             /\ i < n => Settled(gs[i])
             /\ Extends(gs[i].out, Level(gs, o, i))
             /\ gs[i].sent = 0 /\ Stays(gs[i]) => SameCarried(gs[i].out, Level(gs, o, i))
  <2>1. /\ fs[i].kind = "root" <=> i = 1
        /\ GoodCall(bal, fs[i]) /\ (i < n => Settled(fs[i]))
        /\ Extends(fs[i].out, Level(fs, o, i))
        /\ fs[i].sent = 0 /\ Stays(fs[i]) => SameCarried(fs[i].out, Level(fs, o, i))
    BY DEF GoodNest, n
  <2>2. GoodCall(Moved(in), gs[i])
    BY <1>3, <2>1, GoodCallTouched
  <2>3. Level(gs, o, i) = Level(fs, o, i)
    <3>1. i # n => i + 1 \in 1 .. n
      BY <1>1
    <3> QED BY <1>3, <1>4, <3>1 DEF Level, Alike, n
  <2>4. gs[i].kind = fs[i].kind /\ gs[i].out = fs[i].out /\ gs[i].sent = fs[i].sent
        /\ (Settled(gs[i]) <=> Settled(fs[i])) /\ (Stays(gs[i]) <=> Stays(fs[i]))
    BY <1>3 DEF Alike, Settled, Stays
  <2> QED BY <2>1, <2>2, <2>3, <2>4
<1>6. GoodNest(Moved(in), gs, o)
  BY <1>1, <1>4, <1>5 DEF GoodNest
<1>7. n \in 1 .. n /\ Last(gs) = gs[n] /\ Last(fs) = fs[n]
  BY <1>1, <1>4 DEF Last, n
<1> QED BY <1>3, <1>4, <1>6, <1>7 DEF Alike, Settled, n, gs

(* A call that has sent tokens, and the output that it has now.            *)
LEMMA GoodNestSent ==
  ASSUME NEW b, NEW fs \in Seq(NestedType), NEW o \in TransfersType, GoodNest(b, fs, o),
         NEW p \in TransfersType, Extends(o, p), NEW m \in Nat, m = 0 => SameCarried(o, p)
  PROVE  LET gs == Sent(fs, m)
         IN  /\ gs \in Seq(NestedType) /\ Len(gs) = Len(fs) /\ GoodNest(b, gs, p)
             /\ Last(gs).sent = Last(fs).sent + m /\ Last(gs).self = Last(fs).self
             /\ Settled(Last(gs)) <=> Settled(Last(fs))
<1> DEFINE gs == Sent(fs, m)
           n == Len(fs)
           f == fs[n]
           g == [f EXCEPT !.sent = f.sent + m]
<1>1. n \in Nat /\ n >= 1 /\ n \in 1 .. n /\ DOMAIN fs = 1 .. n
      /\ \A i \in 1 .. n : fs[i] \in NestedType
  BY LastCall
<1>2. gs = [fs EXCEPT ![n] = g]
  BY DEF Sent
<1>3. f \in NestedType /\ f.sent \in Nat
  BY <1>1 DEF NestedType
<1>4. /\ Alike(g, f) /\ g.finish = f.finish /\ g.touched = f.touched /\ g.used = f.used
      /\ g.sent = f.sent + m
  <2>1. f.sent + m \in Nat
    BY <1>3
  <2>2. /\ g \in NestedType /\ g.finish = f.finish
        /\ g.self = f.self /\ g.kind = f.kind /\ g.in = f.in /\ g.out = f.out
        /\ g.attached = f.attached /\ g.ran = f.ran /\ g.moved = f.moved
        /\ g.before = f.before /\ g.touched = f.touched /\ g.used = f.used
        /\ g.sent = f.sent + m
    BY <1>3, <2>1 DEF NestedType
  <2> HIDE DEF g
  <2> QED BY <2>2 DEF Alike
<1> HIDE DEF n, gs, g
<1>5. gs \in Seq(NestedType) /\ Len(gs) = n /\ gs[n] = g
      /\ \A i \in 1 .. n : i # n => gs[i] = fs[i]
  BY <1>1, <1>2, <1>4 DEF Alike, n
<1>6. /\ GoodCall(b, f) /\ (f.kind = "root" <=> n = 1) /\ Extends(f.out, o)
      /\ f.sent = 0 /\ Stays(f) => SameCarried(f.out, o)
  <2>1. Last(fs) = f
    BY LastCall DEF n
  <2> QED BY <2>1, LastCall DEF n
<1>7. GoodCall(b, g)
  <2>1. (g.touched <=> f.touched) /\ (g.used <=> f.used) /\ g.finish = f.finish
    BY <1>4
  <2> HIDE DEF f
  <2> QED BY <1>4, <1>6, <2>1 DEF GoodCall, Alike
<1>8. f.out \in TransfersType
  BY <1>3 DEF NestedType
<1>9. ASSUME NEW i \in 1 .. n
      PROVE  /\ gs[i].kind = "root" <=> i = 1
             /\ GoodCall(b, gs[i])
             /\ i < n => Settled(gs[i])
             /\ Extends(gs[i].out, Level(gs, p, i))
             /\ gs[i].sent = 0 /\ Stays(gs[i]) => SameCarried(gs[i].out, Level(gs, p, i))
  <2>1. CASE i = n
    <3>1. Level(gs, p, i) = p
      BY <1>5, <2>1 DEF Level
    <3>2. Extends(f.out, p)
      BY <1>6, <1>8, ExtendsOrder
    <3>3. g.sent = 0 /\ Stays(g) => SameCarried(g.out, p)
      <4> SUFFICES ASSUME g.sent = 0, Stays(g) PROVE SameCarried(g.out, p)
        OBVIOUS
      <4>1. f.sent = 0 /\ m = 0
        BY <1>3, <1>4
      <4> QED BY <1>4, <1>6, <4>1 DEF Alike, Stays, SameCarried
    <3> QED BY <1>1, <1>4, <1>5, <1>6, <1>7, <2>1, <3>1, <3>2, <3>3 DEF Alike
  <2>2. CASE i # n
    <3>1. i < n /\ i + 1 \in 1 .. n
      BY <1>1, <2>2
    <3>2. gs[i] = fs[i] /\ gs[i + 1].out = fs[i + 1].out
      BY <1>4, <1>5, <2>2, <3>1 DEF Alike
    <3>3. Level(gs, p, i) = Level(fs, o, i)
      BY <1>5, <2>2, <3>2 DEF Level, n
    <3> QED BY <3>1, <3>2, <3>3 DEF GoodNest, n
  <2> QED BY <2>1, <2>2
<1>10. GoodNest(b, gs, p)
  BY <1>1, <1>5, <1>9 DEF GoodNest
<1>11. Last(gs) = g /\ Last(fs) = f
  BY <1>1, <1>5 DEF Last, n
<1> QED BY <1>4, <1>5, <1>10, <1>11 DEF Alike, Settled, n, gs

(* The nest without a call that has failed.                                *)
LEMMA GoodNestPop ==
  ASSUME NEW b, NEW fs \in Seq(NestedType), NEW o, GoodNest(b, fs, o),
         Last(fs).kind # "root"
  PROVE  LET gs == Front(fs)
         IN  /\ gs \in Seq(NestedType) /\ Len(gs) = Len(fs) - 1
             /\ GoodNest(b, gs, Last(fs).out) /\ Settled(Last(gs))
<1> DEFINE gs == Front(fs)
           n == Len(fs)
<1>1. n \in Nat /\ n >= 2 /\ Last(fs) = fs[n]
  <2>1. n \in Nat /\ n >= 1 /\ n # 1 /\ Last(fs) = fs[n]
    BY LastCall
  <2> HIDE DEF n
  <2>2. n >= 2
    BY ONLY <2>1
  <2> QED BY <2>1, <2>2
<1>2. gs \in Seq(NestedType) /\ Len(gs) = n - 1 /\ \A i \in 1 .. n - 1 : gs[i] = fs[i]
  BY <1>1 DEF Front
<1> HIDE DEF gs, n
<1>3. ASSUME NEW i \in 1 .. n - 1
      PROVE  /\ gs[i].kind = "root" <=> i = 1
             /\ GoodCall(b, gs[i]) /\ Settled(gs[i])
             /\ Extends(gs[i].out, Level(gs, Last(fs).out, i))
             /\ gs[i].sent = 0 /\ Stays(gs[i]) =>
                  SameCarried(gs[i].out, Level(gs, Last(fs).out, i))
  <2>1. i \in 1 .. n /\ i < n /\ i # n
    BY <1>1
  <2>2. Level(gs, Last(fs).out, i) = Level(fs, o, i)
    <3>1. CASE i = n - 1
      <4>1. i + 1 = n
        BY <1>1, <3>1
      <4> QED BY <1>1, <1>2, <2>1, <3>1, <4>1 DEF Level, n
    <3>2. CASE i # n - 1
      <4>1. i + 1 \in 1 .. n - 1
        BY <1>1, <3>2
      <4> QED BY <1>2, <2>1, <3>2, <4>1 DEF Level, n
    <3> QED BY <3>1, <3>2
  <2> QED BY <1>2, <2>1, <2>2 DEF GoodNest, n
<1>4. GoodNest(b, gs, Last(fs).out)
  BY <1>1, <1>2, <1>3 DEF GoodNest
<1>5. n - 1 \in 1 .. n - 1 /\ Last(gs) = gs[n - 1]
  BY <1>1, <1>2 DEF Last
<1> QED BY <1>2, <1>3, <1>4, <1>5 DEF gs, n

(* The nest with a new call.                                               *)
LEMMA GoodNestPush ==
  ASSUME NEW b, NEW fs \in Seq(NestedType), NEW o \in TransfersType, GoodNest(b, fs, o),
         Settled(Last(fs)), NEW f \in NestedType, GoodCall(b, f), f.kind # "root",
         Extends(o, f.out), SameCarried(o, f.out),
         NEW p \in TransfersType, Extends(f.out, p),
         f.sent = 0 /\ Stays(f) => SameCarried(f.out, p)
  PROVE  LET gs == Append(fs, f)
         IN  /\ gs \in Seq(NestedType) /\ Len(gs) = Len(fs) + 1
             /\ GoodNest(b, gs, p) /\ Last(gs) = f
<1> DEFINE gs == Append(fs, f)
           n == Len(fs)
<1>1. n \in Nat /\ n >= 1 /\ Last(fs) = fs[n] /\ n \in 1 .. n
  BY LastCall
<1>2. gs \in Seq(NestedType) /\ Len(gs) = n + 1 /\ gs[n + 1] = f
      /\ \A i \in 1 .. n : gs[i] = fs[i]
  BY <1>1, AppendProperties
<1>3. f.out \in TransfersType /\ fs[n].out \in TransfersType
  BY <1>1, LastCall DEF NestedType
<1> HIDE DEF gs, n
<1>4. ASSUME NEW i \in 1 .. n + 1
      PROVE  /\ gs[i].kind = "root" <=> i = 1
             /\ GoodCall(b, gs[i]) /\ (i < n + 1 => Settled(gs[i]))
             /\ Extends(gs[i].out, Level(gs, p, i))
             /\ gs[i].sent = 0 /\ Stays(gs[i]) => SameCarried(gs[i].out, Level(gs, p, i))
  <2>1. CASE i = n + 1
    <3>1. Level(gs, p, i) = p /\ i # 1
      BY <1>1, <1>2, <2>1 DEF Level
    <3> QED BY <1>2, <2>1, <3>1
  <2>2. CASE i = n
    <3>1. Level(gs, p, i) = f.out /\ gs[i] = fs[n] /\ n # n + 1 /\ Level(fs, o, n) = o
      BY <1>1, <1>2, <2>2 DEF Level, n
    <3>2. /\ fs[n].kind = "root" <=> n = 1
          /\ GoodCall(b, fs[n]) /\ Extends(fs[n].out, o)
          /\ fs[n].sent = 0 /\ Stays(fs[n]) => SameCarried(fs[n].out, o)
      BY <1>1, LastCall DEF n
    <3>3. Extends(fs[n].out, f.out)
      BY <1>3, <3>2, ExtendsOrder
    <3>4. fs[n].sent = 0 /\ Stays(fs[n]) => SameCarried(fs[n].out, f.out)
      BY <3>2 DEF SameCarried
    <3> QED BY <1>1, <2>2, <3>1, <3>2, <3>3, <3>4
  <2>3. CASE i < n
    <3>1. i \in 1 .. n /\ i + 1 \in 1 .. n /\ i # n + 1 /\ i # n
      BY <1>1, <2>3
    <3>2. Level(gs, p, i) = Level(fs, o, i) /\ gs[i] = fs[i]
      BY <1>2, <3>1 DEF Level, n
    <3> QED BY <2>3, <3>1, <3>2 DEF GoodNest, n
  <2> QED BY <1>1, <2>1, <2>2, <2>3
<1>5. GoodNest(b, gs, p)
  BY <1>1, <1>2, <1>4 DEF GoodNest
<1>6. Last(gs) = f
  BY <1>2 DEF Last
<1> QED BY <1>2, <1>5, <1>6 DEF gs, n

-----------------------------------------------------------------------------
(* Conservation.                                                           *)

(* A transfer is conserved when the new output carries what left.          *)
LEMMA ConservedMoved ==
  ASSUME bal \in BalanceType, NEW in, WellFormed(in), Accepts(in),
         NEW o \in TransfersType, NEW p \in TransfersType,
         \A k \in Kinds : Carried(p, k) = Carried(o, k) +
           (IF Receiver(in) \in Remote THEN Carries(OutputTransfer(in), k) ELSE 0),
         Conserved(bal, o)
  PROVE  Conserved(Moved(in), p)
<1>1. SUFFICES ASSUME NEW k \in Kinds
               PROVE  Held(Moved(in), k) + Carried(p, k) = Held(InitialBalances, k)
  BY DEF Conserved
<1> DEFINE x == IF Receiver(in) \in Remote THEN Carries(OutputTransfer(in), k) ELSE 0
           y == IF k = in.function /\ Receiver(in) \in Remote THEN Amount(in) ELSE 0
<1>2. Amount(in) \in Int
  BY InputTyped
<1>3. x = y /\ y \in Int
  BY <1>2 DEF Carries, OutputTransfer
<1>4. Carried(p, k) = Carried(o, k) + x /\ Carried(o, k) \in Int
  BY CarriedTyped
<1>5. Held(bal, k) \in Int /\ Held(Moved(in), k) = Held(bal, k) - y
  BY MovedHeld
<1>6. Held(bal, k) + Carried(o, k) = Held(InitialBalances, k)
  BY DEF Conserved
<1> HIDE DEF x, y
<1> QED BY <1>3, <1>4, <1>5, <1>6

(* Only what the output carries matters.                                   *)
LEMMA ConservedSame ==
  ASSUME NEW b, NEW o, NEW p, SameCarried(o, p), Conserved(b, o)
  PROVE  Conserved(b, p)
BY DEF Conserved, SameCarried

(* A transfer within the shard.                                            *)
LEMMA ConservedLocal ==
  ASSUME bal \in BalanceType, NEW in, WellFormed(in), Accepts(in), Receiver(in) \in Local,
         NEW o \in TransfersType, NEW p \in TransfersType, SameCarried(o, p), Conserved(bal, o)
  PROVE  Conserved(Moved(in), p)
<1>1. Receiver(in) \notin Remote
  BY TokensAssumption
<1>2. \A k \in Kinds : Carried(p, k) = Carried(o, k) /\ Carried(o, k) \in Int
  BY CarriedTyped DEF SameCarried
<1>3. \A k \in Kinds : Carried(p, k) = Carried(o, k) +
           (IF Receiver(in) \in Remote THEN Carries(OutputTransfer(in), k) ELSE 0)
  BY <1>1, <1>2
<1> QED BY <1>3, ConservedMoved

(* An output transfer of a well-formed call.                               *)
LEMMA OutputTransferTyped ==
  ASSUME NEW in, WellFormed(in)
  PROVE  OutputTransfer(in) \in TransferType
BY DEF WellFormed, InputType, OutputTransfer, TransferType

-----------------------------------------------------------------------------
(* New calls.                                                              *)

(* The fields of a new call.                                               *)
IsNew(f, self, kind, in, attached, o) ==
  /\ f \in NestedType /\ f.self = self /\ f.kind = kind /\ f.in = in
  /\ f.out = o /\ f.attached = attached /\ f.finish = <<>>
  /\ ~ f.ran /\ ~ f.moved /\ f.before = bal[in.function][in.caller]
  /\ ~ f.touched /\ ~ f.used /\ f.sent = 0

(* NewFrame makes such a call.                                             *)
LEMMA NewFrameFields ==
  ASSUME bal \in BalanceType, outTransfers \in TransfersType,
         NEW self \in Contracts, NEW kind \in CallKinds, NEW caller \in Accounts,
         NEW in, WellFormed(in), NEW attached \in [function : Kinds \cup {"none"}, value : Nat]
  PROVE  IsNew(NewFrame(self, kind, caller, in, attached), self, kind, in, attached, outTransfers)
<1> DEFINE n == bal[in.function][in.caller]
           f == [self |-> self, kind |-> kind, caller |-> caller, in |-> in,
                 out |-> outTransfers, attached |-> attached, finish |-> <<>>,
                 ran |-> FALSE, moved |-> FALSE, before |-> n, touched |-> FALSE,
                 used |-> FALSE, sent |-> 0]
<1>1. in \in InputType /\ n \in Nat /\ <<>> \in Seq(InputType)
  BY DEF WellFormed, InputType, BalanceType
<1>2. NewFrame(self, kind, caller, in, attached) = f
  BY DEF NewFrame
<1> HIDE DEF n
<1>3. f \in NestedType
  BY <1>1 DEF NestedType
<1>4. /\ f.self = self /\ f.kind = kind /\ f.in = in
      /\ f.out = outTransfers /\ f.attached = attached /\ f.finish = <<>>
      /\ ~ f.ran /\ ~ f.moved /\ f.before = n /\ ~ f.touched /\ ~ f.used /\ f.sent = 0
  OBVIOUS
<1> HIDE DEF f
<1> QED BY <1>2, <1>3, <1>4 DEF IsNew, n

(* The output of a new call may be chosen.                                 *)
LEMMA NewFrameOut ==
  ASSUME NEW f, NEW self, NEW kind, NEW in, NEW attached, NEW q, NEW o \in TransfersType,
         IsNew(f, self, kind, in, attached, q)
  PROVE  IsNew([f EXCEPT !.out = o], self, kind, in, attached, o)
<1> DEFINE g == [f EXCEPT !.out = o]
<1>1. f \in NestedType
  BY DEF IsNew
<1>2. /\ g \in NestedType /\ g.self = f.self /\ g.kind = f.kind /\ g.in = f.in
      /\ g.out = o /\ g.attached = f.attached /\ g.finish = f.finish
      /\ g.ran = f.ran /\ g.moved = f.moved /\ g.before = f.before
      /\ g.touched = f.touched /\ g.used = f.used /\ g.sent = f.sent
  BY <1>1 DEF NestedType
<1> HIDE DEF g
<1> QED BY <1>2 DEF IsNew, g

(* The attached tokens of a call.                                          *)
LEMMA AttachedTyped ==
  /\ NoTransfer \in [function : Kinds \cup {"none"}, value : Nat]
  /\ \A in : WellFormed(in) =>
       /\ [function |-> in.function, value |-> Amount(in)]
            \in [function : Kinds \cup {"none"}, value : Nat]
       /\ fillWithDCDTValue(in) = [function |-> in.function, value |-> Amount(in)]
       /\ [function |-> in.function, value |-> Amount(in)] # NoTransfer
<1>1. NoTransfer \in [function : Kinds \cup {"none"}, value : Nat]
  BY DEF NoTransfer
<1>2. ASSUME NEW in, WellFormed(in)
      PROVE  /\ [function |-> in.function, value |-> Amount(in)]
                  \in [function : Kinds \cup {"none"}, value : Nat]
             /\ fillWithDCDTValue(in) = [function |-> in.function, value |-> Amount(in)]
             /\ [function |-> in.function, value |-> Amount(in)] # NoTransfer
  <2>1. in.function \in Kinds /\ Amount(in) \in Nat
    BY <1>2, TokensAssumption DEF WellFormed
  <2>2. in.function = "DCDTTransfer" \/ in.function = "DCDTNFTTransfer"
    BY <2>1 DEF Kinds
  <2>3. Amount(in) = IF in.function = "DCDTNFTTransfer" THEN in.args[3] ELSE in.args[2]
    BY <2>2 DEF Amount
  <2> DEFINE t == [function |-> in.function, value |-> Amount(in)]
  <2>4. t.function = in.function /\ NoTransfer.function = "none" /\ in.function # "none"
    BY <2>2 DEF NoTransfer
  <2>5. t # NoTransfer
    BY <2>4
  <2> QED BY <2>1, <2>3, <2>5 DEF fillWithDCDTValue
<1> QED BY <1>1, <1>2

-----------------------------------------------------------------------------
(* Steps.                                                                  *)

(* What the invariant says of the last call.                               *)
LEMMA TopCall ==
  ASSUME TokensInv
  PROVE  /\ bal \in BalanceType /\ outTransfers \in TransfersType
         /\ nest \in Seq(NestedType) /\ GoodNest(bal, nest, outTransfers)
         /\ Top = Last(nest) /\ Top \in NestedType /\ GoodCall(bal, Top)
         /\ Len(nest) \in Nat /\ Len(nest) >= 1 /\ Len(nest) <= MaxNest + 1
         /\ Self \in Contracts /\ Self \in Local /\ Self \in Accounts
         /\ Top.out \in TransfersType /\ Top.sent \in Nat /\ Extends(Top.out, outTransfers)
         /\ outcome \notin {"ended", "late"} => Settled(Top)
<1>1. /\ bal \in BalanceType /\ outTransfers \in TransfersType
      /\ nest \in Seq(NestedType) /\ GoodNest(bal, nest, outTransfers)
      /\ Len(nest) <= MaxNest + 1 /\ Top = Last(nest)
      /\ outcome \notin {"ended", "late"} => Settled(Top)
  BY DEF TokensInv, GoodState, Top
<1>2. Top \in NestedType /\ GoodCall(bal, Top) /\ Len(nest) \in Nat /\ Len(nest) >= 1
      /\ Extends(Top.out, outTransfers)
  BY <1>1, LastCall
<1>3. Top.self \in Contracts /\ Top.out \in TransfersType /\ Top.sent \in Nat
  BY <1>2 DEF NestedType
<1> QED BY <1>1, <1>2, <1>3 DEF Self, Local, Accounts

(* Transfers by hooks that start no call.                                  *)
LEMMA HookTransfer ==
  ASSUME TokensInv, outcome = "running", NEW in, WellFormed(in),
         made' \in 0 .. MaxTransfers, dirty' = dirty, TransferDCDT(in) \/ TransferOnly(in)
  PROVE  TokensInv'
<1> DEFINE fs == Touched(nest, in)
           gs == Sent(fs, 1)
           t == OutputTransfer(in)
           p == AddOutputTransfer(outTransfers, Receiver(in), t)
<1>1. /\ bal \in BalanceType /\ outTransfers \in TransfersType /\ nest \in Seq(NestedType)
      /\ GoodNest(bal, nest, outTransfers) /\ Settled(Last(nest)) /\ Last(nest).sent \in Nat
      /\ Len(nest) <= MaxNest + 1
  BY TopCall
<1>2. Extends(outTransfers, outTransfers)
  BY <1>1, ExtendsOrder
<1>3. /\ p \in TransfersType /\ Extends(outTransfers, p)
      /\ \A k \in Kinds : Carried(p, k) = Carried(outTransfers, k) +
           (IF Receiver(in) \in Remote THEN Carries(t, k) ELSE 0)
  BY <1>1, OutputTransferTyped, InputTyped, AddedIsCarried
<1> HIDE DEF p
<1>4. ASSUME Accepts(in), NEW q \in TransfersType, Extends(outTransfers, q)
      PROVE  /\ Moved(in) \in BalanceType /\ gs \in Seq(NestedType)
             /\ Len(gs) <= MaxNest + 1 /\ GoodNest(Moved(in), gs, q)
             /\ Settled(Last(gs)) /\ Last(gs).sent > 0
  <2>1. Moved(in) \in BalanceType
    BY <1>1, <1>4, MovedAt
  <2>2. /\ fs \in Seq(NestedType) /\ Len(fs) = Len(nest)
        /\ GoodNest(Moved(in), fs, outTransfers)
        /\ Last(fs).sent = Last(nest).sent /\ Settled(Last(fs))
    BY <1>1, <1>4, GoodNestTouched
  <2> HIDE DEF fs
  <2>3. /\ gs \in Seq(NestedType) /\ Len(gs) = Len(fs) /\ GoodNest(Moved(in), gs, q)
        /\ Last(gs).sent = Last(fs).sent + 1 /\ Settled(Last(gs))
    <3>1. PICK m \in Nat : m = 1
      OBVIOUS
    <3>2. m = 0 => SameCarried(outTransfers, q)
      BY <3>1
    <3>3. /\ Sent(fs, m) \in Seq(NestedType) /\ Len(Sent(fs, m)) = Len(fs)
          /\ GoodNest(Moved(in), Sent(fs, m), q)
          /\ Last(Sent(fs, m)).sent = Last(fs).sent + m
          /\ (Settled(Last(Sent(fs, m))) <=> Settled(Last(fs)))
      <4>1. outTransfers \in TransfersType /\ Extends(outTransfers, q)
        BY <1>1, <1>4
      <4> HIDE DEF gs, t
      <4> QED BY ONLY <2>2, <3>2, <4>1, GoodNestSent, q \in TransfersType, m \in Nat, ZenonT(30)
    <3> QED BY <2>2, <3>1, <3>3
  <2>4. Last(gs).sent > 0
    BY <1>1, <2>2, <2>3
  <2> QED BY <1>1, <2>1, <2>2, <2>3, <2>4
<1>5. CASE Accepts(in) /\ bal' = Moved(in) /\ Fails /\ nest' = gs
           /\ outTransfers' = outTransfers
  <2>1. GoodState(Moved(in), outTransfers, gs, "failed", made', dirty')
    BY <1>1, <1>2, <1>4, <1>5 DEF GoodState
  <2> QED BY <1>5, <2>1 DEF TokensInv, Fails
<1>6. CASE Fails /\ UNCHANGED <<bal, outTransfers, nest>>
  <2>1. ~ AsyncNFTAbroad /\ ~ dirty => Conserved(bal, outTransfers)
    BY DEF TokensInv, GoodState
  <2>2. GoodState(bal, outTransfers, nest, "failed", made', dirty')
    BY <1>1, <2>1 DEF GoodState
  <2> QED BY <1>6, <2>2 DEF TokensInv, Fails
<1>7. CASE TransferOnly(in)
  <2>1. Accepts(in) /\ bal' = Moved(in) /\ outTransfers' = p /\ nest' = gs
        /\ outcome' = "running"
    BY <1>7 DEF TransferOnly, p
  <2>2. ~ AsyncNFTAbroad /\ ~ dirty => Conserved(Moved(in), p)
    <3>1. ~ AsyncNFTAbroad /\ ~ dirty => Conserved(bal, outTransfers)
      BY DEF TokensInv, GoodState
    <3> QED BY <1>1, <1>3, <2>1, <3>1, ConservedMoved
  <2>3. GoodState(Moved(in), p, gs, "running", made', dirty')
    BY <1>3, <1>4, <2>1, <2>2 DEF GoodState
  <2> QED BY <2>1, <2>3 DEF TokensInv
<1> QED BY <1>5, <1>6, <1>7 DEF TransferDCDT

(* A hook's transfer that starts a call.                                   *)
LEMMA HookCall ==
  ASSUME TokensInv, outcome = "running", NEW in, WellFormed(in),
         made' \in 0 .. MaxTransfers, dirty' = dirty, NEW kind \in {"hook", "sync"},
         Receiver(in) \in Contracts, Len(nest) <= MaxNest, StartExecution(kind, in)
  PROVE  TokensInv'
<1> DEFINE fs == Touched(nest, in)
           dest == Receiver(in)
           t == [function |-> in.function, value |-> Amount(in)]
           new == NewFrame(dest, kind, Self, in, t)
           p == AddOutputTransfer(outTransfers, dest, OutputTransfer(in))
           f == [new EXCEPT !.out = p, !.moved = TRUE, !.ran = TRUE]
           b == Moved(in)
           gs == Append(fs, f)
<1>1. /\ bal \in BalanceType /\ outTransfers \in TransfersType /\ nest \in Seq(NestedType)
      /\ GoodNest(bal, nest, outTransfers) /\ Settled(Last(nest)) /\ Len(nest) \in Nat
  BY TopCall
<1>2. Accepts(in) /\ bal' = b /\ outTransfers' = p /\ outcome' = "running" /\ nest' = gs
  BY DEF StartExecution
<1>3. dest \in Local /\ dest \in Accounts /\ dest \notin Remote
  BY TokensAssumption DEF Local, Accounts
<1>4. p \in TransfersType /\ Extends(outTransfers, p) /\ SameCarried(outTransfers, p)
  <2>1. /\ p \in TransfersType /\ Extends(outTransfers, p)
        /\ \A k \in Kinds : Carried(p, k) = Carried(outTransfers, k) +
             (IF dest \in Remote THEN Carries(OutputTransfer(in), k) ELSE 0)
    BY <1>1, <1>3, OutputTransferTyped, AddedIsCarried
  <2>2. \A k \in Kinds : Carried(outTransfers, k) \in Int
    BY <1>1, CarriedTyped
  <2> HIDE DEF p, dest
  <2>3. \A k \in Kinds : Carried(p, k) = Carried(outTransfers, k)
    BY <1>3, <2>1, <2>2
  <2> QED BY <2>1, <2>3 DEF SameCarried
<1>5. IsNew(new, dest, kind, in, t, outTransfers)
  <2>1. kind \in CallKinds
    BY DEF CallKinds
  <2>2. t \in [function : Kinds \cup {"none"}, value : Nat]
    BY AttachedTyped
  <2> QED BY <1>1, <1>3, <2>1, <2>2, TopCall, NewFrameFields
<1> HIDE DEF new, p, t, dest
<1>6. /\ f \in NestedType /\ f.self = dest /\ f.kind = kind /\ f.in = in
      /\ f.out = p /\ f.attached = t /\ f.finish = <<>> /\ f.ran /\ f.moved
      /\ f.before = bal[in.function][in.caller] /\ ~ f.touched /\ ~ f.used /\ f.sent = 0
  <2>1. new \in NestedType
    BY <1>5 DEF IsNew
  <2>2. /\ f \in NestedType /\ f.self = new.self /\ f.kind = new.kind /\ f.in = new.in
        /\ f.out = p /\ f.attached = new.attached /\ f.finish = new.finish
        /\ f.ran = TRUE /\ f.moved = TRUE /\ f.before = new.before
        /\ f.touched = new.touched /\ f.used = new.used /\ f.sent = new.sent
    BY <1>4, <2>1 DEF NestedType
  <2> HIDE DEF f
  <2> QED BY <1>5, <2>2 DEF IsNew
<1> HIDE DEF f
<1>7. b \in BalanceType
  BY <1>1, <1>2, MovedAt
<1>8. GoodCall(b, f)
  BY <1>1, <1>2, <1>6, GoodCallPaid DEF t, dest
<1>9. /\ fs \in Seq(NestedType) /\ Len(fs) = Len(nest) /\ GoodNest(b, fs, outTransfers)
      /\ Settled(Last(fs))
  BY <1>1, <1>2, GoodNestTouched
<1>10. Extends(p, p) /\ SameCarried(p, p)
  BY <1>4, ExtendsOrder DEF SameCarried
<1> HIDE DEF fs, b
<1>11. /\ gs \in Seq(NestedType) /\ Len(gs) = Len(fs) + 1 /\ GoodNest(b, gs, p)
       /\ Last(gs) = f
  <2>1. f.kind # "root" /\ Extends(outTransfers, f.out) /\ SameCarried(outTransfers, f.out)
        /\ Extends(f.out, p) /\ SameCarried(f.out, p)
    BY <1>4, <1>6, <1>10
  <2> QED BY <1>1, <1>4, <1>6, <1>8, <1>9, <2>1, GoodNestPush
<1>12. ~ AsyncNFTAbroad /\ ~ dirty => Conserved(b, p)
  <2>1. ~ AsyncNFTAbroad /\ ~ dirty => Conserved(bal, outTransfers)
    BY DEF TokensInv, GoodState
  <2> QED BY <1>1, <1>2, <1>3, <1>4, <2>1, ConservedLocal DEF b, dest
<1>13. Settled(f) /\ Len(gs) <= MaxNest + 1
  <2>1. Settled(f)
    BY <1>6 DEF Settled
  <2>2. MaxNest \in Nat
    BY TokensAssumption
  <2> QED BY <1>1, <1>9, <1>11, <2>1, <2>2
<1>14. GoodState(b, p, gs, "running", made', dirty')
  BY <1>4, <1>7, <1>11, <1>12, <1>13 DEF GoodState
<1> QED BY <1>2, <1>14 DEF TokensInv

(* A built-in transfer in a new call.                                      *)
LEMMA BuiltinCall ==
  ASSUME bal \in BalanceType, NEW o \in TransfersType,
         NEW fs \in Seq(NestedType), Len(fs) <= MaxNest, GoodNest(bal, fs, o),
         Settled(Last(fs)), NEW in, WellFormed(in), Home(in),
         NEW self \in Contracts, NEW kind \in {"async", "cross", "callback"},
         kind = "async" => in.recipient \in Local,
         NEW frame, IsNew(frame, self, kind, in, NoTransfer, o),
         made' \in 0 .. MaxTransfers,
         ~ AsyncNFTAbroad /\ ~ dirty' => Conserved(bal, o),
         callBuiltinFunction(fs, frame, in)
  PROVE  TokensInv'
<1> DEFINE dest == Receiver(in)
           runs == dest \in Contracts /\ HasCall(in)
           target == IF runs THEN dest ELSE frame.self
           t == IF runs THEN fillWithDCDTValue(in) ELSE NoTransfer
           after == [frame EXCEPT !.moved = TRUE, !.ran = runs, !.self = target, !.attached = t]
           sentAbroad == IF dest \in Remote
                           THEN AddOutputTransfer(frame.out, dest, OutputTransfer(in))
                           ELSE frame.out
           recorded == in.recipient \in Local
                       /\ (in.function = "DCDTNFTTransfer" => Len(in.args) = 4)
           p == IF recorded THEN AddOutputTransfer(sentAbroad, dest, OutputTransfer(in))
                ELSE sentAbroad
<1>1. \/ /\ Accepts(in) /\ bal' = Moved(in) /\ outTransfers' = p
         /\ outcome' = (IF runs THEN "running" ELSE "ended")
         /\ nest' = Append(Touched(fs, in), after)
      \/ /\ runs /\ Accepts(in) /\ bal' = Moved(in) /\ outcome' = "late"
         /\ nest' = Append(Touched(fs, in), [frame EXCEPT !.moved = TRUE])
         /\ outTransfers' = frame.out
      \/ /\ outcome' = "failed" /\ nest' = Append(fs, frame) /\ outTransfers' = frame.out
         /\ bal' = bal
  BY DEF callBuiltinFunction, Fails
<1>2. /\ frame \in NestedType /\ frame.self = self /\ frame.kind = kind /\ frame.in = in
      /\ frame.out = o /\ frame.attached = NoTransfer /\ frame.finish = <<>>
      /\ ~ frame.ran /\ ~ frame.moved /\ frame.before = bal[in.function][in.caller]
      /\ ~ frame.touched /\ ~ frame.used /\ frame.sent = 0
  BY DEF IsNew
<1>3. dest \in Accounts /\ OutputTransfer(in) \in TransferType
  BY InputTyped, OutputTransferTyped
<1>4. MaxNest \in Nat /\ Len(fs) \in Nat
  BY TokensAssumption
<1>5. Extends(o, o) /\ SameCarried(o, o)
  BY ExtendsOrder DEF SameCarried
<1>6. CASE /\ outcome' = "failed" /\ nest' = Append(fs, frame) /\ outTransfers' = frame.out
           /\ bal' = bal
  <2> DEFINE gs == Append(fs, frame)
  <2>1. GoodCall(bal, frame)
    BY <1>2, GoodCallUnpaid
  <2>2. gs \in Seq(NestedType) /\ Len(gs) = Len(fs) + 1 /\ GoodNest(bal, gs, o)
        /\ Last(gs) = frame
    BY <1>2, <1>5, <2>1, GoodNestPush
  <2>3. Len(gs) <= MaxNest + 1 /\ Settled(frame)
    BY <1>2, <1>4, <2>2 DEF Settled
  <2>4. GoodState(bal, o, gs, "failed", made', dirty')
    BY <1>2, <2>2, <2>3 DEF GoodState
  <2> QED BY <1>2, <1>6, <2>4 DEF TokensInv
<1>l. CASE /\ runs /\ Accepts(in) /\ bal' = Moved(in) /\ outcome' = "late"
           /\ nest' = Append(Touched(fs, in), [frame EXCEPT !.moved = TRUE])
           /\ outTransfers' = frame.out
  <2> DEFINE b == Moved(in)
             hs == Touched(fs, in)
             f == [frame EXCEPT !.moved = TRUE]
             gs == Append(hs, f)
  <2>1. b \in BalanceType
    BY <1>l, MovedAt
  <2>2. hs \in Seq(NestedType) /\ Len(hs) = Len(fs) /\ GoodNest(b, hs, o) /\ Settled(Last(hs))
    BY <1>l, GoodNestTouched
  <2>3. /\ f \in NestedType /\ f.self = frame.self /\ f.kind = frame.kind /\ f.in = frame.in
        /\ f.out = frame.out /\ f.attached = frame.attached /\ f.finish = frame.finish
        /\ f.ran = frame.ran /\ f.moved /\ f.before = frame.before
        /\ f.touched = frame.touched /\ f.used = frame.used /\ f.sent = frame.sent
    BY <1>2 DEF NestedType
  <2> HIDE DEF f
  <2>4. /\ f.self = self /\ f.kind = kind /\ f.in = in /\ f.out = o /\ f.attached = NoTransfer
        /\ f.finish = <<>> /\ ~ f.ran /\ f.before = bal[in.function][in.caller]
        /\ ~ f.touched /\ ~ f.used /\ f.sent = 0
    BY <1>2, <2>3
  <2>5. GoodCall(b, f)
    BY <1>l, <2>3, <2>4, GoodCallPaid
  <2>6. dest \in Local
    BY <1>l DEF Local
  <2>7. ~ AsyncNFTAbroad /\ ~ dirty' => Conserved(b, o)
    BY <1>5, <1>l, <2>6, ConservedLocal
  <2> HIDE DEF b, hs
  <2>8. /\ gs \in Seq(NestedType) /\ Len(gs) = Len(hs) + 1 /\ GoodNest(b, gs, o)
        /\ Last(gs) = f
    <3>1. f.kind # "root" /\ Extends(o, f.out) /\ SameCarried(o, f.out) /\ Extends(f.out, o)
          /\ SameCarried(f.out, o)
      BY <1>5, <2>4
    <3> QED BY ONLY <2>2, <2>3, <2>5, <3>1, o \in TransfersType, GoodNestPush
  <2>9. Len(gs) <= MaxNest + 1
    BY <1>4, <2>2, <2>8
  <2>10. GoodState(b, o, gs, "late", made', dirty')
    BY <2>1, <2>7, <2>8, <2>9 DEF GoodState
  <2> QED BY <1>2, <1>l, <2>10 DEF TokensInv, b, hs, f
<1>7. CASE /\ Accepts(in) /\ bal' = Moved(in) /\ outTransfers' = p
           /\ outcome' = (IF runs THEN "running" ELSE "ended")
           /\ nest' = Append(Touched(fs, in), after)
  <2> DEFINE b == Moved(in)
             hs == Touched(fs, in)
             gs == Append(hs, after)
  <2>1. b \in BalanceType
    BY <1>7, MovedAt
  <2>2. hs \in Seq(NestedType) /\ Len(hs) = Len(fs) /\ GoodNest(b, hs, o) /\ Settled(Last(hs))
    BY <1>7, GoodNestTouched
  <2>3. /\ runs \in BOOLEAN /\ target \in Contracts
        /\ t \in [function : Kinds \cup {"none"}, value : Nat]
        /\ runs => t = [function |-> in.function, value |-> Amount(in)] /\ target = dest
        /\ ~ runs => t = NoTransfer
    BY <1>2, AttachedTyped
  <2> HIDE DEF runs, target, t
  <2>4. /\ after \in NestedType /\ after.self = target /\ after.kind = kind
        /\ after.in = in /\ after.out = o /\ after.attached = t /\ after.finish = <<>>
        /\ after.ran = runs /\ after.moved /\ after.before = bal[in.function][in.caller]
        /\ ~ after.touched /\ ~ after.used /\ after.sent = 0
    <3>1. /\ after \in NestedType /\ after.self = target /\ after.kind = frame.kind
          /\ after.in = frame.in /\ after.out = frame.out /\ after.attached = t
          /\ after.finish = frame.finish /\ after.ran = runs /\ after.moved
          /\ after.before = frame.before /\ after.touched = frame.touched
          /\ after.used = frame.used /\ after.sent = frame.sent
      BY <1>2, <2>3 DEF NestedType
    <3> HIDE DEF after
    <3> QED BY <1>2, <3>1
  <2> HIDE DEF after
  <2>5. GoodCall(b, after)
    BY <1>7, <2>3, <2>4, GoodCallPaid DEF dest
  <2>6. /\ p \in TransfersType /\ Extends(o, p)
        /\ ~ AsyncNFTAbroad \/ dest \notin Remote =>
             \A k \in Kinds : Carried(p, k) = Carried(o, k) +
               (IF dest \in Remote THEN Carries(OutputTransfer(in), k) ELSE 0)
    <3>1. \A k \in Kinds : Carried(o, k) \in Int
      BY CarriedTyped
    <3>2. CASE dest \notin Remote
      <4>1. sentAbroad = o
        BY <1>2, <3>2
      <4>2. /\ AddOutputTransfer(o, dest, OutputTransfer(in)) \in TransfersType
            /\ Extends(o, AddOutputTransfer(o, dest, OutputTransfer(in)))
            /\ \A k \in Kinds : Carried(AddOutputTransfer(o, dest, OutputTransfer(in)), k) =
                 Carried(o, k) + (IF dest \in Remote THEN Carries(OutputTransfer(in), k) ELSE 0)
        BY <1>3, AddedIsCarried
      <4>3. p = o \/ p = AddOutputTransfer(o, dest, OutputTransfer(in))
        BY <4>1
      <4> HIDE DEF p, dest
      <4>4. CASE p = o
        BY <1>5, <3>1, <3>2, <4>4
      <4>5. CASE p = AddOutputTransfer(o, dest, OutputTransfer(in))
        BY <4>2, <4>5
      <4> QED BY <4>3, <4>4, <4>5
    <3>3. CASE dest \in Remote
      <4> DEFINE q == AddOutputTransfer(o, dest, OutputTransfer(in))
                 r == AddOutputTransfer(q, dest, OutputTransfer(in))
      <4>1. sentAbroad = q
        BY <1>2, <3>3
      <4>2. /\ q \in TransfersType /\ Extends(o, q)
            /\ \A k \in Kinds : Carried(q, k) =
                 Carried(o, k) + (IF dest \in Remote THEN Carries(OutputTransfer(in), k) ELSE 0)
        BY <1>3, AddedIsCarried
      <4>3. p = IF recorded THEN r ELSE q
        BY <4>1
      <4> HIDE DEF q
      <4>4. r \in TransfersType /\ Extends(q, r)
        BY <1>3, <4>2, AddedIsCarried
      <4>5. Extends(o, r)
        BY <4>2, <4>4, ExtendsOrder
      <4>6. ~ AsyncNFTAbroad => ~ recorded
        <5>1. dest \notin Local
          BY <3>3, TokensAssumption
        <5>2. in.function = "DCDTTransfer" \/ in.function = "DCDTNFTTransfer"
          BY InputTyped DEF Kinds
        <5>3. in.function = "DCDTTransfer" => dest = in.recipient
          BY DEF Receiver
        <5>4. ~ AsyncNFTAbroad => in.function # "DCDTNFTTransfer"
          BY <5>1 DEF Home
        <5> QED BY <5>1, <5>2, <5>3, <5>4
      <4> HIDE DEF p, r, recorded, dest
      <4> QED BY <3>3, <4>2, <4>3, <4>4, <4>5, <4>6
    <3> QED BY <3>2, <3>3
  <2>7. dest \notin Remote => SameCarried(o, p)
    <3> SUFFICES ASSUME dest \notin Remote PROVE SameCarried(o, p)
      OBVIOUS
    <3>1. dest \notin Remote
      OBVIOUS
    <3>2. \A k \in Kinds : Carried(o, k) \in Int
      BY CarriedTyped
    <3> HIDE DEF p, dest
    <3>3. \A k \in Kinds : Carried(p, k) = Carried(o, k)
      BY <2>6, <3>1, <3>2
    <3> QED BY <3>3 DEF SameCarried
  <2>8. ~ AsyncNFTAbroad /\ ~ dirty' => Conserved(b, p)
    <3> SUFFICES ASSUME ~ AsyncNFTAbroad, ~ dirty' PROVE Conserved(b, p)
      OBVIOUS
    <3>1. Conserved(bal, o)
      OBVIOUS
    <3> HIDE DEF p
    <3> QED BY <1>7, <2>6, <3>1, ConservedMoved
  <2> HIDE DEF p, b, hs
  <2>9. /\ gs \in Seq(NestedType) /\ Len(gs) = Len(hs) + 1 /\ GoodNest(b, gs, p)
        /\ Last(gs) = after
    <3>1. after.kind # "root" /\ Extends(o, after.out) /\ SameCarried(o, after.out)
          /\ Extends(after.out, p)
      BY <1>5, <2>4, <2>6
    <3>2. Stays(after) => SameCarried(after.out, p)
      <4>1. runs => dest \notin Remote
        BY TokensAssumption DEF runs, Local
      <4> QED BY <2>4, <2>7, <4>1 DEF Stays, dest
    <3>3. /\ hs \in Seq(NestedType) /\ GoodNest(b, hs, o) /\ Settled(Last(hs))
          /\ after \in NestedType /\ GoodCall(b, after) /\ p \in TransfersType
      BY <2>2, <2>4, <2>5, <2>6
    <3> QED BY ONLY <3>1, <3>2, <3>3, o \in TransfersType, GoodNestPush
  <2>10. Len(gs) <= MaxNest + 1
    BY <1>4, <2>2, <2>9
  <2>11. ~ Settled(after) => ~ runs
    BY <2>4 DEF Settled
  <2>12. GoodState(b, p, gs, IF runs THEN "running" ELSE "ended", made', dirty')
    BY <2>1, <2>6, <2>8, <2>9, <2>10, <2>11 DEF GoodState
  <2> QED BY <1>7, <2>12 DEF TokensInv, b, hs
<1> QED BY <1>1, <1>6, <1>l, <1>7

(* The nest below the last call.                                           *)
LEMMA PopCall ==
  ASSUME TokensInv, Top.kind # "root"
  PROVE  LET fs == Front(nest)
         IN  /\ fs \in Seq(NestedType) /\ Len(fs) = Len(nest) - 1 /\ Len(fs) <= MaxNest
             /\ GoodNest(bal, fs, Top.out) /\ Settled(Last(fs))
<1>1. /\ nest \in Seq(NestedType) /\ GoodNest(bal, nest, outTransfers) /\ Top = Last(nest)
      /\ Len(nest) \in Nat /\ Len(nest) <= MaxNest + 1 /\ MaxNest \in Nat
  BY TopCall, TokensAssumption
<1>2. /\ Front(nest) \in Seq(NestedType) /\ Len(Front(nest)) = Len(nest) - 1
      /\ GoodNest(bal, Front(nest), Top.out) /\ Settled(Last(Front(nest)))
  BY <1>1, GoodNestPop
<1> QED BY <1>1, <1>2

(* The nest and the output after a call that succeeded.                    *)
LEMMA MergedCalls ==
  ASSUME TokensInv, Top.kind # "root"
  PROVE  /\ PopMergeActiveState(Top.out) = outTransfers
         /\ Merged \in Seq(NestedType) /\ Len(Merged) = Len(nest) - 1 /\ Len(Merged) <= MaxNest
         /\ GoodNest(bal, Merged, outTransfers) /\ Settled(Last(Merged))
<1> DEFINE fs == Front(nest)
           m == Top.sent + (IF Top.moved THEN 1 ELSE 0)
<1>1. /\ outTransfers \in TransfersType /\ Top.out \in TransfersType
      /\ Extends(Top.out, outTransfers) /\ Top.sent \in Nat
  BY TopCall
<1>2. PopMergeActiveState(Top.out) = outTransfers
  BY <1>1, MergeOfExtension
<1>3. /\ fs \in Seq(NestedType) /\ Len(fs) = Len(nest) - 1 /\ Len(fs) <= MaxNest
      /\ GoodNest(bal, fs, Top.out) /\ Settled(Last(fs))
  BY PopCall
<1>4. m \in Nat
  BY <1>1
<1>5. m = 0 => SameCarried(Top.out, outTransfers)
  <2> SUFFICES ASSUME m = 0 PROVE SameCarried(Top.out, outTransfers)
    OBVIOUS
  <2>1. Top.sent = 0 /\ ~ Top.moved
    BY <1>1
  <2>2. Stays(Top)
    BY <2>1 DEF Stays
  <2> QED BY <2>1, <2>2, TopCall, LastCall
<1>6. Merged = Sent(fs, m)
  BY DEF Merged
<1> DEFINE q == Top.out
<1>7. /\ fs \in Seq(NestedType) /\ q \in TransfersType /\ GoodNest(bal, fs, q)
      /\ outTransfers \in TransfersType /\ Extends(q, outTransfers) /\ m \in Nat
      /\ m = 0 => SameCarried(q, outTransfers)
  BY <1>1, <1>3, <1>4, <1>5
<1> HIDE DEF fs, m, q
<1>8. /\ Sent(fs, m) \in Seq(NestedType) /\ Len(Sent(fs, m)) = Len(fs)
      /\ GoodNest(bal, Sent(fs, m), outTransfers)
      /\ (Settled(Last(Sent(fs, m))) <=> Settled(Last(fs)))
  BY ONLY <1>7, GoodNestSent, ZenonT(30)
<1> QED BY <1>2, <1>3, <1>6, <1>8

(* A call that ended, whose callers go on.                                 *)
LEMMA MergedState ==
  ASSUME TokensInv, Top.kind # "root", outcome = "ended", made' = made, dirty' = dirty,
         bal' = bal, outTransfers' = PopMergeActiveState(Top.out), nest' = Merged,
         outcome' \in {"running", "ended"}
  PROVE  TokensInv'
<1>1. /\ outTransfers' = outTransfers /\ Merged \in Seq(NestedType)
      /\ Len(Merged) <= MaxNest /\ Len(Merged) \in Nat
      /\ GoodNest(bal, Merged, outTransfers) /\ Settled(Last(Merged))
  BY MergedCalls
<1>2. Len(Merged) <= MaxNest + 1
  BY <1>1, TokensAssumption
<1>3. /\ bal \in BalanceType /\ outTransfers \in TransfersType /\ made \in 0 .. MaxTransfers
      /\ ~ AsyncNFTAbroad /\ ~ dirty => Conserved(bal, outTransfers)
  BY DEF TokensInv, GoodState
<1>4. GoodState(bal, outTransfers, Merged, outcome', made, dirty)
  BY <1>1, <1>2, <1>3 DEF GoodState
<1> QED BY <1>1, <1>4 DEF TokensInv

(* What a failed call leaves is conserved, unless it had sent tokens or    *)
(* carried them abroad.                                                     *)
LEMMA FailedOutput ==
  ASSUME TokensInv, Failed, Dropped
  PROVE  ~ AsyncNFTAbroad /\ ~ dirty' => Conserved(bal, Top.out)
<1> SUFFICES ASSUME ~ AsyncNFTAbroad, ~ dirty' PROVE Conserved(bal, Top.out)
  OBVIOUS
<1>1. Top.sent \in Nat /\ Top = Last(nest)
  BY TopCall
<1>2. ~ dirty /\ Top.sent = 0 /\ Stays(Top)
  <2>1. ~ (dirty \/ Top.sent > 0 \/ (Top.moved /\ Receiver(Top.in) \in Remote))
    BY Zenon DEF Dropped
  <2>2. ~ (Top.sent > 0)
    BY <2>1
  <2>3. Top.sent = 0
    BY <1>1, <2>2
  <2> QED BY <2>1, <2>3 DEF Stays
<1>3. Conserved(bal, outTransfers)
  BY <1>1, <1>2 DEF TokensInv, GoodState
<1>4. SameCarried(Top.out, outTransfers)
  BY <1>1, <1>2, TopCall, LastCall
<1> QED BY <1>3, <1>4, ConservedSame DEF Conserved, SameCarried

(* The nest after a failed call whose tokens went back.                    *)
LEMMA ReturnedState ==
  ASSUME TokensInv, Top.kind # "root", NEW in, WellFormed(in), Accepts(in),
         Receiver(in) \in Local, Failed, Dropped
  PROVE  LET fs == Touched(Front(nest), in)
         IN  /\ Moved(in) \in BalanceType
             /\ fs \in Seq(NestedType) /\ Len(fs) <= MaxNest
             /\ GoodNest(Moved(in), fs, Top.out) /\ Settled(Last(fs))
             /\ ~ AsyncNFTAbroad /\ ~ dirty' => Conserved(Moved(in), Top.out)
<1>1. bal \in BalanceType /\ Top.out \in TransfersType
  BY TopCall
<1>2. Moved(in) \in BalanceType
  BY <1>1, MovedAt
<1>3. /\ Front(nest) \in Seq(NestedType) /\ Len(Front(nest)) <= MaxNest
      /\ GoodNest(bal, Front(nest), Top.out) /\ Settled(Last(Front(nest)))
  BY PopCall
<1> DEFINE hs == Front(nest)
           fs == Touched(hs, in)
<1> HIDE DEF hs
<1>4. /\ fs \in Seq(NestedType) /\ Len(fs) = Len(hs) /\ GoodNest(Moved(in), fs, Top.out)
      /\ (Settled(Last(fs)) <=> Settled(Last(hs)))
  BY <1>1, <1>3, GoodNestTouched DEF hs
<1>5. ~ AsyncNFTAbroad /\ ~ dirty' => Conserved(Moved(in), Top.out)
  <2>1. SameCarried(Top.out, Top.out)
    BY DEF SameCarried
  <2> QED BY <1>1, <2>1, FailedOutput, ConservedLocal
<1> QED BY <1>2, <1>3, <1>4, <1>5 DEF hs

(* A failed call, whose caller goes on or fails.                           *)
LEMMA DroppedState ==
  ASSUME NEW b \in BalanceType, NEW o \in TransfersType,
         NEW fs \in Seq(NestedType), Len(fs) <= MaxNest, GoodNest(b, fs, o),
         Settled(Last(fs)), ~ AsyncNFTAbroad /\ ~ dirty' => Conserved(b, o),
         made' \in 0 .. MaxTransfers, outcome' \in {"running", "ended", "failed"},
         bal' = b, outTransfers' = o, nest' = fs
  PROVE  TokensInv'
<1>1. MaxNest \in Nat /\ Len(fs) \in Nat
  BY TokensAssumption
<1>2. Len(fs) <= MaxNest + 1
  BY <1>1
<1>3. GoodState(b, o, fs, outcome', made', dirty')
  BY <1>2 DEF GoodState
<1> QED BY <1>3 DEF TokensInv

(* The transfer that gives tokens back to the caller of a hook.            *)
LEMMA BackInput ==
  ASSUME TokensInv, Top.kind \in {"hook", "sync"}
  PROVE  LET back == DCDTTransferInput(Top.in.caller, Top.self, Top.in.function, Amount(Top.in))
         IN  /\ WellFormed(back) /\ back.function = Top.in.function
             /\ back.caller = Top.self /\ Top.self = Receiver(Top.in)
             /\ Receiver(back) = Top.in.caller /\ Receiver(back) \in Local
             /\ Amount(back) = Amount(Top.in)
<1>1. WellFormed(Top.in) /\ Top.self = Receiver(Top.in) /\ Top.self \in Local
  BY TopCall DEF GoodCall, Self
<1>2. Top.in.caller \in Local /\ Top.in.caller \in Accounts /\ Top.in.function \in Kinds
      /\ Amount(Top.in) \in Amounts
  BY <1>1, InputTyped DEF WellFormed
<1> QED BY <1>1, <1>2, TransferInput

(* Hooks whose call fails.                                                 *)
LEMMA FailedHook ==
  ASSUME TokensInv, FailHook \/ FailSync
  PROVE  TokensInv'
<1> DEFINE back == DCDTTransferInput(Top.in.caller, Top.self, Top.in.function, Amount(Top.in))
<1>1. /\ Top.kind \in {"hook", "sync"} /\ Failed /\ Dropped /\ made' = made
      /\ outTransfers' = Top.out /\ outcome' \in {"running", "failed"}
      /\ ReturnTokens(back, Front(nest)) \/ KeepTokens(Front(nest))
  BY DEF FailHook, FailSync, Ends, Fails
<1>2. WellFormed(back) /\ Receiver(back) \in Local
  BY <1>1, BackInput
<1> HIDE DEF back
<1>3. made' \in 0 .. MaxTransfers /\ Top.kind # "root"
      /\ outcome' \in {"running", "ended", "failed"}
  BY <1>1 DEF TokensInv, GoodState
<1>4. bal \in BalanceType /\ Top.out \in TransfersType
  BY TopCall
<1>5. CASE ReturnTokens(back, Front(nest))
  <2>1. Accepts(back) /\ bal' = Moved(back) /\ nest' = Touched(Front(nest), back)
    BY <1>5 DEF ReturnTokens
  <2>2. LET fs == Touched(Front(nest), back)
        IN  /\ Moved(back) \in BalanceType
            /\ fs \in Seq(NestedType) /\ Len(fs) <= MaxNest
            /\ GoodNest(Moved(back), fs, Top.out) /\ Settled(Last(fs))
            /\ ~ AsyncNFTAbroad /\ ~ dirty' => Conserved(Moved(back), Top.out)
    BY <1>1, <1>2, <1>3, <2>1, ReturnedState
  <2> QED BY <1>1, <1>3, <1>4, <2>1, <2>2, DroppedState
<1>6. CASE KeepTokens(Front(nest))
  <2>1. bal' = bal /\ nest' = Front(nest)
    BY <1>6 DEF KeepTokens
  <2>2. LET fs == Front(nest)
        IN  /\ fs \in Seq(NestedType) /\ Len(fs) <= MaxNest
            /\ GoodNest(bal, fs, Top.out) /\ Settled(Last(fs))
    BY <1>3, PopCall
  <2>3. ~ AsyncNFTAbroad /\ ~ dirty' => Conserved(bal, Top.out)
    BY <1>1, FailedOutput
  <2> QED BY <1>1, <1>3, <1>4, <2>1, <2>2, <2>3, DroppedState
<1> QED BY <1>1, <1>5, <1>6

(* The callback of an asynchronous call.                                   *)
LEMMA CallbackStep ==
  ASSUME TokensInv, Top.kind = "async", NEW b \in BalanceType, NEW o \in TransfersType,
         NEW fs \in Seq(NestedType), Len(fs) <= MaxNest, GoodNest(b, fs, o),
         Settled(Last(fs)), ~ AsyncNFTAbroad /\ ~ dirty' => Conserved(b, o),
         made' \in 0 .. MaxTransfers, bal' = b, Callback(fs, o)
  PROVE  TokensInv'
<1> DEFINE caller == Last(fs).self
           dest == Top.in.recipient
           new == NewFrame(caller, "callback", dest, Top.in, NoTransfer)
           f == [new EXCEPT !.out = o]
<1>1. \/ outcome' = "ended" /\ nest' = fs /\ outTransfers' = o
      \/ outcome' = "running" /\ nest' = Append(fs, f) /\ outTransfers' = o
  BY DEF Callback
<1>2. CASE outcome' = "ended" /\ nest' = fs /\ outTransfers' = o
  BY <1>2, DroppedState
<1>3. CASE outcome' = "running" /\ nest' = Append(fs, f) /\ outTransfers' = o
  <2>1. WellFormed(Top.in) /\ dest \in Accounts
    <3>1. WellFormed(Top.in)
      BY TopCall DEF GoodCall
    <3> QED BY <3>1, InputTyped
  <2>2. caller \in Contracts
    BY LastCall DEF NestedType
  <2>3. bal \in BalanceType /\ outTransfers \in TransfersType
        /\ "callback" \in CallKinds
        /\ NoTransfer \in [function : Kinds \cup {"none"}, value : Nat]
    BY TopCall, AttachedTyped DEF CallKinds
  <2>4. IsNew(new, caller, "callback", Top.in, NoTransfer, outTransfers)
    BY <2>1, <2>2, <2>3, NewFrameFields
  <2> HIDE DEF new, caller, dest
  <2>5. IsNew(f, caller, "callback", Top.in, NoTransfer, o)
    BY <2>4, NewFrameOut
  <2> HIDE DEF f
  <2>6. /\ f \in NestedType /\ f.kind = "callback" /\ f.in = Top.in /\ f.out = o
        /\ f.attached = NoTransfer /\ f.finish = <<>> /\ ~ f.ran /\ ~ f.moved
    BY <2>5 DEF IsNew
  <2>7. GoodCall(b, f)
    BY <2>1, <2>6, GoodCallUnpaid
  <2>8. Extends(o, o) /\ SameCarried(o, o)
    BY ExtendsOrder DEF SameCarried
  <2>9. LET gs == Append(fs, f)
        IN  /\ gs \in Seq(NestedType) /\ Len(gs) = Len(fs) + 1 /\ GoodNest(b, gs, o)
            /\ Last(gs) = f
    BY <2>6, <2>7, <2>8, GoodNestPush
  <2>10. Len(Append(fs, f)) <= MaxNest + 1
    <3>1. Len(fs) \in Nat /\ MaxNest \in Nat
      BY TokensAssumption
    <3> QED BY <2>9, <3>1
  <2>11. Settled(f)
    BY <2>6 DEF Settled
  <2>12. GoodState(b, o, Append(fs, f), "running", made', dirty')
    BY <2>9, <2>10, <2>11 DEF GoodState
  <2> QED BY <1>3, <2>12 DEF TokensInv
<1> QED BY <1>1, <1>2, <1>3

(* An asynchronous call that ended.                                        *)
LEMMA FinishedAsync ==
  ASSUME TokensInv, FinishAsync
  PROVE  TokensInv'
<1> DEFINE o == PopMergeActiveState(Top.out)
<1>1. Top.kind = "async" /\ outcome = "ended" /\ made' = made /\ dirty' = dirty
      /\ (IF Top.finish # <<>> /\ ~ HasCall(Top.finish[1])
            THEN CallbackWithTransfer(Merged, o)
            ELSE Callback(Merged, o) /\ bal' = bal)
  BY DEF FinishAsync, Ends, NoGhosts
<1>2. /\ o = outTransfers /\ Merged \in Seq(NestedType)
      /\ Len(Merged) <= MaxNest /\ GoodNest(bal, Merged, outTransfers) /\ Settled(Last(Merged))
  BY <1>1, MergedCalls
<1>3. /\ bal \in BalanceType /\ outTransfers \in TransfersType /\ made' \in 0 .. MaxTransfers
      /\ ~ AsyncNFTAbroad /\ ~ dirty' => Conserved(bal, outTransfers)
  BY <1>1 DEF TokensInv, GoodState
<1>4. CASE Callback(Merged, o) /\ bal' = bal
  <2>1. Callback(Merged, outTransfers)
    BY <1>2, <1>4
  <2> QED BY <1>1, <1>2, <1>3, <1>4, <2>1, CallbackStep
<1>5. CASE Top.finish # <<>> /\ CallbackWithTransfer(Merged, o)
  <2> DEFINE caller == Last(Merged).self
             asked == Top.finish[1]
             in == [function |-> asked.function, caller |-> Top.in.recipient,
                    recipient |-> caller, args |-> asked.args \o <<"callBack">>]
             new == NewFrame(caller, "callback", in.caller, in, NoTransfer)
             frame == [new EXCEPT !.out = outTransfers]
  <2>1. callBuiltinFunction(Merged, frame, in)
    BY <1>2, <1>5 DEF CallbackWithTransfer
  <2>2. WellFormed(asked) /\ Home(asked) /\ Top.in.recipient \in Local
    BY <1>1, <1>5, TopCall DEF GoodCall
  <2>3. caller \in Contracts /\ caller \in Local
    BY <1>2, LastCall DEF NestedType, Local
  <2>4. WellFormed(in) /\ Home(in) /\ in.caller \in Accounts
    <3>1. WellFormed(in) /\ Home(in)
      BY <2>2, <2>3, CallbackInput
    <3> HIDE DEF in
    <3> QED BY <3>1, InputTyped
  <2> HIDE DEF in, caller
  <2>5. "callback" \in CallKinds
        /\ NoTransfer \in [function : Kinds \cup {"none"}, value : Nat]
    BY AttachedTyped DEF CallKinds
  <2>6. IsNew(new, caller, "callback", in, NoTransfer, outTransfers)
    BY <1>3, <2>3, <2>4, <2>5, NewFrameFields
  <2>7. IsNew(frame, caller, "callback", in, NoTransfer, outTransfers)
    BY <1>3, <2>6, NewFrameOut
  <2> HIDE DEF frame
  <2> QED BY <1>2, <1>3, <2>1, <2>3, <2>4, <2>7, BuiltinCall
<1> QED BY <1>1, <1>4, <1>5

(* An asynchronous call that failed.                                       *)
LEMMA FailedAsync ==
  ASSUME TokensInv, FailAsync
  PROVE  TokensInv'
<1> DEFINE back == revertInput(Top.in)
<1>1. /\ Top.kind = "async" /\ Failed /\ made' = made /\ Dropped
      /\ \/ /\ Top.ran /\ Accepts(back) /\ bal' = Moved(back)
            /\ Callback(Touched(Front(nest), back), Top.out)
         \/ bal' = bal /\ Callback(Front(nest), Top.out)
  BY DEF FailAsync, Ends
<1>2. made' \in 0 .. MaxTransfers /\ Top.kind # "root"
  BY <1>1 DEF TokensInv, GoodState
<1>3. bal \in BalanceType /\ Top.out \in TransfersType
  BY TopCall
<1>4. CASE /\ Top.ran /\ Accepts(back) /\ bal' = Moved(back)
           /\ Callback(Touched(Front(nest), back), Top.out)
  <2>1. WellFormed(Top.in) /\ Receiver(Top.in) \in Local /\ Top.in.caller \in Local
    <3>1. WellFormed(Top.in) /\ Top.self = Receiver(Top.in) /\ Top.self \in Local
      BY <1>1, <1>4, TopCall DEF GoodCall, Self
    <3> QED BY <3>1, InputTyped
  <2>2. WellFormed(back) /\ Receiver(back) \in Local
    BY <2>1, RevertInput
  <2> HIDE DEF back
  <2>3. LET fs == Touched(Front(nest), back)
        IN  /\ Moved(back) \in BalanceType
            /\ fs \in Seq(NestedType) /\ Len(fs) <= MaxNest
            /\ GoodNest(Moved(back), fs, Top.out) /\ Settled(Last(fs))
            /\ ~ AsyncNFTAbroad /\ ~ dirty' => Conserved(Moved(back), Top.out)
    BY <1>1, <1>2, <1>4, <2>2, ReturnedState
  <2> QED BY <1>1, <1>2, <1>3, <1>4, <2>3, CallbackStep
<1>5. CASE bal' = bal /\ Callback(Front(nest), Top.out)
  <2>1. LET fs == Front(nest)
        IN  /\ fs \in Seq(NestedType) /\ Len(fs) <= MaxNest
            /\ GoodNest(bal, fs, Top.out) /\ Settled(Last(fs))
    BY <1>2, PopCall
  <2>2. ~ AsyncNFTAbroad /\ ~ dirty' => Conserved(bal, Top.out)
    BY <1>1, FailedOutput
  <2> QED BY <1>1, <1>2, <1>3, <1>5, <2>1, <2>2, CallbackStep
<1> QED BY <1>1, <1>4, <1>5

(* The balances at the start.                                              *)
LEMMA InitialBalance ==
  InitialBalances \in BalanceType /\ Conserved(InitialBalances, NoOutput)
<1>1. \A k \in Kinds : Supply[k] \in Nat
  BY TokensAssumption
<1>2. InitialBalances \in BalanceType
  BY <1>1 DEF InitialBalances, BalanceType
<1>3. ASSUME NEW k \in Kinds
      PROVE  Held(InitialBalances, k) + Carried(NoOutput, k) = Held(InitialBalances, k)
  <2>1. InitialBalances[k] \in [Local -> Int] /\ IsFiniteSet(Local)
    BY <1>2, TokensAssumption DEF BalanceType
  <2>2. Held(InitialBalances, k) \in Int
    BY <2>1, SumTyped DEF Held
  <2>3. Carried(NoOutput, k) = 0
    BY NothingCarried
  <2> QED BY <2>2, <2>3
<1> QED BY <1>2, <1>3 DEF Conserved

(* The end of the transaction.                                             *)
LEMMA EndedTransfers ==
  ASSUME TokensInv, EndTransfers
  PROVE  TokensInv'
<1>1. /\ Top.kind = "root" /\ made' = made /\ outcome' = "done" /\ nest' = nest
      /\ \/ /\ outcome = "ended" /\ bal' = bal /\ outTransfers' = outTransfers
            /\ ~ dirty' => ~ dirty
         \/ bal' = InitialBalances /\ outTransfers' = NoOutput
  BY DEF EndTransfers, Ends, Failed
<1>2. /\ nest \in Seq(NestedType) /\ Len(nest) = 1 /\ Last(nest) = nest[1] /\ Top = nest[1]
      /\ GoodCall(bal, nest[1]) /\ nest[1].out = NoOutput /\ ~ nest[1].moved
      /\ Len(nest) <= MaxNest + 1 /\ made' \in 0 .. MaxTransfers
  <2>1. nest \in Seq(NestedType) /\ GoodNest(bal, nest, outTransfers) /\ Top = Last(nest)
        /\ Len(nest) <= MaxNest + 1 /\ GoodCall(bal, Top)
    BY TopCall
  <2>2. Len(nest) = 1 /\ Last(nest) = nest[1]
    BY <1>1, <2>1, LastCall
  <2>3. Top.out = NoOutput /\ ~ Top.moved
    BY <1>1, <2>1 DEF GoodCall
  <2>4. made' \in 0 .. MaxTransfers
    BY <1>1 DEF TokensInv, GoodState
  <2> QED BY <2>1, <2>2, <2>3, <2>4
<1>3. Settled(Last(nest))
  BY <1>2 DEF Settled
<1>4. CASE outcome = "ended" /\ bal' = bal /\ outTransfers' = outTransfers
           /\ (~ dirty' => ~ dirty)
  <2>1. GoodState(bal, outTransfers, nest, "done", made', dirty')
    BY <1>2, <1>3, <1>4 DEF TokensInv, GoodState
  <2> QED BY <1>1, <1>4, <2>1 DEF TokensInv
<1>5. CASE bal' = InitialBalances /\ outTransfers' = NoOutput
  <2>1. InitialBalances \in BalanceType /\ NoOutput \in TransfersType
    BY NothingCarried, InitialBalance
  <2>2. Conserved(InitialBalances, NoOutput)
    BY InitialBalance
  <2>3. GoodCall(InitialBalances, nest[1])
    BY <1>1, <1>2 DEF GoodCall
  <2>4. Extends(NoOutput, NoOutput) /\ SameCarried(NoOutput, NoOutput)
    BY <2>1, ExtendsOrder DEF SameCarried
  <2>5. GoodNest(InitialBalances, nest, NoOutput)
    <3>1. ASSUME NEW i \in 1 .. Len(nest)
          PROVE  /\ i = 1 /\ ~ (i < Len(nest)) /\ Level(nest, NoOutput, i) = NoOutput
      BY <1>2 DEF Level
    <3> QED BY <1>1, <1>2, <2>3, <2>4, <3>1 DEF GoodNest
  <2>6. GoodState(InitialBalances, NoOutput, nest, "done", made', dirty')
    BY <1>2, <1>3, <2>1, <2>2, <2>5 DEF GoodState
  <2> QED BY <1>1, <1>5, <2>6 DEF TokensInv
<1> QED BY <1>1, <1>4, <1>5

(* The start of the transaction.                                           *)
LEMMA InitTokensInv == TokensInit => TokensInv
<1> SUFFICES ASSUME TokensInit PROVE TokensInv
  OBVIOUS
<1> DEFINE in == [function |-> "none", caller |-> Root, recipient |-> Root, args |-> <<>>]
           f == [self |-> Root, kind |-> "root", caller |-> Root, out |-> NoOutput,
                 in |-> in, attached |-> NoTransfer, finish |-> <<>>, ran |-> FALSE,
                 moved |-> FALSE, before |-> 0, touched |-> FALSE, used |-> FALSE, sent |-> 0]
<1>1. /\ bal = InitialBalances /\ outTransfers = NoOutput /\ outcome = "running" /\ made = 0
      /\ nest = <<f>>
  BY DEF TokensInit
<1>2. InitialBalances \in BalanceType /\ NoOutput \in TransfersType
      /\ Conserved(InitialBalances, NoOutput)
  BY NothingCarried, InitialBalance
<1>3. Root \in Contracts /\ Root \in Local /\ Root \in Accounts
      /\ MaxNest \in Nat /\ MaxTransfers \in Nat
  BY TokensAssumption DEF Local, Accounts
<1>4. in \in InputType /\ <<>> \in Seq(InputType)
  BY <1>3 DEF InputType
<1>5. NoTransfer \in [function : Kinds \cup {"none"}, value : Nat] /\ "root" \in CallKinds
  BY AttachedTyped DEF CallKinds
<1> HIDE DEF in
<1>6. f \in NestedType
  BY <1>2, <1>3, <1>4, <1>5 DEF NestedType
<1>7. /\ f.kind = "root" /\ f.attached = NoTransfer /\ f.out = NoOutput /\ f.finish = <<>>
      /\ f.ran = FALSE /\ f.moved = FALSE
  OBVIOUS
<1> HIDE DEF f
<1>8. GoodCall(bal, f)
  BY <1>6, <1>7 DEF GoodCall
<1>9. nest \in Seq(NestedType) /\ Len(nest) = 1 /\ nest[1] = f /\ Last(nest) = f
  BY <1>1, <1>6 DEF Last
<1>10. GoodNest(bal, nest, NoOutput)
  <2>1. ASSUME NEW i \in 1 .. Len(nest)
        PROVE  /\ i = 1 /\ ~ (i < Len(nest)) /\ Level(nest, NoOutput, i) = NoOutput
    BY <1>9 DEF Level
  <2>2. Extends(NoOutput, NoOutput) /\ SameCarried(NoOutput, NoOutput)
    BY <1>2, ExtendsOrder DEF SameCarried
  <2> QED BY <1>7, <1>8, <1>9, <2>1, <2>2 DEF GoodNest
<1>11. Settled(f)
  BY <1>7 DEF Settled
<1>12. Len(nest) <= MaxNest + 1 /\ made \in 0 .. MaxTransfers
  BY <1>1, <1>3, <1>9
<1>13. GoodState(InitialBalances, NoOutput, nest, "running", made, dirty)
  BY <1>1, <1>2, <1>9, <1>10, <1>11, <1>12 DEF GoodState
<1> QED BY <1>1, <1>13 DEF TokensInv

(* Built-in transfers by asyncCall.                                        *)
LEMMA AsyncStep ==
  ASSUME TokensInv, asyncCall
  PROVE  TokensInv'
<1>1. PICK in \in AsyncInputs :
        IF DCDTTransferOnCallBack(in)
          THEN /\ nest' = [nest EXCEPT ![Len(nest)].finish = <<in>>]
               /\ outcome' = "ended" /\ UNCHANGED <<bal, outTransfers>>
          ELSE LET kind == IF in.recipient \in Local THEN "async" ELSE "cross"
               IN  /\ Len(nest) <= MaxNest
                   /\ callBuiltinFunction(nest, NewFrame(Self, kind, Self, in, NoTransfer), in)
  BY DEF asyncCall
<1>2. outcome = "running" /\ made' \in 0 .. MaxTransfers /\ dirty' = dirty
  <2>1. made \in 0 .. MaxTransfers
    BY DEF TokensInv, GoodState
  <2>2. outcome = "running" /\ made < MaxTransfers /\ made' = made + 1 /\ dirty' = dirty
    BY DEF asyncCall, Transfers, NoGhosts
  <2> QED BY <2>1, <2>2, TokensAssumption
<1>3. /\ bal \in BalanceType /\ outTransfers \in TransfersType /\ nest \in Seq(NestedType)
      /\ GoodNest(bal, nest, outTransfers) /\ Top = Last(nest) /\ Settled(Last(nest))
      /\ Self \in Contracts /\ Self \in Accounts /\ Len(nest) \in Nat /\ Len(nest) >= 1
      /\ Len(nest) <= MaxNest + 1
  BY <1>2, TopCall
<1>4. WellFormed(in) /\ Home(in)
  BY <1>3, AsyncInput
<1>5. ~ AsyncNFTAbroad /\ ~ dirty' => Conserved(bal, outTransfers)
  BY <1>2 DEF TokensInv, GoodState
<1>6. CASE DCDTTransferOnCallBack(in)
  <2> DEFINE n == Len(nest)
             f == nest[n]
             g == [f EXCEPT !.finish = <<in>>]
             gs == [nest EXCEPT ![n] = g]
  <2>1. nest' = gs /\ outcome' = "ended" /\ bal' = bal /\ outTransfers' = outTransfers
    BY <1>1, <1>6
  <2>2. f \in NestedType /\ n \in Nat /\ n \in 1 .. n /\ DOMAIN nest = 1 .. n /\ Last(nest) = f
    BY <1>3, LastCall
  <2>3. <<in>> \in Seq(InputType) /\ <<in>>[1] = in
    BY <1>4 DEF WellFormed
  <2>4. /\ g \in NestedType /\ g.finish = <<in>>
        /\ g.self = f.self /\ g.kind = f.kind /\ g.in = f.in /\ g.out = f.out
        /\ g.attached = f.attached /\ g.ran = f.ran /\ g.moved = f.moved
        /\ g.before = f.before /\ g.touched = f.touched /\ g.used = f.used
        /\ g.sent = f.sent
    BY <2>2, <2>3 DEF NestedType
  <2> HIDE DEF g
  <2>5. GoodCall(bal, g)
    <3>1. GoodCall(bal, f)
      BY <1>3, <2>2, LastCall
    <3>2. WellFormed(g.finish[1]) /\ Home(g.finish[1])
      BY <1>4, <2>3, <2>4
    <3> HIDE DEF f
    <3> QED BY <2>4, <3>1, <3>2 DEF GoodCall
  <2> HIDE DEF n
  <2>6. gs \in Seq(NestedType) /\ Len(gs) = n /\ gs[n] = g
        /\ \A i \in 1 .. n : i # n => gs[i] = nest[i]
    BY <1>3, <2>2, <2>4 DEF n
  <2> HIDE DEF gs
  <2>7. ASSUME NEW i \in 1 .. n
        PROVE  /\ gs[i].kind = "root" <=> i = 1
               /\ GoodCall(bal, gs[i]) /\ (i < n => Settled(gs[i]))
               /\ Extends(gs[i].out, Level(gs, outTransfers, i))
               /\ gs[i].sent = 0 /\ Stays(gs[i]) =>
                    SameCarried(gs[i].out, Level(gs, outTransfers, i))
    <3>1. \A j \in 1 .. n : gs[j].out = nest[j].out
      BY <2>4, <2>6
    <3>2. Level(gs, outTransfers, i) = Level(nest, outTransfers, i)
      <4>1. i # n => i + 1 \in 1 .. n
        BY <2>2
      <4> QED BY <2>6, <3>1, <4>1 DEF Level, n
    <3>3. /\ nest[i].kind = "root" <=> i = 1
          /\ GoodCall(bal, nest[i]) /\ (i < n => Settled(nest[i]))
          /\ Extends(nest[i].out, Level(nest, outTransfers, i))
          /\ nest[i].sent = 0 /\ Stays(nest[i]) =>
               SameCarried(nest[i].out, Level(nest, outTransfers, i))
      BY <1>3 DEF GoodNest, n
    <3>4. CASE i = n
      <4>1. gs[i] = g /\ nest[i] = f
        BY <2>6, <3>4
      <4> HIDE DEF f
      <4>2. gs[i].kind = nest[i].kind /\ gs[i].out = nest[i].out /\ gs[i].sent = nest[i].sent
            /\ (Settled(gs[i]) <=> Settled(nest[i])) /\ (Stays(gs[i]) <=> Stays(nest[i]))
            /\ GoodCall(bal, gs[i])
        BY <2>4, <2>5, <4>1 DEF Settled, Stays
      <4> QED BY <3>2, <3>3, <4>2
    <3>5. CASE i # n
      BY <2>6, <3>2, <3>3, <3>5
    <3> QED BY <3>4, <3>5
  <2>8. GoodNest(bal, gs, outTransfers)
    BY <2>2, <2>6, <2>7 DEF GoodNest
  <2>9. GoodState(bal, outTransfers, gs, "ended", made', dirty')
    BY <1>2, <1>3, <1>5, <2>6, <2>8 DEF GoodState, n
  <2> QED BY <2>1, <2>9 DEF TokensInv
<1>7. CASE ~ DCDTTransferOnCallBack(in)
  <2> DEFINE kind == IF in.recipient \in Local THEN "async" ELSE "cross"
             frame == NewFrame(Self, kind, Self, in, NoTransfer)
  <2>1. Len(nest) <= MaxNest /\ callBuiltinFunction(nest, frame, in)
    BY <1>1, <1>7
  <2>2. kind \in {"async", "cross", "callback"} /\ kind \in CallKinds
        /\ (kind = "async" => in.recipient \in Local)
        /\ NoTransfer \in [function : Kinds \cup {"none"}, value : Nat]
    BY AttachedTyped DEF CallKinds
  <2> HIDE DEF kind
  <2>3. IsNew(frame, Self, kind, in, NoTransfer, outTransfers)
    BY <1>3, <1>4, <2>2, NewFrameFields
  <2> HIDE DEF frame
  <2> QED BY <1>2, <1>3, <1>4, <1>5, <2>1, <2>2, <2>3, BuiltinCall
<1> QED BY <1>6, <1>7

(* Hooks that transfer tokens.                                             *)
LEMMA HookStep ==
  ASSUME TokensInv, transferDCDTNFTExecute \/ doDCDTTransferAndExecuteSynchronously
  PROVE  TokensInv'
<1>1. PICK fn \in Kinds, dest \in Accounts, v \in Amounts, kind \in {"hook", "sync"} :
        LET in == DCDTTransferInput(dest, Self, fn, v)
        IN  \/ TransferDCDT(in)
            \/ TransferOnly(in)
            \/ /\ dest \in Contracts /\ Len(nest) <= MaxNest
               /\ StartExecution(kind, in)
  BY DEF transferDCDTNFTExecute, doDCDTTransferAndExecuteSynchronously, Accounts
<1>2. outcome = "running" /\ made' \in 0 .. MaxTransfers /\ dirty' = dirty
  <2>1. made \in 0 .. MaxTransfers
    BY DEF TokensInv, GoodState
  <2>2. outcome = "running" /\ made < MaxTransfers /\ made' = made + 1 /\ dirty' = dirty
    BY DEF transferDCDTNFTExecute, doDCDTTransferAndExecuteSynchronously, Transfers, NoGhosts
  <2> QED BY <2>1, <2>2, TokensAssumption
<1> DEFINE in == DCDTTransferInput(dest, Self, fn, v)
<1>3. WellFormed(in) /\ Receiver(in) = dest
  <2>1. Self \in Local
    BY TopCall
  <2> QED BY <2>1, TransferInput
<1> HIDE DEF in
<1>4. CASE TransferDCDT(in) \/ TransferOnly(in)
  BY <1>2, <1>3, <1>4, HookTransfer
<1>5. CASE dest \in Contracts /\ Len(nest) <= MaxNest /\ StartExecution(kind, in)
  BY <1>2, <1>3, <1>5, HookCall
<1> QED BY <1>1, <1>4, <1>5 DEF in

(* A call that failed and gave nothing back.                               *)
LEMMA FailedPlain ==
  ASSUME TokensInv, FailCross \/ FailCallback
  PROVE  TokensInv'
<1>1. /\ Top.kind # "root" /\ Failed /\ Dropped /\ made' = made
      /\ outTransfers' = Top.out /\ nest' = Front(nest) /\ bal' = bal
      /\ outcome' \in {"running", "ended", "failed"}
  BY DEF FailCross, FailCallback, Ends, Fails
<1>2. LET fs == Front(nest)
      IN  /\ fs \in Seq(NestedType) /\ Len(fs) <= MaxNest
          /\ GoodNest(bal, fs, Top.out) /\ Settled(Last(fs))
  BY <1>1, PopCall
<1>3. ~ AsyncNFTAbroad /\ ~ dirty' => Conserved(bal, Top.out)
  BY <1>1, FailedOutput
<1>4. bal \in BalanceType /\ Top.out \in TransfersType /\ made' \in 0 .. MaxTransfers
  BY <1>1, TopCall DEF TokensInv, GoodState
<1> QED BY <1>1, <1>2, <1>3, <1>4, DroppedState

(* Every step keeps the invariant.                                         *)
LEMMA StepTokensInv == TokensInv /\ [TokensNext]_tokenVars => TokensInv'
<1> SUFFICES ASSUME TokensInv, [TokensNext]_tokenVars PROVE TokensInv'
  OBVIOUS
<1>1. CASE transferDCDTNFTExecute \/ doDCDTTransferAndExecuteSynchronously
  BY <1>1, HookStep
<1>2. CASE asyncCall
  BY <1>2, AsyncStep
<1>3. CASE Return \/ FailExecution \/ FailLate
  <2>1. /\ \/ outcome = "running" /\ outcome' \in {"ended", "failed"}
           \/ outcome = "ended" /\ outcome' = "late"
        /\ bal' = bal /\ outTransfers' = outTransfers /\ nest' = nest /\ made' = made
        /\ dirty' = dirty
    BY <1>3 DEF Return, FailExecution, FailLate, Fails, NoGhosts
  <2>2. GoodState(bal, outTransfers, nest, outcome', made, dirty)
    BY <2>1 DEF TokensInv, GoodState
  <2> QED BY <2>1, <2>2 DEF TokensInv
<1>4. CASE FinishCall \/ FinishCross \/ FinishCallback
  <2>1. /\ Top.kind # "root" /\ outcome = "ended" /\ made' = made /\ dirty' = dirty
        /\ bal' = bal /\ outTransfers' = PopMergeActiveState(Top.out) /\ nest' = Merged
        /\ outcome' \in {"running", "ended"}
    BY <1>4 DEF FinishCall, FinishCross, FinishCallback, Ends, NoGhosts
  <2> QED BY <2>1, MergedState
<1>5. CASE FailHook \/ FailSync
  BY <1>5, FailedHook
<1>6. CASE FinishAsync
  BY <1>6, FinishedAsync
<1>7. CASE FailAsync
  BY <1>7, FailedAsync
<1>8. CASE FailCross \/ FailCallback
  BY <1>8, FailedPlain
<1>9. CASE EndTransfers
  BY <1>9, EndedTransfers
<1>10. CASE Done \/ UNCHANGED tokenVars
  <2>1. UNCHANGED tokenVars
    BY <1>10 DEF Done
  <2> QED BY <2>1 DEF TokensInv, tokenVars
<1> QED BY <1>1, <1>2, <1>3, <1>4, <1>5, <1>6, <1>7, <1>8, <1>9, <1>10 DEF TokensNext

-----------------------------------------------------------------------------
(* Theorems.                                                               *)

(* The invariant holds in every state of every transaction: what each      *)
(* nested call owns, what its output records and what a revert would give  *)
(* back, with the sum of all tokens.                                       *)
THEOREM TokensInvariant == TokensSpec => []TokensInv
<1>1. TokensInit => TokensInv
  BY InitTokensInv
<1>2. TokensInv /\ [TokensNext]_tokenVars => TokensInv'
  BY StepTokensInv
<1> QED BY <1>1, <1>2, PTL DEF TokensSpec

(* The tokens that a contract sees attached to its call are its own        *)
(* (fillWithDCDTValue, TransferDCDT), for any accounts, amounts and depth. *)
THEOREM AttachedTokensOwned == TokensSpec => []AttachedTokensAreOwned
<1>1. TokensInv => AttachedTokensAreOwned
  <2> SUFFICES ASSUME TokensInv, NEW i \in DOMAIN nest, nest[i].attached # NoTransfer
               PROVE  /\ nest[i].moved /\ nest[i].self = Receiver(nest[i].in)
                      /\ nest[i].attached = [function |-> nest[i].in.function,
                                             value |-> Amount(nest[i].in)]
                      /\ i = Len(nest) /\ outcome = "running" /\ ~ nest[i].used =>
                           bal[nest[i].attached.function][nest[i].self]
                             >= nest[i].attached.value
    BY DEF AttachedTokensAreOwned
  <2>1. i \in 1 .. Len(nest) /\ GoodNest(bal, nest, outTransfers)
    BY TopCall
  <2>2. GoodCall(bal, nest[i])
    BY <2>1 DEF GoodNest
  <2>3. /\ nest[i].moved /\ nest[i].self = Receiver(nest[i].in)
        /\ nest[i].attached = [function |-> nest[i].in.function, value |-> Amount(nest[i].in)]
        /\ ~ nest[i].used => bal[nest[i].in.function][nest[i].self] >= Amount(nest[i].in)
    BY <2>2 DEF GoodCall
  <2>4. nest[i].attached.function = nest[i].in.function
        /\ nest[i].attached.value = Amount(nest[i].in)
    BY <2>3
  <2> QED BY <2>3, <2>4
<1> QED BY <1>1, TokensInvariant, PTL

(* The type invariant.                                                     *)
LEMMA TokensTypes == TokensInv => TokensTypeOK
<1> SUFFICES ASSUME TokensInv PROVE TokensTypeOK
  OBVIOUS
<1>1. ASSUME NEW a \in Accounts, NEW i \in DOMAIN outTransfers[a]
      PROVE  outTransfers[a][i].function \in Kinds /\ outTransfers[a][i].value \in Amounts
  <2>1. outTransfers[a] \in Seq(TransferType)
    BY TopCall DEF TransfersType
  <2>2. outTransfers[a][i] \in TransferType
    BY <2>1
  <2> QED BY <2>2 DEF TransferType
<1>2. Len(nest) \in 1 .. MaxNest + 1
  BY TopCall, TokensAssumption
<1> QED BY <1>1, <1>2, TopCall DEF TokensTypeOK, TokensInv, GoodState, BalanceType

(* No token is made or lost (TransferDCDT, callBuiltinFunction,            *)
(* mergeOutputAccounts), when contracts send no token with a nonce abroad  *)
(* by asyncCall, which is recorded twice.                                  *)
THEOREM TokensAreConserved == ~ AsyncNFTAbroad => (TokensSpec => []TokensConserved)
<1> SUFFICES ASSUME ~ AsyncNFTAbroad PROVE TokensSpec => []TokensConserved
  OBVIOUS
<1>1. TokensInv => TokensConserved
  <2> SUFFICES ASSUME TokensInv PROVE TokensConserved
    OBVIOUS
  <2>1. outcome # "failed" /\ ~ dirty => Conserved(bal, outTransfers)
    BY DEF TokensInv, GoodState
  <2> QED BY <2>1, TokensTypes DEF TokensConserved, Conserved
<1> QED BY <1>1, TokensInvariant, PTL

(* A revert gives the sender of the tokens what it had before.             *)
LEMMA GivenBack ==
  ASSUME TokensInv, Top.kind # "root", Top.moved, ~ Top.touched,
         NEW back, WellFormed(back), Accepts(back), back.function = Top.in.function,
         back.caller = Receiver(Top.in), Receiver(back) = Top.in.caller,
         Amount(back) = Amount(Top.in)
  PROVE  Moved(back)[Top.in.function][Top.in.caller] = Top.before
<1> DEFINE c == Top.in.caller
           k == Top.in.function
           m == Amount(Top.in)
           s == Spent(Top.in)
<1>1. WellFormed(Top.in) /\ bal[k][c] = Top.before - s
  BY TopCall DEF GoodCall
<1>2. k \in Kinds /\ c \in Local /\ m \in Nat
  BY <1>1, InputTyped
<1>3. bal \in BalanceType /\ Top.before \in Nat
  BY TopCall DEF NestedType
<1>4. bal[k][c] \in Nat
  BY <1>2, <1>3 DEF BalanceType
<1>5. Moved(back)[k][c] = bal[k][c] - (IF c = Receiver(Top.in) THEN m ELSE 0) + m
  BY <1>2, <1>3, MovedAt
<1>6. s = IF c = Receiver(Top.in) THEN 0 ELSE m
  BY DEF Spent
<1> HIDE DEF c, k, m, s
<1>7. Moved(back)[k][c] = Top.before
  BY <1>1, <1>2, <1>3, <1>4, <1>5, <1>6
<1> QED BY <1>7 DEF c, k

(* Whoever goes on after a call that it paid for has failed has its tokens *)
(* back (transferDCDTNFTExecute, ExecuteDCDTTransfer, RevertDCDTTransfer), *)
(* except after asyncCall when the node refused the revert, or when the    *)
(* call failed late, where execute reverts nothing and the caller goes on  *)
(* without exactly what it sent (isSCExecutionAfterBuiltInFunc,            *)
(* processAsyncInfo, GetVMOutput).  For any accounts, amounts and depth.   *)
THEOREM FailedTransfersReturned == TokensSpec => FailedTransfersAreReturned
<1> DEFINE Late == Top.kind = "async" /\ outcome = "late"
           Returns ==
             (/\ Failed /\ Top.kind \in {"hook", "sync", "async"}
              /\ Top.moved /\ ~ Top.touched /\ outcome' # "failed" /\ ~ refused')
             => bal'[Top.in.function][Top.in.caller] =
                  Top.before - (IF Late THEN Spent(Top.in) ELSE 0)
<1>1. TokensInv /\ [TokensNext]_tokenVars => [Returns]_tokenVars
  <2> SUFFICES ASSUME TokensInv, TokensNext, Failed,
                      Top.kind \in {"hook", "sync", "async"},
                      Top.moved, ~ Top.touched, outcome' # "failed", ~ refused'
               PROVE  bal'[Top.in.function][Top.in.caller] =
                        Top.before - (IF Late THEN Spent(Top.in) ELSE 0)
    OBVIOUS
  <2>1. FailHook \/ FailAsync
    BY DEF TokensNext, transferDCDTNFTExecute, doDCDTTransferAndExecuteSynchronously,
           asyncCall, Transfers, Return, FailExecution, FailLate, FinishCall, FailSync,
           FinishAsync, FinishCross, FailCross, FinishCallback, FailCallback, EndTransfers,
           Done, Ends, Fails, Failed
  <2>2. Top.before \in Nat
    BY TopCall DEF NestedType
  <2>3. CASE FailHook
    <3> DEFINE back == DCDTTransferInput(Top.in.caller, Top.self, Top.in.function,
                                         Amount(Top.in))
    <3>1. Top.kind = "hook" /\ Accepts(back) /\ bal' = Moved(back)
      BY <2>3 DEF FailHook, Ends, ReturnTokens, Fails
    <3>2. /\ WellFormed(back) /\ back.function = Top.in.function
          /\ back.caller = Receiver(Top.in) /\ Receiver(back) = Top.in.caller
          /\ Amount(back) = Amount(Top.in)
      BY <3>1, BackInput
    <3> HIDE DEF back
    <3>3. bal'[Top.in.function][Top.in.caller] = Top.before
      BY <3>1, <3>2, GivenBack
    <3> QED BY <2>2, <3>1, <3>3
  <2>4. CASE FailAsync /\ outcome = "failed"
    <3> DEFINE back == revertInput(Top.in)
    <3>1. Top.ran
      BY <2>4, TopCall DEF Settled
    <3>2. Top.kind = "async" /\ Accepts(back) /\ bal' = Moved(back)
      BY <2>4, <3>1 DEF FailAsync, Ends
    <3>3. WellFormed(Top.in) /\ Receiver(Top.in) \in Local
      BY <3>1, <3>2, TopCall DEF GoodCall, Self
    <3>4. /\ WellFormed(back) /\ back.function = Top.in.function
          /\ back.caller = Receiver(Top.in) /\ Receiver(back) = Top.in.caller
          /\ Amount(back) = Amount(Top.in)
      BY <3>3, RevertInput
    <3> HIDE DEF back
    <3>5. bal'[Top.in.function][Top.in.caller] = Top.before
      BY <3>2, <3>4, GivenBack
    <3> QED BY <2>2, <2>4, <3>5
  <2>5. CASE FailAsync /\ outcome = "late"
    <3>1. Top.kind = "async" /\ bal' = bal
      BY <2>5 DEF FailAsync, Ends
    <3>2. bal[Top.in.function][Top.in.caller] = Top.before - Spent(Top.in)
      BY TopCall DEF GoodCall
    <3> QED BY <2>5, <3>1, <3>2
  <2> QED BY <2>1, <2>3, <2>4, <2>5 DEF Failed
<1>2. TokensSpec => [][Returns]_tokenVars
  <2> HIDE DEF Returns
  <2> QED BY <1>1, TokensInvariant, PTL DEF TokensSpec
<1> QED BY <1>2 DEF FailedTransfersAreReturned
=============================================================================
