---------------------------- MODULE BigIntHooks ----------------------------
(***************************************************************************)
(* The big integers of a contract (src/vmhost/contexts/bigint.go) and the  *)
(* hooks through which it computes with them, reads and writes them as     *)
(* bytes (vmhooks/bigIntOps.go, vmhooks/smallIntOps.go).                   *)
(*                                                                         *)
(* values maps handles to pointers, as the Go map does; heap holds what    *)
(* the pointers point to.  Every operation changes the big.Int of its      *)
(* destination in place, so whether a pushed state is safe from the callee *)
(* depends on clone().                                                     *)
(*                                                                         *)
(* The contract is arbitrary: it calls any hook with any handle, in any    *)
(* order, nests calls to itself on the same or on a new context, and every *)
(* execution may fail at any hook (an error of MemLoad, MemStore or        *)
(* SetStorage, which WithFault turns into a failed execution, or the end   *)
(* of its gas).  Bytes have Base values and an int64 has IntBytes bytes.   *)
(***************************************************************************)
EXTENDS Integers, Sequences, FiniteSetsExt, SequencesExt

CONSTANTS
  Base,         \* number of values of a byte: 256, an even number
  IntBytes,     \* bytes of an int64: 8
  Handles,      \* handles a contract passes to a hook
  Smalls,       \* int64 values a contract passes to a hook
  Strings,      \* byte strings found in memory, in arguments or at the node
  Shifts,       \* numbers of bits to shift by
  StorageKeys,         \* storage keys
  HookSet,      \* hooks that this instance calls
  MaxDepth,     \* bound: nested calls
  MaxMagnitude, \* bound: the largest big integer
  MaxOps        \* bound: hooks and calls of a transaction

ASSUME BaseAssumption == Base \in Nat /\ Base > 0 /\ Base % 2 = 0
ASSUME IntBytesAssumption == IntBytes \in Nat \ {0}

VARIABLES
  values,    \* bigIntContext.values: handle -> pointer
  heap,      \* pointer -> integer
  stack,     \* stateStack of the big integers and of the output, with ghosts
  storage,   \* key -> bytes, the storage of the contract
  returned,  \* output.ReturnData
  status,    \* "running", "failed" or "ended"
  ops,       \* hooks and calls made so far
  expect,    \* ghost: handle -> integer, what the contract computed
  meant      \* ghost: what the contract stored and finished

numberVars == <<values, heap, stack, storage, returned, status, ops, expect, meant>>

-----------------------------------------------------------------------------
(* math/big and twos-complement, as the hooks use them.                    *)

Magnitude(n) == IF n < 0 THEN -n ELSE n
Sign(n) == IF n < 0 THEN -1 ELSE IF n = 0 THEN 0 ELSE 1

\* Int.SetBytes: the big-endian number without sign.
SetBytes(bytes) == FoldLeft(LAMBDA n, b : Base * n + b, 0, bytes)

\* Number of bytes of the magnitude; 0 has none.
ByteLength(n) ==
  CHOOSE k \in 0 .. n : n < Base ^ k /\ (k > 0 => Base ^ (k - 1) <= n)

Digits(n, k) == [i \in 1 .. k |-> (n \div Base ^ (k - i)) % Base]

\* Int.Bytes: the magnitude, the sign is lost.
Bytes(n) == Digits(Magnitude(n), ByteLength(Magnitude(n)))

\* twos.ToBytes: the shortest two's complement; 0 has no byte.
SignedLength(n) ==
  IF n = 0 THEN 0
  ELSE CHOOSE k \in 1 .. Magnitude(n) + 1 :
         /\ -(Base ^ k) <= 2 * n /\ 2 * n < Base ^ k
         /\ \A j \in 1 .. k - 1 : 2 * n < -(Base ^ j) \/ 2 * n >= Base ^ j

(* Mutant: the first byte keeps its sign.                                  *)
TwosToBytesSigned(n) ==
  LET k == SignedLength(n)
  IN  [i \in 1 .. k |-> IF i = 1 THEN n \div Base ^ (k - 1)
                        ELSE (n \div Base ^ (k - i)) % Base]

TwosToBytes(n) ==
  LET k == SignedLength(n) IN Digits((n + Base ^ k) % Base ^ k, k)

\* twos.SetBytes: the number with the sign of its first bit.
TwosSetBytes(bytes) ==
  LET n == SetBytes(bytes)
      m == Base ^ Len(bytes)
  IN  IF bytes # <<>> /\ 2 * n >= m THEN n - m ELSE n

\* Quo and Rem truncate; Div and Mod are Euclidean.
Quo(a, b) == Sign(a) * Sign(b) * (Magnitude(a) \div Magnitude(b))
Rem(a, b) == Sign(a) * (Magnitude(a) % Magnitude(b))
Mod(a, b) == a % Magnitude(b)
Div(a, b) == Sign(b) * ((a - Mod(a, b)) \div Magnitude(b))

\* And, Or and Xor of two numbers that are not negative.
Bit(n, i) == (n \div 2 ^ i) % 2
Bits(a, b, P(_, _)) ==
  LET n == CHOOSE k \in 0 .. a + b : a < 2 ^ k /\ b < 2 ^ k
  IN  MapThenSumSet(LAMBDA i : IF P(Bit(a, i), Bit(b, i)) THEN 2 ^ i ELSE 0,
                    0 .. n)
And(a, b) == Bits(a, b, LAMBDA i, j : i = 1 /\ j = 1)
Or(a, b) == Bits(a, b, LAMBDA i, j : i = 1 \/ j = 1)
Xor(a, b) == Bits(a, b, LAMBDA i, j : i # j)

Uint64 == Base ^ IntBytes
IsUint64(n) == n \in 0 .. Uint64 - 1
IsInt64(n) == -Uint64 <= 2 * n /\ 2 * n < Uint64
\* The conversion uint64(value) of a negative int64.
AsUint64(n) == n % Uint64

-----------------------------------------------------------------------------
(* The context of big integers.                                            *)

\* Cells that nothing points to are forgotten.
Reachable(vs, st) ==
  Range(vs) \cup UNION {Range(st[i].values) : i \in DOMAIN st}

Collected(h, vs, st) == [p \in Reachable(vs, st) |-> h[p]]

FreshCell(used) == CHOOSE p \in 0 .. Cardinality(used) : p \notin used

\* The handles and the heap after GetOne of every handle in hs: a handle
\* without a value gets a new 0.
GetOne(state, h) ==
  IF h \in DOMAIN state.values THEN state
  ELSE LET p == FreshCell(DOMAIN state.heap)
       IN  [values |-> [x \in DOMAIN state.values \cup {h} |->
                          IF x = h THEN p ELSE state.values[x]],
            heap   |-> [x \in DOMAIN state.heap \cup {p} |->
                          IF x = p THEN 0 ELSE state.heap[x]]]

GetTwo(state, h1, h2) == GetOne(GetOne(state, h1), h2)
GetThree(state, h1, h2, h3) == GetOne(GetTwo(state, h1, h2), h3)

Current == [values |-> values, heap |-> heap]

\* The big integer of a handle, 0 when there is none.
Value(h) == IF h \in DOMAIN values THEN heap[values[h]] ELSE 0

\* The big.Int at h changes in place.
SetInPlace(state, h, n) == [state EXCEPT !.heap[state.values[h]] = n]

(* Mutant: the handle is the number of values, in use or not.              *)
NewHandleIsCount == Cardinality(DOMAIN values)

\* Put starts at the number of values and takes the first free handle.
NewHandle ==
  LET n == Cardinality(DOMAIN values)
  IN  CHOOSE h \in n .. 2 * n : /\ h \notin DOMAIN values
                                /\ \A x \in n .. h - 1 : x \in DOMAIN values

\* clone() makes a new big.Int for every handle.
NewCells ==
  CHOOSE f \in [DOMAIN values -> 0 .. 2 * Cardinality(DOMAIN heap)] :
    /\ \A h \in DOMAIN values : f[h] \notin DOMAIN heap
    /\ \A g, h \in DOMAIN values : f[g] = f[h] => g = h

(* Mutant: the pushed map shares its big.Ints with the current one.        *)
cloneShallow == Current

clone ==
  LET cells == NewCells
  IN  [values |-> cells,
       heap   |-> [p \in DOMAIN heap \cup Range(cells) |->
                     IF p \in DOMAIN heap THEN heap[p]
                     ELSE heap[values[CHOOSE h \in DOMAIN values : cells[h] = p]]]]

NumbersInit ==
  /\ values = <<>> /\ heap = <<>> /\ stack = <<>>
  /\ storage \in [StorageKeys -> {<<>>}] /\ returned = <<>>
  /\ status = "running" /\ ops = 0
  /\ expect = <<>>
  /\ meant = [stored |-> [k \in StorageKeys |-> [signed |-> FALSE, value |-> 0]],
              finished |-> <<>>]

-----------------------------------------------------------------------------
(* The hooks.                                                              *)

Running(hook) ==
  status = "running" /\ ops < MaxOps /\ hook \in HookSet /\ ops' = ops + 1

Keeps(v) == UNCHANGED <<stack, status, v>>

\* A hook that touches the handles of state and then sets h to n.
Assign(state, h, n) ==
  LET new == SetInPlace(state, h, n)
  IN  /\ Magnitude(n) <= MaxMagnitude
      /\ values' = new.values /\ heap' = Collected(new.heap, new.values, stack)
      /\ expect' = [x \in DOMAIN new.values |->
                      IF x = h THEN n
                      ELSE IF x \in DOMAIN expect THEN expect[x] ELSE 0]
      /\ Keeps(<<storage, returned, meant>>)

\* A hook that only reads: it still creates the handles that it misses.
Touch(state) ==
  /\ values' = state.values /\ heap' = Collected(state.heap, state.values, stack)
  /\ expect' = [x \in DOMAIN state.values |->
                  IF x \in DOMAIN expect THEN expect[x] ELSE 0]

ReadOnly(state) == Touch(state) /\ Keeps(<<storage, returned, meant>>)

\* WithFault: the execution fails and keeps what the hook did before.
Fault(state) ==
  /\ Touch(state) /\ status' = "failed"
  /\ UNCHANGED <<stack, storage, returned, meant>>

bigIntNew ==
  /\ Running("new")
  /\ \E v \in Smalls : Assign(GetOne(Current, NewHandle), NewHandle, v)

bigIntSetInt64 ==
  /\ Running("setInt64")
  /\ \E h \in Handles, v \in Smalls : Assign(GetOne(Current, h), h, v)

\* An index that is too large leaves the destination alone; a negative one
\* makes Go panic, which ends the transaction (doRunSmartContractCall).
bigIntGetArgument ==
  /\ Running("argument")
  /\ \/ ReadOnly(Current)
     \/ /\ status' = "ended"
        /\ UNCHANGED <<values, heap, stack, storage, returned, expect, meant>>
     \/ \E h \in Handles, arg \in Strings :
          \/ Assign(GetOne(Current, h), h, SetBytes(arg))
          \/ Assign(GetOne(Current, h), h, TwosSetBytes(arg))

\* The call value, a balance or the value of a token, read from the node;
\* no data of a token leaves the result alone.
bigIntGetAmount ==
  /\ Running("amount")
  /\ \/ \E h \in Handles, amount \in Strings :
          Assign(GetOne(Current, h), h, SetBytes(amount))
     \/ ReadOnly(Current)
     \/ Fault(Current)

bigIntSetBytes ==
  /\ Running("setBytes")
  /\ \/ \E h \in Handles, bytes \in Strings :
          \/ Assign(GetOne(Current, h), h, SetBytes(bytes))
          \/ Assign(GetOne(Current, h), h, TwosSetBytes(bytes))
     \/ Fault(Current)

\* Lengths, bytes written to memory, IsInt64, GetInt64, Sign and Cmp.
bigIntRead ==
  /\ Running("read")
  /\ \E h \in Handles : \/ ReadOnly(GetOne(Current, h))
                        \/ \E g \in Handles : ReadOnly(GetTwo(Current, h, g))
                        \/ Fault(GetOne(Current, h))

bigIntArithmetic ==
  /\ Running("arithmetic")
  /\ \E d, x, y \in Handles :
       LET state == GetThree(Current, d, x, y)
           a == Value(x)
           b == Value(y)
       IN  \E n \in {a + b, a - b, a * b} : Assign(state, d, n)

bigIntDivide ==
  /\ Running("divide")
  /\ \E d, x, y \in Handles :
       LET state == GetThree(Current, d, x, y)
           a == Value(x)
           b == Value(y)
       IN  \/ b = 0 /\ Fault(state)
           \/ b # 0 /\ \E n \in {Quo(a, b), Rem(a, b), Div(a, b), Mod(a, b)} :
                         Assign(state, d, n)

bigIntUnary ==
  /\ Running("unary")
  /\ \E d, x \in Handles :
       \E n \in {Magnitude(Value(x)), -Value(x)} : Assign(GetTwo(Current, d, x), d, n)

bigIntNot ==
  /\ Running("not")
  /\ \E d, x \in Handles :
       \/ Value(x) < 0 /\ Fault(GetTwo(Current, d, x))
       \/ Value(x) >= 0 /\ Assign(GetTwo(Current, d, x), d, -Value(x) - 1)

bigIntBitwise ==
  /\ Running("bitwise")
  /\ \E d, x, y \in Handles :
       LET state == GetThree(Current, d, x, y)
           a == Value(x)
           b == Value(y)
       IN  \/ (a < 0 \/ b < 0) /\ Fault(state)
           \/ /\ a >= 0 /\ b >= 0
              /\ \E n \in {And(a, b), Or(a, b), Xor(a, b)} : Assign(state, d, n)

bigIntShift ==
  /\ Running("shift")
  /\ \E d, x \in Handles, bits \in Shifts :
       LET state == GetTwo(Current, d, x)
           a == Value(x)
       IN  \/ (a < 0 \/ bits < 0) /\ Fault(state)
           \/ /\ a >= 0 /\ bits >= 0
              /\ \E n \in {a \div 2 ^ bits, a * 2 ^ bits} : Assign(state, d, n)

-----------------------------------------------------------------------------
(* Numbers that leave the contract.                                        *)

Store(key, bytes, signed, n) ==
  /\ storage' = [storage EXCEPT ![key] = bytes]
  /\ meant' = [meant EXCEPT !.stored[key] = [signed |-> signed, value |-> n]]
  /\ Keeps(returned)

Finish(bytes, signed, n) ==
  /\ returned' = Append(returned, bytes)
  /\ meant' = [meant EXCEPT !.finished = Append(@, [signed |-> signed, value |-> n])]
  /\ Keeps(storage)

bigIntStorageStoreUnsigned ==
  /\ Running("bigStore")
  /\ \/ \E k \in StorageKeys, h \in Handles :
          /\ Touch(GetOne(Current, h))
          /\ Store(k, Bytes(Value(h)), FALSE, Magnitude(Value(h)))
     \/ \E h \in Handles : Fault(GetOne(Current, h))
     \/ Fault(Current)

bigIntStorageLoadUnsigned ==
  /\ Running("bigLoad")
  /\ \E k \in StorageKeys, h \in Handles :
       Assign(GetOne(Current, h), h, SetBytes(storage[k]))

bigIntFinishUnsigned ==
  /\ Running("bigFinish")
  /\ \E h \in Handles : /\ Touch(GetOne(Current, h))
                        /\ Finish(Bytes(Value(h)), FALSE, Magnitude(Value(h)))

bigIntFinishSigned ==
  /\ Running("bigFinish")
  /\ \E h \in Handles : /\ Touch(GetOne(Current, h))
                        /\ Finish(TwosToBytes(Value(h)), TRUE, Value(h))

\* int64finish and int64getArgument are the signed hooks, int64storageStore
\* and int64storageLoad the unsigned ones.
smallIntFinishUnsigned ==
  /\ Running("smallFinish")
  /\ \E v \in Smalls : /\ Touch(Current)
                       /\ Finish(Bytes(AsUint64(v)), FALSE, AsUint64(v))

(* Mutant: a signed number finished as its magnitude.                      *)
smallIntFinishMagnitude ==
  /\ Running("smallFinish")
  /\ \E v \in Smalls : Touch(Current) /\ Finish(Bytes(v), TRUE, v)

smallIntFinishSigned ==
  /\ Running("smallFinish")
  /\ \E v \in Smalls : Touch(Current) /\ Finish(TwosToBytes(v), TRUE, v)

smallIntStorageStoreUnsigned ==
  /\ Running("smallStore")
  /\ \/ \E k \in StorageKeys, v \in Smalls :
          Touch(Current) /\ Store(k, Bytes(AsUint64(v)), FALSE, AsUint64(v))
     \/ Fault(Current)

smallIntStorageStoreSigned ==
  /\ Running("smallStore")
  /\ \/ \E k \in StorageKeys, v \in Smalls :
          Touch(Current) /\ Store(k, TwosToBytes(v), TRUE, v)
     \/ Fault(Current)

\* A stored value or an argument that does not fit an int64 (a uint64) is a
\* fault; the number goes to the contract's own variables.
Fits(bytes, signed) ==
  IF signed THEN IsInt64(TwosSetBytes(bytes)) ELSE IsUint64(SetBytes(bytes))

smallIntStorageLoad ==
  /\ Running("smallLoad")
  /\ \/ \E k \in StorageKeys, signed \in BOOLEAN :
          \/ Fits(storage[k], signed) /\ ReadOnly(Current)
          \/ ~ Fits(storage[k], signed) /\ Fault(Current)
     \/ Fault(Current)

smallIntGetArgument ==
  /\ Running("smallArgument")
  /\ \/ \E arg \in Strings, signed \in BOOLEAN :
          \/ Fits(arg, signed) /\ ReadOnly(Current)
          \/ ~ Fits(arg, signed) /\ Fault(Current)
     \/ Fault(Current)

-----------------------------------------------------------------------------
(* Nested calls (src/vmhost/hostCore/execution.go).  A call on a new context *)
(* starts without big integers, one on the same context shares them.       *)

PushState(kind) ==
  LET copy == clone
      frame == [kind |-> kind, values |-> copy.values, storage |-> storage,
                returned |-> returned, expect |-> expect, meant |-> meant]
  IN  /\ status = "running" /\ ops < MaxOps /\ ops' = ops + 1
      /\ kind \in HookSet /\ Len(stack) < MaxDepth
      /\ stack' = Append(stack, frame)
      /\ values' = IF kind = "dest" THEN <<>> ELSE values
      /\ heap' = Collected(copy.heap, values', stack')
      /\ expect' = IF kind = "dest" THEN <<>> ELSE expect
      /\ UNCHANGED <<storage, returned, status, meant>>

ExecuteOnDestContext == PushState("dest")
ExecuteOnSameContext == PushState("same")

PopSetActiveState ==
  /\ values' = Last(stack).values
  /\ stack' = Front(stack)
  /\ heap' = Collected(heap, values', stack')

PopDiscard ==
  /\ stack' = Front(stack)
  /\ heap' = Collected(heap, values, stack')
  /\ UNCHANGED values

\* A successful call: its storage and results are merged into the caller's.
ReturnFromCall ==
  /\ status = "running" /\ stack # <<>>
  /\ \/ /\ Last(stack).kind = "dest"
        /\ PopSetActiveState /\ expect' = Last(stack).expect
     \/ /\ Last(stack).kind = "same"
        /\ PopDiscard /\ UNCHANGED expect
  /\ UNCHANGED <<storage, returned, status, ops, meant>>

\* A failed call: everything is as it was before the call.
FailCall ==
  /\ status = "failed" /\ stack # <<>>
  /\ PopSetActiveState
  /\ storage' = Last(stack).storage /\ returned' = Last(stack).returned
  /\ expect' = Last(stack).expect /\ meant' = Last(stack).meant
  /\ status' = "running"
  /\ UNCHANGED ops

\* signalError or the end of the gas, at any point of the contract.
FailExecution ==
  /\ status = "running" /\ status' = "failed"
  /\ UNCHANGED <<values, heap, stack, storage, returned, ops, expect, meant>>

EndTransaction ==
  /\ status \in {"running", "failed"} /\ stack = <<>>
  /\ status' = "ended"
  /\ UNCHANGED <<values, heap, stack, storage, returned, ops, expect, meant>>

NumbersEnded == status = "ended" /\ UNCHANGED numberVars

BigIntHook ==
  \/ bigIntNew \/ bigIntSetInt64 \/ bigIntGetArgument \/ bigIntGetAmount
  \/ bigIntSetBytes \/ bigIntRead \/ bigIntArithmetic \/ bigIntDivide
  \/ bigIntUnary \/ bigIntNot \/ bigIntBitwise \/ bigIntShift
  \/ bigIntStorageStoreUnsigned \/ bigIntStorageLoadUnsigned
  \/ bigIntFinishUnsigned \/ bigIntFinishSigned

SmallIntHook ==
  \/ smallIntFinishUnsigned \/ smallIntFinishSigned
  \/ smallIntStorageStoreUnsigned \/ smallIntStorageStoreSigned
  \/ smallIntStorageLoad \/ smallIntGetArgument

NumbersNext ==
  \/ BigIntHook \/ SmallIntHook
  \/ ExecuteOnDestContext \/ ExecuteOnSameContext
  \/ ReturnFromCall \/ FailCall \/ FailExecution
  \/ EndTransaction \/ NumbersEnded

NumbersSpec == NumbersInit /\ [][NumbersNext]_numberVars

-----------------------------------------------------------------------------
(* Every handle has a cell, every cell an integer and no cell is garbage.  *)
NumbersTypeOK ==
  /\ DOMAIN heap = Reachable(values, stack)
  /\ \A p \in DOMAIN heap : heap[p] \in Int
  /\ \A k \in StorageKeys : storage[k] \in Seq(0 .. Base - 1)
  /\ status \in {"running", "failed", "ended"} /\ ops \in 0 .. MaxOps

(* The big integers are what the contract computed: operands may be the    *)
(* destination, a call on a new context leaves those of the caller alone,  *)
(* and one on the same context changes them only when it succeeds (GetOne, *)
(* PushState, clone, PopSetActiveState and PopDiscard of bigint.go).       *)
ValuesAreComputed ==
  /\ DOMAIN values = DOMAIN expect
  /\ \A h \in DOMAIN values : heap[values[h]] = expect[h]

Decodes(bytes, what) ==
  what.value = IF what.signed THEN TwosSetBytes(bytes) ELSE SetBytes(bytes)

(* A number stored or finished by a signed hook is decoded by the signed   *)
(* ones to the number that it was, one written by an unsigned hook by the  *)
(* unsigned ones, whatever calls failed in between (Bytes and              *)
(* twos.ToBytes, SetBytes and twos.SetBytes).                              *)
NumbersAreExact ==
  /\ NumbersTypeOK
  /\ \A k \in StorageKeys : Decodes(storage[k], meant.stored[k])
  /\ Len(returned) = Len(meant.finished)
  /\ \A i \in DOMAIN returned : Decodes(returned[i], meant.finished[i])

(* Creating a value leaves every other one alone: the handle that bigIntNew *)
(* returns was in use by none, also when the contract has made handles of  *)
(* its own choice (Put of bigint.go).                                      *)
NewHandleIsFresh ==
  [][bigIntNew => \A h \in DOMAIN values : heap'[values'[h]] = heap[values[h]]]_numberVars
=============================================================================
