--------------------------- MODULE MeteringProofs ---------------------------
(***************************************************************************)
(* Proofs about Metering, for any contracts, costs, limits, workloads and  *)
(* depth of calls: gas is never negative, no call hands out gas that its   *)
(* caller keeps, and gas locked for a callback starts it.                  *)
(***************************************************************************)
EXTENDS Metering, SumProofs

(* The gas of a transaction, with the gas that was locked for its callback,*)
(* fits the points counter of an instance.                                 *)
GasFitsThePoints ==
  \A w \in Workloads : \A g, l \in w.provided : g + l <= MaxInt64

-----------------------------------------------------------------------------
(* The invariant.                                                          *)

HostType ==
  [frames : Seq(FrameType), output : OutputType,
   gasStates : [Contracts -> [forwarded : Nat, returned : Nat]],
   totalUsedGas : Nat, burnt : Nat]

(* Gas of a frame: what it was provided with pays its initial cost and its *)
(* execution and fits the counter, and what it locked is what its callback *)
(* needs.                                                                  *)
FrameInv(f) ==
  /\ f.initialCost + f.gasForExecution = f.provided
  /\ f.provided <= MaxInt64 /\ f.points <= MaxInt64
  /\ f.gasLocked # 0 =>
       /\ f.address \in HasCallback
       /\ f.gasLocked = CodeCost[f.address] + AsyncCallStep + AsyncCallbackGasLock

(* What a caller locked and what it gave to the destination were its own.  *)
Linked(caller, f) == f.kind = "async" => f.provided + caller.gasLocked <= MaxInt64

FramesInv(fs) ==
  /\ fs # <<>> => fs[1].kind = "root"
  /\ \A i \in 1 .. Len(fs) : FrameInv(fs[i])
  /\ \A i \in 2 .. Len(fs) : Linked(fs[i - 1], fs[i])

(* Calls that are paid in full, and the states that failures bring back:   *)
(* what they sent to other shards was sent by now.                         *)
PaidKinds == {"root", "dest", "transferExecute", "same"}
PushedInv(fs, out) ==
  /\ \A i \in 1 .. Len(fs) : fs[i].kind \in PaidKinds /\ fs[i].pushed.sent <= out.sent
  /\ \A i, j \in 1 .. Len(fs) : i < j => fs[i].pushed.sent <= fs[j].pushed.sent

(* Gas that was burnt, may still be used, or has left the shard.           *)
Claimed(h) == h.burnt + Usable(h.frames) + h.output.sent
PaidInv(h, gas) == PushedInv(h.frames, h.output) /\ Claimed(h) <= gas

(* The root frame is that of the transaction, and the previous total is    *)
(* kept only while a call on a context of its own is on the stack.         *)
Booked(h, t) ==
  /\ h.frames[1].provided = t.provided /\ h.frames[1].address = t.contract
  /\ \A i \in 2 .. Len(h.frames) : h.frames[i].kind # "root"
  /\ (\A i \in 2 .. Len(h.frames) : h.frames[i].kind = "same") => h.totalUsedGas = 0

PaidLoad(load) == load.hostCalls \cap UnpaidCalls = {}

StateType ==
  /\ phase \in {"idle", "running", "done"}
  /\ tx \in [load : Workloads, provided : Nat, contract : Contracts \cup {"none"},
             callType : {"none", "direct", "deploy", "async", "callback"}]
  /\ host \in HostType
  /\ result \in [code : {"none", "failed", "Ok"}, remaining : Nat]
  /\ (phase = "running") <=> (host.frames # <<>>)
  /\ ops \in 0 .. tx.load.maxOps

MeterInv ==
  /\ StateType
  /\ FramesInv(host.frames)
  /\ phase = "idle" => host = NewHost
  /\ phase = "running" /\ PaidLoad(tx.load) => PaidInv(host, tx.provided)
  /\ phase = "running" => Booked(host, tx)
  /\ phase # "done" => result = NoResult
  /\ OutputGasIsPaid /\ ReportedGasIsProvided

-----------------------------------------------------------------------------
(* Arithmetic of gas.                                                      *)

(* The bounds are natural numbers.                                         *)
LEMMA Bounds == MaxInt64 \in Nat /\ MaxUint64 \in Nat /\ MaxInt64 < MaxUint64
  BY MeteringAssumption

(* Gas stays a natural number.                                             *)
LEMMA GasArithmetic ==
  ASSUME NEW a \in Nat, NEW b \in Nat
  PROVE  /\ AddUint64(a, b) \in Nat
         /\ SubUint64(a, b)[1] \in Nat /\ SubUint64(a, b)[2] \in Nat
         /\ SubUint64(a, b)[1] <= a
         /\ a >= b => SubUint64(a, b)[1] = a - b
         /\ a <= b => SubUint64(a, b)[1] = 0
         /\ Smaller(a, b) \in Nat /\ Smaller(a, b) <= a /\ Smaller(a, b) <= b
         /\ Smaller(b, a) + SubUint64(a, b)[1] = a
  BY Bounds DEF AddUint64, SubUint64, Smaller

(* What a frame has left is at most what it was given.                     *)
LEMMA GasLeftType ==
  ASSUME NEW f \in FrameType
  PROVE  /\ FrameGasLeft(f) \in Nat /\ FrameGasLeft(f) <= f.gasForExecution
         /\ UsableGas(f) \in Nat /\ UsableGas(f) <= FrameGasLeft(f)
<1>1. f.gasForExecution \in Nat /\ f.points \in Nat
  BY DEF FrameType
<1>2. FrameGasLeft(f) \in Nat /\ FrameGasLeft(f) <= f.gasForExecution
  BY <1>1, GasArithmetic DEF FrameGasLeft
<1> QED BY <1>2 DEF UsableGas

(* The total of the GasUsed records and of the transfers is gas.           *)
LEMMA TotalType ==
  ASSUME NEW out \in OutputType
  PROVE  CurrentTotalUsedGas(out) \in Nat
<1>1. IsFiniteSet(Contracts) /\ out.gasUsed \in [Contracts -> Nat] /\ out.sent \in Nat
  BY MeteringAssumption DEF OutputType
<1>2. SumFunction(out.gasUsed) \in Nat
  BY <1>1, SumIsNat
<1> QED BY <1>1, <1>2, GasArithmetic DEF CurrentTotalUsedGas

-----------------------------------------------------------------------------
(* The running frame.                                                      *)

HostOK(h) == h \in HostType /\ h.frames # <<>> /\ FramesInv(h.frames)

(* The last frame is a frame.                                              *)
LEMMA RunningType ==
  ASSUME NEW h, HostOK(h)
  PROVE  /\ Len(h.frames) \in Nat /\ Len(h.frames) >= 1
         /\ Running(h) = h.frames[Len(h.frames)]
         /\ Running(h) \in FrameType /\ FrameInv(Running(h))
         /\ GasLeft(h) \in Nat /\ GasLeft(h) <= MaxInt64
         /\ GasLeft(h) = FrameGasLeft(Running(h))
<1>1. h.frames \in Seq(FrameType) /\ h.frames # <<>>
  BY DEF HostOK, HostType
<1>2. Len(h.frames) \in Nat /\ Len(h.frames) >= 1
  BY <1>1
<1>3. PICK n \in Nat : n = Len(h.frames)
  BY <1>2
<1>4. h.frames[n] \in FrameType
  BY <1>1, <1>2, <1>3
<1>5. FrameInv(h.frames[n])
  BY <1>2, <1>3 DEF HostOK, FramesInv
<1>6. PICK f \in FrameType : f = h.frames[n]
  BY <1>4
<1>7. FrameGasLeft(f) \in Nat /\ FrameGasLeft(f) <= f.gasForExecution
  BY GasLeftType
<1>8. f.gasForExecution <= f.provided /\ f.provided <= MaxInt64
  BY <1>5, <1>6 DEF FrameInv, FrameType
<1>9. f.gasForExecution \in Nat /\ f.provided \in Nat
  BY DEF FrameType
<1>10. FrameGasLeft(f) <= MaxInt64
  BY <1>7, <1>8, <1>9, Bounds
<1> QED BY <1>2, <1>3, <1>5, <1>6, <1>7, <1>10 DEF Running, GasLeft

(* A step that changes only the running frame and keeps what it is.        *)
Adjusts(h, k) ==
  /\ HostOK(k) /\ Len(k.frames) = Len(h.frames)
  /\ \A i \in 1 .. Len(h.frames) - 1 : k.frames[i] = h.frames[i]
  /\ Running(k).kind = Running(h).kind /\ Running(k).address = Running(h).address
  /\ Running(k).provided = Running(h).provided /\ Running(k).pushed = Running(h).pushed

(* Other parts of the contexts.                                            *)
SameBooks(h, k) ==
  k.output = h.output /\ k.gasStates = h.gasStates /\ k.totalUsedGas = h.totalUsedGas

(* Replacing the running frame.                                            *)
LEMMA SetRunningAdjusts ==
  ASSUME NEW h, HostOK(h), NEW f \in FrameType, FrameInv(f),
         f.kind = Running(h).kind, f.address = Running(h).address,
         f.provided = Running(h).provided, f.pushed = Running(h).pushed
  PROVE  LET k == SetRunning(h, f)
         IN  /\ Adjusts(h, k) /\ Running(k) = f
             /\ SameBooks(h, k) /\ k.burnt = h.burnt
<1> DEFINE k == SetRunning(h, f)
<1>1. PICK n \in Nat : n = Len(h.frames) /\ n >= 1 /\ Running(h) = h.frames[n]
  BY RunningType
<1>2. h \in HostType /\ h.frames \in Seq(FrameType)
  BY DEF HostOK, HostType
<1>3. PICK s \in Seq(FrameType) : s = h.frames
  BY <1>2
<1>4. PICK t \in Seq(FrameType) :
        /\ t = [s EXCEPT ![n] = f] /\ Len(t) = n /\ t[n] = f
        /\ \A i \in 1 .. n - 1 : t[i] = s[i]
  <2>1. [s EXCEPT ![n] = f] \in Seq(FrameType)
    BY <1>1, <1>3
  <2>2. Len([s EXCEPT ![n] = f]) = n /\ [s EXCEPT ![n] = f][n] = f
        /\ \A i \in 1 .. n - 1 : [s EXCEPT ![n] = f][i] = s[i]
    BY <1>1, <1>3
  <2> QED BY <2>1, <2>2
<1>5. k = [h EXCEPT !.frames = t]
  BY <1>1, <1>3, <1>4 DEF SetRunning
<1>6. k \in HostType /\ k.frames = t /\ SameBooks(h, k) /\ k.burnt = h.burnt
  BY <1>2, <1>5 DEF HostType, SameBooks
<1>7. Running(k) = f
  BY <1>4, <1>6 DEF Running
<1>8. FramesInv(t)
  <2>1. FramesInv(s)
    BY <1>3 DEF HostOK
  <2>2. t # <<>> => t[1].kind = "root"
    <3>1. s # <<>> /\ s[1].kind = "root"
      BY <1>3, <2>1 DEF HostOK, FramesInv
    <3>2. CASE n = 1
      BY <1>1, <1>3, <1>4, <3>1, <3>2
    <3>3. CASE n > 1
      BY <1>1, <1>4, <3>1, <3>3
    <3>4. n = 1 \/ n > 1
      <4>1. n \in Nat /\ n >= 1
        BY <1>1
      <4> QED BY ONLY <4>1
    <3> QED BY <3>2, <3>3, <3>4
  <2>3. ASSUME NEW i \in 1 .. n PROVE FrameInv(t[i])
    <3>1. CASE i = n
      BY <1>4, <3>1
    <3>2. CASE i < n
      <4>1. FrameInv(s[i])
        BY <1>1, <1>3, <2>1 DEF FramesInv
      <4> QED BY <1>4, <3>2, <4>1
    <3> QED BY <3>1, <3>2
  <2>4. ASSUME NEW i \in 2 .. n PROVE Linked(t[i - 1], t[i])
    <3>1. Linked(s[i - 1], s[i])
      BY <1>1, <1>3, <2>1 DEF FramesInv
    <3>2. t[i - 1] = s[i - 1]
      BY <1>4
    <3>3. t[i].kind = s[i].kind /\ t[i].provided = s[i].provided
      <4>1. CASE i = n
        BY <1>1, <1>3, <1>4, <4>1
      <4>2. CASE i < n
        BY <1>4, <4>2
      <4> QED BY <4>1, <4>2
    <3> QED BY <3>1, <3>2, <3>3 DEF Linked
  <2> QED BY <1>4, <2>2, <2>3, <2>4 DEF FramesInv
<1>9. t # <<>>
  BY <1>1, <1>4
<1>10. HostOK(k)
  BY <1>6, <1>8, <1>9 DEF HostOK
<1>11. Len(k.frames) = Len(h.frames) /\ \A i \in 1 .. Len(h.frames) - 1 : k.frames[i] = h.frames[i]
  BY <1>1, <1>3, <1>4, <1>6
<1> HIDE DEF k
<1>12. Adjusts(h, k)
  BY <1>7, <1>10, <1>11 DEF Adjusts
<1> QED BY <1>6, <1>7, <1>12 DEF k

(* Adjustments add up.                                                     *)
LEMMA AdjustsAddUp ==
  ASSUME NEW h, NEW k, NEW m, Adjusts(h, k), Adjusts(k, m)
  PROVE  Adjusts(h, m)
  BY DEF Adjusts

(* The usable gas of frames, all but the last and the last.                *)
LEMMA UsableSplits ==
  ASSUME NEW n \in Nat, NEW s \in Seq(FrameType), Len(s) = n + 1,
         NEW t \in Seq(FrameType), Len(t) = n, \A i \in 1 .. n : t[i] = s[i]
  PROVE  /\ Usable(t) \in Nat /\ Usable(s) \in Nat
         /\ Usable(s) = Usable(t) + UsableGas(s[n + 1])
<1> DEFINE f == [i \in 1 .. n |-> UsableGas(t[i])]
           g == [i \in 1 .. n + 1 |-> UsableGas(s[i])]
<1>1. DOMAIN t = 1 .. n /\ DOMAIN s = 1 .. n + 1
  OBVIOUS
<1>2. \A i \in 1 .. n : t[i] \in FrameType
  OBVIOUS
<1>3. \A i \in 1 .. n + 1 : s[i] \in FrameType
  OBVIOUS
<1>4. f \in [1 .. n -> Nat] /\ g \in [1 .. n + 1 -> Nat]
  BY <1>2, <1>3, GasLeftType
<1>5. \A i \in 1 .. n : g[i] = f[i]
  OBVIOUS
<1>6. g[n + 1] = UsableGas(s[n + 1])
  OBVIOUS
<1>7. Usable(t) = SumFunction(f) /\ Usable(s) = SumFunction(g)
  BY <1>1 DEF Usable
<1> HIDE DEF f, g
<1>8. SumFunction(f) \in Nat /\ SumFunction(g) \in Nat
  <2>1. IsFiniteSet(1 .. n) /\ IsFiniteSet(1 .. n + 1)
    BY FS_Interval
  <2> QED BY ONLY <1>4, <2>1, SumIsNat
<1>9. f \in [1 .. n -> Int] /\ g \in [1 .. n + 1 -> Int]
  BY <1>4
<1>10. SumFunction(g) = SumFunction(f) + g[n + 1]
  BY ONLY <1>5, <1>9, SumOneMore, n \in Nat
<1> QED BY <1>6, <1>7, <1>8, <1>10

(* All frames but the running one.                                         *)
LEMMA Callers ==
  ASSUME NEW h, HostOK(h)
  PROVE  \E n \in Nat, t \in Seq(FrameType) :
           /\ Len(h.frames) = n + 1 /\ Len(t) = n /\ t = SubSeq(h.frames, 1, n)
           /\ t = Front(h.frames)
           /\ \A i \in 1 .. n : t[i] = h.frames[i]
           /\ Usable(t) \in Nat /\ Usable(h.frames) = Usable(t) + UsableGas(Running(h))
<1>1. PICK s \in Seq(FrameType) : s = h.frames
  BY DEF HostOK, HostType
<1>2. PICK m \in Nat : m = Len(s) /\ m >= 1
  BY <1>1, RunningType
<1>3. PICK n \in Nat : n + 1 = Len(s)
  <2>1. m - 1 \in Nat /\ (m - 1) + 1 = m
    BY <1>2
  <2> QED BY <1>2, <2>1
<1>4. PICK t \in Seq(FrameType) :
        t = SubSeq(s, 1, n) /\ Len(t) = n /\ \A i \in 1 .. n : t[i] = s[i]
  <2>1. \A i \in 1 .. n : s[i] \in FrameType
    BY <1>3
  <2>2. SubSeq(s, 1, n) = [i \in 1 .. n |-> s[i]]
    BY <1>3
  <2>3. SubSeq(s, 1, n) \in Seq(FrameType) /\ Len(SubSeq(s, 1, n)) = n
    BY <1>3, <2>1, <2>2
  <2>4. \A i \in 1 .. n : SubSeq(s, 1, n)[i] = s[i]
    BY <2>2
  <2> QED BY <2>3, <2>4
<1>5. /\ Usable(t) \in Nat /\ Usable(s) = Usable(t) + UsableGas(s[n + 1])
  BY <1>3, <1>4, UsableSplits
<1>6. Running(h) = s[n + 1]
  BY <1>1, <1>3 DEF Running
<1>7. t = Front(s)
  BY <1>3, <1>4 DEF Front
<1> QED BY <1>1, <1>3, <1>4, <1>5, <1>6, <1>7

(* An adjustment changes the usable gas by that of the running frame.      *)
LEMMA AdjustedGas ==
  ASSUME NEW h, NEW k, HostOK(h), Adjusts(h, k)
  PROVE  /\ Usable(h.frames) \in Nat /\ Usable(k.frames) \in Nat
         /\ Usable(k.frames) = Usable(h.frames) - UsableGas(Running(h))
                                                + UsableGas(Running(k))
<1>1. PICK n \in Nat, t \in Seq(FrameType) :
        /\ Len(h.frames) = n + 1 /\ Len(t) = n
        /\ \A i \in 1 .. n : t[i] = h.frames[i]
        /\ Usable(t) \in Nat /\ Usable(h.frames) = Usable(t) + UsableGas(Running(h))
  BY Callers
<1>2. HostOK(k) /\ Len(k.frames) = n + 1 /\ \A i \in 1 .. n : t[i] = k.frames[i]
  BY <1>1 DEF Adjusts
<1>3. PICK s \in Seq(FrameType) : s = k.frames
  BY <1>2 DEF HostOK, HostType
<1>4. Usable(s) = Usable(t) + UsableGas(s[n + 1])
  BY <1>1, <1>2, <1>3, UsableSplits
<1>5. Running(k) = s[n + 1]
  BY <1>2, <1>3 DEF Running
<1>6. UsableGas(Running(h)) \in Nat /\ UsableGas(Running(k)) \in Nat
  BY <1>2, RunningType, GasLeftType
<1>7. PICK x \in Nat, y \in Nat, z \in Nat :
        x = Usable(t) /\ y = UsableGas(Running(h)) /\ z = UsableGas(Running(k))
  BY <1>1, <1>6
<1>8. Usable(h.frames) = x + y /\ Usable(k.frames) = x + z
  BY <1>1, <1>3, <1>4, <1>5, <1>7
<1>9. x + y \in Nat /\ x + z \in Nat /\ x + z = (x + y) - y + z
  OBVIOUS
<1> QED BY ONLY <1>7, <1>8, <1>9

-----------------------------------------------------------------------------
(* Using gas.                                                              *)

(* Only the gas left changes.                                              *)
SameFrame(f, g) ==
  /\ g.kind = f.kind /\ g.address = f.address /\ g.provided = f.provided
  /\ g.pushed = f.pushed /\ g.phase = f.phase /\ g.gasLocked = f.gasLocked
  /\ g.initialCost = f.initialCost /\ g.gasForExecution = f.gasForExecution
  /\ g.gasConsumed = f.gasConsumed /\ g.destinationOk = f.destinationOk

(* Setting the counter.                                                    *)
LEMMA SetPointsUsedAdjusts ==
  ASSUME NEW h, HostOK(h), NEW p \in Nat
  PROVE  LET k == SetPointsUsed(h, p)
         IN  /\ Adjusts(h, k) /\ SameFrame(Running(h), Running(k))
             /\ Running(k).points = Smaller(p, MaxInt64)
             /\ SameBooks(h, k) /\ k.burnt = h.burnt
<1>1. PICK f \in FrameType : f = Running(h) /\ FrameInv(f)
  BY RunningType
<1>2. Smaller(p, MaxInt64) \in Nat /\ Smaller(p, MaxInt64) <= MaxInt64
  BY GasArithmetic, Bounds
<1>3. PICK q \in Nat : q = Smaller(p, MaxInt64)
  BY <1>2
<1>4. PICK g \in FrameType : g = [f EXCEPT !.points = q]
  BY DEF FrameType
<1>5. SameFrame(f, g) /\ g.points = q
  BY <1>4 DEF FrameType, SameFrame
<1>6. FrameInv(g)
  BY <1>1, <1>2, <1>3, <1>5 DEF FrameInv, SameFrame
<1>7. SetPointsUsed(h, p) = SetRunning(h, g)
  BY <1>1, <1>3, <1>4 DEF SetPointsUsed
<1>8. g.kind = f.kind /\ g.address = f.address /\ g.provided = f.provided /\ g.pushed = f.pushed
  BY <1>5 DEF SameFrame
<1>9. LET k == SetRunning(h, g)
      IN  Adjusts(h, k) /\ Running(k) = g /\ SameBooks(h, k) /\ k.burnt = h.burnt
  BY <1>1, <1>6, <1>8, SetRunningAdjusts
<1> QED BY <1>1, <1>3, <1>5, <1>7, <1>9

(* UseGas takes the gas from what is left, down to nothing.                *)
LEMMA UseGasAdjusts ==
  ASSUME NEW h, HostOK(h), NEW gas \in Nat
  PROVE  LET k == UseGas(h, gas)
         IN  /\ Adjusts(h, k) /\ SameFrame(Running(h), Running(k))
             /\ GasLeft(k) = SubUint64(GasLeft(h), gas)[1]
             /\ Running(k).points <= Running(h).points + gas
             /\ SameBooks(h, k) /\ k.burnt = h.burnt
<1>1. PICK f \in FrameType : f = Running(h) /\ FrameInv(f)
  BY RunningType
<1>2. f.points \in Nat /\ f.gasForExecution \in Nat /\ f.provided \in Nat
  BY DEF FrameType
<1>3. AddUint64(f.points, gas) \in Nat
  BY <1>2, GasArithmetic
<1>4. PICK k : k = UseGas(h, gas)
  OBVIOUS
<1>5. k = SetPointsUsed(h, AddUint64(f.points, gas))
  BY <1>1, <1>4 DEF UseGas
<1>6. /\ Adjusts(h, k) /\ SameFrame(Running(h), Running(k))
      /\ Running(k).points = Smaller(AddUint64(f.points, gas), MaxInt64)
      /\ SameBooks(h, k) /\ k.burnt = h.burnt
  BY <1>3, <1>5, SetPointsUsedAdjusts
<1>7. GasLeft(k) = SubUint64(f.gasForExecution, Running(k).points)[1]
  BY <1>1, <1>6 DEF GasLeft, FrameGasLeft, SameFrame
<1>8. GasLeft(h) = SubUint64(f.gasForExecution, f.points)[1]
  BY <1>1 DEF GasLeft, FrameGasLeft
<1>9. PICK g \in Nat, p \in Nat : g = f.gasForExecution /\ p = f.points
  BY <1>2
<1>10. g <= MaxInt64 /\ p <= MaxInt64
  BY <1>1, <1>2, <1>9, Bounds DEF FrameInv, FrameType
<1>11. SubUint64(g, Smaller(AddUint64(p, gas), MaxInt64))[1] = SubUint64(SubUint64(g, p)[1], gas)[1]
  BY ONLY <1>10, Bounds, g \in Nat, p \in Nat, gas \in Nat DEF SubUint64, Smaller, AddUint64
<1>12. Smaller(AddUint64(p, gas), MaxInt64) <= p + gas
  BY ONLY Bounds, p \in Nat, gas \in Nat DEF Smaller, AddUint64
<1> QED BY <1>1, <1>4, <1>6, <1>7, <1>8, <1>9, <1>11, <1>12

(* Changing what is kept besides the frames.                               *)
LEMMA BooksChange ==
  ASSUME NEW h, HostOK(h), NEW k \in HostType, k.frames = h.frames
  PROVE  Adjusts(h, k) /\ Running(k) = Running(h) /\ GasLeft(k) = GasLeft(h)
<1>1. HostOK(k)
  BY DEF HostOK
<1>2. Running(k) = Running(h)
  BY DEF Running
<1> QED BY <1>1, <1>2 DEF Adjusts, GasLeft

(* Burn counts in the history what it takes.                               *)
LEMMA BurnAdjusts ==
  ASSUME NEW h, HostOK(h), NEW gas \in Nat
  PROVE  LET k == Burn(h, gas)
         IN  /\ Adjusts(h, k) /\ SameFrame(Running(h), Running(k))
             /\ GasLeft(k) = SubUint64(GasLeft(h), gas)[1]
             /\ SameBooks(h, k) /\ k.burnt \in Nat
             /\ k.burnt + GasLeft(k) = h.burnt + GasLeft(h)
<1>1. PICK m : m = UseGas(h, gas)
  OBVIOUS
<1>2. /\ Adjusts(h, m) /\ SameFrame(Running(h), Running(m))
      /\ GasLeft(m) = SubUint64(GasLeft(h), gas)[1]
      /\ SameBooks(h, m) /\ m.burnt = h.burnt
  BY <1>1, UseGasAdjusts
<1>3. HostOK(m) /\ m \in HostType /\ m.burnt \in Nat
  BY <1>2 DEF Adjusts, HostOK, HostType
<1>4. PICK l \in Nat : l = GasLeft(h)
  BY RunningType
<1>5. /\ Smaller(gas, l) \in Nat /\ SubUint64(l, gas)[1] \in Nat
      /\ Smaller(gas, l) + SubUint64(l, gas)[1] = l
  BY GasArithmetic
<1>6. PICK x \in Nat, y \in Nat : x = Smaller(gas, l) /\ y = SubUint64(l, gas)[1]
  BY <1>5
<1>7. PICK k \in HostType : k = [m EXCEPT !.burnt = @ + x]
  <2>1. m.burnt + x \in Nat
    BY <1>3
  <2>2. [m EXCEPT !.burnt = m.burnt + x] \in HostType
    BY <1>3, <2>1 DEF HostType
  <2> QED BY <2>2
<1>8. k = Burn(h, gas)
  BY <1>1, <1>4, <1>6, <1>7 DEF Burn
<1>9. k.frames = m.frames /\ SameBooks(m, k) /\ k.burnt = m.burnt + x
  BY <1>3, <1>7 DEF HostType, SameBooks
<1>10. Adjusts(m, k) /\ Running(k) = Running(m) /\ GasLeft(k) = GasLeft(m)
  BY <1>3, <1>9, BooksChange
<1>11. Adjusts(h, k) /\ SameBooks(h, k)
  BY <1>2, <1>9, <1>10, AdjustsAddUp DEF SameBooks
<1>12. k.burnt \in Nat /\ k.burnt + GasLeft(k) = h.burnt + GasLeft(h)
  BY <1>2, <1>3, <1>4, <1>5, <1>6, <1>9, <1>10
<1> QED BY <1>2, <1>4, <1>6, <1>8, <1>10, <1>11, <1>12

(* A frame that has ended or failed.                                       *)
LEMMA PhaseAdjusts ==
  ASSUME NEW h, HostOK(h), NEW p \in {"failed", "ended"}
  PROVE  LET k == SetRunning(h, [Running(h) EXCEPT !.phase = p])
         IN  /\ Adjusts(h, k) /\ SameBooks(h, k) /\ k.burnt = h.burnt
             /\ Running(k).phase = p /\ GasLeft(k) = GasLeft(h)
             /\ UsableGas(Running(k)) = IF p = "failed" THEN 0 ELSE GasLeft(h)
<1>1. PICK f \in FrameType : f = Running(h) /\ FrameInv(f)
  BY RunningType
<1>2. PICK g \in FrameType : g = [f EXCEPT !.phase = p]
  BY DEF FrameType
<1>3. /\ g.kind = f.kind /\ g.address = f.address /\ g.provided = f.provided
      /\ g.pushed = f.pushed /\ g.phase = p /\ g.gasLocked = f.gasLocked
      /\ g.gasForExecution = f.gasForExecution /\ g.points = f.points
      /\ g.initialCost = f.initialCost
  BY <1>2 DEF FrameType
<1>4. FrameInv(g)
  BY <1>1, <1>3 DEF FrameInv
<1>5. PICK k : k = SetRunning(h, g)
  OBVIOUS
<1>6. Adjusts(h, k) /\ Running(k) = g /\ SameBooks(h, k) /\ k.burnt = h.burnt
  BY <1>1, <1>3, <1>4, <1>5, SetRunningAdjusts
<1>7. FrameGasLeft(g) = FrameGasLeft(f)
  BY <1>3 DEF FrameGasLeft
<1>8. GasLeft(k) = GasLeft(h) /\ GasLeft(h) = FrameGasLeft(g)
  BY <1>1, <1>6, <1>7 DEF GasLeft
<1>9. UsableGas(g) = IF p = "failed" THEN 0 ELSE FrameGasLeft(g)
  BY <1>3 DEF UsableGas
<1> QED BY <1>1, <1>2, <1>3, <1>5, <1>6, <1>8, <1>9

(* A frame that has not failed may use all that is left.                   *)
LEMMA Alive ==
  ASSUME NEW h, Running(h).phase # "failed"
  PROVE  UsableGas(Running(h)) = GasLeft(h)
  BY DEF UsableGas, GasLeft

(* What is claimed after an adjustment of the running frame.               *)
LEMMA AdjustedClaim ==
  ASSUME NEW h, NEW k, HostOK(h), Adjusts(h, k)
  PROVE  /\ Claimed(h) \in Nat /\ Claimed(k) \in Nat
         /\ Claimed(k) - Claimed(h) =
              (k.burnt + UsableGas(Running(k)) + k.output.sent)
                - (h.burnt + UsableGas(Running(h)) + h.output.sent)
         /\ UsableGas(Running(h)) \in Nat /\ UsableGas(Running(k)) \in Nat
<1>1. HostOK(k)
  BY DEF Adjusts
<1>2. h.burnt \in Nat /\ k.burnt \in Nat /\ h.output.sent \in Nat /\ k.output.sent \in Nat
  BY <1>1 DEF HostOK, HostType, OutputType
<1>3. /\ Usable(h.frames) \in Nat /\ Usable(k.frames) \in Nat
      /\ Usable(k.frames) = Usable(h.frames) - UsableGas(Running(h)) + UsableGas(Running(k))
  BY AdjustedGas
<1>4. UsableGas(Running(h)) \in Nat /\ UsableGas(Running(k)) \in Nat
  BY <1>1, RunningType, GasLeftType
<1> QED BY <1>2, <1>3, <1>4 DEF Claimed

(* An adjustment keeps the frames that are on the stack.                   *)
LEMMA BookedAdjusts ==
  ASSUME NEW h, NEW k, NEW t, HostOK(h), Booked(h, t), Adjusts(h, k),
         k.totalUsedGas = h.totalUsedGas
  PROVE  Booked(k, t)
<1>1. PICK n \in Nat : n = Len(h.frames) /\ n >= 1 /\ n = Len(k.frames)
  BY RunningType DEF Adjusts
<1>2. ASSUME NEW i \in 1 .. n
      PROVE  /\ k.frames[i].kind = h.frames[i].kind
             /\ k.frames[i].address = h.frames[i].address
             /\ k.frames[i].provided = h.frames[i].provided
  <2>1. CASE i = n
    BY <1>1, <2>1 DEF Adjusts, Running
  <2>2. CASE i \in 1 .. n - 1
    BY <1>1, <2>2 DEF Adjusts
  <2>3. i = n \/ i \in 1 .. n - 1
    OBVIOUS
  <2> QED BY <2>1, <2>2, <2>3
<1>3. 1 \in 1 .. n /\ \A i \in 2 .. n : i \in 1 .. n
  BY <1>1
<1> QED BY <1>1, <1>2, <1>3 DEF Booked

(* The same without a change of the running frame.                         *)
LEMMA BookedBooks ==
  ASSUME NEW h, NEW k, NEW t, Booked(h, t), k.frames = h.frames,
         k.totalUsedGas = h.totalUsedGas
  PROVE  Booked(k, t)
  BY DEF Booked

(* Burning gas, and ending or failing.                                     *)
LEMMA BookedBurns ==
  ASSUME NEW h, NEW t, HostOK(h), Booked(h, t), NEW gas \in Nat
  PROVE  Booked(Burn(h, gas), t)
  BY BurnAdjusts, BookedAdjusts DEF SameBooks

(* A frame that has ended or failed stays where it is.                     *)
LEMMA BookedPhases ==
  ASSUME NEW h, NEW t, HostOK(h), Booked(h, t)
  PROVE  Booked(FailExecution(h), t) /\ Booked(EndFunction(h), t)
<1>1. Booked(FailExecution(h), t)
  BY PhaseAdjusts, BookedAdjusts DEF SameBooks, FailExecution
<1>2. Booked(EndFunction(h), t)
  BY PhaseAdjusts, BookedAdjusts DEF SameBooks, EndFunction
<1> QED BY <1>1, <1>2

-----------------------------------------------------------------------------
(* Calls.                                                                  *)

(* Costs are gas.                                                          *)
LEMMA CostType ==
  ASSUME NEW a \in Contracts
  PROVE  CodeCost[a] \in Nat /\ ExecutionCost(a) \in Nat
  BY MeteringAssumption DEF ExecutionCost

(* The frame of a callee: what it may use and its initial cost are what it *)
(* was given, unless it has failed already.                                *)
LEMMA NewFrameType ==
  ASSUME NEW kind \in CallKinds \cup {"root", "callback"}, NEW a \in Contracts,
         NEW gas \in Nat, gas <= MaxInt64, NEW out \in OutputType, NEW start
  PROVE  LET f == Begin(NewFrame(kind, a, gas, out), start)
         IN  /\ f \in FrameType /\ FrameInv(f)
             /\ f.kind = kind /\ f.address = a /\ f.provided = gas /\ f.pushed = out
             /\ f.initialCost + UsableGas(f) <= gas
             /\ start # "ok" => f.initialCost + UsableGas(f) = 0
             /\ start = "ok" /\ ExecutionCost(a) <= gas => f.phase = "running"
<1>1. PICK n \in FrameType : n = NewFrame(kind, a, gas, out)
  <2>1. NewFrame(kind, a, gas, out) \in FrameType
    BY DEF NewFrame, FrameType
  <2> QED BY <2>1
<1>2. /\ n.kind = kind /\ n.address = a /\ n.provided = gas /\ n.pushed = out
      /\ n.initialCost = 0 /\ n.gasForExecution = gas /\ n.points = 0
      /\ n.phase = "running" /\ n.gasLocked = 0
  BY <1>1 DEF NewFrame
<1>3. PICK c \in Nat : c = ExecutionCost(a)
  BY CostType
<1>4. CASE start # "ok" \/ c > gas
  <2>1. PICK f \in FrameType : f = [n EXCEPT !.phase = "failed"]
    BY DEF FrameType
  <2>2. f = Begin(n, start)
    BY <1>2, <1>3, <1>4, <2>1 DEF Begin
  <2>3. /\ f.kind = kind /\ f.address = a /\ f.provided = gas /\ f.pushed = out
        /\ f.initialCost = 0 /\ f.gasForExecution = gas /\ f.points = 0
        /\ f.phase = "failed" /\ f.gasLocked = 0
    BY <1>2, <2>1 DEF FrameType
  <2>4. FrameInv(f)
    BY <2>3, Bounds DEF FrameInv
  <2>5. UsableGas(f) = 0
    BY <2>3 DEF UsableGas
  <2> QED BY <1>1, <1>3, <1>4, <2>2, <2>3, <2>4, <2>5
<1>5. CASE start = "ok" /\ c <= gas
  <2>1. PICK g \in Nat : g = gas - c
    BY <1>5
  <2>2. PICK f \in FrameType : f = [n EXCEPT !.initialCost = c, !.gasForExecution = g]
    BY DEF FrameType
  <2>3. f = Begin(n, start)
    BY <1>2, <1>3, <1>5, <2>1, <2>2 DEF Begin, DeductInitialGas
  <2>4. /\ f.kind = kind /\ f.address = a /\ f.provided = gas /\ f.pushed = out
        /\ f.initialCost = c /\ f.gasForExecution = g /\ f.points = 0
        /\ f.phase = "running" /\ f.gasLocked = 0
    BY <1>2, <2>2 DEF FrameType
  <2>5. FrameInv(f)
    BY <2>1, <2>4, Bounds DEF FrameInv
  <2>6. UsableGas(f) = g
    <3>1. UsableGas(f) = SubUint64(g, 0)[1]
      BY <2>4 DEF UsableGas, FrameGasLeft
    <3>2. SubUint64(g, 0)[1] = g
      BY DEF SubUint64
    <3> QED BY <3>1, <3>2
  <2>7. f.initialCost + UsableGas(f) <= gas
    BY <2>1, <2>4, <2>6
  <2> QED BY <1>1, <1>5, <2>3, <2>4, <2>5, <2>7
<1> QED BY <1>3, <1>4, <1>5

(* A frame on top of the others.                                           *)
LEMMA PushFrame ==
  ASSUME NEW h, HostOK(h), NEW f \in FrameType, FrameInv(f), Linked(Running(h), f),
         NEW k \in HostType, k.frames = Append(h.frames, f)
  PROVE  /\ HostOK(k) /\ Running(k) = f /\ Len(k.frames) = Len(h.frames) + 1
         /\ \A i \in 1 .. Len(h.frames) : k.frames[i] = h.frames[i]
         /\ Usable(k.frames) = Usable(h.frames) + UsableGas(f)
         /\ Usable(h.frames) \in Nat
<1>1. PICK n \in Nat : n = Len(h.frames) /\ n >= 1 /\ Running(h) = h.frames[n]
  BY RunningType
<1>2. PICK s \in Seq(FrameType) : s = h.frames
  BY DEF HostOK, HostType
<1>3. PICK t \in Seq(FrameType) :
        /\ t = Append(s, f) /\ Len(t) = n + 1 /\ t[n + 1] = f
        /\ \A i \in 1 .. n : t[i] = s[i]
  <2>1. Append(s, f) \in Seq(FrameType) /\ Len(Append(s, f)) = n + 1
        /\ Append(s, f)[n + 1] = f /\ \A i \in 1 .. n : Append(s, f)[i] = s[i]
    BY <1>1, <1>2
  <2> QED BY <2>1
<1>4. k.frames = t
  BY <1>2, <1>3
<1>5. Running(k) = f
  BY <1>3, <1>4 DEF Running
<1>6. FramesInv(s)
  BY <1>2 DEF HostOK
<1>7. FramesInv(t)
  <2>1. t[1].kind = "root"
    BY <1>1, <1>2, <1>3, <1>6 DEF FramesInv, HostOK
  <2>2. ASSUME NEW i \in 1 .. n + 1 PROVE FrameInv(t[i])
    <3>1. CASE i = n + 1
      BY <1>3, <3>1
    <3>2. CASE i \in 1 .. n
      BY <1>1, <1>2, <1>3, <1>6, <3>2 DEF FramesInv
    <3>3. i = n + 1 \/ i \in 1 .. n
      OBVIOUS
    <3> QED BY <3>1, <3>2, <3>3
  <2>3. ASSUME NEW i \in 2 .. n + 1 PROVE Linked(t[i - 1], t[i])
    <3>1. CASE i = n + 1
      <4>1. t[i - 1] = s[n] /\ t[i] = f
        BY <1>1, <1>3, <3>1
      <4> QED BY <1>1, <1>2, <4>1
    <3>2. CASE i \in 2 .. n
      <4>1. t[i - 1] = s[i - 1] /\ t[i] = s[i]
        BY <1>3, <3>2
      <4>2. Linked(s[i - 1], s[i])
        BY <1>1, <1>2, <1>6, <3>2 DEF FramesInv
      <4> QED BY <4>1, <4>2
    <3>3. i = n + 1 \/ i \in 2 .. n
      OBVIOUS
    <3> QED BY <3>1, <3>2, <3>3
  <2> QED BY <1>3, <2>1, <2>2, <2>3 DEF FramesInv
<1>8. HostOK(k)
  BY <1>3, <1>4, <1>7 DEF HostOK
<1>9. Usable(s) \in Nat /\ Usable(t) = Usable(s) + UsableGas(t[n + 1])
  BY <1>1, <1>2, <1>3, UsableSplits
<1> QED BY <1>1, <1>2, <1>3, <1>4, <1>5, <1>8, <1>9

(* A call: the nest is one deeper, the callers keep what they are, and no  *)
(* gas is claimed twice when the callee gets no more than is left.         *)
Calls(h, k, kind, a, gas, start) ==
  /\ HostOK(k) /\ Len(k.frames) = Len(h.frames) + 1
  /\ \A i \in 1 .. Len(h.frames) :
       /\ k.frames[i].kind = h.frames[i].kind /\ k.frames[i].pushed = h.frames[i].pushed
       /\ k.frames[i].address = h.frames[i].address
       /\ k.frames[i].provided = h.frames[i].provided
  /\ k.output = h.output
  /\ Running(k).kind = kind /\ Running(k).address = a /\ Running(k).pushed = h.output
  /\ start = "ok" /\ ExecutionCost(a) <= gas => Running(k).phase = "running"
  /\ Running(h).phase # "failed" /\ gas <= GasLeft(h) => Claimed(k) <= Claimed(h)

(* Call and ExecuteOnDestContext, which only adds the previous total.      *)
LEMMA CallKeeps ==
  ASSUME NEW h, HostOK(h), NEW kind \in CallKinds \cup {"callback"},
         NEW a \in Contracts, NEW gas \in Nat, gas <= MaxInt64, NEW start,
         kind = "async" => gas + Running(h).gasLocked <= MaxInt64
  PROVE  /\ Calls(h, Call(h, kind, a, gas, start), kind, a, gas, start)
         /\ Calls(h, ExecuteOnDestContext(h, kind, a, gas, start), kind, a, gas, start)
         /\ Call(h, kind, a, gas, start).totalUsedGas = h.totalUsedGas
<1>1. PICK out \in OutputType : out = h.output
  BY DEF HostOK, HostType
<1>2. PICK f \in FrameType :
        /\ f = Begin(NewFrame(kind, a, gas, out), start) /\ FrameInv(f)
        /\ f.kind = kind /\ f.address = a /\ f.provided = gas /\ f.pushed = out
        /\ f.initialCost + UsableGas(f) <= gas
        /\ start # "ok" => f.initialCost + UsableGas(f) = 0
        /\ start = "ok" /\ ExecutionCost(a) <= gas => f.phase = "running"
  BY NewFrameType
<1>3. PICK m : m = IF start = "noFunds" THEN h ELSE UseGas(h, gas)
  OBVIOUS
<1>4. PICK l \in Nat : l = GasLeft(h)
  BY RunningType
<1>5. /\ Adjusts(h, m) /\ Running(m).gasLocked = Running(h).gasLocked
      /\ Running(m).phase = Running(h).phase
      /\ m.output = h.output /\ m.burnt = h.burnt /\ m.totalUsedGas = h.totalUsedGas
      /\ GasLeft(m) = IF start = "noFunds" THEN l ELSE SubUint64(l, gas)[1]
  <2>1. CASE start = "noFunds"
    BY <1>3, <1>4, <2>1 DEF Adjusts
  <2>2. CASE start # "noFunds"
    <3>1. /\ Adjusts(h, m) /\ SameFrame(Running(h), Running(m))
          /\ GasLeft(m) = SubUint64(GasLeft(h), gas)[1]
          /\ SameBooks(h, m) /\ m.burnt = h.burnt
      BY <1>3, <2>2, UseGasAdjusts
    <3> QED BY <1>4, <2>2, <3>1 DEF SameFrame, SameBooks
  <2> QED BY <2>1, <2>2
<1>6. HostOK(m) /\ m \in HostType /\ Linked(Running(m), f)
  BY <1>2, <1>5 DEF Adjusts, HostOK, Linked
<1>7. f.initialCost \in Nat /\ m.burnt \in Nat /\ UsableGas(f) \in Nat
  BY <1>6, GasLeftType DEF FrameType, HostType
<1>8. PICK k \in HostType : k = [m EXCEPT !.frames = Append(@, f), !.burnt = @ + f.initialCost]
  <2>1. Append(m.frames, f) \in Seq(FrameType) /\ m.burnt + f.initialCost \in Nat
    BY <1>6, <1>7 DEF HostType
  <2>2. [m EXCEPT !.frames = Append(m.frames, f), !.burnt = m.burnt + f.initialCost] \in HostType
    BY <1>6, <2>1 DEF HostType
  <2> QED BY <2>2
<1>9. k = Call(h, kind, a, gas, start)
  BY <1>1, <1>2, <1>3, <1>8 DEF Call
<1>10. /\ k.frames = Append(m.frames, f) /\ k.burnt = m.burnt + f.initialCost
       /\ k.output = m.output /\ k.totalUsedGas = m.totalUsedGas
  BY <1>6, <1>8 DEF HostType
<1>11. /\ HostOK(k) /\ Running(k) = f /\ Len(k.frames) = Len(m.frames) + 1
       /\ \A i \in 1 .. Len(m.frames) : k.frames[i] = m.frames[i]
       /\ Usable(k.frames) = Usable(m.frames) + UsableGas(f)
       /\ Usable(m.frames) \in Nat
  BY <1>2, <1>6, <1>10, PushFrame
<1>12. Len(m.frames) = Len(h.frames) /\ Len(h.frames) \in Nat
  BY <1>5, RunningType DEF Adjusts
<1>13. ASSUME NEW i \in 1 .. Len(h.frames)
       PROVE  /\ m.frames[i].kind = h.frames[i].kind /\ m.frames[i].pushed = h.frames[i].pushed
              /\ m.frames[i].address = h.frames[i].address
              /\ m.frames[i].provided = h.frames[i].provided
  <2>1. CASE i = Len(h.frames)
    BY <1>5, <1>12, <2>1 DEF Adjusts, Running
  <2>2. CASE i \in 1 .. Len(h.frames) - 1
    BY <1>5, <2>2 DEF Adjusts
  <2>3. i = Len(h.frames) \/ i \in 1 .. Len(h.frames) - 1
    BY <1>12
  <2> QED BY <2>1, <2>2, <2>3
<1>14. ASSUME Running(h).phase # "failed", gas <= GasLeft(h)
       PROVE  Claimed(k) <= Claimed(h)
  <2>1. /\ Claimed(h) \in Nat /\ Claimed(m) \in Nat
        /\ Claimed(m) - Claimed(h) =
             (m.burnt + UsableGas(Running(m)) + m.output.sent)
               - (h.burnt + GasLeft(h) + h.output.sent)
    BY <1>5, <1>14, AdjustedClaim, Alive
  <2>2. UsableGas(Running(m)) = GasLeft(m) /\ GasLeft(m) \in Nat
    BY <1>5, <1>6, <1>14, RunningType DEF UsableGas
  <2>3. PICK b \in Nat, o \in Nat :
          b = h.burnt /\ b = m.burnt /\ o = h.output.sent /\ o = m.output.sent
    BY <1>5, <1>6 DEF HostType, OutputType
  <2>4. GasLeft(m) + f.initialCost + UsableGas(f) <= l
    <3>1. CASE start = "noFunds"
      BY <1>2, <1>5, <1>7, <3>1
    <3>2. CASE start # "noFunds"
      <4>1. GasLeft(m) = l - gas
        BY <1>4, <1>5, <1>14, <3>2, GasArithmetic
      <4> QED BY <1>2, <1>7, <4>1
    <3> QED BY <3>1, <3>2
  <2>5. Claimed(m) = m.burnt + Usable(m.frames) + m.output.sent
    BY DEF Claimed
  <2>6. Claimed(k) = (m.burnt + f.initialCost) + (Usable(m.frames) + UsableGas(f)) + m.output.sent
    BY <1>10, <1>11 DEF Claimed
  <2>7. PICK u \in Nat, c \in Nat, g \in Nat, e \in Nat :
          u = Usable(m.frames) /\ c = f.initialCost /\ g = UsableGas(f) /\ e = GasLeft(m)
    BY <1>7, <1>11, <2>2
  <2>8. PICK x \in Nat : x = Claimed(h)
    BY <2>1
  <2>9. (b + u + o) - x = (b + e + o) - (b + l + o)
    BY <1>4, <2>1, <2>2, <2>3, <2>5, <2>7, <2>8
  <2>10. e + c + g <= l
    BY <2>4, <2>7
  <2>11. (b + c) + (u + g) + o <= x
    BY ONLY <2>9, <2>10, b \in Nat, o \in Nat, u \in Nat, c \in Nat, g \in Nat, e \in Nat,
            x \in Nat, l \in Nat
  <2> QED BY <2>3, <2>6, <2>7, <2>8, <2>11
<1>15. Calls(h, k, kind, a, gas, start)
  BY <1>1, <1>2, <1>5, <1>10, <1>11, <1>12, <1>13, <1>14 DEF Calls
<1>16. PICK d : d = [k EXCEPT !.totalUsedGas = CurrentTotalUsedGas(h.output)]
  OBVIOUS
<1>17. d = ExecuteOnDestContext(h, kind, a, gas, start)
  BY <1>9, <1>16 DEF ExecuteOnDestContext
<1>18. /\ d \in HostType /\ d.frames = k.frames /\ d.output = k.output
       /\ d.burnt = k.burnt
  BY <1>1, <1>16, TotalType DEF HostType
<1>19. Adjusts(k, d) /\ Running(d) = Running(k)
  BY <1>11, <1>18, BooksChange
<1>20. HostOK(d) /\ Claimed(d) = Claimed(k)
  BY <1>18, <1>19 DEF Adjusts, Claimed
<1>21. Calls(h, d, kind, a, gas, start)
  BY <1>15, <1>18, <1>19, <1>20 DEF Calls
<1> QED BY <1>5, <1>9, <1>10, <1>15, <1>17, <1>21

(* Only a call on the same context leaves the previous total.              *)
LEMMA BookedCalls ==
  ASSUME NEW h, NEW k, NEW t, HostOK(h), Booked(h, t),
         NEW kind \in CallKinds \cup {"callback"}, NEW a, NEW g, NEW start,
         Calls(h, k, kind, a, g, start),
         kind = "same" => k.totalUsedGas = h.totalUsedGas
  PROVE  Booked(k, t)
<1>1. PICK n \in Nat : n = Len(h.frames) /\ n >= 1 /\ Len(k.frames) = n + 1
  BY RunningType DEF Calls
<1>2. k.frames[n + 1].kind = kind
  BY <1>1 DEF Calls, Running
<1>3. \A i \in 1 .. n : /\ k.frames[i].kind = h.frames[i].kind
                       /\ k.frames[i].address = h.frames[i].address
                       /\ k.frames[i].provided = h.frames[i].provided
  BY <1>1 DEF Calls
<1>4. 1 \in 1 .. n /\ (\A i \in 2 .. n : i \in 1 .. n /\ i \in 2 .. n + 1)
      /\ n + 1 \in 2 .. n + 1 /\ \A i \in 2 .. n + 1 : i = n + 1 \/ i \in 2 .. n
  BY <1>1
<1>5. k.frames[1].provided = t.provided /\ k.frames[1].address = t.contract
  BY <1>3, <1>4 DEF Booked
<1>6. kind # "root"
  BY DEF CallKinds
<1>7. ASSUME NEW i \in 2 .. n + 1 PROVE k.frames[i].kind # "root"
  BY <1>1, <1>2, <1>3, <1>4, <1>6 DEF Booked
<1>8. ASSUME \A i \in 2 .. n + 1 : k.frames[i].kind = "same"
      PROVE  k.totalUsedGas = 0
  <2>1. kind = "same"
    BY <1>2, <1>4, <1>8
  <2>2. \A i \in 2 .. n : h.frames[i].kind = "same"
    BY <1>3, <1>4, <1>8
  <2> QED BY <1>1, <2>1, <2>2 DEF Booked
<1> QED BY <1>1, <1>5, <1>7, <1>8 DEF Booked

-----------------------------------------------------------------------------
(* The end of calls.                                                       *)

(* What an output returns: nothing that the frame could not use.           *)
VMOutputOK(h, v) ==
  /\ v.ok \in BOOLEAN /\ v.output \in OutputType /\ v.output.sent = h.output.sent
  /\ v.remaining \in Nat /\ v.remaining <= UsableGas(Running(h))

(* The gas used by a contract, and what it lacks, is gas.                  *)
LEMMA GasUsedType ==
  ASSUME NEW h, HostOK(h)
  PROVE  /\ GasSpentByContract(h) \in Nat /\ GasUsedForExecution(h) \in Nat
         /\ GasUsedByContract(h)[1] \in Nat /\ GasUsedByContract(h)[2] \in Nat
<1>1. PICK f \in FrameType : f = Running(h)
  BY RunningType
<1>2. f.initialCost \in Nat /\ f.points \in Nat /\ f.address \in Contracts
  BY DEF FrameType
<1>3. PICK s \in Nat : s = GasSpentByContract(h)
  BY <1>1, <1>2, GasArithmetic DEF GasSpentByContract
<1>4. PICK x \in Nat, y \in Nat :
        x = h.gasStates[f.address].forwarded /\ y = h.gasStates[f.address].returned
  BY <1>2 DEF HostOK, HostType
<1>5. PICK z \in Nat : z = SubUint64(x, y)[1]
  BY GasArithmetic
<1>6. GasUsedByContract(h) = SubUint64(s, z)
  BY <1>1, <1>3, <1>4, <1>5 DEF GasUsedByContract
<1>7. GasUsedByContract(h)[1] \in Nat /\ GasUsedByContract(h)[2] \in Nat
  BY <1>6, GasArithmetic
<1>8. GasUsedForExecution(h) \in Nat
  BY <1>1, <1>2, <1>7, GasArithmetic DEF GasUsedForExecution
<1> QED BY <1>3, <1>7, <1>8

(* The output of an execution that returned.                               *)
LEMMA GetVMOutputType ==
  ASSUME NEW h, HostOK(h)
  PROVE  LET v == GetVMOutput(h)
         IN  /\ v.ok \in BOOLEAN /\ v.output \in OutputType
             /\ v.output.sent = h.output.sent
             /\ v.remaining \in Nat /\ v.remaining <= GasLeft(h)
             /\ Running(h).phase # "failed" => VMOutputOK(h, v)
<1>1. PICK f \in FrameType : f = Running(h)
  BY RunningType
<1>2. f.address \in Contracts /\ h.output \in OutputType
  BY DEF FrameType, HostOK, HostType
<1>3. PICK x \in Nat, y \in Nat : x = GasUsedByContract(h)[1] /\ y = GasUsedByContract(h)[2]
  BY GasUsedType
<1>4. PICK l \in Nat : l = GasLeft(h)
  BY RunningType
<1>5. PICK r \in Nat : r = SubUint64(l, y)[1] /\ r <= l
  BY GasArithmetic
<1>6. PICK out \in OutputType : out = [h.output EXCEPT !.gasUsed[f.address] = x]
  BY <1>2 DEF OutputType
<1>7. out.sent = h.output.sent
  BY <1>2, <1>6 DEF OutputType
<1>8. PICK v : v = GetVMOutput(h)
  OBVIOUS
<1>9. PICK p : v = [ok |-> GasMatches(p, f.provided), output |-> out,
                    remaining |-> IF GasMatches(p, f.provided) THEN r ELSE 0]
  BY <1>1, <1>3, <1>4, <1>5, <1>6, <1>8, Zenon DEF GetVMOutput
<1>10. GasMatches(p, f.provided) \in BOOLEAN
  BY DEF GasMatches
<1>11. /\ v.ok \in BOOLEAN /\ v.output \in OutputType /\ v.output.sent = h.output.sent
       /\ v.remaining \in Nat /\ v.remaining <= GasLeft(h)
  BY <1>4, <1>5, <1>7, <1>9, <1>10
<1>12. Running(h).phase # "failed" => UsableGas(Running(h)) = GasLeft(h)
  BY RunningType DEF UsableGas
<1> QED BY <1>8, <1>11, <1>12 DEF VMOutputOK

(* The output of an execution that failed.                                 *)
LEMMA ErrorOutputType ==
  ASSUME NEW h, HostOK(h)
  PROVE  VMOutputOK(h, CreateVMOutputInCaseOfError(h))
<1>1. h.output \in OutputType /\ UsableGas(Running(h)) \in Nat
  BY RunningType, GasLeftType DEF HostOK, HostType
<1> QED BY <1>1 DEF CreateVMOutputInCaseOfError, VMOutputOK

(* Without its last frame, which is not the first.                         *)
LEMMA PopFrame ==
  ASSUME NEW h, HostOK(h), Running(h).kind # "root"
  PROVE  LET k == [h EXCEPT !.frames = Front(@)]
         IN  /\ HostOK(k) /\ Len(h.frames) = Len(k.frames) + 1
             /\ \A i \in 1 .. Len(k.frames) : k.frames[i] = h.frames[i]
             /\ Usable(h.frames) = Usable(k.frames) + UsableGas(Running(h))
             /\ Usable(k.frames) \in Nat
             /\ SameBooks(h, k) /\ k.burnt = h.burnt
<1>1. PICK n \in Nat, t \in Seq(FrameType) :
        /\ Len(h.frames) = n + 1 /\ Len(t) = n /\ t = Front(h.frames)
        /\ \A i \in 1 .. n : t[i] = h.frames[i]
        /\ Usable(t) \in Nat /\ Usable(h.frames) = Usable(t) + UsableGas(Running(h))
  BY Callers
<1>2. h \in HostType /\ FramesInv(h.frames) /\ h.frames # <<>>
  BY DEF HostOK
<1>3. n # 0
  <2> SUFFICES ASSUME n = 0 PROVE FALSE
    OBVIOUS
  <2>1. Running(h) = h.frames[1]
    BY <1>1 DEF Running
  <2> QED BY <1>2, <2>1 DEF FramesInv
<1>4. PICK k \in HostType : k = [h EXCEPT !.frames = t]
  BY <1>2 DEF HostType
<1>5. k.frames = t /\ SameBooks(h, k) /\ k.burnt = h.burnt
  BY <1>2, <1>4 DEF HostType, SameBooks
<1>6. FramesInv(t)
  <2>1. t[1].kind = "root"
    BY <1>1, <1>2, <1>3 DEF FramesInv
  <2>2. \A i \in 1 .. n : FrameInv(t[i])
    BY <1>1, <1>2 DEF FramesInv
  <2>3. ASSUME NEW i \in 2 .. n PROVE Linked(t[i - 1], t[i])
    <3>1. Linked(h.frames[i - 1], h.frames[i])
      BY <1>1, <1>2 DEF FramesInv
    <3>2. t[i - 1] = h.frames[i - 1] /\ t[i] = h.frames[i]
      BY <1>1
    <3> QED BY <3>1, <3>2
  <2> QED BY <1>1, <2>1, <2>2, <2>3 DEF FramesInv
<1>7. t # <<>>
  BY <1>1, <1>3
<1>8. HostOK(k)
  BY <1>5, <1>6, <1>7 DEF HostOK
<1> QED BY <1>1, <1>4, <1>5, <1>8

(* RestoreGas gives back no more than it is told to.                       *)
LEMMA RestoreGasAdjusts ==
  ASSUME NEW h, HostOK(h), NEW gas \in Nat
  PROVE  LET k == RestoreGas(h, gas)
         IN  /\ Adjusts(h, k) /\ SameFrame(Running(h), Running(k))
             /\ UsableGas(Running(k)) <= UsableGas(Running(h)) + gas
             /\ SameBooks(h, k) /\ k.burnt = h.burnt
<1>1. PICK f \in FrameType : f = Running(h) /\ FrameInv(f)
  BY RunningType
<1>2. PICK p \in Nat, g \in Nat : p = f.points /\ g = f.gasForExecution
  BY DEF FrameType
<1>3. p <= MaxInt64
  BY <1>1, <1>2 DEF FrameInv
<1>4. UsableGas(f) \in Nat
  BY GasLeftType
<1>5. PICK k : k = RestoreGas(h, gas)
  OBVIOUS
<1>6. CASE gas > p
  <2>1. k = h
    BY <1>1, <1>2, <1>5, <1>6 DEF RestoreGas
  <2> QED BY <1>1, <1>4, <1>5, <2>1 DEF Adjusts, SameFrame, SameBooks
<1>7. CASE gas <= p
  <2>1. PICK q \in Nat : q = p - gas
    BY <1>7
  <2>2. k = SetPointsUsed(h, q)
    BY <1>1, <1>2, <1>5, <1>7, <2>1 DEF RestoreGas
  <2>3. /\ Adjusts(h, k) /\ SameFrame(Running(h), Running(k))
        /\ Running(k).points = Smaller(q, MaxInt64)
        /\ SameBooks(h, k) /\ k.burnt = h.burnt
    BY <2>2, SetPointsUsedAdjusts
  <2>4. Smaller(q, MaxInt64) = q
    BY <1>3, <2>1, Bounds DEF Smaller
  <2>5. FrameGasLeft(f) = SubUint64(g, p)[1] /\ FrameGasLeft(Running(k)) = SubUint64(g, q)[1]
    BY <1>1, <1>2, <2>3, <2>4 DEF FrameGasLeft, SameFrame
  <2>6. SubUint64(g, q)[1] <= SubUint64(g, p)[1] + gas
    BY ONLY <1>7, <2>1, g \in Nat, p \in Nat, gas \in Nat, q \in Nat DEF SubUint64
  <2>7. UsableGas(Running(k)) <= UsableGas(f) + gas
    <3>1. Running(k).phase = f.phase
      BY <1>1, <2>3 DEF SameFrame
    <3> QED BY <2>5, <2>6, <3>1 DEF UsableGas
  <2> QED BY <1>1, <1>5, <2>3, <2>7
<1> QED BY <1>2, <1>6, <1>7

(* ForwardGas only keeps accounts.                                         *)
LEMMA ForwardGasKeeps ==
  ASSUME NEW h \in HostType, NEW s \in Contracts, NEW d \in Contracts, NEW gas \in Nat
  PROVE  LET k == ForwardGas(h, s, d, gas)
         IN  /\ k \in HostType /\ k.frames = h.frames /\ k.output = h.output
             /\ k.totalUsedGas = h.totalUsedGas /\ k.burnt = h.burnt
<1>1. \A x \in Nat : AddUint64(x, gas) \in Nat
  BY GasArithmetic
<1>2. PICK m \in HostType : m = [h EXCEPT !.gasStates[s].forwarded = AddUint64(@, gas)]
  <2>1. [h EXCEPT !.gasStates[s].forwarded = AddUint64(@, gas)] \in HostType
    BY <1>1 DEF HostType
  <2> QED BY <2>1
<1>3. /\ m.frames = h.frames /\ m.output = h.output
      /\ m.totalUsedGas = h.totalUsedGas /\ m.burnt = h.burnt
  BY <1>2 DEF HostType
<1>4. PICK k \in HostType : k = [m EXCEPT !.gasStates[d].returned = AddUint64(@, gas)]
  <2>1. [m EXCEPT !.gasStates[d].returned = AddUint64(@, gas)] \in HostType
    BY <1>1 DEF HostType
  <2> QED BY <2>1
<1>5. /\ k.frames = m.frames /\ k.output = m.output
      /\ k.totalUsedGas = m.totalUsedGas /\ k.burnt = m.burnt
  BY <1>4 DEF HostType
<1>6. ForwardGas(h, s, d, gas) \in {m, k}
  BY <1>2, <1>4 DEF ForwardGas
<1> QED BY <1>3, <1>5, <1>6

(* A frame has been popped: its callers keep what they are, and they may   *)
(* use no more than before together with it.                               *)
Returns(h, k) ==
  /\ HostOK(k) /\ Len(h.frames) = Len(k.frames) + 1
  /\ \A i \in 1 .. Len(k.frames) :
       /\ k.frames[i].kind = h.frames[i].kind /\ k.frames[i].pushed = h.frames[i].pushed
       /\ k.frames[i].address = h.frames[i].address
       /\ k.frames[i].provided = h.frames[i].provided
  /\ SameFrame(h.frames[Len(k.frames)], Running(k))
  /\ k.burnt = h.burnt /\ Usable(k.frames) <= Usable(h.frames)

(* The caller gets back what the callee left, never more.                  *)
LEMMA ReturnGasReturns ==
  ASSUME NEW h, HostOK(h), Running(h).kind # "root", NEW v, VMOutputOK(h, v)
  PROVE  /\ Returns(h, ReturnGas(h, v)) /\ ReturnGas(h, v).output = h.output
         /\ ReturnGas(h, v).totalUsedGas = h.totalUsedGas
<1>1. PICK p : p = [h EXCEPT !.frames = Front(@)]
  OBVIOUS
<1>2. /\ HostOK(p) /\ Len(h.frames) = Len(p.frames) + 1
      /\ \A i \in 1 .. Len(p.frames) : p.frames[i] = h.frames[i]
      /\ Usable(h.frames) = Usable(p.frames) + UsableGas(Running(h))
      /\ Usable(p.frames) \in Nat
      /\ SameBooks(h, p) /\ p.burnt = h.burnt
  BY <1>1, PopFrame
<1>3. PICK r \in Nat : r = v.remaining /\ r <= UsableGas(Running(h))
  BY DEF VMOutputOK
<1>4. PICK m : m = RestoreGas(p, r)
  OBVIOUS
<1>5. /\ Adjusts(p, m) /\ SameFrame(Running(p), Running(m))
      /\ UsableGas(Running(m)) <= UsableGas(Running(p)) + r
      /\ SameBooks(p, m) /\ m.burnt = p.burnt
  BY <1>2, <1>4, RestoreGasAdjusts
<1>6. HostOK(m) /\ m \in HostType
  BY <1>5 DEF Adjusts, HostOK
<1>7. PICK s \in Nat : s = IF v.ok THEN GasSpentByContract(h) ELSE 0
  BY GasUsedType
<1>8. Running(p).address \in Contracts /\ Running(h).address \in Contracts
  BY <1>2, RunningType DEF FrameType
<1>9. PICK k : k = ForwardGas(m, Running(p).address, Running(h).address, s)
  OBVIOUS
<1>10. /\ k \in HostType /\ k.frames = m.frames /\ k.output = m.output /\ k.burnt = m.burnt
       /\ k.totalUsedGas = m.totalUsedGas
  BY <1>6, <1>8, <1>9, ForwardGasKeeps
<1>11. k = ReturnGas(h, v)
  BY <1>1, <1>3, <1>4, <1>7, <1>9 DEF ReturnGas
<1>12. Adjusts(m, k) /\ Running(k) = Running(m)
  BY <1>6, <1>10, BooksChange
<1>13. Adjusts(p, k) /\ SameFrame(Running(p), Running(k)) /\ HostOK(k)
  BY <1>5, <1>12, AdjustsAddUp DEF Adjusts
<1>14. PICK n \in Nat : n = Len(p.frames) /\ n >= 1 /\ Running(p) = p.frames[n]
  BY <1>2, RunningType
<1>15. Len(k.frames) = n
  BY <1>13, <1>14 DEF Adjusts
<1>16. ASSUME NEW i \in 1 .. n
       PROVE  /\ k.frames[i].kind = h.frames[i].kind /\ k.frames[i].pushed = h.frames[i].pushed
              /\ k.frames[i].address = h.frames[i].address
              /\ k.frames[i].provided = h.frames[i].provided
  <2>1. p.frames[i] = h.frames[i]
    BY <1>2, <1>14
  <2>2. CASE i = n
    <3>1. Running(k) = k.frames[n]
      BY <1>15 DEF Running
    <3> QED BY <1>13, <1>14, <2>1, <2>2, <3>1 DEF SameFrame
  <2>3. CASE i \in 1 .. n - 1
    BY <1>13, <1>14, <2>1, <2>3 DEF Adjusts
  <2>4. i = n \/ i \in 1 .. n - 1
    OBVIOUS
  <2> QED BY <2>2, <2>3, <2>4
<1>17. SameFrame(h.frames[n], Running(k))
  BY <1>2, <1>13, <1>14
<1>18. /\ Usable(k.frames) \in Nat
       /\ Usable(k.frames) = Usable(p.frames) - UsableGas(Running(p)) + UsableGas(Running(k))
  BY <1>2, <1>13, AdjustedGas
<1>19. /\ UsableGas(Running(p)) \in Nat /\ UsableGas(Running(k)) \in Nat
       /\ UsableGas(Running(h)) \in Nat
  BY <1>2, <1>13, RunningType, GasLeftType
<1>20. UsableGas(Running(k)) <= UsableGas(Running(p)) + r
  BY <1>5, <1>12
<1>21. Usable(k.frames) <= Usable(h.frames)
  <2>1. PICK a \in Nat, b \in Nat, c \in Nat, d \in Nat :
          /\ a = Usable(p.frames) /\ b = UsableGas(Running(p))
          /\ c = UsableGas(Running(k)) /\ d = UsableGas(Running(h))
    BY <1>2, <1>19
  <2>2. Usable(k.frames) = a - b + c /\ Usable(h.frames) = a + d
    BY <1>2, <1>18, <2>1
  <2>3. c <= b + r /\ r <= d
    BY <1>3, <1>20, <2>1
  <2>4. a - b + c <= a + d
    BY <2>3
  <2> QED BY <2>2, <2>4
<1>22. Returns(h, k)
  BY <1>2, <1>5, <1>10, <1>13, <1>14, <1>15, <1>16, <1>17, <1>21 DEF Returns
<1> QED BY <1>2, <1>5, <1>10, <1>11, <1>22 DEF SameBooks

(* What the books have to do with a pop.                                   *)
LEMMA ReturnsBooks ==
  ASSUME NEW h, NEW k, Returns(h, k), NEW m \in HostType, m.frames = k.frames,
         m.burnt = k.burnt
  PROVE  Returns(h, m)
<1>1. HostOK(k)
  BY DEF Returns
<1>2. HostOK(m) /\ Running(m) = Running(k)
  BY <1>1 DEF HostOK, Running
<1> QED BY <1>2 DEF Returns

(* The output after a call: that of the callee, or the one from before.    *)
OutputAfter(h, k) == k.output.sent \in {h.output.sent, Running(h).pushed.sent}

(* finishExecuteOnDestContext.                                             *)
LEMMA FinishDestReturns ==
  ASSUME NEW h, HostOK(h), Running(h).kind # "root", NEW v, VMOutputOK(h, v)
  PROVE  LET k == FinishExecuteOnDestContext(h, v)
         IN  Returns(h, k) /\ OutputAfter(h, k) /\ k.totalUsedGas = 0
<1>1. PICK m : m = ReturnGas(h, v)
  OBVIOUS
<1>2. Returns(h, m) /\ m \in HostType
  <2>1. Returns(h, m)
    BY <1>1, ReturnGasReturns
  <2> QED BY <2>1 DEF Returns, HostOK
<1>3. PICK out \in OutputType : out = IF v.ok THEN v.output ELSE Running(h).pushed
  BY RunningType DEF VMOutputOK, FrameType
<1>4. PICK k \in HostType : k = [m EXCEPT !.output = out, !.totalUsedGas = 0]
  BY <1>2 DEF HostType
<1>5. k.frames = m.frames /\ k.burnt = m.burnt /\ k.output = out /\ k.totalUsedGas = 0
  BY <1>2, <1>4 DEF HostType
<1>6. Returns(h, k)
  BY <1>2, <1>5, ReturnsBooks
<1>7. OutputAfter(h, k)
  BY <1>3, <1>5 DEF OutputAfter, VMOutputOK
<1>8. k = FinishExecuteOnDestContext(h, v)
  BY <1>1, <1>3, <1>4 DEF FinishExecuteOnDestContext
<1> QED BY <1>5, <1>6, <1>7, <1>8

(* finishExecuteOnSameContext.                                             *)
LEMMA FinishSameReturns ==
  ASSUME NEW h, HostOK(h), Running(h).kind # "root", NEW ok \in BOOLEAN,
         ok => Running(h).phase # "failed"
  PROVE  LET k == FinishExecuteOnSameContext(h, ok)
         IN  Returns(h, k) /\ OutputAfter(h, k) /\ k.totalUsedGas = h.totalUsedGas
<1>1. CASE ok
  <2>1. PICK v : v = GetVMOutput(h)
    OBVIOUS
  <2>2. VMOutputOK(h, v)
    BY <1>1, <2>1, GetVMOutputType
  <2>3. PICK m : m = ReturnGas(h, v)
    OBVIOUS
  <2>4. Returns(h, m) /\ m \in HostType /\ m.totalUsedGas = h.totalUsedGas
    BY <2>2, <2>3, ReturnGasReturns DEF Returns, HostOK
  <2>5. PICK out \in OutputType : out = v.output
    BY <2>2 DEF VMOutputOK
  <2>6. PICK k \in HostType : k = [m EXCEPT !.output = out]
    BY <2>4 DEF HostType
  <2>7. /\ k.frames = m.frames /\ k.burnt = m.burnt /\ k.output = out
        /\ k.totalUsedGas = m.totalUsedGas
    BY <2>4, <2>6 DEF HostType
  <2>8. Returns(h, k)
    BY <2>4, <2>7, ReturnsBooks
  <2>9. OutputAfter(h, k)
    BY <2>2, <2>5, <2>7 DEF OutputAfter, VMOutputOK
  <2>10. k = FinishExecuteOnSameContext(h, ok)
    BY <1>1, <2>1, <2>3, <2>5, <2>6 DEF FinishExecuteOnSameContext
  <2> QED BY <2>4, <2>7, <2>8, <2>9, <2>10
<1>2. CASE ~ ok
  <2>1. PICK p : p = [h EXCEPT !.frames = Front(@)]
    OBVIOUS
  <2>2. /\ HostOK(p) /\ Len(h.frames) = Len(p.frames) + 1
        /\ \A i \in 1 .. Len(p.frames) : p.frames[i] = h.frames[i]
        /\ Usable(h.frames) = Usable(p.frames) + UsableGas(Running(h))
        /\ Usable(p.frames) \in Nat
        /\ SameBooks(h, p) /\ p.burnt = h.burnt
    BY <2>1, PopFrame
  <2>3. UsableGas(Running(h)) \in Nat
    BY RunningType, GasLeftType
  <2>4. Len(p.frames) \in Nat /\ Len(p.frames) >= 1 /\ Running(p) = p.frames[Len(p.frames)]
    BY <2>2, RunningType
  <2>5. SameFrame(h.frames[Len(p.frames)], Running(p))
    <3>1. PICK n \in Nat : n = Len(p.frames)
      BY <2>4
    <3>2. h.frames[n] = Running(p)
      BY <2>2, <2>4, <3>1
    <3> QED BY <3>1, <3>2 DEF SameFrame
  <2>6. Usable(p.frames) <= Usable(h.frames)
    BY <2>2, <2>3
  <2>7. Returns(h, p)
    BY <2>2, <2>5, <2>6 DEF Returns
  <2>8. PICK out \in OutputType : out = Running(h).pushed
    BY RunningType DEF FrameType
  <2>9. p \in HostType /\ h \in HostType
    BY <2>2 DEF HostOK
  <2>10. PICK k \in HostType : k = [p EXCEPT !.output = out]
    BY <2>9 DEF HostType
  <2>11. /\ k.frames = p.frames /\ k.burnt = p.burnt /\ k.output = out
         /\ k.totalUsedGas = h.totalUsedGas
    BY <2>2, <2>9, <2>10 DEF HostType, SameBooks
  <2>12. Returns(h, k) /\ OutputAfter(h, k)
    BY <2>7, <2>8, <2>11, ReturnsBooks DEF OutputAfter
  <2>13. k = [h EXCEPT !.frames = Front(@), !.output = out]
    BY <2>1, <2>9, <2>10 DEF HostType
  <2>14. k = FinishExecuteOnSameContext(h, ok)
    BY <1>2, <2>8, <2>13 DEF FinishExecuteOnSameContext
  <2> QED BY <2>11, <2>12, <2>14
<1> QED BY <1>1, <1>2

(* The previous total is reset when a call that has set it ends.           *)
LEMMA BookedReturns ==
  ASSUME NEW h, NEW k, NEW t, HostOK(h), Booked(h, t), Returns(h, k),
         \/ k.totalUsedGas = 0
         \/ Running(h).kind = "same" /\ k.totalUsedGas = h.totalUsedGas
  PROVE  Booked(k, t)
<1>1. HostOK(k)
  BY DEF Returns
<1>2. PICK n \in Nat : n = Len(k.frames) /\ n >= 1 /\ Len(h.frames) = n + 1
  BY <1>1, RunningType DEF Returns
<1>3. Running(h) = h.frames[n + 1]
  BY <1>2 DEF Running
<1>4. \A i \in 1 .. n : /\ k.frames[i].kind = h.frames[i].kind
                       /\ k.frames[i].address = h.frames[i].address
                       /\ k.frames[i].provided = h.frames[i].provided
  BY <1>2 DEF Returns
<1>5. 1 \in 1 .. n /\ (\A i \in 2 .. n : i \in 1 .. n /\ i \in 2 .. n + 1)
      /\ \A i \in 2 .. n + 1 : i = n + 1 \/ i \in 2 .. n
  BY <1>2
<1>6. k.frames[1].provided = t.provided /\ k.frames[1].address = t.contract
  BY <1>4, <1>5 DEF Booked
<1>7. ASSUME NEW i \in 2 .. n PROVE k.frames[i].kind # "root"
  BY <1>2, <1>4, <1>5 DEF Booked
<1>8. ASSUME \A i \in 2 .. n : k.frames[i].kind = "same"
      PROVE  k.totalUsedGas = 0
  <2>1. CASE Running(h).kind = "same" /\ k.totalUsedGas = h.totalUsedGas
    <3>1. \A i \in 2 .. n + 1 : h.frames[i].kind = "same"
      BY <1>3, <1>4, <1>5, <1>8, <2>1
    <3> QED BY <1>2, <2>1, <3>1 DEF Booked
  <2> QED BY <2>1
<1> QED BY <1>2, <1>6, <1>7, <1>8 DEF Booked

-----------------------------------------------------------------------------
(* Asynchronous calls.                                                     *)

(* Step and lock are paid from what is left.                               *)
LEMMA ExecuteAsyncCallAdjusts ==
  ASSUME NEW h, HostOK(h), CanPayAsyncCall(h)
  PROVE  LET k == ExecuteAsyncCall(h)
         IN  /\ Adjusts(h, k) /\ k.output = h.output /\ k.totalUsedGas = h.totalUsedGas
             /\ Running(k).phase = Running(h).phase
             /\ k.burnt + GasLeft(k) + Running(k).gasLocked = h.burnt + GasLeft(h)
             /\ GasLeft(k) + Running(k).gasLocked <= MaxInt64
<1>1. AsyncCallStep \in Nat /\ AsyncCallbackGasLock \in Nat
  BY MeteringAssumption
<1>2. PICK m : m = Burn(h, AsyncCallStep)
  OBVIOUS
<1>3. /\ Adjusts(h, m) /\ SameFrame(Running(h), Running(m))
      /\ SameBooks(h, m) /\ m.burnt \in Nat
      /\ m.burnt + GasLeft(m) = h.burnt + GasLeft(h)
  BY <1>1, <1>2, BurnAdjusts
<1>4. HostOK(m)
  BY <1>3 DEF Adjusts
<1>5. PICK b : b = Burn(m, AsyncCallStep)
  OBVIOUS
<1>6. /\ Adjusts(m, b) /\ SameFrame(Running(m), Running(b))
      /\ SameBooks(m, b) /\ b.burnt \in Nat
      /\ b.burnt + GasLeft(b) = m.burnt + GasLeft(m)
  BY <1>1, <1>4, <1>5, BurnAdjusts
<1>7. HostOK(b)
  BY <1>6 DEF Adjusts
<1>8. PICK a \in Contracts : a = Running(h).address /\ a = Running(b).address
  BY <1>3, <1>6, RunningType DEF SameFrame, FrameType
<1>9. PICK c \in Nat : c = CodeCost[a]
  BY CostType
<1>10. PICK lock \in Nat : lock = GasToLock(a)
  <2>1. AddUint64(AsyncCallStep, AsyncCallbackGasLock) \in Nat
    BY <1>1, GasArithmetic
  <2>2. AddUint64(c, AddUint64(AsyncCallStep, AsyncCallbackGasLock)) \in Nat
    BY <2>1, GasArithmetic
  <2> QED BY <1>9, <2>2 DEF GasToLock, ComputeGasLockedForAsync
<1>11. PICK l \in Nat : l = GasLeft(b) /\ l <= MaxInt64
  BY <1>7, RunningType
<1>12. lock <= l
  <2>1. CASE a \in HasCallback
    BY <1>2, <1>5, <1>8, <1>10, <1>11, <2>1 DEF CanPayAsyncCall
  <2>2. CASE a \notin HasCallback
    BY <1>10, <2>2 DEF GasToLock
  <2> QED BY <2>1, <2>2
<1>13. lock # 0 => a \in HasCallback /\ lock = c + AsyncCallStep + AsyncCallbackGasLock
  <2> SUFFICES ASSUME lock # 0
               PROVE  a \in HasCallback /\ lock = c + AsyncCallStep + AsyncCallbackGasLock
    OBVIOUS
  <2>1. a \in HasCallback
    BY <1>10 DEF GasToLock
  <2>2. lock < MaxUint64
    BY <1>2, <1>5, <1>8, <1>10, <1>11, <2>1, Bounds DEF CanPayAsyncCall
  <2>3. lock = AddUint64(c, AddUint64(AsyncCallStep, AsyncCallbackGasLock))
    BY <1>9, <1>10, <2>1 DEF GasToLock, ComputeGasLockedForAsync
  <2>4. PICK x \in Nat, y \in Nat : x = AsyncCallStep /\ y = AsyncCallbackGasLock
    BY <1>1
  <2>5. lock = c + x + y
    BY <2>2, <2>3, <2>4, Bounds DEF AddUint64
  <2> QED BY <2>1, <2>4, <2>5
<1>14. PICK u : u = UseGas(b, lock)
  OBVIOUS
<1>15. /\ Adjusts(b, u) /\ SameFrame(Running(b), Running(u))
       /\ GasLeft(u) = SubUint64(GasLeft(b), lock)[1]
       /\ SameBooks(b, u) /\ u.burnt = b.burnt
  BY <1>7, <1>14, UseGasAdjusts
<1>16. HostOK(u) /\ GasLeft(u) = l - lock
  BY <1>11, <1>12, <1>15, GasArithmetic DEF Adjusts
<1>17. PICK f \in FrameType : f = Running(u) /\ FrameInv(f)
  BY <1>16, RunningType
<1>18. PICK g \in FrameType : g = [f EXCEPT !.gasLocked = lock]
  BY DEF FrameType
<1>19. /\ g.kind = f.kind /\ g.address = f.address /\ g.provided = f.provided
       /\ g.pushed = f.pushed /\ g.phase = f.phase /\ g.gasLocked = lock
       /\ g.gasForExecution = f.gasForExecution /\ g.points = f.points
       /\ g.initialCost = f.initialCost
  BY <1>18 DEF FrameType
<1>20. FrameInv(g)
  <2>1. g.address = a
    BY <1>8, <1>15, <1>17, <1>19 DEF SameFrame
  <2> QED BY <1>9, <1>13, <1>17, <1>19, <2>1 DEF FrameInv
<1>21. PICK k : k = SetRunning(u, g)
  OBVIOUS
<1>22. Adjusts(u, k) /\ Running(k) = g /\ SameBooks(u, k) /\ k.burnt = u.burnt
  BY <1>16, <1>17, <1>19, <1>20, <1>21, SetRunningAdjusts
<1>23. k = ExecuteAsyncCall(h)
  BY <1>2, <1>5, <1>8, <1>10, <1>14, <1>17, <1>18, <1>21 DEF ExecuteAsyncCall
<1>24. Adjusts(h, k)
  BY <1>3, <1>6, <1>15, <1>22, AdjustsAddUp
<1>25. Running(k).phase = Running(h).phase /\ k.output = h.output
       /\ k.totalUsedGas = h.totalUsedGas
  BY <1>3, <1>6, <1>15, <1>17, <1>19, <1>22 DEF SameFrame, SameBooks
<1>26. GasLeft(k) = l - lock
  BY <1>16, <1>17, <1>19, <1>22 DEF GasLeft, FrameGasLeft
<1>27. k.burnt = b.burnt /\ b.burnt + l = h.burnt + GasLeft(h)
  BY <1>3, <1>6, <1>11, <1>15, <1>22
<1>28. Running(k).gasLocked = lock
  BY <1>19, <1>22
<1>29. k.burnt + GasLeft(k) + Running(k).gasLocked = h.burnt + GasLeft(h)
  BY <1>6, <1>11, <1>12, <1>26, <1>27, <1>28
<1>30. GasLeft(k) + Running(k).gasLocked <= MaxInt64
  BY <1>11, <1>12, <1>26, <1>28, Bounds
<1> QED BY <1>23, <1>24, <1>25, <1>29, <1>30

(* The call that leaves the shard takes the gas and the lock.              *)
LEMMA SendAsyncAdjusts ==
  ASSUME NEW h, HostOK(h)
  PROVE  LET k == SendAsyncCallToDestination(h)
         IN  /\ Adjusts(h, k) /\ k.burnt = h.burnt /\ UsableGas(Running(k)) = 0
             /\ k.totalUsedGas = h.totalUsedGas
             /\ k.output.sent = h.output.sent + GasLeft(h) + Running(h).gasLocked
<1>1. PICK f \in FrameType : f = Running(h)
  BY RunningType
<1>2. PICK a \in Contracts, lock \in Nat : a = f.address /\ lock = f.gasLocked
  BY DEF FrameType
<1>3. PICK gas \in Nat : gas = GasLeft(h)
  BY RunningType
<1>4. h \in HostType /\ h.output \in OutputType /\ h.output.sent \in Nat
  BY DEF HostOK, HostType, OutputType
<1>5. PICK o \in OutputType : o = [h.output EXCEPT !.sent = @ + gas + lock]
  <2>1. h.output.sent + gas + lock \in Nat
    BY <1>4
  <2> QED BY <1>4, <2>1 DEF OutputType
<1>6. \A x \in Nat : AddUint64(x, gas + lock) \in Nat
  BY GasArithmetic
<1>7. PICK t \in [Contracts -> [forwarded : Nat, returned : Nat]] :
        t = [h.gasStates EXCEPT ![a].forwarded = AddUint64(@, gas + lock)]
  <2>1. h.gasStates \in [Contracts -> [forwarded : Nat, returned : Nat]]
    BY <1>4 DEF HostType
  <2>2. [h.gasStates EXCEPT ![a].forwarded = AddUint64(@, gas + lock)]
          \in [Contracts -> [forwarded : Nat, returned : Nat]]
    BY <1>6, <2>1
  <2> QED BY <2>2
<1>8. PICK s \in HostType : s = [h EXCEPT !.output = o, !.gasStates = t]
  BY <1>4 DEF HostType
<1>9. s = [h EXCEPT !.output.sent = @ + gas + lock,
                    !.gasStates[a].forwarded = AddUint64(@, gas + lock)]
  BY <1>4, <1>5, <1>7, <1>8 DEF HostType
<1>10. /\ s.frames = h.frames /\ s.burnt = h.burnt /\ s.output = o
       /\ s.totalUsedGas = h.totalUsedGas /\ s.gasStates = t
  BY <1>4, <1>8 DEF HostType
<1>11. Adjusts(h, s) /\ Running(s) = Running(h) /\ GasLeft(s) = gas
  BY <1>3, <1>10, BooksChange
<1>12. PICK u : u = UseGas(s, gas)
  OBVIOUS
<1>13. /\ Adjusts(s, u) /\ GasLeft(u) = SubUint64(gas, gas)[1]
       /\ SameBooks(s, u) /\ u.burnt = s.burnt
  BY <1>11, <1>12, UseGasAdjusts DEF Adjusts
<1>14. HostOK(u) /\ GasLeft(u) = 0
  <2>1. SubUint64(gas, gas)[1] = 0
    BY DEF SubUint64
  <2> QED BY <1>13, <2>1 DEF Adjusts
<1>15. PICK k : k = EndFunction(u)
  OBVIOUS
<1>16. /\ Adjusts(u, k) /\ SameBooks(u, k) /\ k.burnt = u.burnt
       /\ UsableGas(Running(k)) = 0
  BY <1>14, <1>15, PhaseAdjusts DEF EndFunction
<1>17. k = SendAsyncCallToDestination(h)
  BY <1>1, <1>2, <1>3, <1>9, <1>12, <1>15 DEF SendAsyncCallToDestination
<1>18. Adjusts(h, k)
  BY <1>11, <1>13, <1>16, AdjustsAddUp
<1>19. k.output.sent = h.output.sent + gas + lock
  BY <1>4, <1>5, <1>10, <1>13, <1>16 DEF SameBooks, OutputType
<1>20. k.totalUsedGas = h.totalUsedGas
  BY <1>10, <1>13, <1>16 DEF SameBooks
<1> QED BY <1>1, <1>2, <1>3, <1>10, <1>13, <1>16, <1>17, <1>18, <1>19, <1>20

(* The callback of an asynchronous call, which runs when the gas of the    *)
(* callback covers its cost and the reading of its code.                   *)
LEMMA CallbackKeeps ==
  ASSUME NEW h, HostOK(h), NEW v, v.remaining \in Nat, v.ok \in BOOLEAN,
         v.remaining + Running(h).gasLocked <= MaxInt64,
         NEW d \in Nat, NEW start, NEW t
  PROVE  LET k == ExecuteSyncCallbackCall(h, v, d, start)
         IN  /\ HostOK(k) /\ (Booked(h, t) => Booked(k, t))
             /\ (/\ CallbackGas(h, v) > CallbackCost(d) /\ start = "ok"
                 /\ Running(h).address \in HasCallback
                 /\ ExecutionCost(Running(h).address) <= CallbackGas(h, v) - CallbackCost(d))
                => Running(k).kind = "callback" /\ Running(k).phase = "running"
<1>1. PICK f \in FrameType : f = Running(h) /\ FrameInv(f)
  BY RunningType
<1>2. PICK used \in Nat : used = GasUsedForExecution(h)
  BY GasUsedType
<1>3. PICK c \in FrameType : c = [f EXCEPT !.gasConsumed = used, !.destinationOk = v.ok]
  BY DEF FrameType
<1>4. /\ c.kind = f.kind /\ c.address = f.address /\ c.provided = f.provided
      /\ c.pushed = f.pushed /\ c.phase = f.phase /\ c.gasLocked = f.gasLocked
      /\ c.gasForExecution = f.gasForExecution /\ c.points = f.points
      /\ c.initialCost = f.initialCost
  BY <1>3 DEF FrameType
<1>5. FrameInv(c)
  BY <1>1, <1>4 DEF FrameInv
<1>6. PICK m : m = SetRunning(h, c)
  OBVIOUS
<1>7. Adjusts(h, m) /\ SameBooks(h, m) /\ HostOK(m)
  BY <1>1, <1>4, <1>5, <1>6, SetRunningAdjusts DEF Adjusts
<1>8. PICK z : z = SetPointsUsed(m, 0)
  OBVIOUS
<1>9. Adjusts(m, z) /\ SameBooks(m, z) /\ HostOK(z)
  <2>1. 0 \in Nat
    OBVIOUS
  <2>2. Adjusts(m, z) /\ SameBooks(m, z)
    BY <1>7, <1>8, <2>1, SetPointsUsedAdjusts
  <2> QED BY <2>2 DEF Adjusts
<1>10. PICK gas \in Nat : gas = CallbackGas(h, v) /\ gas <= MaxInt64
  BY <1>1 DEF CallbackGas, FrameType
<1>11. PICK cost \in Nat : cost = CallbackCost(d)
  BY MeteringAssumption, GasArithmetic DEF CallbackCost
<1>12. PICK k : k = ExecuteSyncCallbackCall(h, v, d, start)
  OBVIOUS
<1>13. CASE gas <= cost
  <2>1. k = EndFunction(h)
    BY <1>10, <1>11, <1>12, <1>13 DEF ExecuteSyncCallbackCall
  <2>2. HostOK(k) /\ (Booked(h, t) => Booked(k, t))
    BY <2>1, PhaseAdjusts, BookedPhases DEF EndFunction, Adjusts
  <2> QED BY <1>10, <1>11, <1>12, <1>13, <2>2
<1>14. CASE gas > cost
  <2>1. PICK g \in Nat : g = gas - cost
    BY <1>14
  <2>2. g <= MaxInt64 /\ f.address \in Contracts
    BY <1>10, <2>1, Bounds DEF FrameType
  <2>3. PICK e : e = ExecuteOnDestContext(z, "callback", f.address, g, start)
    OBVIOUS
  <2>4. Calls(z, e, "callback", f.address, g, start)
    BY <1>9, <2>2, <2>3, CallKeeps
  <2>5. HostOK(e) /\ e \in HostType /\ Running(e).kind = "callback"
        /\ (start = "ok" /\ ExecutionCost(f.address) <= g => Running(e).phase = "running")
    BY <2>4 DEF Calls, HostOK
  <2>6. PICK x \in HostType : x = [e EXCEPT !.burnt = @ + cost]
    <3>1. e.burnt + cost \in Nat
      BY <2>5 DEF HostType
    <3>2. [e EXCEPT !.burnt = e.burnt + cost] \in HostType
      BY <2>5, <3>1 DEF HostType
    <3> QED BY <3>2
  <2>7. x.frames = e.frames /\ x.totalUsedGas = e.totalUsedGas
    BY <2>5, <2>6 DEF HostType
  <2>8. HostOK(x) /\ Running(x) = Running(e)
    BY <2>5, <2>7, BooksChange DEF Adjusts
  <2>9. k = IF f.address \notin HasCallback /\ Running(e).phase = "running"
              THEN EndFunction(x) ELSE x
    <3>1. c = [Running(h) EXCEPT !.gasConsumed = GasUsedForExecution(h), !.destinationOk = v.ok]
      BY <1>1, <1>2, <1>3
    <3>2. e = ExecuteOnDestContext(SetPointsUsed(SetRunning(h, c), 0), "callback", c.address,
                CallbackGas(h, v) - CallbackCost(d), start)
      BY <1>4, <1>6, <1>8, <1>10, <1>11, <2>1, <2>3
    <3>3. ~ (CallbackGas(h, v) <= CallbackCost(d))
      BY <1>10, <1>11, <1>14
    <3>4. x = [e EXCEPT !.burnt = @ + CallbackCost(d)]
      BY <1>11, <2>6
    <3>5. k = IF c.address \notin HasCallback /\ Running(e).phase = "running"
                THEN EndFunction(x) ELSE x
      BY ONLY <1>12, <3>1, <3>2, <3>3, <3>4 DEF ExecuteSyncCallbackCall
    <3> QED BY <1>4, <3>5
  <2>10. HostOK(EndFunction(x))
    BY <2>8, PhaseAdjusts DEF EndFunction, Adjusts
  <2>11. HostOK(k)
    BY <2>8, <2>9, <2>10
  <2>12. ASSUME start = "ok", f.address \in HasCallback, ExecutionCost(f.address) <= g
         PROVE  Running(k).kind = "callback" /\ Running(k).phase = "running"
    BY <2>5, <2>8, <2>9, <2>12
  <2>13. ASSUME Booked(h, t) PROVE Booked(k, t)
    <3>1. Booked(m, t)
      BY <1>7, <2>13, BookedAdjusts DEF SameBooks
    <3>2. Booked(z, t)
      BY <1>7, <1>9, <3>1, BookedAdjusts DEF SameBooks
    <3>3. Booked(e, t)
      BY <1>9, <2>4, <3>2, BookedCalls
    <3>4. Booked(x, t)
      BY <2>7, <3>3, BookedBooks
    <3>5. Booked(EndFunction(x), t)
      BY <2>8, <3>4, BookedPhases
    <3> QED BY <2>9, <3>4, <3>5
  <2> QED BY <1>1, <1>10, <1>11, <1>12, <2>1, <2>11, <2>12, <2>13
<1> QED BY <1>10, <1>11, <1>13, <1>14

(* The end of a callback.                                                  *)
LEMMA FinishCallbackKeeps ==
  ASSUME NEW h, HostOK(h), NEW v, NEW t
  PROVE  HostOK(FinishCallback(h, v)) /\ (Booked(h, t) => Booked(FinishCallback(h, v), t))
<1>1. Running(h).gasConsumed \in Nat
  BY RunningType DEF FrameType
<1>2. PICK u : u = UseGas(h, Running(h).gasConsumed) /\ Adjusts(h, u) /\ SameBooks(h, u)
  BY <1>1, UseGasAdjusts
<1>3. PICK m : m = IF v.ok /\ Running(h).destinationOk
                     THEN UseGas(h, Running(h).gasConsumed) ELSE h
  OBVIOUS
<1>4. HostOK(m) /\ (Booked(h, t) => Booked(m, t))
  <2>1. HostOK(u) /\ (Booked(h, t) => Booked(u, t))
    BY <1>2, BookedAdjusts DEF Adjusts, SameBooks
  <2> QED BY <1>2, <1>3, <2>1
<1>5. FinishCallback(h, v) = EndFunction(m)
  BY <1>3 DEF FinishCallback
<1>6. HostOK(EndFunction(m)) /\ (Booked(h, t) => Booked(EndFunction(m), t))
  BY <1>4, PhaseAdjusts, BookedPhases DEF EndFunction, Adjusts
<1> QED BY <1>5, <1>6

(* What the destination of an asynchronous call leaves and what its caller *)
(* locked fit the counter together.                                        *)
LEMMA LockReturns ==
  ASSUME NEW h, HostOK(h), Running(h).kind = "async", NEW v, VMOutputOK(h, v),
         NEW k, Returns(h, k)
  PROVE  /\ v.remaining + Running(k).gasLocked <= MaxInt64
         /\ Running(k).gasLocked = h.frames[Len(h.frames) - 1].gasLocked
<1>1. HostOK(k)
  BY DEF Returns
<1>2. PICK n \in Nat : n = Len(k.frames) /\ n >= 1 /\ Running(k) = k.frames[n]
  BY <1>1, RunningType
<1>3. Len(h.frames) = n + 1 /\ Running(k).gasLocked = h.frames[n].gasLocked
  BY <1>2 DEF Returns, SameFrame
<1>4. PICK f \in FrameType : f = Running(h) /\ FrameInv(f)
  BY RunningType
<1>5. Linked(h.frames[n], f)
  <2>1. n + 1 \in 2 .. Len(h.frames) /\ (n + 1) - 1 = n /\ f = h.frames[n + 1]
    BY <1>2, <1>3, <1>4 DEF Running
  <2>2. \A i \in 2 .. Len(h.frames) : Linked(h.frames[i - 1], h.frames[i])
    BY DEF HostOK, FramesInv
  <2>3. Linked(h.frames[(n + 1) - 1], h.frames[n + 1])
    BY ONLY <2>1, <2>2
  <2> QED BY <2>1, <2>3
<1>6. f.provided + Running(k).gasLocked <= MaxInt64
  BY <1>3, <1>4, <1>5 DEF Linked
<1>7. v.remaining <= f.provided
  <2>1. UsableGas(f) <= FrameGasLeft(f) /\ FrameGasLeft(f) <= f.gasForExecution
        /\ UsableGas(f) \in Nat /\ FrameGasLeft(f) \in Nat
    BY GasLeftType
  <2>2. f.gasForExecution <= f.provided /\ f.gasForExecution \in Nat /\ f.provided \in Nat
    BY <1>4 DEF FrameInv, FrameType
  <2>3. v.remaining <= UsableGas(f) /\ v.remaining \in Nat
    BY <1>4 DEF VMOutputOK
  <2> QED BY <2>1, <2>2, <2>3
<1>8. v.remaining + Running(k).gasLocked <= MaxInt64
  <2>1. Running(k).gasLocked \in Nat /\ f.provided \in Nat /\ v.remaining \in Nat
    BY <1>1, RunningType DEF FrameType, VMOutputOK
  <2> QED BY <1>6, <1>7, <2>1, Bounds
<1> QED BY <1>3, <1>8

(* What the caller does when a call on its own context has finished.       *)
LEMMA ResumeKeeps ==
  ASSUME NEW h, HostOK(h), Running(h).kind \notin {"root", "same"},
         NEW v, VMOutputOK(h, v), NEW d \in Nat, NEW start, NEW t
  PROVE  LET k == Resume(FinishExecuteOnDestContext(h, v), Running(h).kind, v, d, start)
         IN  HostOK(k) /\ (Booked(h, t) => Booked(k, t))
<1>1. PICK k : k = FinishExecuteOnDestContext(h, v)
  OBVIOUS
<1>2. Returns(h, k) /\ k.totalUsedGas = 0
  BY <1>1, FinishDestReturns
<1>3. HostOK(k) /\ k \in HostType /\ (Booked(h, t) => Booked(k, t))
  <2>1. HostOK(k) /\ k \in HostType
    BY <1>2 DEF Returns, HostOK
  <2> QED BY <1>2, <2>1, BookedReturns
<1>4. PICK f \in FrameType : f = Running(h) /\ FrameInv(f)
  BY RunningType
<1>5. v.ok \in BOOLEAN /\ v.remaining \in Nat
  BY DEF VMOutputOK
<1>6. PICK r : r = Resume(k, f.kind, v, d, start)
  OBVIOUS
<1>7. HostOK(FailExecution(k)) /\ (Booked(h, t) => Booked(FailExecution(k), t))
  BY <1>3, PhaseAdjusts, BookedPhases DEF FailExecution, Adjusts
<1>8. CASE f.kind = "dest"
  <2>1. r \in {k, FailExecution(k)}
    BY <1>6, <1>8 DEF Resume
  <2> QED BY <1>1, <1>3, <1>4, <1>6, <1>7, <2>1
<1>9. CASE f.kind = "transferExecute"
  <2>1. r = k
    BY <1>6, <1>9 DEF Resume
  <2> QED BY <1>1, <1>3, <1>4, <1>6, <2>1
<1>10. CASE f.kind = "create"
  <2>1. PICK e : e = [k EXCEPT !.output.gasUsed[NewContract] = 0,
                               !.output.created = @ \ {NewContract}]
    OBVIOUS
  <2>2. e \in HostType /\ e.frames = k.frames /\ e.totalUsedGas = k.totalUsedGas
    BY <1>3, <2>1 DEF HostType, OutputType
  <2>3. HostOK(e) /\ (Booked(h, t) => Booked(e, t))
    BY <1>3, <2>2, BooksChange, BookedBooks DEF Adjusts
  <2>4. r \in {k, e}
    BY <1>6, <1>10, <2>1 DEF Resume
  <2> QED BY <1>1, <1>3, <1>4, <1>6, <2>3, <2>4
<1>11. CASE f.kind = "async"
  <2>1. v.remaining + Running(k).gasLocked <= MaxInt64
    BY <1>2, <1>4, <1>11, LockReturns
  <2>2. r = ExecuteSyncCallbackCall(k, v, d, start)
    BY <1>6, <1>11 DEF Resume
  <2>3. HostOK(r) /\ (Booked(k, t) => Booked(r, t))
    BY <1>3, <1>5, <2>1, <2>2, CallbackKeeps
  <2> QED BY <1>1, <1>3, <1>4, <1>6, <2>3
<1>12. CASE f.kind = "callback"
  <2>1. r = FinishCallback(k, v)
    BY <1>6, <1>12 DEF Resume
  <2> QED BY <1>1, <1>3, <1>4, <1>6, <2>1, FinishCallbackKeeps
<1>13. f.kind \in {"dest", "transferExecute", "create", "async", "callback"}
  BY <1>4 DEF FrameType, CallKinds
<1> QED BY <1>8, <1>9, <1>10, <1>11, <1>12, <1>13

-----------------------------------------------------------------------------
(* Gas that is paid for.                                                   *)

(* What is claimed is gas.                                                 *)
LEMMA ClaimedType ==
  ASSUME NEW h, HostOK(h)
  PROVE  /\ h.burnt \in Nat /\ h.output.sent \in Nat /\ Usable(h.frames) \in Nat
         /\ Claimed(h) \in Nat /\ Claimed(h) = h.burnt + Usable(h.frames) + h.output.sent
         /\ UsableGas(Running(h)) \in Nat /\ UsableGas(Running(h)) <= Usable(h.frames)
<1>1. h.burnt \in Nat /\ h.output.sent \in Nat
  BY DEF HostOK, HostType, OutputType
<1>2. PICK t \in Seq(FrameType) :
        Usable(t) \in Nat /\ Usable(h.frames) = Usable(t) + UsableGas(Running(h))
  BY Callers
<1>3. UsableGas(Running(h)) \in Nat
  BY RunningType, GasLeftType
<1>4. Usable(h.frames) \in Nat /\ UsableGas(Running(h)) <= Usable(h.frames)
  BY <1>2, <1>3
<1>5. Claimed(h) = h.burnt + Usable(h.frames) + h.output.sent
  BY DEF Claimed
<1>6. Claimed(h) \in Nat
  <2>1. PICK x \in Nat, y \in Nat, z \in Nat :
          x = h.burnt /\ y = Usable(h.frames) /\ z = h.output.sent
    BY <1>1, <1>4
  <2>2. x + y + z \in Nat
    OBVIOUS
  <2> QED BY ONLY <1>5, <2>1, <2>2
<1> QED BY <1>1, <1>3, <1>4, <1>5, <1>6

(* An adjustment that does not claim more.                                 *)
LEMMA PaidAdjusts ==
  ASSUME NEW h, NEW k, HostOK(h), NEW gas \in Nat, PaidInv(h, gas), Adjusts(h, k),
         h.output.sent <= k.output.sent,
         k.burnt + UsableGas(Running(k)) + k.output.sent
           <= h.burnt + UsableGas(Running(h)) + h.output.sent
  PROVE  PaidInv(k, gas)
<1>1. HostOK(k)
  BY DEF Adjusts
<1>2. PICK n \in Nat : n = Len(h.frames) /\ n >= 1 /\ n = Len(k.frames)
  BY RunningType DEF Adjusts
<1>3. ASSUME NEW i \in 1 .. n
      PROVE  k.frames[i].kind = h.frames[i].kind /\ k.frames[i].pushed = h.frames[i].pushed
  <2>1. CASE i = n
    BY <1>2, <2>1 DEF Adjusts, Running
  <2>2. CASE i \in 1 .. n - 1
    BY <1>2, <2>2 DEF Adjusts
  <2>3. i = n \/ i \in 1 .. n - 1
    OBVIOUS
  <2> QED BY <2>1, <2>2, <2>3
<1>4. /\ \A i \in 1 .. n : h.frames[i].kind \in PaidKinds
                           /\ h.frames[i].pushed.sent <= h.output.sent
      /\ \A i, j \in 1 .. n : i < j => h.frames[i].pushed.sent <= h.frames[j].pushed.sent
  BY <1>2 DEF PaidInv, PushedInv
<1>5. \A i \in 1 .. n : h.frames[i].pushed.sent \in Nat
  <2>1. PICK s \in Seq(FrameType) : s = h.frames
    BY DEF HostOK, HostType
  <2>2. n = Len(s)
    BY <1>2, <2>1
  <2>3. \A i \in 1 .. n : s[i] \in FrameType
    BY <2>2
  <2> QED BY <2>1, <2>3 DEF FrameType, OutputType
<1>6. h.output.sent \in Nat /\ k.output.sent \in Nat /\ k.burnt \in Nat /\ h.burnt \in Nat
      /\ UsableGas(Running(k)) \in Nat /\ UsableGas(Running(h)) \in Nat
  BY <1>1, ClaimedType
<1>7. \A i \in 1 .. n : k.frames[i].pushed.sent <= k.output.sent
  BY <1>3, <1>4, <1>5, <1>6
<1>8. PushedInv(k.frames, k.output)
  BY <1>2, <1>3, <1>4, <1>7 DEF PushedInv
<1>9. /\ Claimed(h) \in Nat /\ Claimed(k) \in Nat
      /\ Claimed(k) - Claimed(h) =
           (k.burnt + UsableGas(Running(k)) + k.output.sent)
             - (h.burnt + UsableGas(Running(h)) + h.output.sent)
  BY AdjustedClaim
<1>10. PICK x \in Nat, y \in Nat :
         /\ x = k.burnt + UsableGas(Running(k)) + k.output.sent
         /\ y = h.burnt + UsableGas(Running(h)) + h.output.sent
  BY <1>6
<1>11. Claimed(k) <= Claimed(h)
  BY <1>9, <1>10
<1>12. Claimed(k) <= gas
  BY <1>9, <1>11 DEF PaidInv
<1> QED BY <1>8, <1>12 DEF PaidInv

(* A call that is paid for.                                                *)
LEMMA PaidCalls ==
  ASSUME NEW h, NEW k, HostOK(h), NEW gas \in Nat, PaidInv(h, gas),
         NEW kind \in PaidKinds, NEW a, NEW g, NEW start, Calls(h, k, kind, a, g, start),
         Running(h).phase # "failed", g <= GasLeft(h)
  PROVE  PaidInv(k, gas)
<1>1. HostOK(k) /\ k.output = h.output /\ Claimed(k) <= Claimed(h)
  BY DEF Calls
<1>2. PICK n \in Nat : n = Len(h.frames) /\ n >= 1 /\ Len(k.frames) = n + 1
  BY RunningType DEF Calls
<1>3. PICK s \in Nat : s = h.output.sent
  BY ClaimedType
<1>4. k.frames[n + 1].kind = kind /\ k.frames[n + 1].pushed.sent = s
  BY <1>2, <1>3 DEF Calls, Running
<1>5. ASSUME NEW i \in 1 .. n
      PROVE  /\ k.frames[i].kind \in PaidKinds /\ k.frames[i].pushed.sent <= s
             /\ k.frames[i].pushed.sent = h.frames[i].pushed.sent
  BY <1>2, <1>3 DEF Calls, PaidInv, PushedInv
<1>6. \A i, j \in 1 .. n : i < j => h.frames[i].pushed.sent <= h.frames[j].pushed.sent
  BY <1>2 DEF PaidInv, PushedInv
<1>7. ASSUME NEW i \in 1 .. n + 1
      PROVE  k.frames[i].kind \in PaidKinds /\ k.frames[i].pushed.sent <= s
  <2>1. i = n + 1 \/ i \in 1 .. n
    OBVIOUS
  <2> QED BY <1>4, <1>5, <2>1
<1>8. ASSUME NEW i \in 1 .. n + 1, NEW j \in 1 .. n + 1, i < j
      PROVE  k.frames[i].pushed.sent <= k.frames[j].pushed.sent
  <2>1. i \in 1 .. n
    BY <1>8
  <2>2. CASE j = n + 1
    BY <1>4, <1>5, <2>1, <2>2
  <2>3. CASE j \in 1 .. n
    BY <1>5, <1>6, <1>8, <2>1, <2>3
  <2>4. j = n + 1 \/ j \in 1 .. n
    OBVIOUS
  <2> QED BY <2>2, <2>3, <2>4
<1>9. PushedInv(k.frames, k.output)
  BY <1>1, <1>2, <1>3, <1>7, <1>8 DEF PushedInv
<1>10. Claimed(k) <= gas
  <2>1. Claimed(h) \in Nat /\ Claimed(k) \in Nat /\ Claimed(h) <= gas
    BY <1>1, ClaimedType DEF PaidInv
  <2> QED BY <1>1, <2>1
<1> QED BY <1>9, <1>10 DEF PaidInv

(* The end of a call: whatever output remains, no more was sent.           *)
LEMMA PaidReturns ==
  ASSUME NEW h, NEW k, HostOK(h), NEW gas \in Nat, PaidInv(h, gas),
         Returns(h, k), OutputAfter(h, k)
  PROVE  PaidInv(k, gas)
<1>1. HostOK(k)
  BY DEF Returns
<1>2. PICK n \in Nat : n = Len(k.frames) /\ n >= 1 /\ Len(h.frames) = n + 1
  BY <1>1, RunningType DEF Returns
<1>3. /\ \A i \in 1 .. n + 1 : h.frames[i].kind \in PaidKinds
                               /\ h.frames[i].pushed.sent <= h.output.sent
      /\ \A i, j \in 1 .. n + 1 :
           i < j => h.frames[i].pushed.sent <= h.frames[j].pushed.sent
  BY <1>2 DEF PaidInv, PushedInv
<1>4. ASSUME NEW i \in 1 .. n
      PROVE  k.frames[i].kind = h.frames[i].kind /\ k.frames[i].pushed = h.frames[i].pushed
  BY <1>2 DEF Returns
<1>5. Running(h) = h.frames[n + 1] /\ n + 1 \in 1 .. n + 1
  BY <1>2 DEF Running
<1>6. k.output.sent \in {h.output.sent, h.frames[n + 1].pushed.sent}
  BY <1>5 DEF OutputAfter
<1>7. ASSUME NEW i \in 1 .. n PROVE k.frames[i].pushed.sent <= k.output.sent
  <2>1. i \in 1 .. n + 1 /\ i < n + 1
    OBVIOUS
  <2>2. /\ h.frames[i].pushed.sent <= h.output.sent
        /\ h.frames[i].pushed.sent <= h.frames[n + 1].pushed.sent
    BY <1>3, <1>5, <2>1
  <2> QED BY <1>4, <1>6, <2>2
<1>8. ASSUME NEW i \in 1 .. n, NEW j \in 1 .. n, i < j
      PROVE  k.frames[i].pushed.sent <= k.frames[j].pushed.sent
  <2>1. i \in 1 .. n + 1 /\ j \in 1 .. n + 1
    OBVIOUS
  <2>2. h.frames[i].pushed.sent <= h.frames[j].pushed.sent
    BY <1>3, <1>8, <2>1
  <2> QED BY <1>4, <2>2
<1>9. \A i \in 1 .. n : k.frames[i].kind \in PaidKinds
  <2>1. \A i \in 1 .. n : i \in 1 .. n + 1
    OBVIOUS
  <2> QED BY <1>3, <1>4, <2>1
<1>10. PushedInv(k.frames, k.output)
  BY <1>2, <1>7, <1>8, <1>9 DEF PushedInv
<1>11. k.output.sent <= h.output.sent
  <2>1. h.frames[n + 1].pushed.sent <= h.output.sent /\ h.output.sent \in Nat
    BY <1>3, <1>5, ClaimedType
  <2> QED BY <1>6, <2>1
<1>12. /\ h.burnt \in Nat /\ h.output.sent \in Nat /\ Usable(h.frames) \in Nat
       /\ Claimed(h) = h.burnt + Usable(h.frames) + h.output.sent
       /\ k.output.sent \in Nat /\ Usable(k.frames) \in Nat
       /\ Claimed(k) = k.burnt + Usable(k.frames) + k.output.sent
  BY <1>1, ClaimedType
<1>13. k.burnt = h.burnt /\ Usable(k.frames) <= Usable(h.frames) /\ Claimed(h) <= gas
  BY DEF Returns, PaidInv
<1>14. Claimed(k) <= gas
  BY <1>11, <1>12, <1>13
<1> QED BY <1>10, <1>14 DEF PaidInv

(* A frame that fails claims nothing any more.                             *)
LEMMA PaidFails ==
  ASSUME NEW h, HostOK(h), NEW gas \in Nat, PaidInv(h, gas)
  PROVE  PaidInv(FailExecution(h), gas)
<1>1. PICK k : k = FailExecution(h)
  OBVIOUS
<1>2. /\ Adjusts(h, k) /\ SameBooks(h, k) /\ k.burnt = h.burnt
      /\ UsableGas(Running(k)) = 0
  BY <1>1, PhaseAdjusts DEF FailExecution
<1>3. h.burnt \in Nat /\ h.output.sent \in Nat /\ UsableGas(Running(h)) \in Nat
  BY ClaimedType
<1>4. h.output.sent <= k.output.sent
      /\ k.burnt + UsableGas(Running(k)) + k.output.sent
           <= h.burnt + UsableGas(Running(h)) + h.output.sent
  BY <1>2, <1>3 DEF SameBooks
<1> QED BY <1>1, <1>2, <1>4, PaidAdjusts

(* Gas that is burnt was there to be used.                                 *)
LEMMA PaidBurns ==
  ASSUME NEW h, HostOK(h), NEW gas \in Nat, Running(h).phase # "failed", NEW cost \in Nat
  PROVE  LET k == Burn(h, cost)
         IN  /\ HostOK(k) /\ Running(k).phase = Running(h).phase
             /\ PaidInv(h, gas) => PaidInv(k, gas)
<1>1. PICK k : k = Burn(h, cost)
  OBVIOUS
<1>2. /\ Adjusts(h, k) /\ SameFrame(Running(h), Running(k))
      /\ SameBooks(h, k) /\ k.burnt \in Nat
      /\ k.burnt + GasLeft(k) = h.burnt + GasLeft(h)
  BY <1>1, BurnAdjusts
<1>3. HostOK(k) /\ Running(k).phase = Running(h).phase
  BY <1>2 DEF Adjusts, SameFrame
<1>4. UsableGas(Running(h)) = GasLeft(h) /\ UsableGas(Running(k)) = GasLeft(k)
  BY <1>3, Alive
<1>5. /\ h.burnt \in Nat /\ h.output.sent \in Nat /\ UsableGas(Running(h)) \in Nat
      /\ UsableGas(Running(k)) \in Nat
  BY <1>3, ClaimedType
<1>6. k.output.sent = h.output.sent
  BY <1>2 DEF SameBooks
<1>7. h.output.sent <= k.output.sent
      /\ k.burnt + UsableGas(Running(k)) + k.output.sent
           <= h.burnt + UsableGas(Running(h)) + h.output.sent
  BY <1>2, <1>4, <1>5, <1>6
<1>8. PaidInv(h, gas) => PaidInv(k, gas)
  BY <1>2, <1>7, PaidAdjusts
<1> QED BY <1>1, <1>3, <1>8

-----------------------------------------------------------------------------
(* Steps of the transaction.                                               *)

(* A workload is one.                                                      *)
LEMMA LoadType ==
  ASSUME StateType
  PROVE  /\ tx.load \in Workloads /\ tx.load \in WorkloadType /\ tx.provided \in Nat
         /\ tx.load.maxOps \in Nat
         /\ \A g \in tx.load.provided \cup tx.load.dataCosts : g \in Nat /\ g <= MaxInt64
<1>1. tx.load \in Workloads /\ tx.provided \in Nat
  BY DEF StateType
<1>2. tx.load \in WorkloadType
  BY <1>1, MeteringAssumption
<1> QED BY <1>1, <1>2, Bounds DEF WorkloadType

(* While the transaction runs, its frames are frames.                      *)
LEMMA RunningState ==
  ASSUME MeterInv, phase = "running"
  PROVE  /\ HostOK(host) /\ tx.provided \in Nat
         /\ PaidLoad(tx.load) => PaidInv(host, tx.provided)
         /\ Booked(host, tx)
<1>1. StateType /\ FramesInv(host.frames)
  BY DEF MeterInv
<1>2. HostOK(host)
  BY <1>1 DEF StateType, HostOK
<1> QED BY <1>1, <1>2 DEF MeterInv, StateType

(* A step that goes on running.                                            *)
LEMMA StillRunning ==
  ASSUME MeterInv, phase = "running", HostOK(host'),
         PaidLoad(tx.load) => PaidInv(host', tx.provided), Booked(host', tx),
         UNCHANGED <<phase, tx, result>>, ops' \in 0 .. tx.load.maxOps
  PROVE  MeterInv'
<1>1. StateType /\ result = NoResult
  BY DEF MeterInv
<1>2. host' \in HostType /\ host'.frames # <<>> /\ FramesInv(host'.frames)
  BY DEF HostOK
<1>3. StateType'
  BY <1>1, <1>2 DEF StateType
<1>4. OutputGasIsPaid' /\ ReportedGasIsProvided'
  BY <1>1 DEF OutputGasIsPaid, ReportedGasIsProvided, NoResult
<1> QED BY <1>1, <1>2, <1>3, <1>4 DEF MeterInv

(* A host call finds a running frame.                                      *)
LEMMA HookState ==
  ASSUME MeterInv, NEW call, Hook(call)
  PROVE  /\ HostOK(host) /\ Running(host).phase = "running" /\ tx.provided \in Nat
         /\ PaidLoad(tx.load) => PaidInv(host, tx.provided) /\ call \notin UnpaidCalls
         /\ Booked(host, tx)
<1>1. phase = "running" /\ call \in tx.load.hostCalls /\ Running(host).phase = "running"
  BY DEF Hook
<1> QED BY <1>1, RunningState DEF PaidLoad

(* A host call that leaves frames, and claims no more.                     *)
LEMMA HookKeeps ==
  ASSUME MeterInv, NEW call, Hook(call), HostOK(host'),
         PaidLoad(tx.load) => PaidInv(host', tx.provided), Booked(host', tx)
  PROVE  MeterInv'
<1>1. phase = "running" /\ UNCHANGED <<phase, tx, result>>
  BY DEF Hook
<1>2. ops \in 0 .. tx.load.maxOps /\ tx.load.maxOps \in Nat
  BY LoadType DEF MeterInv, StateType
<1>3. ops' \in 0 .. tx.load.maxOps
  BY <1>2 DEF Hook
<1> QED BY <1>1, <1>3, StillRunning

(* Instructions and cheap hooks.                                           *)
LEMMA UseKeeps == ASSUME MeterInv, NEW gas \in Nat, Use(gas) PROVE MeterInv'
<1>1. Hook("use") /\ host' = Burn(host, gas)
  BY DEF Use
<1>2. /\ HostOK(host) /\ Running(host).phase = "running" /\ tx.provided \in Nat
      /\ PaidLoad(tx.load) => PaidInv(host, tx.provided)
      /\ Booked(host, tx)
  BY <1>1, HookState
<1>3. HostOK(host') /\ (PaidLoad(tx.load) => PaidInv(host', tx.provided))
  BY <1>1, <1>2, PaidBurns
<1>4. Booked(host', tx)
  BY <1>1, <1>2, BookedBurns
<1> QED BY <1>1, <1>3, <1>4, HookKeeps

(* A limit is bound to what is left.                                       *)
LEMMA BoundLimit ==
  ASSUME NEW h, HostOK(h), NEW limit \in Limits
  PROVE  /\ BoundGasLimit(h, limit) \in Nat /\ BoundGasLimit(h, limit) <= GasLeft(h)
         /\ BoundGasLimit(h, limit) <= MaxInt64
<1>1. limit \in Nat
  BY MeteringAssumption
<1>2. GasLeft(h) \in Nat /\ GasLeft(h) <= MaxInt64
  BY RunningType
<1>3. BoundGasLimit(h, limit) \in Nat /\ BoundGasLimit(h, limit) <= GasLeft(h)
  BY <1>1, <1>2, GasArithmetic DEF BoundGasLimit
<1> QED BY <1>2, <1>3, Bounds

(* Hooks that call another contract pay their own cost first.              *)
LEMMA CallHook ==
  ASSUME MeterInv, NEW call, Hook(call)
  PROVE  LET h == Burn(host, ApiCost)
         IN  /\ HostOK(h) /\ Running(h).phase = "running" /\ tx.provided \in Nat
             /\ PaidLoad(tx.load) => PaidInv(h, tx.provided) /\ call \notin UnpaidCalls
             /\ Booked(h, tx)
<1>1. /\ HostOK(host) /\ Running(host).phase = "running" /\ tx.provided \in Nat
      /\ PaidLoad(tx.load) => PaidInv(host, tx.provided) /\ call \notin UnpaidCalls
      /\ Booked(host, tx)
  BY HookState
<1>2. ApiCost \in Nat
  BY MeteringAssumption
<1> QED BY <1>1, <1>2, PaidBurns, BookedBurns

(* executeOnDestContext and transferValueExecute.                          *)
LEMMA CallDestKeeps ==
  ASSUME MeterInv, NEW call \in {"dest", "transferExecute"}, NEW a \in Contracts,
         NEW limit \in Limits, NEW start, CallDest(call, a, limit, start)
  PROVE  MeterInv'
<1>1. PICK h : h = Burn(host, ApiCost)
  OBVIOUS
<1>2. Hook(call)
      /\ host' = ExecuteOnDestContext(h, call, a, BoundGasLimit(h, limit), start)
  BY <1>1 DEF CallDest
<1>3. /\ HostOK(h) /\ Running(h).phase = "running" /\ tx.provided \in Nat
      /\ PaidLoad(tx.load) => PaidInv(h, tx.provided)
      /\ Booked(h, tx)
  BY <1>1, <1>2, CallHook
<1>4. PICK g \in Nat : g = BoundGasLimit(h, limit) /\ g <= GasLeft(h) /\ g <= MaxInt64
  BY <1>3, BoundLimit
<1>5. PICK k : k = host'
  OBVIOUS
<1>6. Calls(h, k, call, a, g, start)
  BY <1>2, <1>3, <1>4, <1>5, CallKeeps DEF CallKinds
<1>7. HostOK(k)
  BY <1>6 DEF Calls
<1>8. PaidLoad(tx.load) => PaidInv(k, tx.provided)
  BY <1>3, <1>4, <1>6, PaidCalls DEF PaidKinds
<1>9. Booked(k, tx)
  BY <1>3, <1>6, BookedCalls DEF CallKinds
<1> QED BY <1>2, <1>5, <1>7, <1>8, <1>9, HookKeeps

(* executeOnSameContext.                                                   *)
LEMMA CallSameKeeps ==
  ASSUME MeterInv, NEW a \in Contracts, NEW limit \in Limits, NEW start,
         CallSame(a, limit, start)
  PROVE  MeterInv'
<1>1. PICK h : h = Burn(host, ApiCost)
  OBVIOUS
<1>2. Hook("same") /\ host' = Call(h, "same", a, BoundGasLimit(h, limit), start)
  BY <1>1 DEF CallSame, ExecuteOnSameContext
<1>3. /\ HostOK(h) /\ Running(h).phase = "running" /\ tx.provided \in Nat
      /\ PaidLoad(tx.load) => PaidInv(h, tx.provided)
      /\ Booked(h, tx)
  BY <1>1, <1>2, CallHook
<1>4. PICK g \in Nat : g = BoundGasLimit(h, limit) /\ g <= GasLeft(h) /\ g <= MaxInt64
  BY <1>3, BoundLimit
<1>5. PICK k : k = host'
  OBVIOUS
<1>6. Calls(h, k, "same", a, g, start) /\ k.totalUsedGas = h.totalUsedGas
  BY <1>2, <1>3, <1>4, <1>5, CallKeeps DEF CallKinds
<1>7. HostOK(k)
  BY <1>6 DEF Calls
<1>8. PaidLoad(tx.load) => PaidInv(k, tx.provided)
  BY <1>3, <1>4, <1>6, PaidCalls DEF PaidKinds
<1>9. Booked(k, tx)
  BY <1>3, <1>6, BookedCalls DEF CallKinds
<1> QED BY <1>2, <1>5, <1>7, <1>8, <1>9, HookKeeps

(* transferValueExecute to another shard, which is not paid for.           *)
LEMMA TransferKeeps ==
  ASSUME MeterInv, NEW limit \in Limits, TransferValueExecute(limit)
  PROVE  MeterInv'
<1>1. PICK h : h = Burn(host, ApiCost)
  OBVIOUS
<1>2. Hook("transfer") /\ host' = [h EXCEPT !.output.sent = @ + limit]
  BY <1>1 DEF TransferValueExecute
<1>3. HostOK(h) /\ h \in HostType /\ ~ PaidLoad(tx.load) /\ Booked(h, tx)
  BY <1>1, <1>2, CallHook DEF UnpaidCalls, HostOK
<1>4. limit \in Nat
  BY MeteringAssumption
<1>5. PICK o \in OutputType : o = [h.output EXCEPT !.sent = @ + limit]
  <2>1. h.output \in OutputType /\ h.output.sent \in Nat
    BY <1>3 DEF HostType, OutputType
  <2>2. h.output.sent + limit \in Nat
    BY <1>4, <2>1
  <2> QED BY <2>1, <2>2 DEF OutputType
<1>6. PICK k \in HostType : k = [h EXCEPT !.output = o]
  BY <1>3 DEF HostType
<1>7. k.frames = h.frames /\ k.totalUsedGas = h.totalUsedGas /\ k = host'
  BY <1>2, <1>3, <1>5, <1>6 DEF HostType
<1>8. HostOK(k)
  BY <1>3, <1>7, BooksChange DEF Adjusts
<1>9. Booked(k, tx)
  BY <1>3, <1>7, BookedBooks
<1> QED BY <1>2, <1>3, <1>7, <1>8, <1>9, HookKeeps

(* deductInitialGas on the frame of a creator.                             *)
LEMMA DeductAdjusts ==
  ASSUME NEW h, HostOK(h), NEW cost \in Nat, cost <= Running(h).provided
  PROVE  LET k == SetRunning(h, DeductInitialGas(Running(h), cost))
         IN  /\ Adjusts(h, k) /\ SameBooks(h, k) /\ k.burnt = h.burnt
             /\ Running(k).phase = Running(h).phase
<1>1. PICK f \in FrameType : f = Running(h) /\ FrameInv(f)
  BY RunningType
<1>2. PICK g \in Nat : g = f.provided - cost /\ g <= f.provided
  <2>1. f.provided \in Nat
    BY DEF FrameType
  <2>2. f.provided - cost \in Nat /\ f.provided - cost <= f.provided
    BY <1>1, <2>1
  <2> QED BY <2>2
<1>3. PICK c \in FrameType : c = [f EXCEPT !.initialCost = cost, !.gasForExecution = g]
  BY DEF FrameType
<1>4. /\ c.kind = f.kind /\ c.address = f.address /\ c.provided = f.provided
      /\ c.pushed = f.pushed /\ c.phase = f.phase /\ c.gasLocked = f.gasLocked
      /\ c.gasForExecution = g /\ c.points = f.points /\ c.initialCost = cost
  BY <1>3 DEF FrameType
<1>5. FrameInv(c)
  <2>1. cost + g = f.provided
    BY <1>2 DEF FrameType
  <2> QED BY <1>1, <1>4, <2>1 DEF FrameInv
<1>6. c = DeductInitialGas(Running(h), cost)
  BY <1>1, <1>2, <1>3 DEF DeductInitialGas
<1> QED BY <1>1, <1>4, <1>5, <1>6, SetRunningAdjusts

(* createContract, which is not paid for.                                  *)
LEMMA CreateKeeps ==
  ASSUME MeterInv, NEW limit \in Limits, NEW start, CreateNewContract(limit, start)
  PROVE  MeterInv'
<1>1. PICK h : h = Burn(host, ApiCost)
  OBVIOUS
<1>2. Hook("create")
  BY DEF CreateNewContract
<1>3. HostOK(h) /\ ~ PaidLoad(tx.load) /\ Booked(h, tx)
  BY <1>1, <1>2, CallHook DEF UnpaidCalls
<1>4. PICK g \in Nat : g = BoundGasLimit(h, limit) /\ g <= GasLeft(h) /\ g <= MaxInt64
  BY <1>3, BoundLimit
<1>5. PICK cost \in Nat : cost = CodeCost[NewContract]
  BY MeteringAssumption
<1>6. PICK s : s = SetRunning(h, DeductInitialGas(Running(h), cost))
  OBVIOUS
<1>7. PICK d : d = [s EXCEPT !.burnt = @ + cost]
  OBVIOUS
<1>8. PICK e : e = [d EXCEPT !.output.created = @ \cup {NewContract}]
  OBVIOUS
<1>9. PICK r : r = ExecuteOnDestContext(e, "create", NewContract, g, start)
  OBVIOUS
<1>10. \/ host' = h
       \/ cost <= Running(h).provided /\ host' \in {d, r}
  BY <1>1, <1>4, <1>5, <1>6, <1>7, <1>8, <1>9 DEF CreateNewContract
<1>11. ASSUME cost <= Running(h).provided
       PROVE  HostOK(d) /\ HostOK(r) /\ Booked(d, tx) /\ Booked(r, tx)
  <2>0. Adjusts(h, s) /\ SameBooks(h, s)
    BY <1>3, <1>5, <1>6, <1>11, DeductAdjusts
  <2>1. HostOK(s) /\ s \in HostType /\ Booked(s, tx)
    BY <1>3, <2>0, BookedAdjusts DEF Adjusts, HostOK, SameBooks
  <2>2. d \in HostType /\ d.frames = s.frames /\ d.totalUsedGas = s.totalUsedGas
    <3>1. PICK b \in Nat : b = s.burnt + cost
      BY <2>1 DEF HostType
    <3>2. d = [s EXCEPT !.burnt = b]
      BY <1>7, <3>1
    <3> QED BY <2>1, <3>2 DEF HostType
  <2>3. HostOK(d) /\ Booked(d, tx)
    BY <2>1, <2>2, BooksChange, BookedBooks DEF Adjusts
  <2>4. e \in HostType /\ e.frames = d.frames /\ e.totalUsedGas = d.totalUsedGas
    BY <1>8, <2>2, MeteringAssumption DEF HostType, OutputType
  <2>5. HostOK(e) /\ Booked(e, tx)
    BY <2>3, <2>4, BooksChange, BookedBooks DEF Adjusts
  <2>6. Calls(e, r, "create", NewContract, g, start)
    BY <1>4, <1>9, <2>5, MeteringAssumption, CallKeeps DEF CallKinds
  <2>7. HostOK(r) /\ Booked(r, tx)
    BY <2>5, <2>6, BookedCalls DEF CallKinds, Calls
  <2> QED BY <2>3, <2>7
<1>12. HostOK(host') /\ Booked(host', tx)
  BY <1>3, <1>10, <1>11
<1> QED BY <1>2, <1>3, <1>12, HookKeeps

(* asyncCall: what leaves the shard with the call is paid, what stays is   *)
(* not.                                                                    *)
LEMMA AsyncKeeps ==
  ASSUME MeterInv, NEW a \in Contracts, NEW mode \in {"async", "asyncSend"}, NEW start,
         AsyncCall(a, mode, start)
  PROVE  MeterInv'
<1>1. Hook(mode)
  BY DEF AsyncCall
<1>2. /\ HostOK(host) /\ Running(host).phase = "running" /\ tx.provided \in Nat
      /\ PaidLoad(tx.load) => PaidInv(host, tx.provided) /\ mode \notin UnpaidCalls
      /\ Booked(host, tx)
  BY <1>1, HookState
<1>3. PICK k : k = host'
  OBVIOUS
<1>4. CASE host' = FailExecution(host)
  <2>1. HostOK(k)
    BY <1>2, <1>3, <1>4, PhaseAdjusts DEF FailExecution, Adjusts
  <2>2. PaidLoad(tx.load) => PaidInv(k, tx.provided)
    BY <1>2, <1>3, <1>4, PaidFails
  <2>3. Booked(k, tx)
    BY <1>2, <1>3, <1>4, BookedPhases
  <2> QED BY <1>1, <1>3, <2>1, <2>2, <2>3, HookKeeps
<1>5. PICK h : h = ExecuteAsyncCall(host)
  OBVIOUS
<1>6. ASSUME CanPayAsyncCall(host)
      PROVE  /\ Adjusts(host, h) /\ HostOK(h) /\ h.output = host.output
             /\ Running(h).phase = "running"
             /\ h.burnt + GasLeft(h) + Running(h).gasLocked = host.burnt + GasLeft(host)
             /\ GasLeft(h) + Running(h).gasLocked <= MaxInt64
             /\ Booked(h, tx)
  <2>1. /\ Adjusts(host, h) /\ h.output = host.output
        /\ Running(h).phase = Running(host).phase
        /\ h.burnt + GasLeft(h) + Running(h).gasLocked = host.burnt + GasLeft(host)
        /\ GasLeft(h) + Running(h).gasLocked <= MaxInt64
        /\ h.totalUsedGas = host.totalUsedGas
    BY <1>2, <1>5, <1>6, ExecuteAsyncCallAdjusts
  <2>2. HostOK(h) /\ Booked(h, tx)
    BY <1>2, <2>1, BookedAdjusts DEF Adjusts
  <2> QED BY <1>2, <2>1, <2>2
<1>7. CASE /\ CanPayAsyncCall(host) /\ mode = "asyncSend"
           /\ host' = IF start = "noFunds" THEN FailExecution(h)
                                           ELSE SendAsyncCallToDestination(h)
  <2>1. PICK b \in Nat, c \in Nat, l \in Nat, g \in Nat, o \in Nat, x \in Nat :
          /\ b = host.burnt /\ c = h.burnt /\ l = Running(h).gasLocked /\ g = GasLeft(h)
          /\ o = host.output.sent /\ x = GasLeft(host) /\ o = h.output.sent
          /\ x = UsableGas(Running(host)) /\ c + g + l = b + x
    <3>1. host.burnt \in Nat /\ h.burnt \in Nat /\ host.output.sent \in Nat
      BY <1>2, <1>6, <1>7, ClaimedType
    <3>2. Running(h).gasLocked \in Nat /\ GasLeft(h) \in Nat /\ GasLeft(host) \in Nat
      BY <1>2, <1>6, <1>7, RunningType DEF FrameType
    <3>3. UsableGas(Running(host)) = GasLeft(host)
      BY <1>2, Alive
    <3> QED BY <1>6, <1>7, <3>1, <3>2, <3>3
  <2>2. CASE start = "noFunds"
    <3>1. /\ Adjusts(h, k) /\ SameBooks(h, k) /\ k.burnt = h.burnt
          /\ UsableGas(Running(k)) = 0
      BY <1>3, <1>6, <1>7, <2>2, PhaseAdjusts DEF FailExecution
    <3>2. Adjusts(host, k) /\ HostOK(k)
      BY <1>6, <1>7, <3>1, AdjustsAddUp DEF Adjusts
    <3>3. k.burnt = c /\ k.output.sent = o
      BY <2>1, <3>1 DEF SameBooks
    <3>4. o <= o /\ c + 0 + o <= b + x + o
      BY <2>1
    <3>5. PaidLoad(tx.load) => PaidInv(k, tx.provided)
      BY <1>2, <2>1, <3>1, <3>2, <3>3, <3>4, PaidAdjusts
    <3>6. Booked(k, tx)
      BY <1>3, <1>6, <1>7, <2>2, BookedPhases
    <3> QED BY <1>1, <1>3, <3>2, <3>5, <3>6, HookKeeps
  <2>3. CASE start # "noFunds"
    <3>1. /\ Adjusts(h, k) /\ k.burnt = h.burnt /\ UsableGas(Running(k)) = 0
          /\ k.output.sent = h.output.sent + GasLeft(h) + Running(h).gasLocked
          /\ k.totalUsedGas = h.totalUsedGas
      BY <1>3, <1>6, <1>7, <2>3, SendAsyncAdjusts
    <3>2. Adjusts(host, k) /\ HostOK(k)
      BY <1>6, <1>7, <3>1, AdjustsAddUp DEF Adjusts
    <3>3. k.burnt = c /\ k.output.sent = o + g + l
      BY <2>1, <3>1
    <3>4. o <= o + g + l /\ c + 0 + (o + g + l) <= b + x + o
      BY <2>1
    <3>5. PaidLoad(tx.load) => PaidInv(k, tx.provided)
      BY <1>2, <2>1, <3>1, <3>2, <3>3, <3>4, PaidAdjusts
    <3>6. Booked(k, tx)
      BY <1>6, <1>7, <3>1, BookedAdjusts
    <3> QED BY <1>1, <1>3, <3>2, <3>5, <3>6, HookKeeps
  <2> QED BY <2>2, <2>3
<1>8. CASE /\ CanPayAsyncCall(host) /\ mode = "async"
           /\ host' = ExecuteOnDestContext(h, "async", a, GasLeft(h), start)
  <2>1. ~ PaidLoad(tx.load)
    BY <1>2, <1>8 DEF UnpaidCalls
  <2>2. PICK g \in Nat : g = GasLeft(h) /\ g <= MaxInt64
    BY <1>6, <1>8, RunningType
  <2>3. Calls(h, k, "async", a, g, start)
    BY <1>3, <1>6, <1>8, <2>2, CallKeeps DEF CallKinds
  <2>4. HostOK(k) /\ Booked(k, tx)
    BY <1>6, <1>8, <2>3, BookedCalls DEF CallKinds, Calls
  <2> QED BY <1>1, <1>3, <2>1, <2>4, HookKeeps
<1>9. \/ host' = FailExecution(host)
      \/ /\ CanPayAsyncCall(host) /\ mode = "asyncSend"
         /\ host' = IF start = "noFunds" THEN FailExecution(h)
                                         ELSE SendAsyncCallToDestination(h)
      \/ /\ CanPayAsyncCall(host) /\ mode = "async"
         /\ host' = ExecuteOnDestContext(h, "async", a, GasLeft(h), start)
  BY <1>5 DEF AsyncCall
<1> QED BY <1>4, <1>7, <1>8, <1>9

-----------------------------------------------------------------------------
(* The end of frames, and of the transaction.                              *)

(* A call on the own context of the callee has ended.                      *)
LEMMA DestEndsKeeps ==
  ASSUME MeterInv, phase = "running", NEW v, VMOutputOK(host, v), NEW d \in Nat,
         NEW start, DestEnds(v, d, start), UNCHANGED <<tx, ops>>
  PROVE  MeterInv'
<1>1. /\ HostOK(host) /\ tx.provided \in Nat
      /\ PaidLoad(tx.load) => PaidInv(host, tx.provided)
      /\ Booked(host, tx)
  BY RunningState
<1>2. PICK h : h = FinishExecuteOnDestContext(host, v)
  OBVIOUS
<1>3. PICK f \in FrameType : f = Running(host)
  BY <1>1, RunningType
<1>4. PICK k : k = host'
  OBVIOUS
<1>5. f.kind \notin {"root", "same"} /\ k = Resume(h, f.kind, v, d, start)
      /\ UNCHANGED <<phase, result>>
  BY <1>2, <1>3, <1>4 DEF DestEnds
<1>6. HostOK(k) /\ Booked(k, tx)
  BY <1>1, <1>2, <1>3, <1>5, ResumeKeeps
<1>7. Returns(host, h) /\ OutputAfter(host, h)
  BY <1>1, <1>2, <1>3, <1>5, FinishDestReturns
<1>8. HostOK(h)
  BY <1>7 DEF Returns
<1>9. ASSUME PaidLoad(tx.load) PROVE PaidInv(k, tx.provided)
  <2>1. PaidInv(host, tx.provided)
    BY <1>1, <1>9
  <2>2. f.kind \in PaidKinds
    <3>1. PICK n \in Nat : n = Len(host.frames) /\ n >= 1 /\ f = host.frames[n]
      BY <1>1, <1>3, RunningType
    <3>2. \A i \in 1 .. n : host.frames[i].kind \in PaidKinds
      BY <2>1, <3>1 DEF PaidInv, PushedInv
    <3> QED BY <3>1, <3>2
  <2>3. PaidInv(h, tx.provided)
    BY <1>1, <1>7, <2>1, PaidReturns
  <2>4. PaidInv(FailExecution(h), tx.provided)
    BY <1>1, <1>8, <2>3, PaidFails
  <2>5. f.kind = "dest" \/ f.kind = "transferExecute"
    BY <1>5, <2>2 DEF PaidKinds
  <2>6. k = h \/ k = FailExecution(h)
    <3>1. CASE f.kind = "dest"
      BY <1>5, <3>1 DEF Resume
    <3>2. CASE f.kind = "transferExecute"
      BY <1>5, <3>2 DEF Resume
    <3> QED BY <2>5, <3>1, <3>2
  <2> QED BY <2>3, <2>4, <2>6
<1>10. ops' \in 0 .. tx.load.maxOps
  BY DEF MeterInv, StateType
<1> QED BY <1>4, <1>5, <1>6, <1>9, <1>10, StillRunning

(* A call on the same context has ended.                                   *)
LEMMA SameEndsKeeps ==
  ASSUME MeterInv, phase = "running", NEW ok \in BOOLEAN,
         ok => Running(host).phase # "failed", SameEnds(ok), UNCHANGED <<tx, ops>>
  PROVE  MeterInv'
<1>1. /\ HostOK(host) /\ tx.provided \in Nat
      /\ PaidLoad(tx.load) => PaidInv(host, tx.provided)
      /\ Booked(host, tx)
  BY RunningState
<1>2. PICK h : h = FinishExecuteOnSameContext(host, ok)
  OBVIOUS
<1>3. PICK k : k = host'
  OBVIOUS
<1>4. Running(host).kind = "same" /\ k = (IF ok THEN h ELSE FailExecution(h))
      /\ UNCHANGED <<phase, result>>
  BY <1>2, <1>3 DEF SameEnds
<1>5. Returns(host, h) /\ OutputAfter(host, h) /\ h.totalUsedGas = host.totalUsedGas
  BY <1>1, <1>2, <1>4, FinishSameReturns
<1>6. HostOK(h)
  BY <1>5 DEF Returns
<1>7. HostOK(FailExecution(h))
  BY <1>6, PhaseAdjusts DEF FailExecution, Adjusts
<1>8. PaidLoad(tx.load) => PaidInv(h, tx.provided) /\ PaidInv(FailExecution(h), tx.provided)
  BY <1>1, <1>5, <1>6, PaidReturns, PaidFails
<1>9. HostOK(k) /\ (PaidLoad(tx.load) => PaidInv(k, tx.provided))
  BY <1>4, <1>6, <1>7, <1>8
<1>10. ops' \in 0 .. tx.load.maxOps
  BY DEF MeterInv, StateType
<1>11. Booked(k, tx)
  <2>1. Booked(h, tx)
    BY <1>1, <1>4, <1>5, BookedReturns
  <2> QED BY <1>4, <1>6, <2>1, BookedPhases
<1> QED BY <1>3, <1>4, <1>9, <1>10, <1>11, StillRunning

(* The callback sent to another shard takes the gas that is left.          *)
LEMMA SendCallbackAdjusts ==
  ASSUME NEW h, HostOK(h)
  PROVE  LET k == SendCallbackToCurrentCaller(h)
         IN  /\ Adjusts(h, k) /\ HostOK(k) /\ k.totalUsedGas = h.totalUsedGas
             /\ Running(h).points <= Running(h).gasForExecution =>
                  Running(k).points <= Running(k).gasForExecution
             /\ k.burnt = h.burnt /\ GasLeft(k) = 0
             /\ Running(k).phase = Running(h).phase
             /\ k.output.sent = h.output.sent + GasLeft(h)
<1>1. PICK f \in FrameType : f = Running(h)
  BY RunningType
<1>2. PICK a \in Contracts : a = f.address
  BY DEF FrameType
<1>3. PICK gas \in Nat : gas = GasLeft(h)
  BY RunningType
<1>4. h \in HostType /\ h.output \in OutputType /\ h.output.sent \in Nat
  BY DEF HostOK, HostType, OutputType
<1>5. PICK o \in OutputType : o = [h.output EXCEPT !.sent = @ + gas]
  <2>1. h.output.sent + gas \in Nat
    BY <1>4
  <2> QED BY <1>4, <2>1 DEF OutputType
<1>6. \A x \in Nat : AddUint64(x, gas) \in Nat
  BY GasArithmetic
<1>7. PICK t \in [Contracts -> [forwarded : Nat, returned : Nat]] :
        t = [h.gasStates EXCEPT ![a].forwarded = AddUint64(@, gas)]
  <2>1. h.gasStates \in [Contracts -> [forwarded : Nat, returned : Nat]]
    BY <1>4 DEF HostType
  <2>2. [h.gasStates EXCEPT ![a].forwarded = AddUint64(@, gas)]
          \in [Contracts -> [forwarded : Nat, returned : Nat]]
    BY <1>6, <2>1
  <2> QED BY <2>2
<1>8. PICK s \in HostType : s = [h EXCEPT !.output = o, !.gasStates = t]
  BY <1>4 DEF HostType
<1>9. s = [h EXCEPT !.output.sent = @ + gas,
                    !.gasStates[a].forwarded = AddUint64(@, gas)]
  BY <1>4, <1>5, <1>7, <1>8 DEF HostType
<1>10. /\ s.frames = h.frames /\ s.burnt = h.burnt /\ s.output = o
       /\ s.totalUsedGas = h.totalUsedGas /\ s.gasStates = t
  BY <1>4, <1>8 DEF HostType
<1>11. Adjusts(h, s) /\ HostOK(s) /\ Running(s) = Running(h) /\ GasLeft(s) = gas
  BY <1>3, <1>10, BooksChange DEF Adjusts
<1>12. PICK k : k = UseGas(s, gas)
  OBVIOUS
<1>13. /\ Adjusts(s, k) /\ HostOK(k) /\ Running(k).points <= Running(s).points + gas
       /\ GasLeft(k) = SubUint64(gas, gas)[1]
       /\ SameFrame(Running(s), Running(k)) /\ SameBooks(s, k) /\ k.burnt = s.burnt
  BY <1>11, <1>12, UseGasAdjusts DEF Adjusts
<1>14. SubUint64(gas, gas)[1] = 0
  BY DEF SubUint64
<1>15. Running(k).phase = Running(h).phase
  BY <1>11, <1>13 DEF SameFrame
<1>16. k.output.sent = h.output.sent + gas
  BY <1>4, <1>5, <1>10, <1>13 DEF SameBooks, OutputType
<1>17. k = SendCallbackToCurrentCaller(h)
  BY <1>1, <1>2, <1>3, <1>9, <1>12 DEF SendCallbackToCurrentCaller
<1>18. Adjusts(h, k) /\ k.totalUsedGas = h.totalUsedGas
  BY <1>10, <1>11, <1>13, AdjustsAddUp DEF SameBooks
<1>19. ASSUME f.points <= f.gasForExecution
       PROVE  Running(k).points <= Running(k).gasForExecution
  <2>1. PICK p \in Nat, e \in Nat : p = f.points /\ e = f.gasForExecution
    BY DEF FrameType
  <2>2. gas = e - p
    BY <1>1, <1>3, <1>19, <2>1 DEF GasLeft, FrameGasLeft, SubUint64
  <2>3. Running(k).points <= p + gas /\ Running(k).gasForExecution = e
    BY <1>1, <1>11, <1>13, <2>1 DEF SameFrame
  <2> QED BY <2>2, <2>3
<1> QED BY <1>1, <1>3, <1>10, <1>13, <1>14, <1>15, <1>16, <1>17, <1>18, <1>19

(* What checkGas lets pass, when the points are within the gas and no      *)
(* previous total is kept.                                                 *)
LEMMA CheckedGas ==
  ASSUME NEW initial \in Nat, NEW execution \in Nat, NEW points \in Nat, points <= execution,
         initial + execution <= MaxInt64, NEW net \in Nat, NEW total \in Nat,
         total <= MaxUint64,
         NEW lacking, lacking = SubUint64(AddUint64(initial, points), net)[2],
         NEW remaining, remaining = SubUint64(SubUint64(execution, points)[1], lacking),
         SubUint64(SubUint64(AddUint64(total, remaining[1]), remaining[2])[1], 0)[1]
           <= initial + execution
  PROVE  LET excess == SubUint64(net, initial + execution)[1]
         IN  /\ total + remaining[1] <= initial + execution + excess
             /\ excess > 0 => remaining[1] = 0
<1>1. AddUint64(initial, points) = initial + points
  BY Bounds DEF AddUint64
<1>2. CASE net <= initial + points
  <2>1. lacking = 0
    BY <1>1, <1>2 DEF SubUint64
  <2>2. remaining[1] = execution - points /\ remaining[2] = 0
    BY <2>1 DEF SubUint64
  <2>3. SubUint64(net, initial + execution)[1] = 0
    BY <1>2 DEF SubUint64
  <2>4. total + remaining[1] <= initial + execution
    BY <2>2, Bounds DEF SubUint64, AddUint64
  <2> QED BY <2>2, <2>3, <2>4
<1>3. CASE initial + points < net /\ net <= initial + execution
  <2>1. lacking = net - (initial + points)
    BY <1>1, <1>3 DEF SubUint64
  <2>2. remaining[1] = initial + execution - net /\ remaining[2] = 0
    BY <1>3, <2>1 DEF SubUint64
  <2>3. SubUint64(net, initial + execution)[1] = 0
    BY <1>3 DEF SubUint64
  <2>4. total + remaining[1] <= initial + execution
    BY <1>3, <2>2, Bounds DEF SubUint64, AddUint64
  <2> QED BY <1>3, <2>2, <2>3, <2>4
<1>4. CASE initial + execution < net
  <2>1. lacking = net - (initial + points)
    BY <1>1, <1>4 DEF SubUint64
  <2>2. remaining[1] = 0 /\ remaining[2] = net - (initial + execution)
    BY <1>4, <2>1 DEF SubUint64
  <2>3. SubUint64(net, initial + execution)[1] = net - (initial + execution)
    BY <1>4 DEF SubUint64
  <2>4. total <= initial + execution + (net - (initial + execution))
    BY <1>4, <2>2, Bounds DEF SubUint64, AddUint64
  <2> QED BY <2>2, <2>3, <2>4
<1> QED BY <1>2, <1>3, <1>4

(* The output of the root frame that passes checkGas.                      *)
LEMMA RootReports ==
  ASSUME NEW h, HostOK(h), h.totalUsedGas = 0,
         Running(h).points <= Running(h).gasForExecution, GetVMOutput(h).ok
  PROVE  LET gasState == h.gasStates[Running(h).address]
             net == SubUint64(gasState.forwarded, gasState.returned)[1]
             excess == SubUint64(net, Running(h).provided)[1]
             v == GetVMOutput(h)
         IN  /\ CurrentTotalUsedGas(v.output) + v.remaining <= Running(h).provided + excess
             /\ excess > 0 => v.remaining = 0
<1>1. PICK f \in FrameType : f = Running(h) /\ FrameInv(f)
  BY RunningType
<1>2. PICK c \in Nat, e \in Nat, p \in Nat, a \in Contracts :
        c = f.initialCost /\ e = f.gasForExecution /\ p = f.points /\ a = f.address
  BY DEF FrameType
<1>3. f.provided = c + e /\ c + e <= MaxInt64 /\ p <= e
  BY <1>1, <1>2 DEF FrameInv
<1>4. PICK x \in Nat, y \in Nat :
        x = h.gasStates[a].forwarded /\ y = h.gasStates[a].returned
  BY DEF HostOK, HostType
<1>5. PICK net \in Nat : net = SubUint64(x, y)[1]
  BY GasArithmetic
<1>6. PICK used : used = SubUint64(AddUint64(c, p), net)
  OBVIOUS
<1>7. GasUsedByContract(h) = used
  BY <1>1, <1>2, <1>4, <1>5, <1>6 DEF GasUsedByContract, GasSpentByContract
<1>8. PICK u \in Nat : u = used[1]
  BY <1>7, GasUsedType
<1>9. PICK out \in OutputType : out = [h.output EXCEPT !.gasUsed[a] = u]
  <2>1. h.output \in OutputType
    BY DEF HostOK, HostType
  <2>2. [h.output EXCEPT !.gasUsed[a] = u] \in OutputType
    BY <2>1 DEF OutputType
  <2> QED BY <2>2
<1>10. PICK total \in Nat : total = CurrentTotalUsedGas(out) /\ total <= MaxUint64
  <2>1. IsFiniteSet(Contracts) /\ out.gasUsed \in [Contracts -> Nat] /\ out.sent \in Nat
    BY MeteringAssumption DEF OutputType
  <2>2. SumFunction(out.gasUsed) \in Nat
    BY <2>1, SumIsNat
  <2>3. CurrentTotalUsedGas(out) <= MaxUint64
    BY <2>1, <2>2, Bounds DEF CurrentTotalUsedGas, AddUint64
  <2> QED BY <2>3, TotalType
<1>11. PICK rem : rem = SubUint64(SubUint64(e, p)[1], used[2])
  OBVIOUS
<1>12. GasLeft(h) = SubUint64(e, p)[1]
  BY <1>1, <1>2 DEF GasLeft, FrameGasLeft
<1>13. PICK sum : sum = SubUint64(SubUint64(AddUint64(total, rem[1]), rem[2])[1], 0)[1]
  OBVIOUS
<1>14. GetVMOutput(h) = [ok |-> GasMatches(sum, f.provided), output |-> out,
                         remaining |-> IF GasMatches(sum, f.provided) THEN rem[1] ELSE 0]
  BY <1>1, <1>2, <1>7, <1>8, <1>9, <1>10, <1>11, <1>12, <1>13, Zenon DEF GetVMOutput
<1>15. GasMatches(sum, f.provided)
  BY <1>14
<1>16. sum <= c + e
  BY <1>3, <1>15 DEF GasMatches
<1>17. LET excess == SubUint64(net, c + e)[1]
       IN  total + rem[1] <= c + e + excess /\ (excess > 0 => rem[1] = 0)
  BY <1>3, <1>6, <1>10, <1>11, <1>13, <1>16, CheckedGas
<1>18. GetVMOutput(h).output = out /\ GetVMOutput(h).remaining = rem[1]
  BY <1>14, <1>15
<1> QED BY <1>1, <1>2, <1>3, <1>4, <1>5, <1>10, <1>17, <1>18

(* The transaction has ended: an output that is Ok claims no more than was *)
(* provided.                                                               *)
LEMMA RootEndsKeeps ==
  ASSUME MeterInv, phase = "running", NEW ok \in BOOLEAN,
         ok => Running(host).phase # "failed", RootEnds(ok), UNCHANGED <<tx, ops>>
  PROVE  MeterInv'
<1>1. /\ HostOK(host) /\ tx.provided \in Nat
      /\ PaidLoad(tx.load) => PaidInv(host, tx.provided)
      /\ Booked(host, tx)
  BY RunningState
<1>2. PICK h : h = IF tx.callType = "async" THEN SendCallbackToCurrentCaller(host) ELSE host
  OBVIOUS
<1>3. PICK v : v = IF ok /\ Running(host).points <= Running(host).gasForExecution
                     THEN GetVMOutput(h) ELSE CreateVMOutputInCaseOfError(host)
  OBVIOUS
<1>4. /\ Running(host).kind = "root" /\ phase' = "done"
      /\ host' = [h EXCEPT !.frames = <<>>, !.output = v.output]
      /\ result' = IF v.ok THEN [code |-> "Ok", remaining |-> v.remaining] ELSE Failed
  BY <1>2, <1>3 DEF RootEnds
<1>5. /\ HostOK(h) /\ h \in HostType /\ h.burnt = host.burnt
      /\ Running(h).phase = Running(host).phase
      /\ h.output.sent + GasLeft(h) = host.output.sent + GasLeft(host)
  <2>1. CASE tx.callType = "async"
    <3>1. /\ HostOK(h) /\ h.burnt = host.burnt /\ GasLeft(h) = 0
          /\ Running(h).phase = Running(host).phase
          /\ h.output.sent = host.output.sent + GasLeft(host)
      BY <1>1, <1>2, <2>1, SendCallbackAdjusts
    <3>2. host.output.sent \in Nat /\ GasLeft(host) \in Nat
      BY <1>1, RunningType, ClaimedType
    <3>3. h.output.sent + GasLeft(h) = host.output.sent + GasLeft(host)
      BY <3>1, <3>2
    <3> QED BY <3>1, <3>3 DEF HostOK
  <2>2. CASE tx.callType # "async"
    BY <1>1, <1>2, <2>2 DEF HostOK
  <2> QED BY <2>1, <2>2
<1>6. /\ v.ok \in BOOLEAN /\ v.output \in OutputType /\ v.remaining \in Nat
      /\ v.ok => ok /\ v.remaining <= GasLeft(h) /\ v.output.sent = h.output.sent
  <2>1. CASE ok /\ Running(host).points <= Running(host).gasForExecution
    BY <1>3, <1>5, <2>1, GetVMOutputType
  <2>2. CASE ~ (ok /\ Running(host).points <= Running(host).gasForExecution)
    <3>1. v = CreateVMOutputInCaseOfError(host)
      BY <1>3, <2>2
    <3>2. VMOutputOK(host, v) /\ v.ok = FALSE
      BY <1>1, <3>1, ErrorOutputType DEF CreateVMOutputInCaseOfError
    <3> QED BY <3>2 DEF VMOutputOK
  <2> QED BY <2>1, <2>2
<1>7. PICK k \in HostType : k = [h EXCEPT !.frames = <<>>, !.output = v.output]
  <2>1. <<>> \in Seq(FrameType)
    OBVIOUS
  <2> QED BY <1>5, <1>6, <2>1 DEF HostType
<1>8. k.frames = <<>> /\ k.burnt = h.burnt /\ k.output = v.output /\ k.gasStates = h.gasStates
  BY <1>5, <1>7 DEF HostType
<1>9. PICK r \in [code : {"none", "failed", "Ok"}, remaining : Nat] :
        /\ r = IF v.ok THEN [code |-> "Ok", remaining |-> v.remaining] ELSE Failed
        /\ r.code = "Ok" => v.ok /\ r.remaining = v.remaining
  <2>1. PICK r : r = IF v.ok THEN [code |-> "Ok", remaining |-> v.remaining] ELSE Failed
    OBVIOUS
  <2>2. CASE v.ok
    <3>1. r = [code |-> "Ok", remaining |-> v.remaining]
      BY <2>1, <2>2
    <3>2. r \in [code : {"none", "failed", "Ok"}, remaining : Nat]
          /\ r.remaining = v.remaining
      BY <1>6, <3>1
    <3> QED BY <2>1, <2>2, <3>2
  <2>3. CASE ~ v.ok
    <3>1. r = [code |-> "failed", remaining |-> 0]
      BY <2>1, <2>3 DEF Failed
    <3>2. r \in [code : {"none", "failed", "Ok"}, remaining : Nat] /\ r.code # "Ok"
      BY <3>1
    <3> QED BY <2>1, <3>2
  <2> QED BY <1>6, <2>2, <2>3
<1>10. host' = k /\ result' = r
  BY <1>4, <1>7, <1>9
<1>11. StateType'
  <2>1. StateType
    BY DEF MeterInv
  <2> QED BY <1>4, <1>8, <1>10, <2>1 DEF StateType
<1>12. FramesInv(k.frames)
  BY <1>8 DEF FramesInv
<1>13. ASSUME r.code = "Ok", PaidLoad(tx.load)
       PROVE  k.burnt + r.remaining + k.output.sent <= tx.provided
  <2>1. v.ok /\ ok /\ r.remaining = v.remaining
    BY <1>6, <1>9, <1>13
  <2>2. Running(host).phase # "failed"
    BY <2>1
  <2>3. /\ host.burnt \in Nat /\ host.output.sent \in Nat /\ Usable(host.frames) \in Nat
        /\ Claimed(host) = host.burnt + Usable(host.frames) + host.output.sent
        /\ UsableGas(Running(host)) \in Nat /\ UsableGas(Running(host)) <= Usable(host.frames)
    BY <1>1, ClaimedType
  <2>4. GasLeft(host) = UsableGas(Running(host))
    BY <2>2, Alive
  <2>5. h.output.sent \in Nat /\ GasLeft(h) \in Nat
    BY <1>5, ClaimedType, RunningType
  <2>6. Claimed(host) <= tx.provided
    BY <1>1, <1>13 DEF PaidInv
  <2>7. k.burnt = host.burnt /\ r.remaining <= GasLeft(h) /\ k.output.sent = h.output.sent
    BY <1>5, <1>6, <1>8, <2>1
  <2>8. PICK b \in Nat, u \in Nat, o \in Nat, g \in Nat, oh \in Nat, gh \in Nat, m \in Nat,
             p \in Nat :
          /\ b = host.burnt /\ u = Usable(host.frames) /\ o = host.output.sent
          /\ g = GasLeft(host) /\ oh = h.output.sent /\ gh = GasLeft(h)
          /\ m = r.remaining /\ p = tx.provided
    BY <1>1, <1>9, <2>3, <2>4, <2>5
  <2>9. b + u + o <= p /\ g <= u /\ oh + gh = o + g /\ m <= gh
    BY <1>5, <2>3, <2>4, <2>6, <2>7, <2>8
  <2>10. b + m + oh <= p
    BY ONLY <2>9, b \in Nat, u \in Nat, o \in Nat, g \in Nat, oh \in Nat, gh \in Nat,
            m \in Nat, p \in Nat
  <2> QED BY <2>7, <2>8, <2>10
<1>14. OutputGasIsPaid'
  BY <1>10, <1>13 DEF OutputGasIsPaid, PaidLoad, UnpaidCalls
<1>15. /\ Running(host).provided = tx.provided /\ Running(host).address = tx.contract
       /\ host.totalUsedGas = 0
  <2>1. PICK n \in Nat : n = Len(host.frames) /\ n >= 1 /\ Running(host) = host.frames[n]
    BY <1>1, RunningType
  <2>2. n = 1
    <3>1. \A i \in 2 .. n : host.frames[i].kind # "root"
      BY <1>1, <2>1 DEF Booked
    <3>2. n \notin 2 .. n
      BY <1>4, <2>1, <3>1
    <3>3. n >= 1 /\ ~ (n >= 2)
      BY <2>1, <3>2
    <3> QED BY ONLY <3>3, n \in Nat
  <2>3. \A i \in 2 .. Len(host.frames) : host.frames[i].kind = "same"
    BY <2>1, <2>2
  <2> QED BY <1>1, <2>1, <2>2, <2>3 DEF Booked
<1>16. /\ Running(h).provided = tx.provided /\ Running(h).address = tx.contract
       /\ h.totalUsedGas = 0
       /\ Running(host).points <= Running(host).gasForExecution =>
            Running(h).points <= Running(h).gasForExecution
  <2>1. CASE tx.callType = "async"
    <3>1. /\ Adjusts(host, h) /\ h.totalUsedGas = host.totalUsedGas
          /\ Running(host).points <= Running(host).gasForExecution =>
               Running(h).points <= Running(h).gasForExecution
      BY <1>1, <1>2, <2>1, SendCallbackAdjusts
    <3> QED BY <1>15, <3>1 DEF Adjusts
  <2>2. CASE tx.callType # "async"
    BY <1>2, <1>15, <2>2
  <2> QED BY <2>1, <2>2
<1>17. ReportedGasIsProvided'
  <2> SUFFICES ASSUME r.code = "Ok"
               PROVE  LET gasState == k.gasStates[tx.contract]
                          net == SubUint64(gasState.forwarded, gasState.returned)[1]
                          excess == SubUint64(net, tx.provided)[1]
                      IN  /\ CurrentTotalUsedGas(k.output) + r.remaining
                               <= tx.provided + excess
                          /\ excess > 0 => r.remaining = 0
    BY <1>10 DEF ReportedGasIsProvided, ExcessForwarded
  <2>1. v.ok /\ r.remaining = v.remaining
    BY <1>9
  <2>2. /\ Running(host).points <= Running(host).gasForExecution
        /\ v = GetVMOutput(h)
    BY <1>3, <2>1 DEF CreateVMOutputInCaseOfError
  <2> QED BY <1>5, <1>8, <1>16, <2>1, <2>2, RootReports
<1> QED BY <1>4, <1>10, <1>11, <1>12, <1>14, <1>17 DEF MeterInv

-----------------------------------------------------------------------------
(* The start of the transaction.                                           *)

(* The root frame is given all the gas, and pays its initial cost.         *)
RootHost(a, gas, cost) ==
  [NewHost EXCEPT
     !.frames = <<DeductInitialGas(NewFrame("root", a, gas, NewHost.output), cost)>>,
     !.burnt = cost]

(* Nothing else is claimed by then.                                        *)
LEMMA RootFrame ==
  ASSUME NEW a \in Contracts, NEW gas \in Nat, gas <= MaxInt64, NEW cost \in Nat,
         cost <= gas
  PROVE  /\ HostOK(RootHost(a, gas, cost)) /\ PaidInv(RootHost(a, gas, cost), gas)
         /\ \A t : t.provided = gas /\ t.contract = a => Booked(RootHost(a, gas, cost), t)
<1>0. PICK k : k = RootHost(a, gas, cost)
  OBVIOUS
<1>1. PICK out \in OutputType : out = NewHost.output /\ out.sent = 0
  <2>1. NewHost.output = [gasUsed |-> [c \in Contracts |-> 0], sent |-> 0, created |-> {}]
    BY DEF NewHost
  <2>2. NewHost.output \in OutputType /\ NewHost.output.sent = 0
    BY <2>1 DEF OutputType
  <2> QED BY <2>2
<1>2. PICK g \in Nat : g = gas - cost /\ g <= gas
  BY Bounds
<1>3. PICK n \in FrameType :
        /\ n = NewFrame("root", a, gas, out) /\ n.provided = gas /\ n.points = 0
        /\ n.address = a /\ n.kind = "root" /\ n.gasLocked = 0 /\ n.pushed = out /\ n.phase = "running"
  <2>1. NewFrame("root", a, gas, out) \in FrameType
    BY DEF NewFrame, FrameType
  <2> QED BY <2>1 DEF NewFrame
<1>4. PICK f \in FrameType : f = [n EXCEPT !.initialCost = cost, !.gasForExecution = g]
  BY DEF FrameType
<1>5. f = DeductInitialGas(NewFrame("root", a, gas, NewHost.output), cost)
  BY <1>1, <1>2, <1>3, <1>4 DEF DeductInitialGas
<1>6. /\ f.provided = gas /\ f.points = 0 /\ f.kind = "root" /\ f.gasLocked = 0
      /\ f.pushed = out /\ f.phase = "running" /\ f.gasForExecution = g
      /\ f.initialCost = cost /\ f.address = a
  BY <1>3, <1>4 DEF FrameType
<1>7. FrameInv(f)
  BY <1>2, <1>6, Bounds DEF FrameInv
<1>8. PICK s \in Seq(FrameType) : s = <<f>> /\ Len(s) = 1 /\ s[1] = f /\ s # <<>>
  <2>1. <<f>> \in Seq(FrameType) /\ Len(<<f>>) = 1 /\ <<f>>[1] = f /\ <<f>> # <<>>
    OBVIOUS
  <2> QED BY <2>1
<1>9. FramesInv(s)
  BY <1>6, <1>7, <1>8 DEF FramesInv
<1>10. /\ k.frames = s /\ k.output = out /\ k.burnt = cost
       /\ k.gasStates = [c \in Contracts |-> [forwarded |-> 0, returned |-> 0]]
       /\ k.totalUsedGas = 0 /\ k \in HostType
  <2>1. NewHost \in HostType
    <3>1. <<>> \in Seq(FrameType) /\ 0 \in Nat
      OBVIOUS
    <3>2. [c \in Contracts |-> [forwarded |-> 0, returned |-> 0]]
            \in [Contracts -> [forwarded : Nat, returned : Nat]]
      OBVIOUS
    <3> QED BY <3>1, <3>2 DEF NewHost, HostType, OutputType
  <2>2. k = [NewHost EXCEPT !.frames = s, !.burnt = cost]
    BY <1>0, <1>5, <1>8 DEF RootHost
  <2>3. /\ k.frames = s /\ k.output = out /\ k.burnt = cost
        /\ k.gasStates = NewHost.gasStates /\ k.totalUsedGas = NewHost.totalUsedGas
        /\ k \in HostType
    BY <1>1, <2>1, <2>2 DEF HostType
  <2> QED BY <2>3 DEF NewHost
<1>11. HostOK(k)
  BY <1>8, <1>9, <1>10 DEF HostOK
<1>12. UsableGas(f) = g
  <2>1. FrameGasLeft(f) = g
    BY <1>6 DEF FrameGasLeft, SubUint64
  <2> QED BY <1>6, <2>1 DEF UsableGas
<1>13. Usable(s) = g
  <2>1. PICK t \in Seq(FrameType) : t = <<>> /\ Len(t) = 0
    <3>1. <<>> \in Seq(FrameType) /\ Len(<<>>) = 0
      OBVIOUS
    <3> QED BY <3>1
  <2>2. Usable(s) = Usable(t) + UsableGas(s[1])
    <3>1. PICK m \in Nat : m = 0 /\ m + 1 = 1
      OBVIOUS
    <3>2. Len(s) = m + 1 /\ Len(t) = m /\ \A i \in 1 .. m : t[i] = s[i]
      BY <1>8, <2>1, <3>1
    <3>3. Usable(s) = Usable(t) + UsableGas(s[m + 1])
      BY <3>2, UsableSplits
    <3> QED BY <3>1, <3>3
  <2>3. Usable(t) = 0
    <3>1. DOMAIN t = {}
      BY <2>1
    <3>2. [i \in DOMAIN t |-> UsableGas(t[i])] = [i \in {} |-> 0]
      BY <3>1
    <3>3. SumFunction([i \in {} |-> 0]) = 0
      BY FS_EmptySet, SumOfZeros
    <3> QED BY <3>2, <3>3 DEF Usable
  <2> QED BY <1>8, <1>12, <2>2, <2>3
<1>14. Claimed(k) <= gas
  BY <1>1, <1>2, <1>10, <1>13 DEF Claimed
<1>15. PushedInv(k.frames, k.output)
  BY <1>1, <1>6, <1>8, <1>10 DEF PushedInv, PaidKinds
<1>16. ASSUME NEW t, t.provided = gas, t.contract = a PROVE Booked(k, t)
  <2>1. \A i \in 2 .. Len(k.frames) : FALSE
    BY <1>8, <1>10
  <2> QED BY <1>6, <1>8, <1>10, <1>16, <2>1 DEF Booked
<1> QED BY <1>0, <1>11, <1>14, <1>15, <1>16 DEF PaidInv

(* doRunSmartContractCall and doRunSmartContractCreate.                    *)
LEMMA RunKeeps ==
  ASSUME GasFitsThePoints, MeterInv, NEW t \in tx.load.callTypes, NEW a \in Contracts,
         NEW gas \in tx.load.provided, NEW locked \in tx.load.provided,
         RunSmartContract(t, a, gas, locked)
  PROVE  MeterInv'
<1>1. StateType /\ phase = "idle" /\ host = NewHost /\ result = NoResult
  BY DEF MeterInv, RunSmartContract
<1>2. /\ tx.load \in Workloads /\ tx.load \in WorkloadType
      /\ gas \in Nat /\ gas <= MaxInt64 /\ locked \in Nat
  BY <1>1, LoadType
<1>3. gas + locked <= MaxInt64
  BY <1>2 DEF GasFitsThePoints
<1>4. PICK p \in Nat :
        p = (IF t = "callback" THEN AddUint64(gas, locked) ELSE gas) /\ p <= MaxInt64
  <2>1. AddUint64(gas, locked) = gas + locked /\ gas + locked \in Nat
    BY <1>2, <1>3, Bounds DEF AddUint64
  <2> QED BY <1>2, <1>3, <2>1
<1>5. PICK cost \in Nat : cost = RootCost(t, a)
  <2>1. CodeCost[a] \in Nat /\ ExecutionCost(a) \in Nat /\ ApiCost \in Nat
    BY CostType, MeteringAssumption
  <2> QED BY <2>1 DEF RootCost
<1>6. PICK k : k = RootHost(a, p, cost)
  OBVIOUS
<1>7. /\ tx' = [tx EXCEPT !.callType = t, !.contract = a, !.provided = p] /\ ops' = ops
      /\ \/ cost > p /\ phase' = "done" /\ result' = Failed /\ host' = host
         \/ cost <= p /\ phase' = "running" /\ host' = k /\ result' = result
  BY <1>1, <1>4, <1>5, <1>6 DEF RunSmartContract, RootHost
<1>8. /\ tx' \in [load : Workloads, provided : Nat, contract : Contracts \cup {"none"},
                  callType : {"none", "direct", "deploy", "async", "callback"}]
      /\ tx'.load = tx.load /\ tx'.provided = p /\ tx'.contract = a
      /\ ops' \in 0 .. tx'.load.maxOps
  <2>1. t \in {"none", "direct", "deploy", "async", "callback"}
    BY <1>2 DEF WorkloadType
  <2> QED BY <1>1, <1>7, <2>1 DEF StateType
<1>9. CASE cost > p /\ phase' = "done" /\ result' = Failed /\ host' = host
  <2>1. host.frames = <<>>
    BY <1>1 DEF NewHost
  <2>2. StateType'
    BY <1>1, <1>8, <1>9, <2>1 DEF StateType, Failed
  <2>3. FramesInv(host'.frames)
    BY <1>9, <2>1 DEF FramesInv
  <2>4. OutputGasIsPaid' /\ ReportedGasIsProvided'
    BY <1>9 DEF OutputGasIsPaid, ReportedGasIsProvided, Failed
  <2> QED BY <1>9, <2>2, <2>3, <2>4 DEF MeterInv
<1>10. CASE cost <= p /\ phase' = "running" /\ host' = k /\ result' = result
  <2>1. HostOK(k) /\ PaidInv(k, p) /\ Booked(k, tx')
    BY <1>4, <1>6, <1>8, <1>10, RootFrame
  <2>2. k \in HostType /\ k.frames # <<>> /\ FramesInv(k.frames)
    BY <2>1 DEF HostOK
  <2>3. StateType'
    BY <1>1, <1>8, <1>10, <2>2 DEF StateType
  <2>4. OutputGasIsPaid' /\ ReportedGasIsProvided'
    BY <1>1, <1>10 DEF OutputGasIsPaid, ReportedGasIsProvided, NoResult
  <2> QED BY <1>1, <1>8, <1>10, <2>1, <2>2, <2>3, <2>4 DEF MeterInv
<1> QED BY <1>7, <1>9, <1>10

-----------------------------------------------------------------------------
(* The theorems.                                                           *)

(* A function returns, or fails.                                           *)
LEMMA EndKeeps ==
  ASSUME MeterInv, NEW d \in tx.load.dataCosts, NEW start, Return(d, start) \/ Fail(d, start)
  PROVE  MeterInv'
<1>1. phase = "running" /\ UNCHANGED <<tx, ops>>
  BY DEF Return, Fail
<1>2. HostOK(host)
  BY <1>1, RunningState
<1>3. d \in Nat
  BY LoadType DEF MeterInv
<1>4. VMOutputOK(host, CreateVMOutputInCaseOfError(host))
  BY <1>2, ErrorOutputType
<1>5. CASE Return(d, start)
  <2>1. Running(host).phase # "failed"
    BY <1>5 DEF Return
  <2>2. VMOutputOK(host, GetVMOutput(host))
    BY <1>2, <2>1, GetVMOutputType
  <2>3. DestEnds(GetVMOutput(host), d, start) \/ SameEnds(TRUE) \/ RootEnds(TRUE)
    BY <1>5 DEF Return
  <2> QED BY <1>1, <1>3, <2>1, <2>2, <2>3, DestEndsKeeps, SameEndsKeeps, RootEndsKeeps
<1>6. CASE Fail(d, start)
  <2>1. \/ DestEnds(CreateVMOutputInCaseOfError(host), d, start)
        \/ SameEnds(FALSE) \/ RootEnds(FALSE)
    BY <1>6 DEF Fail
  <2> QED BY <1>1, <1>3, <1>4, <2>1, DestEndsKeeps, SameEndsKeeps, RootEndsKeeps
<1> QED BY <1>5, <1>6

(* Every step keeps the invariant.                                         *)
LEMMA MeterStep ==
  ASSUME GasFitsThePoints, MeterInv, [Next]_vars
  PROVE  MeterInv'
<1>1. ASSUME NEW t \in tx.load.callTypes, NEW a \in Contracts, NEW g \in tx.load.provided,
             NEW l \in tx.load.provided, RunSmartContract(t, a, g, l)
      PROVE  MeterInv'
  BY <1>1, RunKeeps
<1>2. ASSUME NEW g \in 1 .. 2, Use(g) PROVE MeterInv'
  BY <1>2, UseKeeps
<1>3. ASSUME NEW c \in {"dest", "transferExecute"}, NEW a \in Contracts, NEW l \in Limits,
             NEW s \in Starts, CallDest(c, a, l, s)
      PROVE  MeterInv'
  BY <1>3, CallDestKeeps
<1>4. ASSUME NEW a \in Contracts, NEW l \in Limits, NEW s \in Starts, CallSame(a, l, s)
      PROVE  MeterInv'
  BY <1>4, CallSameKeeps
<1>5. ASSUME NEW l \in Limits, TransferValueExecute(l) PROVE MeterInv'
  BY <1>5, TransferKeeps
<1>6. ASSUME NEW l \in Limits, NEW s \in Starts \cup {"refused"}, CreateNewContract(l, s)
      PROVE  MeterInv'
  BY <1>6, CreateKeeps
<1>7. ASSUME NEW a \in Contracts, NEW m \in {"async", "asyncSend"}, NEW s \in Starts,
             AsyncCall(a, m, s)
      PROVE  MeterInv'
  BY <1>7, AsyncKeeps
<1>8. ASSUME NEW d \in tx.load.dataCosts, NEW s \in {"ok", "noCode"},
             Return(d, s) \/ Fail(d, s)
      PROVE  MeterInv'
  BY <1>8, EndKeeps
<1>9. CASE UNCHANGED vars
  <2>1. /\ host' = host /\ phase' = phase /\ tx' = tx /\ result' = result /\ ops' = ops
    BY <1>9 DEF vars
  <2>2. StateType' /\ OutputGasIsPaid' /\ ReportedGasIsProvided'
    BY <2>1 DEF MeterInv, StateType, OutputGasIsPaid, ReportedGasIsProvided, ExcessForwarded
  <2> QED BY <2>1, <2>2 DEF MeterInv
<1>10. CASE Next
  BY <1>1, <1>2, <1>3, <1>4, <1>5, <1>6, <1>7, <1>8, <1>10 DEF Next
<1> QED BY <1>9, <1>10

(* The transaction starts with nothing.                                    *)
LEMMA MeterInit == Init => MeterInv
<1> SUFFICES ASSUME Init PROVE MeterInv
  OBVIOUS
<1>1. PICK w \in Workloads : tx = NoTx(w)
  BY DEF Init
<1>2. phase = "idle" /\ host = NewHost /\ result = NoResult /\ ops = 0
  BY DEF Init
<1>3. w.maxOps \in Nat
  BY MeteringAssumption DEF WorkloadType
<1>4. tx \in [load : Workloads, provided : Nat, contract : Contracts \cup {"none"},
              callType : {"none", "direct", "deploy", "async", "callback"}]
      /\ tx.load = w
  BY <1>1 DEF NoTx
<1>5. host \in HostType /\ host.frames = <<>>
  <2>1. <<>> \in Seq(FrameType) /\ 0 \in Nat
    OBVIOUS
  <2>2. [c \in Contracts |-> [forwarded |-> 0, returned |-> 0]]
          \in [Contracts -> [forwarded : Nat, returned : Nat]]
    OBVIOUS
  <2> QED BY <1>2, <2>1, <2>2 DEF NewHost, HostType, OutputType
<1>6. ops \in 0 .. tx.load.maxOps
  BY <1>2, <1>3, <1>4
<1>7. StateType
  BY <1>2, <1>4, <1>5, <1>6 DEF StateType, NoResult
<1>8. OutputGasIsPaid /\ ReportedGasIsProvided
  BY <1>2 DEF OutputGasIsPaid, ReportedGasIsProvided, NoResult
<1>9. FramesInv(host.frames)
  BY <1>5 DEF FramesInv
<1> QED BY <1>2, <1>7, <1>8, <1>9 DEF MeterInv

(* Gas keeps its type, what a call was given fits its counter, and what is *)
(* burnt, usable or sent was provided, in whatever order contracts call,   *)
(* end and fail (MeteringContext and execution.go).                        *)
THEOREM MeterInvariant ==
  ASSUME GasFitsThePoints
  PROVE  Spec => []MeterInv
<1>1. MeterInv /\ [Next]_vars => MeterInv'
  BY MeterStep
<1> QED BY <1>1, MeterInit, PTL DEF Spec

(* No call hands out gas that its caller keeps: what all the frames of a   *)
(* nest may still use and what was burnt is never more than the gas of the *)
(* transaction (UseGas and RestoreGas around every call of execution.go).  *)
THEOREM GasIsNeverFree ==
  ASSUME GasFitsThePoints
  PROVE  Spec => []NoFreeGas
<1>1. MeterInv => NoFreeGas
  <2> SUFFICES ASSUME MeterInv PROVE NoFreeGas
    OBVIOUS
  <2>1. TypeOK
    <3>1. StateType /\ host.frames \in Seq(FrameType)
      BY DEF MeterInv, StateType, HostType
    <3>2. Range(host.frames) \subseteq FrameType
      <4>1. PICK s \in Seq(FrameType) : s = host.frames
        BY <3>1
      <4>2. \A i \in DOMAIN s : s[i] \in FrameType
        OBVIOUS
      <4> QED BY <4>1, <4>2 DEF Range
    <3> QED BY <3>1, <3>2 DEF TypeOK, StateType, HostType
  <2>2. ASSUME phase = "running", tx.load.hostCalls \cap UnpaidCalls = {}
        PROVE  host.burnt + Usable(host.frames) <= tx.provided
    <3>1. HostOK(host) /\ tx.provided \in Nat /\ Claimed(host) <= tx.provided
      BY <2>2, RunningState DEF PaidLoad, PaidInv
    <3> QED BY <3>1, ClaimedType
  <2> QED BY <2>1, <2>2 DEF NoFreeGas
<1> QED BY <1>1, MeterInvariant, PTL

(* A transaction that succeeds refunds, sends to other shards and burns no *)
(* more than it was provided with, and what its output reports adds up to  *)
(* no more than that and what it forwarded in excess (GetVMOutput and      *)
(* checkGas).                                                              *)
THEOREM RefundsAreProvided ==
  ASSUME GasFitsThePoints
  PROVE  Spec => []OutputGasAddsUp
<1>1. MeterInv => OutputGasAddsUp
  BY DEF MeterInv, OutputGasAddsUp
<1> QED BY <1>1, MeterInvariant, PTL

(* The destination of an asynchronous call ends.                           *)
LEMMA CallbackStarts ==
  ASSUME MeterInv, NEW d \in tx.load.dataCosts, Return(d, "ok") \/ Fail(d, "ok"),
         Running(host).kind = "async", host.frames[Len(host.frames) - 1].gasLocked > 0,
         d + GetCode < AsyncCallbackGasLock
  PROVE  Running(host').kind = "callback" /\ Running(host').phase = "running"
<1>1. phase = "running"
  BY DEF Return, Fail
<1>2. HostOK(host) /\ d \in Nat
  BY <1>1, RunningState, LoadType DEF MeterInv
<1>3. PICK v : VMOutputOK(host, v) /\ DestEnds(v, d, "ok")
  <2>1. VMOutputOK(host, CreateVMOutputInCaseOfError(host))
    BY <1>2, ErrorOutputType
  <2>2. CASE Return(d, "ok")
    <3>1. VMOutputOK(host, GetVMOutput(host))
      BY <1>2, <2>2, GetVMOutputType DEF Return
    <3>2. DestEnds(GetVMOutput(host), d, "ok")
      BY <2>2 DEF Return, SameEnds, RootEnds
    <3> QED BY <3>1, <3>2
  <2>3. CASE Fail(d, "ok")
    <3>1. DestEnds(CreateVMOutputInCaseOfError(host), d, "ok")
      BY <2>3 DEF Fail, SameEnds, RootEnds
    <3> QED BY <2>1, <3>1
  <2> QED BY <2>2, <2>3
<1>4. PICK h : h = FinishExecuteOnDestContext(host, v)
  OBVIOUS
<1>5. host' = ExecuteSyncCallbackCall(h, v, d, "ok")
  BY <1>3, <1>4 DEF DestEnds, Resume
<1>6. Returns(host, h)
  BY <1>2, <1>3, <1>4, FinishDestReturns
<1>7. /\ HostOK(h) /\ v.remaining + Running(h).gasLocked <= MaxInt64
      /\ Running(h).gasLocked = host.frames[Len(host.frames) - 1].gasLocked
  BY <1>2, <1>3, <1>6, LockReturns DEF Returns
<1>8. PICK f \in FrameType : f = Running(h) /\ FrameInv(f)
  BY <1>7, RunningType
<1>9. f.gasLocked \in Nat /\ f.address \in Contracts
  BY DEF FrameType
<1>10. /\ f.address \in HasCallback
       /\ f.gasLocked = CodeCost[f.address] + AsyncCallStep + AsyncCallbackGasLock
  BY <1>7, <1>8, <1>9 DEF FrameInv
<1>11. PICK code \in Nat, step \in Nat, lock \in Nat, get \in Nat, r \in Nat :
         /\ code = CodeCost[f.address] /\ step = AsyncCallStep /\ lock = AsyncCallbackGasLock
         /\ get = GetCode /\ r = v.remaining
  BY <1>3, <1>9, MeteringAssumption, CostType DEF VMOutputOK
<1>12. CallbackGas(h, v) = r + (code + step + lock)
  BY <1>8, <1>10, <1>11 DEF CallbackGas
<1>13. CallbackCost(d) \in Nat /\ CallbackCost(d) <= step + d
  <2>1. AddUint64(step, d) \in Nat /\ AddUint64(step, d) <= step + d
    BY <1>2, Bounds DEF AddUint64
  <2> QED BY <1>11, <2>1 DEF CallbackCost
<1>14. PICK c \in Nat : c = CallbackCost(d) /\ c <= step + d
  BY <1>13
<1>15. r + (code + step + lock) > c /\ get + code <= (r + (code + step + lock)) - c
  <2>1. d + get < lock
    BY <1>11
  <2> QED BY ONLY <1>14, <2>1, <1>2, code \in Nat, step \in Nat, lock \in Nat, get \in Nat,
              r \in Nat, c \in Nat
<1>16. /\ CallbackGas(h, v) > CallbackCost(d)
       /\ ExecutionCost(f.address) <= CallbackGas(h, v) - CallbackCost(d)
  BY <1>11, <1>12, <1>14, <1>15 DEF ExecutionCost
<1>17. v.remaining \in Nat /\ v.ok \in BOOLEAN
  BY <1>3 DEF VMOutputOK
<1>18. PICK k : k = host'
  OBVIOUS
<1>19. /\ Booked(h, tx) => Booked(k, tx)
       /\ (/\ CallbackGas(h, v) > CallbackCost(d)
           /\ Running(h).address \in HasCallback
           /\ ExecutionCost(Running(h).address) <= CallbackGas(h, v) - CallbackCost(d))
          => Running(k).kind = "callback" /\ Running(k).phase = "running"
  BY <1>2, <1>5, <1>7, <1>17, <1>18, CallbackKeeps
<1> QED BY <1>8, <1>10, <1>16, <1>18, <1>19

(* Gas locked for a callback starts it, even when the destination failed   *)
(* or used up everything (asyncCall locks, executeSyncCallbackCall pays).  *)
THEOREM LockedGasIsEnough ==
  ASSUME GasFitsThePoints
  PROVE  Spec => LockedGasStartsCallback
<1> DEFINE Starting ==
      \A d \in tx.load.dataCosts :
        (/\ Return(d, "ok") \/ Fail(d, "ok")
         /\ Running(host).kind = "async"
         /\ host.frames[Len(host.frames) - 1].gasLocked > 0
         /\ d + GetCode < AsyncCallbackGasLock) =>
           Running(host').kind = "callback" /\ Running(host').phase = "running"
<1>1. MeterInv /\ [Next]_vars => [Starting]_vars
  <2>1. MeterInv => Starting
    BY CallbackStarts
  <2> QED BY <2>1
<1>2. Spec => []MeterInv
  BY MeterInvariant
<1> QED BY <1>1, <1>2, PTL DEF Spec, LockedGasStartsCallback
=============================================================================
