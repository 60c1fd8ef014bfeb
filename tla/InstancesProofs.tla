--------------------------- MODULE InstancesProofs ---------------------------
(***************************************************************************)
(* Proofs about Instances, for any contracts, codes and numbers of calls.  *)
(* The setting with a warm instance AND code compiled ahead of time is the *)
(* one in which a destroyed instance is resumed (run instances_warm): the  *)
(* theorems that exclude it say so.                                        *)
(***************************************************************************)
EXTENDS Instances, TLAPS, SequenceTheorems

(* The settings under which instances are not mixed up.                    *)
WarmOrCompiled == \A s \in Settings : ~(s.useWarmInstance /\ s.aheadOfTime)

-----------------------------------------------------------------------------
(* The runtime context.                                                    *)
VMType ==
  [setting : Settings, instance : Nat, instanceStack : Seq(Nat), warmInstance : Nat,
   warmInstanceAddress : Addresses \cup {NoAddress}, verifyCode : BOOLEAN,
   instances : Seq(InstanceOf), compiled : [Codes -> Codes \cup {NoCode}]]

Exists(v, i) == i \in 1 .. Len(v.instances)
Alive(v, i) == Exists(v, i) /\ v.instances[i].cleans = 0
Before(v, i, j) == i <= j /\ (~v.setting.useWarmInstance => i < j)

(* The stack holds live instances, older ones below younger ones: an       *)
(* instance may occur twice only while it is the warm one.                 *)
StackInv(v) ==
  /\ \A n \in 1 .. Len(v.instanceStack) : Alive(v, v.instanceStack[n])
  /\ \A n, m \in 1 .. Len(v.instanceStack) :
       n < m => Before(v, v.instanceStack[n], v.instanceStack[m])

(* The current instance is alive and younger than those that wait.         *)
CurrentInv(v) ==
  v.instance # Nil =>
    /\ Alive(v, v.instance)
    /\ \A n \in 1 .. Len(v.instanceStack) : Before(v, v.instanceStack[n], v.instance)

(* The warm instance is alive and no instance in use is younger.           *)
WarmInv(v) ==
  /\ v.warmInstance # Nil =>
       /\ v.setting.useWarmInstance
       /\ Alive(v, v.warmInstance) /\ v.instances[v.warmInstance].warm
       /\ v.instance <= v.warmInstance
       /\ \A n \in 1 .. Len(v.instanceStack) : v.instanceStack[n] <= v.warmInstance
  /\ v.warmInstanceAddress # NoAddress => v.warmInstance # Nil

(* An instance is destroyed at most once, and one that was never warm is   *)
(* destroyed or in use.                                                    *)
ReleaseInv(v) ==
  \A i \in 1 .. Len(v.instances) :
    /\ v.instances[i].cleans <= 1
    /\ v.instances[i].cleans = 0 /\ ~v.instances[i].warm =>
         i = v.instance \/ \E n \in 1 .. Len(v.instanceStack) : v.instanceStack[n] = i

VMInv(v) ==
  /\ v \in VMType
  /\ StackInv(v) /\ CurrentInv(v) /\ WarmInv(v) /\ ReleaseInv(v)

(* One instance per execution in progress.                                 *)
RuntimeInv ==
  /\ VMInv(vm)
  /\ frames \in Seq(Frame)
  /\ mode \in {"idle", "run", "panic"}
  /\ mode = "idle" => /\ frames = <<>> /\ vm.instanceStack = <<>>
                      /\ vm.instance = Nil \/ vm.instance = vm.warmInstance
  /\ mode # "idle" => /\ vm.instance # Nil
                      /\ Len(vm.instanceStack) = Len(frames) - 1
  /\ Len(frames) <= maxWasmerInstances

RestTyped ==
  /\ committed \in [Addresses -> Codes \cup {NoCode}]
  /\ code \in [Addresses -> Codes \cup {NoCode}]
  /\ created \subseteq Codes
  /\ txs \in 0 .. MaxTxs /\ steps \in 0 .. MaxSteps

(* Compiled code is kept under the hash of the code it was compiled from.  *)
CompiledInv == \A h \in Codes : vm.compiled[h] \in {h, NoCode}

(* Only created contracts are not in the node yet.                         *)
DeployedInv ==
  \A c \in Addresses : committed[c] # NoCode =>
    code[c] # NoCode /\ \A n \in 1 .. Len(frames) : frames[n].saved[c] # NoCode

InstanceAt(n) == IF n = Len(frames) THEN vm.instance ELSE vm.instanceStack[n]
RunsInv ==
  mode # "idle" /\ ~vm.setting.useWarmInstance =>
    \A n \in 1 .. Len(frames) :
      /\ vm.instances[InstanceAt(n)].contract = frames[n].contract
      /\ vm.instances[InstanceAt(n)].code = frames[n].runs

Verified(k) == Shape[k].memory /\ verifyFunctions(k)
Fine(S, k) == k = NoCode \/ k \in S \/ Verified(k)
VerifiedInv ==
  ~vm.setting.useWarmInstance =>
    /\ \A c \in Addresses :
         /\ Fine(created, committed[c]) /\ Fine(created, code[c])
         /\ \A n \in 1 .. Len(frames) : Fine(created, frames[n].saved[c])
    /\ \A n \in 1 .. Len(frames) : frames[n].kind # "call" => Fine(created, frames[n].runs)

-----------------------------------------------------------------------------
(* What the operators on the runtime context return.                       *)

(* The stack of instances without its top.                                 *)
LEMMA StackPop ==
  ASSUME NEW S, NEW s \in Seq(S), s # <<>>
  PROVE  /\ Last(s) \in S /\ Front(s) \in Seq(S)
         /\ Len(s) \in Nat \ {0} /\ Last(s) = s[Len(s)]
         /\ Len(Front(s)) = Len(s) - 1
         /\ \A i \in 1 .. Len(s) - 1 : Front(s)[i] = s[i]
<1>1. PICK n \in Nat : n = Len(s) /\ n # 0
  BY EmptySeq
<1>2. \A i \in 1 .. n : s[i] \in S
  BY <1>1, ElementOfSeq
<1>3. /\ SubSeq(s, 1, n - 1) \in Seq(S)
      /\ Len(SubSeq(s, 1, n - 1)) = n - 1
      /\ \A i \in 1 .. n - 1 : SubSeq(s, 1, n - 1)[i] = s[i]
  <2>1. \A i \in 1 .. n - 1 : s[i] \in S
    BY <1>1, <1>2
  <2>2. /\ SubSeq(s, 1, n - 1) \in Seq(S)
        /\ Len(SubSeq(s, 1, n - 1)) = IF 1 <= n - 1 THEN (n - 1) - 1 + 1 ELSE 0
        /\ \A i \in 1 .. (n - 1) - 1 + 1 : SubSeq(s, 1, n - 1)[i] = s[1 + i - 1]
    BY <2>1, SubSeqProperties, 1 \in Int, n - 1 \in Int
  <2> QED BY <1>1, <2>2
<1>4. Last(s) \in S /\ Last(s) = s[n]
  BY <1>1, <1>2 DEF Last
<1> QED BY <1>1, <1>3, <1>4 DEF Front

(* The stack of instances with one more.                                   *)
LEMMA StackPush ==
  ASSUME NEW S, NEW s \in Seq(S), NEW x \in S
  PROVE  /\ Append(s, x) \in Seq(S) /\ Append(s, x) # <<>>
         /\ Len(Append(s, x)) = Len(s) + 1
         /\ \A i \in 1 .. Len(s) : Append(s, x)[i] = s[i]
         /\ Append(s, x)[Len(s) + 1] = x
         /\ Last(Append(s, x)) = x /\ Front(Append(s, x)) = s
<1>1. /\ Append(s, x) \in Seq(S) /\ Append(s, x) # <<>>
      /\ Len(Append(s, x)) = Len(s) + 1
      /\ \A i \in 1 .. Len(s) : Append(s, x)[i] = s[i]
      /\ Append(s, x)[Len(s) + 1] = x
  BY AppendProperties
<1>2. Last(Append(s, x)) = x
  BY <1>1 DEF Last
<1>3. /\ Front(Append(s, x)) \in Seq(S) /\ Len(Front(Append(s, x))) = Len(s)
      /\ \A i \in 1 .. Len(s) : Front(Append(s, x))[i] = s[i]
  <2> HIDE DEF Front, Last
  <2> DEFINE a == Append(s, x)
  <2>0. a \in Seq(S) /\ a # <<>> /\ Len(a) = Len(s) + 1 /\ Len(s) \in Nat
    BY <1>1, LenProperties
  <2>1. Front(a) \in Seq(S) /\ Len(Front(a)) = Len(a) - 1
        /\ \A i \in 1 .. Len(a) - 1 : Front(a)[i] = a[i]
    <3> HIDE DEF a
    <3> QED BY <2>0, StackPop
  <2> QED BY <1>1, <2>0, <2>1
<1>4. Front(Append(s, x)) = s
  BY <1>3, SeqEqual
<1> QED BY <1>1, <1>2, <1>4

(* Cleaning an instance counts one more destruction of it and of no other. *)
LEMMA CleanFacts ==
  ASSUME NEW v \in VMType, NEW i \in 1 .. Len(v.instances)
  PROVE  /\ Clean(v, i) \in VMType
         /\ Clean(v, i) = [v EXCEPT !.instances = Clean(v, i).instances]
         /\ Len(Clean(v, i).instances) = Len(v.instances)
         /\ \A j \in 1 .. Len(v.instances) :
              Clean(v, i).instances[j] =
                IF j = i THEN [v.instances[i] EXCEPT !.cleans = @ + 1] ELSE v.instances[j]
<1>1. /\ v.instances \in Seq(InstanceOf) /\ v.instances[i] \in InstanceOf
      /\ Len(v.instances) \in Nat /\ DOMAIN v.instances = 1 .. Len(v.instances)
  BY ElementOfSeq, LenProperties DEF VMType
<1> DEFINE e == [v.instances[i] EXCEPT !.cleans = @ + 1]
           s == [v.instances EXCEPT ![i] = e]
<1>2. e \in InstanceOf
  <2>1. v.instances[i].cleans + 1 \in Nat
    BY <1>1 DEF InstanceOf
  <2>2. ASSUME NEW x \in InstanceOf, NEW n \in Nat PROVE [x EXCEPT !.cleans = n] \in InstanceOf
    BY Zenon DEF InstanceOf
  <2> QED BY <1>1, <2>1, <2>2
<1>3. /\ s \in Seq(InstanceOf) /\ Len(s) = Len(v.instances)
      /\ \A j \in 1 .. Len(v.instances) : s[j] = IF j = i THEN e ELSE v.instances[j]
  BY <1>1, <1>2, ExceptSeq
<1>4. Clean(v, i) = [v EXCEPT !.instances = s]
  BY DEF Clean
<1> HIDE DEF s
<1>5. Clean(v, i).instances = s
  BY <1>4 DEF VMType
<1>6. Clean(v, i) \in VMType
  BY <1>3, <1>4 DEF VMType
<1> QED BY <1>3, <1>4, <1>5, <1>6

(* The instance that is left is destroyed unless it is nil, warm or the    *)
(* one to resume; nothing below it on the stack is the same instance.      *)
Leaves(v) == v.instance \notin {Nil, v.warmInstance, Last(v.instanceStack)}

SameInstances(v, w) ==
  /\ Len(w.instances) = Len(v.instances)
  /\ \A j \in 1 .. Len(v.instances) :
       /\ w.instances[j].contract = v.instances[j].contract
       /\ w.instances[j].code = v.instances[j].code
       /\ w.instances[j].warm = v.instances[j].warm

(* Going back to the instance on top of the stack destroys the one that is *)
(* left, once.                                                             *)
LEMMA PoppedKeeps ==
  ASSUME NEW v, VMInv(v), v.instanceStack # <<>>,
         NEW w \in VMType, w.setting = v.setting,
         w.warmInstance = v.warmInstance, w.warmInstanceAddress = v.warmInstanceAddress,
         w.instanceStack = Front(v.instanceStack), w.instance = Last(v.instanceStack),
         SameInstances(v, w),
         \A j \in 1 .. Len(v.instances) :
           w.instances[j].cleans = IF Leaves(v) /\ j = v.instance
                                   THEN v.instances[j].cleans + 1
                                   ELSE v.instances[j].cleans
  PROVE  VMInv(w) /\ w.instance # Nil
<1> DEFINE s == v.instanceStack  last == Len(s)
<1>1. /\ s \in Seq(Nat) /\ last \in Nat \ {0} /\ w.instance = s[last]
      /\ Len(w.instanceStack) = last - 1
      /\ \A n \in 1 .. last - 1 : w.instanceStack[n] = s[n]
      /\ \A n \in 1 .. last : s[n] \in Nat
  <2>1. s \in Seq(Nat)
    BY DEF VMInv, VMType
  <2>2. \A n \in 1 .. Len(s) : s[n] \in Nat
    BY <2>1, ElementOfSeq
  <2>3. /\ Len(s) \in Nat \ {0} /\ Last(s) = s[Len(s)]
        /\ Len(Front(s)) = Len(s) - 1
        /\ \A i \in 1 .. Len(s) - 1 : Front(s)[i] = s[i]
    BY <2>1, StackPop
  <2> QED BY <2>1, <2>2, <2>3
<1>2. Len(v.instances) \in Nat /\ v.instance \in Nat /\ w.instance \in Nat /\ v.warmInstance \in Nat
      /\ \A j \in 1 .. Len(v.instances) : v.instances[j].cleans \in Nat
  <2>1. v.instances \in Seq(InstanceOf) /\ v.instance \in Nat /\ w.instance \in Nat
        /\ v.warmInstance \in Nat
    BY DEF VMInv, VMType
  <2>2. \A j \in 1 .. Len(v.instances) : v.instances[j] \in InstanceOf
    BY <2>1, ElementOfSeq
  <2>3. \A j \in 1 .. Len(v.instances) : v.instances[j].cleans \in Nat
    BY <2>2 DEF InstanceOf
  <2> QED BY <2>1, <2>3, LenProperties
<1>b. \A i, j : Before(w, i, j) <=> Before(v, i, j)
  BY DEF Before
<1>s. /\ \A n \in 1 .. last : Alive(v, s[n])
      /\ \A n, m \in 1 .. last : n < m => Before(v, s[n], s[m])
  BY DEF VMInv, StackInv
<1>3. ASSUME Leaves(v) PROVE \A n \in 1 .. last : s[n] < v.instance
  <2>1. v.instance # Nil /\ v.instance # s[last]
    BY <1>1, <1>3 DEF Leaves
  <2>2. s[last] <= v.instance
    BY <1>1, <2>1 DEF VMInv, CurrentInv, Before
  <2>3. \A n \in 1 .. last : s[n] <= s[last]
    BY <1>1, <1>s DEF Before
  <2> QED BY <1>1, <1>2, <2>1, <2>2, <2>3
<1>4. \A n \in 1 .. last : Alive(w, s[n])
  <2> TAKE n \in 1 .. last
  <2>1. Alive(v, s[n]) /\ (Leaves(v) => s[n] # v.instance)
    BY <1>1, <1>2, <1>3, <1>s
  <2> QED BY <2>1 DEF Alive, Exists, SameInstances
<1>5. StackInv(w)
  <2>1. \A n \in 1 .. last - 1 : Alive(w, w.instanceStack[n])
    <3> TAKE n \in 1 .. last - 1
    <3>1. n \in 1 .. last /\ w.instanceStack[n] = s[n]
      BY <1>1
    <3> QED BY <1>4, <3>1
  <2>2. ASSUME NEW n \in 1 .. last - 1, NEW m \in 1 .. last - 1, n < m
        PROVE  Before(w, w.instanceStack[n], w.instanceStack[m])
    <3>1. n \in 1 .. last /\ m \in 1 .. last
          /\ w.instanceStack[n] = s[n] /\ w.instanceStack[m] = s[m]
      BY <1>1
    <3>2. Before(v, s[n], s[m])
      BY <1>s, <2>2, <3>1
    <3> QED BY <1>b, <3>1, <3>2
  <2> QED BY <1>1, <2>1, <2>2 DEF StackInv
<1>6. CurrentInv(w) /\ w.instance # Nil
  <2>1. Alive(w, w.instance) /\ w.instance # Nil
    BY <1>1, <1>4 DEF Alive, Exists, Nil
  <2>2. \A n \in 1 .. last - 1 : Before(w, w.instanceStack[n], s[last])
    <3> TAKE n \in 1 .. last - 1
    <3>1. n \in 1 .. last /\ last \in 1 .. last /\ n < last /\ w.instanceStack[n] = s[n]
      BY <1>1
    <3>2. Before(v, s[n], s[last])
      BY <1>s, <3>1
    <3> QED BY <1>b, <3>1, <3>2
  <2> QED BY <1>1, <2>1, <2>2 DEF CurrentInv
<1>7. WarmInv(w)
  <2>1. ASSUME v.warmInstance # Nil PROVE Alive(w, v.warmInstance)
    BY <2>1, <1>2 DEF VMInv, WarmInv, Leaves, Alive, Exists, SameInstances
  <2>2. v.warmInstance # Nil =>
          /\ v.setting.useWarmInstance /\ v.instances[v.warmInstance].warm
          /\ Exists(v, v.warmInstance)
          /\ \A n \in 1 .. last : s[n] <= v.warmInstance
    BY DEF VMInv, WarmInv, Alive
  <2>3. v.warmInstanceAddress # NoAddress => v.warmInstance # Nil
    BY DEF VMInv, WarmInv
  <2>4. ASSUME v.warmInstance # Nil
        PROVE  /\ w.instance <= w.warmInstance
               /\ \A n \in 1 .. last - 1 : w.instanceStack[n] <= w.warmInstance
    BY <1>1, <2>2, <2>4
  <2>5. ASSUME v.warmInstance # Nil
        PROVE  w.setting.useWarmInstance /\ w.instances[w.warmInstance].warm
    BY <2>2, <2>5 DEF Exists, SameInstances
  <2> QED BY <1>1, <2>1, <2>3, <2>4, <2>5 DEF WarmInv
<1>8. ReleaseInv(w)
  <2> SUFFICES ASSUME NEW i \in 1 .. Len(v.instances)
               PROVE  /\ w.instances[i].cleans <= 1
                      /\ w.instances[i].cleans = 0 /\ ~w.instances[i].warm =>
                           \/ i = w.instance
                           \/ \E n \in 1 .. Len(w.instanceStack) : w.instanceStack[n] = i
    BY DEF ReleaseInv, SameInstances
  <2>1. /\ v.instances[i].cleans <= 1
        /\ v.instances[i].cleans = 0 /\ ~v.instances[i].warm =>
             i = v.instance \/ \E n \in 1 .. last : s[n] = i
    BY DEF VMInv, ReleaseInv
  <2>2. v.instance # Nil => Alive(v, v.instance)
    BY DEF VMInv, CurrentInv
  <2>3. w.instances[i].cleans <= 1
    BY <1>2, <2>1, <2>2 DEF Leaves, Alive
  <2>4. ASSUME w.instances[i].cleans = 0, ~w.instances[i].warm
        PROVE \E n \in 1 .. last : s[n] = i
    <3>1. v.instances[i].cleans = 0 /\ ~v.instances[i].warm /\ ~(Leaves(v) /\ i = v.instance)
      BY <1>2, <2>4 DEF SameInstances
    <3>2. CASE i = v.instance
      <4>1. i # v.warmInstance
        BY <3>1 DEF VMInv, WarmInv, Nil
      <4>2. i = s[last]
        BY <1>1, <3>1, <3>2, <4>1 DEF Leaves, Nil
      <4> QED BY <1>1, <4>2
    <3> QED BY <2>1, <3>1, <3>2
  <2>5. (\E n \in 1 .. last : s[n] = i) =>
          i = w.instance \/ \E n \in 1 .. Len(w.instanceStack) : w.instanceStack[n] = i
    <3> SUFFICES ASSUME NEW n \in 1 .. last, s[n] = i, i # w.instance
                 PROVE  \E m \in 1 .. Len(w.instanceStack) : w.instanceStack[m] = i
      OBVIOUS
    <3>1. n # last
      BY <1>1
    <3>2. n \in 1 .. last - 1 /\ n \in 1 .. Len(w.instanceStack)
      BY <1>1, <3>1
    <3> QED BY <1>1, <3>2
  <2> QED BY <2>3, <2>4, <2>5
<1> QED BY <1>5, <1>6, <1>7, <1>8 DEF VMInv

(* popInstance resumes the instance on top of the stack and keeps every    *)
(* instance in use alive.                                                  *)
LEMMA PopKeeps ==
  ASSUME NEW v, VMInv(v), v.instanceStack # <<>>
  PROVE  /\ VMInv(popInstance(v)) /\ popInstance(v).instance # Nil
         /\ popInstance(v).instance = Last(v.instanceStack)
         /\ popInstance(v).instanceStack = Front(v.instanceStack)
         /\ popInstance(v).setting = v.setting /\ popInstance(v).compiled = v.compiled
         /\ SameInstances(v, popInstance(v))
<1> DEFINE w == popInstance(v)
           popped == [v EXCEPT !.instanceStack = Front(@)]
           prev == Last(v.instanceStack)
<1>1. /\ v \in VMType /\ v.instance \in Nat /\ v.instanceStack \in Seq(Nat)
      /\ Front(v.instanceStack) \in Seq(Nat) /\ prev \in Nat
  <2>1. v \in VMType /\ v.instance \in Nat /\ v.instanceStack \in Seq(Nat)
    BY DEF VMInv, VMType
  <2> QED BY <2>1, StackPop
<1> HIDE DEF prev
<1>2. /\ popped \in VMType /\ popped.instance = v.instance
      /\ popped.instances = v.instances /\ popped.warmInstance = v.warmInstance
      /\ popped.instanceStack = Front(v.instanceStack)
      /\ popped.warmInstanceAddress = v.warmInstanceAddress
      /\ popped.setting = v.setting /\ popped.compiled = v.compiled
  BY <1>1 DEF VMType
<1>3. w = IF prev = v.instance THEN popped ELSE [CleanWasmerInstance(popped) EXCEPT !.instance = prev]
  BY DEF popInstance, prev
<1> HIDE DEF popped, w
<1>4. Leaves(v) <=> v.instance # Nil /\ ~IsWarmInstance(popped) /\ v.instance # prev
  BY <1>2 DEF Leaves, IsWarmInstance, prev
<1>5. CASE prev = v.instance
  <2>1. w = popped /\ ~Leaves(v)
    BY <1>3, <1>4, <1>5
  <2>2. SameInstances(v, w)
    BY <1>2, <2>1 DEF SameInstances
  <2>3. VMInv(w) /\ w.instance # Nil
    BY <1>2, <1>5, <2>1, <2>2, PoppedKeeps DEF prev
  <2> QED BY <1>2, <1>5, <2>1, <2>2, <2>3 DEF w, prev
<1>6. CASE prev # v.instance /\ ~Leaves(v)
  <2>1. w = [popped EXCEPT !.instance = prev]
    BY <1>2, <1>3, <1>4, <1>6 DEF CleanWasmerInstance
  <2>2. /\ w \in VMType /\ w.instance = prev
        /\ w.instances = v.instances /\ w.warmInstance = v.warmInstance
        /\ w.instanceStack = Front(v.instanceStack)
        /\ w.warmInstanceAddress = v.warmInstanceAddress
        /\ w.setting = v.setting /\ w.compiled = v.compiled
    BY <1>1, <1>2, <2>1 DEF VMType
  <2>3. SameInstances(v, w)
    BY <2>2 DEF SameInstances
  <2>4. VMInv(w) /\ w.instance # Nil
    BY <1>6, <2>2, <2>3, PoppedKeeps DEF prev
  <2> QED BY <2>2, <2>3, <2>4 DEF w, prev
<1>7. CASE prev # v.instance /\ Leaves(v)
  <2> DEFINE i == v.instance  cl == Clean(popped, i)
  <2>1. i \in 1 .. Len(popped.instances)
    BY <1>2, <1>4, <1>7 DEF VMInv, CurrentInv, Alive, Exists
  <2>2. w = [cl EXCEPT !.instance = prev]
    <3>1. CleanWasmerInstance(popped) = [cl EXCEPT !.instance = Nil]
      BY <1>2, <1>4, <1>7 DEF CleanWasmerInstance
    <3> QED BY <1>3, <1>7, <3>1
  <2>3. /\ cl \in VMType /\ cl = [popped EXCEPT !.instances = cl.instances]
        /\ Len(cl.instances) = Len(v.instances)
        /\ \A j \in 1 .. Len(v.instances) :
             cl.instances[j] = IF j = i THEN [v.instances[i] EXCEPT !.cleans = @ + 1]
                               ELSE v.instances[j]
    BY <1>2, <2>1, CleanFacts
  <2> HIDE DEF cl, i
  <2>4. /\ w \in VMType /\ w.instance = prev /\ w.instances = cl.instances
        /\ w.warmInstance = cl.warmInstance /\ w.instanceStack = cl.instanceStack
        /\ w.warmInstanceAddress = cl.warmInstanceAddress
        /\ w.setting = cl.setting /\ w.compiled = cl.compiled
    BY <1>1, <2>2, <2>3 DEF VMType
  <2>5. /\ cl.warmInstance = v.warmInstance
        /\ cl.instanceStack = Front(v.instanceStack)
        /\ cl.warmInstanceAddress = v.warmInstanceAddress
        /\ cl.setting = v.setting /\ cl.compiled = v.compiled
    BY <1>2, <2>3 DEF VMType
  <2>6. \A j \in 1 .. Len(v.instances) :
          /\ w.instances[j].contract = v.instances[j].contract
          /\ w.instances[j].code = v.instances[j].code
          /\ w.instances[j].warm = v.instances[j].warm
          /\ w.instances[j].cleans = IF j = i THEN v.instances[j].cleans + 1
                                     ELSE v.instances[j].cleans
    <3> TAKE j \in 1 .. Len(v.instances)
    <3>1. v.instances[j] \in InstanceOf
      BY <1>1, ElementOfSeq DEF VMType
    <3>2. w.instances[j] = IF j = i THEN [v.instances[j] EXCEPT !.cleans = @ + 1]
                           ELSE v.instances[j]
      BY <2>3, <2>4
    <3> QED BY <3>1, <3>2 DEF InstanceOf
  <2>7. SameInstances(v, w)
    BY <2>3, <2>4, <2>6 DEF SameInstances
  <2>8. VMInv(w) /\ w.instance # Nil
    BY <1>7, <2>4, <2>5, <2>6, <2>7, PoppedKeeps DEF prev, i
  <2> QED BY <2>4, <2>5, <2>7, <2>8 DEF w, prev
<1> QED BY <1>5, <1>6, <1>7

(* The end of a transaction: nothing waits on the stack.                   *)
LEMMA CleanTopKeeps ==
  ASSUME NEW v, VMInv(v), v.instanceStack = <<>>
  PROVE  /\ VMInv(CleanWasmerInstance(v))
         /\ CleanWasmerInstance(v).instanceStack = <<>>
         /\ CleanWasmerInstance(v).instance = Nil
              \/ CleanWasmerInstance(v).instance = CleanWasmerInstance(v).warmInstance
         /\ CleanWasmerInstance(v).setting = v.setting
         /\ CleanWasmerInstance(v).compiled = v.compiled
<1>1. CASE v.instance = Nil \/ IsWarmInstance(v)
  BY <1>1 DEF CleanWasmerInstance, IsWarmInstance
<1>2. CASE ~(v.instance = Nil \/ IsWarmInstance(v))
  <2> DEFINE i == v.instance  cl == Clean(v, i)  w == CleanWasmerInstance(v)
  <2>1. v \in VMType /\ i \in 1 .. Len(v.instances) /\ v.instances[i].cleans = 0
    BY <1>2 DEF VMInv, CurrentInv, Alive, Exists
  <2>2. /\ cl \in VMType /\ cl = [v EXCEPT !.instances = cl.instances]
        /\ Len(cl.instances) = Len(v.instances)
        /\ \A j \in 1 .. Len(v.instances) :
             cl.instances[j] = IF j = i THEN [v.instances[i] EXCEPT !.cleans = @ + 1]
                               ELSE v.instances[j]
    BY <2>1, CleanFacts
  <2>3. w = [cl EXCEPT !.instance = Nil]
    BY <1>2 DEF CleanWasmerInstance
  <2> HIDE DEF cl, i, w
  <2>4. /\ w \in VMType /\ w.instance = Nil /\ w.instances = cl.instances
        /\ w.warmInstance = cl.warmInstance /\ w.instanceStack = cl.instanceStack
        /\ w.warmInstanceAddress = cl.warmInstanceAddress
        /\ w.setting = cl.setting /\ w.compiled = cl.compiled
    BY <2>2, <2>3 DEF VMType, Nil
  <2>5. /\ cl.warmInstance = v.warmInstance
        /\ cl.instanceStack = v.instanceStack
        /\ cl.warmInstanceAddress = v.warmInstanceAddress
        /\ cl.setting = v.setting /\ cl.compiled = v.compiled
    BY <2>1, <2>2 DEF VMType
  <2>6. Len(w.instanceStack) = 0 /\ Len(v.instanceStack) = 0 /\ Len(w.instances) = Len(v.instances)
        /\ v.warmInstance # i
    BY <1>2, <2>2, <2>4, <2>5 DEF IsWarmInstance, i
  <2>7. ASSUME NEW j \in 1 .. Len(v.instances)
        PROVE  /\ w.instances[j].warm = v.instances[j].warm
               /\ j = i => w.instances[j].cleans = 1
               /\ j # i => w.instances[j].cleans = v.instances[j].cleans
    <3>1. v.instances[j] \in InstanceOf
      BY <2>1, ElementOfSeq DEF VMType
    <3>2. w.instances[j] = IF j = i THEN [v.instances[j] EXCEPT !.cleans = @ + 1]
                           ELSE v.instances[j]
      BY <2>2, <2>4
    <3> QED BY <2>1, <3>1, <3>2 DEF InstanceOf
  <2>8. StackInv(w) /\ CurrentInv(w)
    BY <2>4, <2>6 DEF StackInv, CurrentInv
  <2>9. WarmInv(w)
    <3>1. ASSUME v.warmInstance # Nil
          PROVE  w.setting.useWarmInstance /\ Alive(w, w.warmInstance)
                 /\ w.instances[w.warmInstance].warm
      BY <2>4, <2>5, <2>6, <2>7, <3>1 DEF VMInv, WarmInv, Alive, Exists
    <3>2. w.instance <= w.warmInstance
      BY <2>4 DEF VMType, Nil
    <3>3. v.warmInstanceAddress # NoAddress => v.warmInstance # Nil
      BY DEF VMInv, WarmInv
    <3> QED BY <2>4, <2>5, <2>6, <3>1, <3>2, <3>3 DEF WarmInv
  <2>10. ReleaseInv(w)
    <3> SUFFICES ASSUME NEW j \in 1 .. Len(v.instances)
                 PROVE  /\ w.instances[j].cleans <= 1
                        /\ ~(w.instances[j].cleans = 0 /\ ~w.instances[j].warm)
      BY <2>6 DEF ReleaseInv
    <3>1. /\ v.instances[j].cleans <= 1
          /\ v.instances[j].cleans = 0 /\ ~v.instances[j].warm => j = i
      BY <2>6 DEF VMInv, ReleaseInv, i
    <3> QED BY <2>7, <3>1
  <2> QED BY <2>4, <2>5, <2>8, <2>9, <2>10 DEF VMInv, w
<1> QED BY <1>1, <1>2

(* Between transactions.                                                   *)
VMIdle(v) ==
  VMInv(v) /\ v.instanceStack = <<>> /\ (v.instance = Nil \/ v.instance = v.warmInstance)

(* Dropping the warm instance between transactions.                        *)
LEMMA ResetWarmKeeps ==
  ASSUME NEW v, VMIdle(v), v.instance # Nil
  PROVE  /\ VMIdle(ResetWarmInstance(v))
         /\ ResetWarmInstance(v).setting = v.setting
         /\ ResetWarmInstance(v).compiled = v.compiled
<1> DEFINE i == v.instance  cl == Clean(v, i)  w == ResetWarmInstance(v)
<1>1. v \in VMType /\ i \in 1 .. Len(v.instances) /\ v.instances[i].cleans = 0
  BY DEF VMIdle, VMInv, CurrentInv, Alive, Exists
<1>2. /\ cl \in VMType /\ cl = [v EXCEPT !.instances = cl.instances]
      /\ Len(cl.instances) = Len(v.instances)
      /\ \A j \in 1 .. Len(v.instances) :
           cl.instances[j] = IF j = i THEN [v.instances[i] EXCEPT !.cleans = @ + 1]
                             ELSE v.instances[j]
  BY <1>1, CleanFacts
<1>3. w = [cl EXCEPT !.instance = Nil, !.warmInstance = Nil, !.warmInstanceAddress = NoAddress]
  BY DEF ResetWarmInstance
<1> HIDE DEF cl, i, w
<1>4. /\ w \in VMType /\ w.instance = Nil /\ w.instances = cl.instances
      /\ w.warmInstance = Nil /\ w.instanceStack = cl.instanceStack
      /\ w.warmInstanceAddress = NoAddress
      /\ w.setting = cl.setting /\ w.compiled = cl.compiled
  BY <1>2, <1>3 DEF VMType, Nil
<1>5. cl.instanceStack = <<>> /\ cl.setting = v.setting /\ cl.compiled = v.compiled
  BY <1>1, <1>2 DEF VMType, VMIdle
<1>6. Len(w.instanceStack) = 0 /\ Len(w.instances) = Len(v.instances)
  BY <1>2, <1>4, <1>5
<1>7. ASSUME NEW j \in 1 .. Len(v.instances)
      PROVE  /\ w.instances[j].warm = v.instances[j].warm
             /\ j = i => w.instances[j].cleans = 1
             /\ j # i => w.instances[j].cleans = v.instances[j].cleans
  <2>1. v.instances[j] \in InstanceOf
    BY <1>1, ElementOfSeq DEF VMType
  <2>2. w.instances[j] = IF j = i THEN [v.instances[j] EXCEPT !.cleans = @ + 1]
                         ELSE v.instances[j]
    BY <1>2, <1>4
  <2> QED BY <1>1, <2>1, <2>2 DEF InstanceOf
<1>8. StackInv(w) /\ CurrentInv(w) /\ WarmInv(w)
  BY <1>4, <1>6 DEF StackInv, CurrentInv, WarmInv
<1>9. ReleaseInv(w)
  <2> SUFFICES ASSUME NEW j \in 1 .. Len(v.instances)
               PROVE  /\ w.instances[j].cleans <= 1
                      /\ ~(w.instances[j].cleans = 0 /\ ~w.instances[j].warm)
    BY <1>6 DEF ReleaseInv
  <2>1. /\ v.instances[j].cleans <= 1
        /\ v.instances[j].cleans = 0 /\ ~v.instances[j].warm => j = i
    BY DEF VMIdle, VMInv, ReleaseInv, i
  <2> QED BY <1>7, <2>1
<1> QED BY <1>4, <1>5, <1>8, <1>9 DEF VMIdle, VMInv, w

(* A context in which an instance may be started: what was current waits   *)
(* on the stack, or nothing runs.                                          *)
VMReady(v) ==
  /\ v \in VMType /\ StackInv(v) /\ WarmInv(v) /\ ReleaseInv(v)
  /\ \A i \in 1 .. Len(v.instances) :
       v.instances[i].cleans = 0 /\ ~v.instances[i].warm =>
         \E n \in 1 .. Len(v.instanceStack) : v.instanceStack[n] = i

(* Between transactions the VM may start an instance.                      *)
LEMMA IdleIsReady ==
  ASSUME NEW v, VMIdle(v)
  PROVE  VMReady(v)
<1>1. ASSUME NEW i \in 1 .. Len(v.instances), v.instances[i].cleans = 0, ~v.instances[i].warm
      PROVE  FALSE
  <2>1. i = v.instance
    BY <1>1 DEF VMIdle, VMInv, ReleaseInv
  <2> QED BY <1>1, <2>1 DEF VMIdle, VMInv, WarmInv, Nil
<1> QED BY <1>1 DEF VMReady, VMIdle, VMInv

(* The reset of the runtime context at the start of a transaction.         *)
LEMMA InitStateKeeps ==
  ASSUME NEW v, VMIdle(v)
  PROVE  /\ VMIdle(InitState(v)) /\ InitState(v).setting = v.setting
         /\ InitState(v).compiled = v.compiled
<1>v. v \in VMType
  BY DEF VMIdle, VMInv
<1>1. CASE Forget(v) = v
  <2> DEFINE w == InitState(v)
  <2>1. /\ w \in VMType /\ w.instance = v.instance /\ w.instances = v.instances
        /\ w.warmInstance = v.warmInstance /\ w.instanceStack = v.instanceStack
        /\ w.warmInstanceAddress = v.warmInstanceAddress
        /\ w.setting = v.setting /\ w.compiled = v.compiled
    BY <1>v, <1>1 DEF InitState, VMType
  <2> HIDE DEF w
  <2>2. StackInv(w) /\ CurrentInv(w) /\ WarmInv(w) /\ ReleaseInv(w)
    BY <2>1 DEF VMIdle, VMInv, StackInv, CurrentInv, WarmInv, ReleaseInv, Alive, Exists, Before
  <2> QED BY <2>1, <2>2 DEF VMIdle, VMInv, w
<1>2. CASE Forget(v) # v
  <2> DEFINE f == Forget(v)  w == InitState(v)
  <2>1. /\ f = [v EXCEPT !.instances = <<>>] /\ v.instance = Nil
        /\ \A i \in DOMAIN v.instances : v.instances[i].cleans = 1
    BY <1>2 DEF Forget
  <2>2. v.warmInstance = Nil
    <3>1. DOMAIN v.instances = 1 .. Len(v.instances)
      BY <1>v, LenProperties DEF VMType
    <3> QED BY <2>1, <3>1 DEF VMIdle, VMInv, WarmInv, Alive, Exists
  <2>3. <<>> \in Seq(InstanceOf) /\ Len(<<>>) = 0
    OBVIOUS
  <2>4. f \in VMType /\ f.instances = <<>> /\ f.instance = Nil /\ f.warmInstance = v.warmInstance
        /\ f.instanceStack = v.instanceStack
        /\ f.warmInstanceAddress = v.warmInstanceAddress
        /\ f.setting = v.setting /\ f.compiled = v.compiled
    BY <1>v, <2>1, <2>3 DEF VMType
  <2> HIDE DEF f
  <2>5. /\ w \in VMType /\ w.instance = Nil /\ w.instances = <<>>
        /\ w.warmInstance = Nil /\ w.instanceStack = <<>>
        /\ w.warmInstanceAddress = v.warmInstanceAddress
        /\ w.setting = v.setting /\ w.compiled = v.compiled
    BY <2>2, <2>4 DEF InitState, VMType, f, VMIdle
  <2> HIDE DEF w
  <2>6. v.warmInstanceAddress = NoAddress
    BY <2>2 DEF VMIdle, VMInv, WarmInv
  <2>7. StackInv(w) /\ CurrentInv(w) /\ WarmInv(w) /\ ReleaseInv(w)
    BY <2>3, <2>5, <2>6 DEF StackInv, CurrentInv, WarmInv, ReleaseInv
  <2> QED BY <2>5, <2>7 DEF VMIdle, VMInv, w
<1> QED BY <1>1, <1>2

(* The request to verify the next code touches no instance.                *)
LEMMA MustVerifyKeeps ==
  ASSUME NEW v \in VMType
  PROVE  LET w == MustVerifyNextContractCode(v)
         IN  /\ w \in VMType /\ w.instance = v.instance /\ w.instances = v.instances
             /\ w.warmInstance = v.warmInstance /\ w.instanceStack = v.instanceStack
             /\ w.warmInstanceAddress = v.warmInstanceAddress
             /\ w.setting = v.setting /\ w.compiled = v.compiled /\ w.verifyCode = TRUE
             /\ VMReady(v) => VMReady(w)
             /\ VMInv(v) => VMInv(w)
<1> DEFINE w == MustVerifyNextContractCode(v)
<1>1. /\ w \in VMType /\ w.instance = v.instance /\ w.instances = v.instances
      /\ w.warmInstance = v.warmInstance /\ w.instanceStack = v.instanceStack
      /\ w.warmInstanceAddress = v.warmInstanceAddress
      /\ w.setting = v.setting /\ w.compiled = v.compiled /\ w.verifyCode = TRUE
  BY DEF MustVerifyNextContractCode, VMType
<1> HIDE DEF w
<1>2. VMReady(v) => VMReady(w)
  BY <1>1 DEF VMReady, StackInv, WarmInv, ReleaseInv, Alive, Exists, Before
<1>3. VMInv(v) => VMInv(w)
  BY <1>1 DEF VMInv, StackInv, CurrentInv, WarmInv, ReleaseInv, Alive, Exists, Before
<1> QED BY <1>1, <1>2, <1>3 DEF w

(* PushState: the running instance waits, and an instance may be started.  *)
LEMMA PushReady ==
  ASSUME NEW v, VMInv(v), v.instance # Nil
  PROVE  /\ VMReady(pushInstance(v))
         /\ pushInstance(v).instanceStack = Append(v.instanceStack, v.instance)
         /\ pushInstance(v).instances = v.instances
         /\ pushInstance(v).setting = v.setting /\ pushInstance(v).compiled = v.compiled
         /\ pushInstance(v).verifyCode = v.verifyCode
<1> DEFINE w == pushInstance(v)  s == v.instanceStack
<1>1. v \in VMType /\ v.instance \in Nat /\ s \in Seq(Nat) /\ v.warmInstance \in Nat
  BY DEF VMInv, VMType
<1>2. /\ Append(s, v.instance) \in Seq(Nat) /\ Len(Append(s, v.instance)) = Len(s) + 1
      /\ \A i \in 1 .. Len(s) : Append(s, v.instance)[i] = s[i]
      /\ Append(s, v.instance)[Len(s) + 1] = v.instance /\ Len(s) \in Nat
  BY <1>1, StackPush, LenProperties
<1>3. /\ w \in VMType /\ w.instance = v.instance /\ w.instances = v.instances
      /\ w.warmInstance = v.warmInstance /\ w.instanceStack = Append(s, v.instance)
      /\ w.warmInstanceAddress = v.warmInstanceAddress
      /\ w.setting = v.setting /\ w.compiled = v.compiled /\ w.verifyCode = v.verifyCode
  BY <1>1, <1>2 DEF pushInstance, VMType
<1>4. /\ Alive(v, v.instance) /\ \A n \in 1 .. Len(s) : Before(v, s[n], v.instance)
      /\ \A n \in 1 .. Len(s) : Alive(v, s[n])
      /\ \A n, m \in 1 .. Len(s) : n < m => Before(v, s[n], s[m])
  BY DEF VMInv, CurrentInv, StackInv
<1> HIDE DEF w
<1>5. (\A i : Alive(w, i) <=> Alive(v, i)) /\ \A i, j : Before(w, i, j) <=> Before(v, i, j)
  BY <1>3 DEF Alive, Exists, Before
<1>6. StackInv(w)
  <2>1. ASSUME NEW n \in 1 .. Len(s) + 1 PROVE Alive(w, w.instanceStack[n])
    <3>1. CASE n \in 1 .. Len(s)
      BY <1>2, <1>3, <1>4, <1>5, <3>1
    <3>2. CASE n = Len(s) + 1
      BY <1>2, <1>3, <1>4, <1>5, <3>2
    <3> QED BY <1>2, <3>1, <3>2
  <2>2. ASSUME NEW n \in 1 .. Len(s) + 1, NEW m \in 1 .. Len(s) + 1, n < m
        PROVE  Before(w, w.instanceStack[n], w.instanceStack[m])
    <3>1. n \in 1 .. Len(s)
      BY <1>2, <2>2
    <3>2. CASE m \in 1 .. Len(s)
      <4>1. Before(v, s[n], s[m])
        BY <1>4, <2>2, <3>1, <3>2
      <4>2. w.instanceStack[n] = s[n] /\ w.instanceStack[m] = s[m]
        BY <1>2, <1>3, <3>1, <3>2
      <4> QED BY <1>5, <4>1, <4>2
    <3>3. CASE m = Len(s) + 1
      <4>1. Before(v, s[n], v.instance)
        BY <1>4, <3>1
      <4>2. w.instanceStack[n] = s[n] /\ w.instanceStack[m] = v.instance
        BY <1>2, <1>3, <3>1, <3>3
      <4> QED BY <1>5, <4>1, <4>2
    <3> QED BY <1>2, <3>2, <3>3
  <2> QED BY <1>2, <1>3, <2>1, <2>2 DEF StackInv
<1>7. WarmInv(w)
  <2>1. ASSUME v.warmInstance # Nil
        PROVE  /\ w.setting.useWarmInstance /\ Alive(w, w.warmInstance)
               /\ w.instances[w.warmInstance].warm
    BY <1>3, <1>5, <2>1 DEF VMInv, WarmInv
  <2>2. ASSUME v.warmInstance # Nil
        PROVE  /\ w.instance <= w.warmInstance
               /\ \A n \in 1 .. Len(s) + 1 : w.instanceStack[n] <= w.warmInstance
    <3>1. v.instance <= v.warmInstance /\ \A n \in 1 .. Len(s) : s[n] <= v.warmInstance
      BY <2>2 DEF VMInv, WarmInv
    <3> QED BY <1>2, <1>3, <3>1
  <2>3. v.warmInstanceAddress # NoAddress => v.warmInstance # Nil
    BY DEF VMInv, WarmInv
  <2> QED BY <1>2, <1>3, <2>1, <2>2, <2>3 DEF WarmInv
<1>8. ASSUME NEW i \in 1 .. Len(v.instances)
      PROVE  /\ w.instances[i].cleans <= 1
             /\ w.instances[i].cleans = 0 /\ ~w.instances[i].warm =>
                  \E n \in 1 .. Len(s) + 1 : w.instanceStack[n] = i
  <2>1. /\ v.instances[i].cleans <= 1
        /\ v.instances[i].cleans = 0 /\ ~v.instances[i].warm =>
             i = v.instance \/ \E n \in 1 .. Len(s) : s[n] = i
    BY DEF VMInv, ReleaseInv
  <2>2. (i = v.instance \/ \E n \in 1 .. Len(s) : s[n] = i) =>
          \E n \in 1 .. Len(s) + 1 : w.instanceStack[n] = i
    BY <1>2, <1>3
  <2> QED BY <1>3, <2>1, <2>2
<1>9. ReleaseInv(w)
  BY <1>2, <1>3, <1>8 DEF ReleaseInv
<1> QED BY <1>2, <1>3, <1>6, <1>7, <1>8, <1>9 DEF VMReady, w

(* Every instance of v is still there in w.                                *)
Extends(v, w) ==
  /\ Len(w.instances) >= Len(v.instances)
  /\ \A j \in 1 .. Len(v.instances) : w.instances[j] = v.instances[j]

(* A new instance, alive and not yet on the stack, may become the current  *)
(* one.                                                                    *)
LEMMA FreshInstance ==
  ASSUME NEW v, VMReady(v), NEW w \in VMType, w.setting = v.setting,
         w.instanceStack = v.instanceStack,
         Len(w.instances) = Len(v.instances) + 1, Extends(v, w),
         w.instance = Len(v.instances) + 1,
         w.instances[Len(v.instances) + 1].cleans = 0,
         \/ /\ ~v.setting.useWarmInstance
            /\ w.warmInstance = v.warmInstance
            /\ w.warmInstanceAddress = v.warmInstanceAddress
         \/ /\ v.setting.useWarmInstance
            /\ w.warmInstance = w.instance
            /\ w.instances[Len(v.instances) + 1].warm
  PROVE  VMInv(w) /\ w.instance # Nil
<1> DEFINE new == Len(v.instances) + 1  s == v.instanceStack
<1>1. Len(v.instances) \in Nat /\ \A n \in 1 .. Len(s) : s[n] \in Nat
  <2>1. v.instances \in Seq(InstanceOf) /\ s \in Seq(Nat)
    BY DEF VMReady, VMType
  <2> QED BY <2>1, ElementOfSeq, LenProperties
<1>2. \A n \in 1 .. Len(s) : Alive(w, s[n]) /\ s[n] < new
  BY <1>1 DEF VMReady, StackInv, Alive, Exists, Extends
<1>3. \A i, j : Before(w, i, j) <=> Before(v, i, j)
  BY DEF Before
<1>4. StackInv(w)
  BY <1>2, <1>3 DEF VMReady, StackInv
<1>5. CurrentInv(w) /\ w.instance # Nil
  <2>1. \A n \in 1 .. Len(s) : Before(w, s[n], w.instance)
    BY <1>1, <1>2 DEF Before
  <2>2. Alive(w, w.instance) /\ w.instance # Nil
    BY <1>1 DEF Alive, Exists, Nil
  <2> QED BY <2>1, <2>2 DEF CurrentInv
<1>6. WarmInv(w)
  <2>1. CASE ~v.setting.useWarmInstance
    BY <2>1 DEF VMReady, WarmInv
  <2>2. CASE v.setting.useWarmInstance
    <3>1. w.warmInstance = new /\ w.instance = new /\ new # Nil /\ new <= new
      BY <1>1, <2>2 DEF Nil
    <3>2. \A n \in 1 .. Len(s) : s[n] <= new
      BY <1>1, <1>2
    <3>3. Alive(w, new) /\ w.instances[new].warm
      BY <1>5, <2>2, <3>1 DEF CurrentInv
    <3> QED BY <2>2, <3>1, <3>2, <3>3 DEF WarmInv
  <2> QED BY <2>1, <2>2
<1>7. ReleaseInv(w)
  <2> SUFFICES ASSUME NEW i \in 1 .. new
               PROVE  /\ w.instances[i].cleans <= 1
                      /\ w.instances[i].cleans = 0 /\ ~w.instances[i].warm =>
                           i = new \/ \E n \in 1 .. Len(s) : s[n] = i
    BY DEF ReleaseInv
  <2>1. CASE i = new
    BY <2>1
  <2>2. CASE i \in 1 .. Len(v.instances)
    BY <2>2 DEF VMReady, ReleaseInv, Extends
  <2> QED BY <1>1, <2>1, <2>2
<1> QED BY <1>4, <1>5, <1>6, <1>7 DEF VMInv

(* An attempt that leaves no current instance.                             *)
LEMMA NoInstance ==
  ASSUME NEW v, VMReady(v), NEW w \in VMType, w.setting = v.setting,
         w.instanceStack = v.instanceStack,
         w.warmInstance = v.warmInstance, w.warmInstanceAddress = v.warmInstanceAddress,
         Extends(v, w), w.instance = Nil,
         \A i \in 1 .. Len(w.instances) : i > Len(v.instances) => w.instances[i].cleans = 1
  PROVE  VMInv(w)
<1> DEFINE s == v.instanceStack
<1>1. Len(v.instances) \in Nat /\ Len(w.instances) \in Nat /\ w.warmInstance \in Nat
  <2>1. v.instances \in Seq(InstanceOf) /\ w.instances \in Seq(InstanceOf) /\ w.warmInstance \in Nat
    BY DEF VMReady, VMType
  <2> QED BY <2>1, LenProperties
<1>2. \A i : Alive(v, i) => Alive(w, i)
  BY <1>1 DEF Alive, Exists, Extends
<1>3. \A i, j : Before(w, i, j) <=> Before(v, i, j)
  BY DEF Before
<1>4. StackInv(w) /\ CurrentInv(w)
  BY <1>2, <1>3 DEF VMReady, StackInv, CurrentInv
<1>5. WarmInv(w)
  <2>1. w.instance <= w.warmInstance
    BY <1>1 DEF Nil
  <2>2. ASSUME v.warmInstance # Nil
        PROVE  /\ w.setting.useWarmInstance /\ Alive(w, w.warmInstance)
               /\ w.instances[w.warmInstance].warm
               /\ \A n \in 1 .. Len(s) : s[n] <= w.warmInstance
    BY <1>1, <1>2, <2>2 DEF VMReady, WarmInv, Extends, Alive, Exists
  <2>3. v.warmInstanceAddress # NoAddress => v.warmInstance # Nil
    BY DEF VMReady, WarmInv
  <2> QED BY <2>1, <2>2, <2>3 DEF WarmInv
<1>6. ReleaseInv(w)
  <2> SUFFICES ASSUME NEW i \in 1 .. Len(w.instances)
               PROVE  /\ w.instances[i].cleans <= 1
                      /\ w.instances[i].cleans = 0 /\ ~w.instances[i].warm =>
                           \E n \in 1 .. Len(s) : s[n] = i
    BY DEF ReleaseInv
  <2>1. CASE i > Len(v.instances)
    BY <2>1
  <2>2. CASE i \in 1 .. Len(v.instances)
    BY <2>2 DEF VMReady, ReleaseInv, Extends
  <2> QED BY <1>1, <2>1, <2>2
<1> QED BY <1>4, <1>5, <1>6 DEF VMInv

(* What making an instance changes.                                        *)
LEMMA NewInstanceFacts ==
  ASSUME NEW v \in VMType, NEW c \in Addresses, NEW k \in Codes
  PROVE  LET w == NewInstance(v, c, k)
             new == Len(v.instances) + 1
         IN  /\ w \in VMType /\ w.instance = new /\ new \in Nat
             /\ Len(w.instances) = new /\ Extends(v, w)
             /\ w.instances[new] = [contract |-> c, code |-> k, cleans |-> 0, warm |-> FALSE]
             /\ w.warmInstance = v.warmInstance /\ w.instanceStack = v.instanceStack
             /\ w.warmInstanceAddress = v.warmInstanceAddress /\ w.verifyCode = v.verifyCode
             /\ w.setting = v.setting /\ w.compiled = v.compiled
<1> DEFINE w == NewInstance(v, c, k)  new == Len(v.instances) + 1
           e == [contract |-> c, code |-> k, cleans |-> 0, warm |-> FALSE]
           s == Append(v.instances, e)
<1>1. e \in InstanceOf
  BY DEF InstanceOf
<1>2. v.instances \in Seq(InstanceOf)
  BY DEF VMType
<1> HIDE DEF e
<1>3. /\ s \in Seq(InstanceOf) /\ Len(s) = new /\ new \in Nat /\ s[new] = e
      /\ Len(v.instances) \in Nat
      /\ \A j \in 1 .. Len(v.instances) : s[j] = v.instances[j]
  BY <1>1, <1>2, AppendProperties, LenProperties
<1>4. w = [v EXCEPT !.instances = s, !.instance = new]
  BY DEF NewInstance, e
<1> HIDE DEF s, new
<1>5. /\ w \in VMType /\ w.instance = new /\ w.instances = s
      /\ w.warmInstance = v.warmInstance /\ w.instanceStack = v.instanceStack
      /\ w.warmInstanceAddress = v.warmInstanceAddress /\ w.verifyCode = v.verifyCode
      /\ w.setting = v.setting /\ w.compiled = v.compiled
  BY <1>3, <1>4 DEF VMType
<1> HIDE DEF w
<1>6. Extends(v, w)
  BY <1>3, <1>5 DEF Extends, new
<1> QED BY <1>3, <1>5, <1>6 DEF w, new, e

CodeHash(c, k, newCode) == IF newCode \/ committed[c] = NoCode THEN k ELSE committed[c]

(* What StartWasmerInstance leaves behind, started or not.                 *)
StartOutcome(v, c, k, newCode, o) ==
  /\ VMInv(o.vm) /\ o.vm.instanceStack = v.instanceStack /\ o.vm.setting = v.setting
  /\ Extends(v, o.vm)
  /\ o.ok \in BOOLEAN
  /\ ~o.ok => o.vm.instance = Nil
  /\ o.ok => o.vm.instance # Nil /\ Len(v.instanceStack) < maxWasmerInstances
  /\ \A h \in Codes : \/ o.vm.compiled[h] = v.compiled[h]
                      \/ o.vm.compiled[h] = k /\ h = CodeHash(c, k, newCode)
  /\ o.ok /\ ~v.setting.useWarmInstance =>
       /\ o.vm.instances[o.vm.instance].contract = c
       /\ \/ o.vm.instances[o.vm.instance].code = k
          \/ /\ ~newCode /\ committed[c] \in Codes
             /\ v.compiled[committed[c]] # NoCode
             /\ o.vm.instances[o.vm.instance].code = v.compiled[committed[c]]
       /\ newCode /\ v.verifyCode => Verified(k)

(* A start that failed leaves no current instance.                         *)
LEMMA NilFacts ==
  ASSUME NEW v, VMReady(v)
  PROVE  LET w == [v EXCEPT !.instance = Nil]
         IN  /\ VMInv(w) /\ w.instanceStack = v.instanceStack /\ w.setting = v.setting
             /\ Extends(v, w) /\ w.instance = Nil /\ w.compiled = v.compiled
<1> DEFINE w == [v EXCEPT !.instance = Nil]
<1>1. v \in VMType /\ v.instances \in Seq(InstanceOf)
  BY DEF VMReady, VMType
<1>2. /\ w \in VMType /\ w.instance = Nil /\ w.instances = v.instances
      /\ w.warmInstance = v.warmInstance /\ w.instanceStack = v.instanceStack
      /\ w.warmInstanceAddress = v.warmInstanceAddress
      /\ w.setting = v.setting /\ w.compiled = v.compiled
  BY <1>1 DEF VMType, Nil
<1> HIDE DEF w
<1>3. Extends(v, w)
  BY <1>1, <1>2, LenProperties DEF Extends
<1>4. \A i \in 1 .. Len(w.instances) : ~(i > Len(v.instances))
  BY <1>1, <1>2, LenProperties
<1>5. VMInv(w)
  BY <1>2, <1>3, <1>4, NoInstance
<1> QED BY <1>2, <1>3, <1>5 DEF w

(* Reusing the warm instance makes no new one.                             *)
LEMMA SetWarmFacts ==
  ASSUME NEW v, VMReady(v), NEW c \in Addresses, warmInstanceIsNeeded(v, c)
  PROVE  LET w == setWarmInstance(v)
         IN  /\ VMInv(w) /\ w.instanceStack = v.instanceStack /\ w.setting = v.setting
             /\ Extends(v, w) /\ w.instance # Nil /\ w.compiled = v.compiled
<1> DEFINE w == setWarmInstance(v)
<1>1. v \in VMType /\ v.instances \in Seq(InstanceOf) /\ v.warmInstance \in Nat
  BY DEF VMReady, VMType
<1>2. /\ w \in VMType /\ w.instance = v.warmInstance /\ w.instances = v.instances
      /\ w.warmInstance = v.warmInstance /\ w.instanceStack = v.instanceStack
      /\ w.warmInstanceAddress = v.warmInstanceAddress
      /\ w.setting = v.setting /\ w.compiled = v.compiled
  BY <1>1 DEF VMType, setWarmInstance
<1>3. v.warmInstance # Nil /\ v.setting.useWarmInstance
  BY NamesAreReal DEF warmInstanceIsNeeded, VMReady, WarmInv
<1> HIDE DEF w
<1>4. Extends(v, w)
  BY <1>1, <1>2, LenProperties DEF Extends
<1>5. StackInv(w)
  BY <1>2 DEF VMReady, StackInv, Alive, Exists, Before
<1>6. /\ v.setting.useWarmInstance
      /\ Alive(v, v.warmInstance) /\ v.instances[v.warmInstance].warm
      /\ \A n \in 1 .. Len(v.instanceStack) : v.instanceStack[n] <= v.warmInstance
  BY <1>3 DEF VMReady, WarmInv
<1>7. CurrentInv(w)
  BY <1>2, <1>6 DEF CurrentInv, Alive, Exists, Before
<1>8. WarmInv(w)
  <2>1. v.warmInstance <= v.warmInstance
    BY <1>1
  <2> QED BY <1>2, <1>3, <1>6, <2>1 DEF WarmInv, Alive, Exists
<1>9. ReleaseInv(w)
  BY <1>2 DEF VMReady, ReleaseInv
<1> QED BY <1>2, <1>3, <1>4, <1>5, <1>7, <1>8, <1>9 DEF VMInv, w

(* An instance made from the compiled code kept for the contract's code.   *)
LEMMA FromCompiledCode ==
  ASSUME WarmOrCompiled, NEW v, VMReady(v), NEW c \in Addresses, NEW k \in Codes,
         NEW newCode \in BOOLEAN, committed \in [Addresses -> Codes \cup {NoCode}],
         Len(v.instanceStack) < maxWasmerInstances,
         NEW o \in makeInstanceFromCompiledCode(v, c, committed[c], newCode)
  PROVE  StartOutcome(v, c, k, newCode, o)
<1> DEFINE hash == committed[c]
<1>1. PICK k1 \in {v.compiled[h] : h \in {h \in {hash} \ {NoCode} :
                     v.setting.aheadOfTime /\ ~newCode}} \ {NoCode} :
        o = Started([NewInstance(v, c, k1) EXCEPT !.verifyCode = FALSE])
  BY DEF makeInstanceFromCompiledCode
<1>2. v \in VMType /\ v.compiled \in [Codes -> Codes \cup {NoCode}] /\ v.setting \in Settings
  BY DEF VMReady, VMType
<1>3. /\ hash # NoCode /\ hash \in Codes /\ v.setting.aheadOfTime /\ ~newCode
      /\ k1 = v.compiled[hash] /\ k1 # NoCode /\ k1 \in Codes
  BY <1>1, <1>2
<1>4. ~v.setting.useWarmInstance
  BY <1>2, <1>3 DEF WarmOrCompiled
<1> DEFINE n == NewInstance(v, c, k1)  w == o.vm  new == Len(v.instances) + 1
<1>5. /\ n \in VMType /\ n.instance = new /\ new \in Nat
      /\ Len(n.instances) = new /\ Extends(v, n)
      /\ n.instances[new] = [contract |-> c, code |-> k1, cleans |-> 0, warm |-> FALSE]
      /\ n.warmInstance = v.warmInstance /\ n.instanceStack = v.instanceStack
      /\ n.warmInstanceAddress = v.warmInstanceAddress
      /\ n.setting = v.setting /\ n.compiled = v.compiled
  BY <1>2, <1>3, NewInstanceFacts
<1>6. w = [n EXCEPT !.verifyCode = FALSE] /\ o.ok = TRUE
  BY <1>1 DEF Started
<1> HIDE DEF n, w, new
<1>7. /\ w \in VMType /\ w.instance = n.instance /\ w.instances = n.instances
      /\ w.warmInstance = n.warmInstance /\ w.instanceStack = n.instanceStack
      /\ w.warmInstanceAddress = n.warmInstanceAddress
      /\ w.setting = n.setting /\ w.compiled = n.compiled
  BY <1>5, <1>6 DEF VMType
<1>8. Extends(v, w) /\ w.instances[new].cleans = 0
      /\ w.instances[new].contract = c /\ w.instances[new].code = k1
  BY <1>5, <1>7 DEF Extends
<1>9. VMInv(w) /\ w.instance # Nil
  BY <1>4, <1>5, <1>7, <1>8, FreshInstance DEF new
<1> QED BY <1>3, <1>5, <1>6, <1>7, <1>8, <1>9 DEF StartOutcome, w

(* An instance made from the contract's bytecode, verified when it is new. *)
LEMMA FromByteCode ==
  ASSUME NEW v, VMReady(v), NEW c \in Addresses, NEW k \in Codes,
         NEW newCode \in BOOLEAN, committed \in [Addresses -> Codes \cup {NoCode}],
         Len(v.instanceStack) < maxWasmerInstances
  PROVE  StartOutcome(v, c, k, newCode,
                      makeInstanceFromContractByteCode(v, c, k, committed[c], newCode))
<1> DEFINE o == makeInstanceFromContractByteCode(v, c, k, committed[c], newCode)
           hash == CodeHash(c, k, newCode)
           n == NewInstance(v, c, k)
           saved == saveCompiledCode(n, hash, k)
           verified == IF newCode THEN [saved EXCEPT !.verifyCode = FALSE] ELSE saved
           warmed == [verified EXCEPT !.warmInstance = verified.instance,
                                      !.warmInstanceAddress = c,
                                      !.instances[verified.instance].warm = TRUE]
           new == Len(v.instances) + 1
<1>1. o = IF ~Shape[k].compiles
          THEN Failed([v EXCEPT !.instance = Nil])
          ELSE IF newCode /\ ~VerifyContractCode(saved, k)
          THEN Failed(CleanWasmerInstance(verified))
          ELSE Started(IF v.setting.useWarmInstance THEN warmed ELSE verified)
  BY DEF makeInstanceFromContractByteCode, CodeHash
<1>v. v \in VMType /\ v.instances \in Seq(InstanceOf)
      /\ v.compiled \in [Codes -> Codes \cup {NoCode}]
  BY DEF VMReady, VMType
<1>h. hash \in Codes
  BY DEF CodeHash
<1>2. /\ n \in VMType /\ n.instance = new /\ new \in Nat /\ Len(v.instances) \in Nat
      /\ Len(n.instances) = new /\ Extends(v, n)
      /\ n.instances[new] = [contract |-> c, code |-> k, cleans |-> 0, warm |-> FALSE]
      /\ n.warmInstance = v.warmInstance /\ n.instanceStack = v.instanceStack
      /\ n.warmInstanceAddress = v.warmInstanceAddress /\ n.verifyCode = v.verifyCode
      /\ n.setting = v.setting /\ n.compiled = v.compiled
  BY <1>v, NewInstanceFacts, LenProperties
<1> HIDE DEF n
<1>3. /\ saved \in VMType /\ saved.instance = new /\ saved.instances = n.instances
      /\ saved.warmInstance = v.warmInstance /\ saved.instanceStack = v.instanceStack
      /\ saved.warmInstanceAddress = v.warmInstanceAddress /\ saved.verifyCode = v.verifyCode
      /\ saved.setting = v.setting
      /\ saved.compiled = [v.compiled EXCEPT ![hash] = k]
  <2>1. saved = [n EXCEPT !.compiled = [v.compiled EXCEPT ![hash] = k]]
    BY <1>2 DEF saveCompiledCode
  <2>2. [v.compiled EXCEPT ![hash] = k] \in [Codes -> Codes \cup {NoCode}]
    BY <1>v
  <2> QED BY <1>2, <2>1, <2>2 DEF VMType
<1>c. \A h \in Codes : \/ saved.compiled[h] = v.compiled[h]
                       \/ saved.compiled[h] = k /\ h = hash
  BY <1>v, <1>3
<1> HIDE DEF saved, hash
<1>4. /\ verified \in VMType /\ verified.instance = new /\ verified.instances = n.instances
      /\ verified.warmInstance = v.warmInstance /\ verified.instanceStack = v.instanceStack
      /\ verified.warmInstanceAddress = v.warmInstanceAddress
      /\ verified.setting = v.setting /\ verified.compiled = saved.compiled
  BY <1>3 DEF VMType
<1> HIDE DEF verified
<1>5. CASE ~Shape[k].compiles
  <2> DEFINE w == [v EXCEPT !.instance = Nil]
  <2>1. /\ VMInv(w) /\ w.instanceStack = v.instanceStack /\ w.setting = v.setting
        /\ Extends(v, w) /\ w.instance = Nil /\ w.compiled = v.compiled
    BY NilFacts
  <2>2. o.vm = w /\ o.ok = FALSE
    BY <1>1, <1>5 DEF Failed
  <2> HIDE DEF w, o
  <2>3. StartOutcome(v, c, k, newCode, o)
    BY <2>1, <2>2 DEF StartOutcome
  <2> QED BY <2>3 DEF o
<1>6. CASE Shape[k].compiles /\ newCode /\ ~VerifyContractCode(saved, k)
  <2> DEFINE w == CleanWasmerInstance(verified)  cl == Clean(verified, new)
  <2>1. o.vm = w /\ o.ok = FALSE
    BY <1>1, <1>6 DEF Failed
  <2>2. v.warmInstance \in 0 .. Len(v.instances)
    BY <1>v, <1>2 DEF VMReady, WarmInv, Alive, Exists, VMType, Nil
  <2>3. ~(verified.instance = Nil \/ IsWarmInstance(verified))
    BY <1>2, <1>4, <2>2 DEF IsWarmInstance, Nil
  <2>4. w = [cl EXCEPT !.instance = Nil]
    BY <1>4, <2>3 DEF CleanWasmerInstance
  <2>5. /\ cl \in VMType /\ cl = [verified EXCEPT !.instances = cl.instances]
        /\ Len(cl.instances) = new
        /\ \A j \in 1 .. new :
             cl.instances[j] = IF j = new THEN [n.instances[new] EXCEPT !.cleans = @ + 1]
                               ELSE n.instances[j]
    <3>1. new \in 1 .. Len(verified.instances) /\ Len(verified.instances) = new
      BY <1>2, <1>4
    <3> HIDE DEF new
    <3>2. /\ cl \in VMType /\ cl = [verified EXCEPT !.instances = cl.instances]
          /\ Len(cl.instances) = Len(verified.instances)
          /\ \A j \in 1 .. Len(verified.instances) :
               cl.instances[j] = IF j = new THEN [verified.instances[new] EXCEPT !.cleans = @ + 1]
                                 ELSE verified.instances[j]
      BY <1>4, <3>1, CleanFacts
    <3> QED BY <1>4, <3>1, <3>2
  <2> HIDE DEF cl, w, o
  <2>6. /\ cl.warmInstance = v.warmInstance /\ cl.instanceStack = v.instanceStack
        /\ cl.warmInstanceAddress = v.warmInstanceAddress
        /\ cl.setting = v.setting /\ cl.compiled = saved.compiled
    BY <1>4, <2>5 DEF VMType
  <2>7. /\ w \in VMType /\ w.instance = Nil /\ w.instances = cl.instances
        /\ w.warmInstance = v.warmInstance /\ w.instanceStack = v.instanceStack
        /\ w.warmInstanceAddress = v.warmInstanceAddress
        /\ w.setting = v.setting /\ w.compiled = saved.compiled
    BY <2>4, <2>5, <2>6 DEF VMType, Nil
  <2>8. Extends(v, w)
    BY <1>2, <2>5, <2>7 DEF Extends
  <2>9. \A i \in 1 .. Len(w.instances) : i > Len(v.instances) => w.instances[i].cleans = 1
    BY <1>2, <2>5, <2>7
  <2>10. VMInv(w)
    BY <2>7, <2>8, <2>9, NoInstance
  <2>11. StartOutcome(v, c, k, newCode, o)
    BY <1>c, <2>1, <2>7, <2>8, <2>10 DEF StartOutcome, hash
  <2> QED BY <2>11 DEF o
<1>w. ASSUME NEW w, w \in VMType, w.setting = v.setting, w.instanceStack = v.instanceStack,
             Len(w.instances) = new, Extends(v, w), w.instance = new,
             w.compiled = saved.compiled, VMInv(w),
             w.instances[new].contract = c, w.instances[new].code = k,
             o.vm = w, o.ok = TRUE, newCode => VerifyContractCode(saved, k)
      PROVE  StartOutcome(v, c, k, newCode, o)
  <2>1. newCode /\ v.verifyCode => Verified(k)
    BY <1>3, <1>w DEF VerifyContractCode, Verified
  <2>2. w.instance # Nil
    BY <1>2, <1>w DEF Nil
  <2> HIDE DEF o
  <2> QED BY <1>c, <1>w, <2>1, <2>2 DEF StartOutcome, hash
<1>7. CASE /\ Shape[k].compiles /\ (newCode => VerifyContractCode(saved, k))
           /\ ~v.setting.useWarmInstance
  <2>1. o.vm = verified /\ o.ok = TRUE
    BY <1>1, <1>7 DEF Started
  <2>2. Extends(v, verified)
    BY <1>2, <1>4 DEF Extends
  <2>3. /\ verified.instances[new].cleans = 0 /\ verified.instances[new].contract = c
        /\ verified.instances[new].code = k
    BY <1>2, <1>4
  <2> HIDE DEF o
  <2>4. VMInv(verified)
    BY <1>2, <1>4, <1>7, <2>2, <2>3, FreshInstance
  <2>5. StartOutcome(v, c, k, newCode, o)
    BY <1>2, <1>4, <1>7, <1>w, <2>1, <2>2, <2>3, <2>4
  <2> QED BY <2>5 DEF o
<1>8. CASE /\ Shape[k].compiles /\ (newCode => VerifyContractCode(saved, k))
           /\ v.setting.useWarmInstance
  <2> DEFINE e == [n.instances[new] EXCEPT !.warm = TRUE]
             s == [n.instances EXCEPT ![new] = e]
  <2>1. o.vm = warmed /\ o.ok = TRUE
    BY <1>1, <1>8 DEF Started
  <2>2. e.contract = c /\ e.code = k /\ e.cleans = 0 /\ e.warm = TRUE
    <3>1. ASSUME NEW x, x = [contract |-> c, code |-> k, cleans |-> 0, warm |-> FALSE]
          PROVE  LET y == [x EXCEPT !.warm = TRUE]
                 IN  y.contract = c /\ y.code = k /\ y.cleans = 0 /\ y.warm = TRUE
      BY <3>1
    <3> QED BY <1>2, <3>1
  <2>3. e \in InstanceOf /\ n.instances \in Seq(InstanceOf)
    <3>1. n.instances \in Seq(InstanceOf)
      BY <1>2 DEF VMType
    <3>2. n.instances[new] \in InstanceOf
      BY <1>2 DEF InstanceOf
    <3>3. ASSUME NEW x \in InstanceOf PROVE [x EXCEPT !.warm = TRUE] \in InstanceOf
      BY Zenon DEF InstanceOf
    <3> QED BY <3>1, <3>2, <3>3
  <2>4. /\ s \in Seq(InstanceOf) /\ Len(s) = new
        /\ \A j \in 1 .. new : s[j] = IF j = new THEN e ELSE n.instances[j]
    BY <1>2, <2>3, ExceptSeq
  <2>5. warmed = [verified EXCEPT !.warmInstance = new, !.warmInstanceAddress = c,
                                  !.instances = s]
    BY <1>4
  <2> HIDE DEF e, s, warmed, o
  <2>6. /\ warmed \in VMType /\ warmed.instance = new /\ warmed.instances = s
        /\ warmed.warmInstance = new /\ warmed.instanceStack = v.instanceStack
        /\ warmed.setting = v.setting /\ warmed.compiled = saved.compiled
    BY <1>2, <1>4, <2>4, <2>5 DEF VMType
  <2>7. warmed.instances[new] = e /\ new \in 1 .. new
    BY <1>2, <2>4, <2>6
  <2>8. Extends(v, warmed)
    BY <1>2, <2>4, <2>6 DEF Extends
  <2>9. /\ warmed.instances[new].cleans = 0 /\ warmed.instances[new].contract = c
        /\ warmed.instances[new].code = k /\ warmed.instances[new].warm
    BY <2>2, <2>7
  <2>10. Len(warmed.instances) = new
    BY <2>4, <2>6
  <2>11. VMInv(warmed)
    BY <1>2, <1>8, <2>6, <2>8, <2>9, <2>10, FreshInstance
  <2>12. StartOutcome(v, c, k, newCode, o)
    BY <1>2, <1>8, <1>w, <2>1, <2>6, <2>8, <2>9, <2>10, <2>11
  <2> QED BY <2>12 DEF o
<1> QED BY <1>5, <1>6, <1>7, <1>8

(* Starting an instance: at the limit, with the warm instance, from        *)
(* compiled code or from the byte code.                                    *)
LEMMA StartFacts ==
  ASSUME WarmOrCompiled, NEW v, VMReady(v), NEW c \in Addresses, NEW k \in Codes,
         NEW newCode \in BOOLEAN, committed \in [Addresses -> Codes \cup {NoCode}],
         NEW o \in StartWasmerInstance(v, c, k, newCode)
  PROVE  StartOutcome(v, c, k, newCode, o)
<1>n. Len(v.instanceStack) \in Nat /\ maxWasmerInstances \in Nat
  BY InitialCodeRuns, LenProperties DEF VMReady, VMType
<1>1. CASE Len(v.instanceStack) >= maxWasmerInstances
  <2> DEFINE w == [v EXCEPT !.instance = Nil]
  <2>1. /\ VMInv(w) /\ w.instanceStack = v.instanceStack /\ w.setting = v.setting
        /\ Extends(v, w) /\ w.instance = Nil /\ w.compiled = v.compiled
    BY NilFacts
  <2>2. o = Failed(w)
    BY <1>1 DEF StartWasmerInstance
  <2> HIDE DEF w
  <2>3. o.vm = w /\ o.ok = FALSE
    BY <2>2 DEF Failed
  <2> QED BY <2>1, <2>3 DEF StartOutcome
<1>2. CASE Len(v.instanceStack) < maxWasmerInstances /\ warmInstanceIsNeeded(v, c)
  <2> DEFINE w == setWarmInstance(v)
  <2>1. /\ VMInv(w) /\ w.instanceStack = v.instanceStack /\ w.setting = v.setting
        /\ Extends(v, w) /\ w.instance # Nil /\ w.compiled = v.compiled
    BY <1>2, SetWarmFacts
  <2>2. o = Started(w) /\ v.setting.useWarmInstance
    BY <1>n, <1>2 DEF StartWasmerInstance, warmInstanceIsNeeded
  <2> HIDE DEF w
  <2>3. o.vm = w /\ o.ok = TRUE
    BY <2>2 DEF Started
  <2> QED BY <1>2, <2>1, <2>2, <2>3 DEF StartOutcome
<1>3. CASE Len(v.instanceStack) < maxWasmerInstances /\ ~warmInstanceIsNeeded(v, c)
  <2>1. \/ o \in makeInstanceFromCompiledCode(v, c, committed[c], newCode)
        \/ o = makeInstanceFromContractByteCode(v, c, k, committed[c], newCode)
    BY <1>n, <1>3 DEF StartWasmerInstance
  <2> QED BY <1>3, <2>1, FromCompiledCode, FromByteCode
<1> QED BY <1>n, <1>1, <1>2, <1>3

-----------------------------------------------------------------------------
(* What a step does to the runtime context, the stacks and the code.       *)

KeepsInstances(v, w) ==
  /\ Len(w.instances) >= Len(v.instances)
  /\ \A j \in 1 .. Len(v.instances) :
       /\ w.instances[j].contract = v.instances[j].contract
       /\ w.instances[j].code = v.instances[j].code

(* The compiled code saved on the way from v to w.                         *)
Saves(v, w, c, k, newCode) ==
  \A h \in Codes : \/ w.compiled[h] = v.compiled[h]
                   \/ w.compiled[h] = k /\ h = CodeHash(c, k, newCode)

(* The instance on which w runs code k of contract c.                      *)
RunsOn(v, w, c, k, newCode) ==
  ~v.setting.useWarmInstance =>
    /\ w.instances[w.instance].contract = c
    /\ \/ w.instances[w.instance].code = k
       \/ /\ ~newCode /\ committed[c] \in Codes
          /\ v.compiled[committed[c]] # NoCode
          /\ w.instances[w.instance].code = v.compiled[committed[c]]
    /\ newCode => Verified(k)

TxRefused(w, c, k, newCode) ==
  VMIdle(w) /\ w.setting = vm.setting /\ Saves(vm, w, c, k, newCode)

TxBegun(w, c, k, newCode) ==
  /\ VMInv(w) /\ w.setting = vm.setting /\ w.instanceStack = <<>> /\ w.instance # Nil
  /\ Saves(vm, w, c, k, newCode) /\ RunsOn(vm, w, c, k, newCode)

(* The first instance of a transaction, or its refusal.                    *)
LEMMA TransactionStarts ==
  ASSUME WarmOrCompiled, RestTyped, NEW v, VMIdle(v),
         v.setting = vm.setting, v.compiled = vm.compiled,
         NEW c \in Addresses, NEW k \in Codes, NEW newCode \in BOOLEAN,
         newCode => v.verifyCode,
         NEW o \in StartWasmerInstance(v, c, k, newCode)
  PROVE  /\ o.ok => TxBegun(o.vm, c, k, newCode)
         /\ ~o.ok => TxRefused(CleanWasmerInstance(o.vm), c, k, newCode)
<1>1. StartOutcome(v, c, k, newCode, o)
  BY IdleIsReady, StartFacts DEF RestTyped
<1>2. VMInv(o.vm) /\ o.vm.instanceStack = <<>> /\ o.vm.setting = vm.setting
      /\ Saves(vm, o.vm, c, k, newCode)
  BY <1>1 DEF StartOutcome, VMIdle, Saves
<1>3. ASSUME o.ok PROVE TxBegun(o.vm, c, k, newCode)
  <2>1. RunsOn(vm, o.vm, c, k, newCode)
    BY <1>1, <1>3 DEF StartOutcome, RunsOn
  <2> QED BY <1>1, <1>2, <1>3, <2>1 DEF StartOutcome, TxBegun
<1>4. ASSUME ~o.ok PROVE TxRefused(CleanWasmerInstance(o.vm), c, k, newCode)
  <2> DEFINE w == CleanWasmerInstance(o.vm)
  <2>1. VMIdle(w) /\ w.setting = vm.setting /\ w.compiled = o.vm.compiled
    BY <1>2, CleanTopKeeps DEF VMIdle
  <2> HIDE DEF w
  <2>2. Saves(vm, w, c, k, newCode)
    BY <1>2, <2>1 DEF Saves
  <2> QED BY <2>1, <2>2 DEF TxRefused, w
<1> QED BY <1>3, <1>4

CallRefused(w, c, k, newCode) ==
  /\ VMInv(w) /\ w.setting = vm.setting
  /\ w.instanceStack = vm.instanceStack /\ w.instance = vm.instance
  /\ KeepsInstances(vm, w) /\ Saves(vm, w, c, k, newCode)

CallBegun(w, c, k, newCode) ==
  /\ VMInv(w) /\ w.setting = vm.setting /\ w.instance # Nil
  /\ w.instanceStack = Append(vm.instanceStack, vm.instance)
  /\ Len(vm.instanceStack) + 1 < maxWasmerInstances
  /\ KeepsInstances(vm, w) /\ Saves(vm, w, c, k, newCode) /\ RunsOn(vm, w, c, k, newCode)

(* A call with the running instance pushed: v is vm, or vm told to verify. *)
LEMMA CallStarts ==
  ASSUME WarmOrCompiled, RestTyped, VMInv(vm), vm.instance # Nil,
         NEW v, VMInv(v), v.instance = vm.instance, v.instances = vm.instances,
         v.instanceStack = vm.instanceStack,
         v.setting = vm.setting, v.compiled = vm.compiled,
         NEW c \in Addresses, NEW k \in Codes, NEW newCode \in BOOLEAN,
         newCode => v.verifyCode,
         NEW o \in StartWasmerInstance(pushInstance(v), c, k, newCode)
  PROVE  /\ o.ok => CallBegun(o.vm, c, k, newCode)
         /\ ~o.ok => CallRefused(popInstance(o.vm), c, k, newCode)
<1> DEFINE p == pushInstance(v)  s == vm.instanceStack
<1>1. /\ VMReady(p) /\ p.instanceStack = Append(s, vm.instance)
      /\ p.instances = vm.instances /\ p.setting = vm.setting /\ p.compiled = vm.compiled
      /\ p.verifyCode = v.verifyCode
  BY PushReady
<1>2. /\ s \in Seq(Nat) /\ vm.instance \in Nat /\ Len(s) \in Nat
      /\ Len(Append(s, vm.instance)) = Len(s) + 1 /\ Append(s, vm.instance) # <<>>
      /\ Last(Append(s, vm.instance)) = vm.instance /\ Front(Append(s, vm.instance)) = s
  <2>1. s \in Seq(Nat) /\ vm.instance \in Nat
    BY DEF VMInv, VMType
  <2> QED BY <2>1, StackPush, LenProperties
<1> HIDE DEF p
<1>3. StartOutcome(p, c, k, newCode, o)
  BY <1>1, StartFacts DEF RestTyped, p
<1>4. /\ VMInv(o.vm) /\ o.vm.instanceStack = Append(s, vm.instance)
      /\ o.vm.setting = vm.setting /\ Saves(vm, o.vm, c, k, newCode)
      /\ KeepsInstances(vm, o.vm)
  BY <1>1, <1>3 DEF StartOutcome, Saves, Extends, KeepsInstances
<1>5. ASSUME o.ok PROVE CallBegun(o.vm, c, k, newCode)
  <2>1. RunsOn(vm, o.vm, c, k, newCode)
    BY <1>1, <1>3, <1>5 DEF StartOutcome, RunsOn
  <2>2. o.vm.instance # Nil /\ Len(s) + 1 < maxWasmerInstances
    BY <1>1, <1>2, <1>3, <1>5 DEF StartOutcome
  <2> QED BY <1>4, <2>1, <2>2 DEF CallBegun
<1>6. ASSUME ~o.ok PROVE CallRefused(popInstance(o.vm), c, k, newCode)
  <2> DEFINE w == popInstance(o.vm)
  <2>1. /\ VMInv(w) /\ w.instance = vm.instance /\ w.instanceStack = s
        /\ w.setting = vm.setting /\ w.compiled = o.vm.compiled /\ SameInstances(o.vm, w)
    BY <1>2, <1>4, PopKeeps
  <2> HIDE DEF w
  <2>2. Saves(vm, w, c, k, newCode)
    BY <1>4, <2>1 DEF Saves
  <2>3. KeepsInstances(vm, w)
    <3>1. Len(vm.instances) \in Nat /\ Len(o.vm.instances) \in Nat
      BY <1>4, LenProperties DEF VMInv, VMType
    <3> QED BY <1>4, <2>1, <3>1 DEF KeepsInstances, SameInstances
  <2> QED BY <2>1, <2>2, <2>3 DEF CallRefused, w
<1> QED BY <1>5, <1>6

(* The kinds of step.  Compiled code is only ever added, under the hash of *)
(* the code it comes from; the frames in progress keep what they run.      *)
CompiledStep ==
  /\ vm'.setting = vm.setting
  /\ \A h \in Codes : \/ vm'.compiled[h] = vm.compiled[h]
                      \/ ~CallAfterUpgrade => vm'.compiled[h] = h

SameFrame(f, g) ==
  f.contract = g.contract /\ f.kind = g.kind /\ f.runs = g.runs /\ f.saved = g.saved

NewRuns(c, kind, k) ==
  ~vm.setting.useWarmInstance =>
    /\ vm'.instances[vm'.instance].contract = c
    /\ ~CallAfterUpgrade /\ CompiledInv => vm'.instances[vm'.instance].code = k
    /\ kind = "upgrade" \/ (kind = "create" /\ mode = "idle") => Verified(k)

IdleStep ==
  /\ mode = "idle" /\ VMIdle(vm') /\ CompiledStep
  /\ UNCHANGED <<committed, code, created, frames, mode>>

BeginStep(c, kind, k) ==
  /\ mode = "idle" /\ mode' = "run"
  /\ VMInv(vm') /\ vm'.instanceStack = <<>> /\ vm'.instance # Nil
  /\ CompiledStep /\ NewRuns(c, kind, k)
  /\ frames' = <<NewFrame(c, kind, k)>>
  /\ UNCHANGED <<committed, code, created>>

FinishStep ==
  /\ mode # "idle" /\ mode' = "idle" /\ Len(frames) = 1
  /\ VMIdle(vm') /\ CompiledStep
  /\ frames' = <<>>
  /\ code' = committed'
  /\ committed' = committed \/ committed' = Deployed(frames[1])
  /\ UNCHANGED created

RefusedStep ==
  /\ mode = "run" /\ VMInv(vm') /\ CompiledStep
  /\ vm'.instanceStack = vm.instanceStack /\ vm'.instance = vm.instance
  /\ KeepsInstances(vm, vm')
  /\ frames' \in Seq(Frame) /\ Len(frames') = Len(frames)
  /\ \A n \in 1 .. Len(frames) : SameFrame(frames'[n], frames[n])
  /\ created \subseteq created' /\ created' \subseteq Codes
  /\ UNCHANGED <<committed, code, mode>>

NestedStep(c, kind, k) ==
  /\ mode = "run" /\ VMInv(vm') /\ CompiledStep
  /\ vm'.instanceStack = Append(vm.instanceStack, vm.instance) /\ vm'.instance # Nil
  /\ Len(vm.instanceStack) + 1 < maxWasmerInstances
  /\ KeepsInstances(vm, vm') /\ NewRuns(c, kind, k)
  /\ frames' \in Seq(Frame) /\ Len(frames') = Len(frames) + 1
  /\ \A n \in 1 .. Len(frames) : SameFrame(frames'[n], frames[n])
  /\ frames'[Len(frames) + 1] = NewFrame(c, kind, k)
  /\ created \subseteq created' /\ created' \subseteq Codes
  /\ kind = "create" => k \in created'
  /\ code' = code \/ (code[c] = NoCode /\ kind = "create" /\ code' = [code EXCEPT ![c] = k])
  /\ UNCHANGED <<committed, mode>>

PopStep ==
  /\ mode \in {"run", "panic"} /\ Len(frames) > 1
  /\ VMInv(vm') /\ CompiledStep /\ vm'.instance # Nil
  /\ vm'.instanceStack = Front(vm.instanceStack) /\ vm'.instance = Last(vm.instanceStack)
  /\ KeepsInstances(vm, vm')
  /\ frames' \in Seq(Frame) /\ Len(frames') = Len(frames) - 1
  /\ \A n \in 1 .. Len(frames) - 1 : SameFrame(frames'[n], frames[n])
  /\ \/ code' = code
     \/ code' = frames[Len(frames)].saved
     \/ frames[Len(frames)].kind = "upgrade" /\ code' = Deployed(frames[Len(frames)])
  /\ UNCHANGED <<committed, created, mode>>

PanicStep ==
  mode = "run" /\ mode' = "panic" /\ UNCHANGED <<vm, committed, code, created, frames>>

StepKind ==
  \/ IdleStep \/ FinishStep \/ RefusedStep \/ PopStep \/ PanicStep
  \/ \E c \in Addresses, kind \in {"call", "upgrade", "create"}, k \in Codes :
       BeginStep(c, kind, k) \/ NestedStep(c, kind, k)

(* Compiled code is saved under its own hash.                              *)
LEMMA SavesOwnHash ==
  ASSUME NEW c \in Addresses, NEW k \in Codes, NEW newCode \in BOOLEAN,
         RestTyped, vm \in VMType,
         Saves(vm, vm', c, k, newCode), vm'.setting = vm.setting,
         ~CallAfterUpgrade => newCode \/ committed[c] \in {NoCode, k}
  PROVE  CompiledStep
  BY DEF CompiledStep, Saves, CodeHash

(* The execution that starts runs the code it was started for.             *)
LEMMA RunsItsCode ==
  ASSUME NEW c \in Addresses, NEW k \in Codes, NEW newCode \in BOOLEAN,
         NEW kind, RunsOn(vm, vm', c, k, newCode),
         ~CallAfterUpgrade => newCode \/ committed[c] \in {NoCode, k},
         kind = "upgrade" \/ (kind = "create" /\ mode = "idle") => newCode
  PROVE  NewRuns(c, kind, k)
  BY NamesAreReal DEF NewRuns, RunsOn, CompiledInv

(* The frame of a new execution.                                           *)
LEMMA FrameTyped ==
  ASSUME RestTyped, NEW c \in Addresses, NEW kind \in {"call", "upgrade", "create"}, NEW k \in Codes
  PROVE  NewFrame(c, kind, k) \in Frame
  BY DEF RestTyped, NewFrame, Frame

(* A transaction that starts is one of the kinds of step.                  *)
LEMMA TransactionStepKind ==
  ASSUME WarmOrCompiled, RuntimeInv, RestTyped, StartTransaction,
         NEW v, VMIdle(v), v.setting = vm.setting, v.compiled = vm.compiled,
         NEW c \in Addresses, NEW k \in Codes, NEW newCode \in BOOLEAN,
         NEW kind \in {"call", "upgrade", "create"}, newCode => v.verifyCode,
         kind # "call" => newCode,
         newCode \/ committed[c] = k,
         \E o \in StartWasmerInstance(v, c, k, newCode) :
           IF o.ok THEN Begin(o.vm, c, kind, k) ELSE Refuse(o.vm)
  PROVE  StepKind
<1>1. PICK o \in StartWasmerInstance(v, c, k, newCode) :
        IF o.ok THEN Begin(o.vm, c, kind, k) ELSE Refuse(o.vm)
  OBVIOUS
<1>2. /\ o.ok => TxBegun(o.vm, c, k, newCode)
      /\ ~o.ok => TxRefused(CleanWasmerInstance(o.vm), c, k, newCode)
  BY TransactionStarts
<1>3. vm \in VMType /\ mode = "idle"
  BY DEF RuntimeInv, VMInv, StartTransaction
<1>4. CASE o.ok
  <2>1. /\ vm' = o.vm /\ mode' = "run" /\ frames' = <<NewFrame(c, kind, k)>>
        /\ UNCHANGED <<committed, code, created>>
    BY <1>1, <1>4 DEF Begin
  <2>2. /\ VMInv(vm') /\ vm'.setting = vm.setting /\ vm'.instanceStack = <<>>
        /\ vm'.instance # Nil
        /\ Saves(vm, vm', c, k, newCode) /\ RunsOn(vm, vm', c, k, newCode)
    BY <1>2, <1>4, <2>1 DEF TxBegun
  <2>3. CompiledStep /\ NewRuns(c, kind, k)
    BY <1>3, <2>2, SavesOwnHash, RunsItsCode
  <2> QED BY <1>3, <2>1, <2>2, <2>3 DEF StepKind, BeginStep
<1>5. CASE ~o.ok
  <2>1. vm' = CleanWasmerInstance(o.vm) /\ UNCHANGED <<committed, code, created, frames, mode>>
    BY <1>1, <1>5 DEF Refuse
  <2>2. VMIdle(vm') /\ vm'.setting = vm.setting /\ Saves(vm, vm', c, k, newCode)
    BY <1>2, <1>5, <2>1 DEF TxRefused
  <2>3. CompiledStep
    BY <1>3, <2>2, SavesOwnHash
  <2> QED BY <1>3, <2>1, <2>2, <2>3 DEF StepKind, IdleStep
<1> QED BY <1>4, <1>5

(* Moving an execution to another stage changes neither its contract nor   *)
(* its code.                                                               *)
LEMMA StageFrames ==
  ASSUME NEW F \in Seq(Frame), NEW n \in 1 .. Len(F), NEW st \in {"run", "async", "done"}
  PROVE  /\ [F EXCEPT ![n].stage = st] \in Seq(Frame)
         /\ Len([F EXCEPT ![n].stage = st]) = Len(F)
         /\ \A i \in 1 .. Len(F) : SameFrame([F EXCEPT ![n].stage = st][i], F[i])
<1> DEFINE e == [F[n] EXCEPT !.stage = st]
<1>1. \A i \in 1 .. Len(F) : F[i] \in Frame
  BY ElementOfSeq
<1>2. e \in Frame /\ SameFrame(e, F[n])
  BY <1>1 DEF Frame, SameFrame
<1>3. [F EXCEPT ![n].stage = st] = [F EXCEPT ![n] = e]
  OBVIOUS
<1> HIDE DEF e
<1>4. /\ [F EXCEPT ![n] = e] \in Seq(Frame) /\ Len([F EXCEPT ![n] = e]) = Len(F)
      /\ \A j \in 1 .. Len(F) : [F EXCEPT ![n] = e][j] = IF j = n THEN e ELSE F[j]
  BY <1>2, ExceptSeq
<1>5. \A f : SameFrame(f, f)
  BY DEF SameFrame
<1> QED BY <1>2, <1>3, <1>4, <1>5

(* Going back at once, with no new instance, changes nothing.              *)
LEMMA PopPushed ==
  ASSUME VMInv(vm)
  PROVE  popInstance(pushInstance(vm)) = vm
<1> DEFINE s == vm.instanceStack  p == pushInstance(vm)
<1>1. vm \in VMType /\ s \in Seq(Nat) /\ vm.instance \in Nat
  BY DEF VMInv, VMType
<1>2. /\ Append(s, vm.instance) # <<>>
      /\ Last(Append(s, vm.instance)) = vm.instance /\ Front(Append(s, vm.instance)) = s
  <2>1. ASSUME NEW t \in Seq(Nat), NEW x \in Nat
        PROVE  /\ Append(t, x) # <<>>
               /\ Last(Append(t, x)) = x /\ Front(Append(t, x)) = t
    BY <2>1, StackPush
  <2> QED BY <1>1, <2>1
<1>3. p.instanceStack = Append(s, vm.instance) /\ p.instance = vm.instance
  BY <1>1 DEF pushInstance, VMType
<1>4. popInstance(p) = [p EXCEPT !.instanceStack = Front(@)]
  BY <1>2, <1>3 DEF popInstance
<1>5. popInstance(p) = [p EXCEPT !.instanceStack = s]
  BY <1>2, <1>3, <1>4
<1>6. [p EXCEPT !.instanceStack = s] = [vm EXCEPT !.instanceStack = s]
  BY <1>1 DEF pushInstance, VMType
<1>7. [vm EXCEPT !.instanceStack = s] = vm
  BY <1>1 DEF VMType
<1> QED BY <1>5, <1>6, <1>7

(* The call, creation and upgrade of a contract by a transaction.          *)
LEMMA StartsKind ==
  ASSUME WarmOrCompiled, RuntimeInv, RestTyped
  PROVE  /\ \A c \in Addresses : doRunSmartContractCall(c) => StepKind
         /\ \A k \in NewCodes : doRunSmartContractCreate(k) => StepKind
         /\ \A c \in Addresses, k \in NewCodes : doRunSmartContractUpgrade(c, k) => StepKind
<1> DEFINE i == InitState(vm)  v == MustVerifyNextContractCode(i)
<1>1. ASSUME mode = "idle"
      PROVE  /\ VMIdle(i) /\ i.setting = vm.setting /\ i.compiled = vm.compiled
             /\ VMIdle(v) /\ v.setting = vm.setting /\ v.compiled = vm.compiled
             /\ v.verifyCode = TRUE
  <2>1. VMIdle(vm)
    BY <1>1 DEF RuntimeInv, VMIdle
  <2>2. VMIdle(i) /\ i.setting = vm.setting /\ i.compiled = vm.compiled
    BY <2>1, InitStateKeeps
  <2>3. i \in VMType
    BY <2>2 DEF VMIdle, VMInv
  <2> HIDE DEF i
  <2>4. /\ v.instance = i.instance /\ v.warmInstance = i.warmInstance
        /\ v.instanceStack = i.instanceStack /\ v.setting = i.setting
        /\ v.compiled = i.compiled /\ v.verifyCode = TRUE
        /\ VMInv(i) => VMInv(v)
    BY <2>3, MustVerifyKeeps
  <2> QED BY <2>2, <2>4 DEF VMIdle
<1> HIDE DEF i, v
<1>2. ASSUME NEW c \in Addresses, doRunSmartContractCall(c) PROVE StepKind
  <2>1. mode = "idle" /\ StartTransaction
    BY <1>2 DEF doRunSmartContractCall, StartTransaction
  <2>2. CASE Refuse(i)
    <3>1. /\ VMIdle(vm') /\ vm'.setting = vm.setting /\ vm'.compiled = vm.compiled
          /\ UNCHANGED <<committed, code, created, frames, mode>>
      BY <1>1, <2>1, <2>2, CleanTopKeeps DEF Refuse, VMIdle
    <3> QED BY <2>1, <3>1 DEF StepKind, IdleStep, CompiledStep
  <2>3. CASE /\ committed[c] # NoCode
             /\ \E o \in StartWasmerInstance(i, c, committed[c], FALSE) :
                  IF o.ok THEN Begin(o.vm, c, "call", committed[c]) ELSE Refuse(o.vm)
    <3>1. committed[c] \in Codes
      BY <2>3 DEF RestTyped
    <3> QED BY <1>1, <2>1, <2>3, <3>1, TransactionStepKind
  <2> QED BY <1>2, <2>2, <2>3 DEF doRunSmartContractCall, i
<1>3. ASSUME NEW c \in Addresses, NEW k \in NewCodes, NEW kind \in {"upgrade", "create"},
             StartTransaction, performCodeDeployment(c, k, kind)
      PROVE  StepKind
  <2>1. k \in Codes
    BY InitialCodeRuns
  <2>2. \E o \in StartWasmerInstance(v, c, k, TRUE) :
          IF o.ok THEN Begin(o.vm, c, kind, k) ELSE Refuse(o.vm)
    BY <1>3 DEF performCodeDeployment, v, i
  <2> QED BY <1>1, <1>3, <2>1, <2>2, TransactionStepKind DEF StartTransaction
<1>4. NewContract \in Addresses
  BY DEF Addresses
<1> QED
  BY <1>2, <1>3, <1>4 DEF doRunSmartContractCreate, doRunSmartContractUpgrade

(* The end and the failure of a transaction.                               *)
LEMMA FinishKind ==
  ASSUME RuntimeInv, RestTyped
  PROVE  EndTransaction \/ FailTransaction => StepKind
<1>1. ASSUME NEW w, VMIdle(w), w.setting = vm.setting, w.compiled = vm.compiled, Finish(w),
             mode # "idle", Len(frames) = 1, UNCHANGED created, code' = committed',
             committed' = committed \/ committed' = Deployed(frames[1])
      PROVE  StepKind
  BY <1>1 DEF Finish, StepKind, FinishStep, CompiledStep
<1>2. ASSUME mode = "run", Len(frames) = 1
      PROVE  VMInv(vm) /\ vm.instanceStack = <<>>
  <2>1. Len(vm.instanceStack) = 0 /\ vm.instanceStack \in Seq(Nat)
    BY <1>2 DEF RuntimeInv, VMInv, VMType
  <2> QED BY <2>1, EmptySeq DEF RuntimeInv
<1>3. ASSUME NEW w, VMInv(w), w.instanceStack = <<>>
      PROVE  VMIdle(CleanWasmerInstance(w)) /\ CleanWasmerInstance(w).setting = w.setting
             /\ CleanWasmerInstance(w).compiled = w.compiled
  BY <1>3, CleanTopKeeps DEF VMIdle
<1>4. CASE EndTransaction
  <2> DEFINE w == CleanWasmerInstance(vm)  x == CleanWasmerInstance(w)
  <2>1. mode = "run" /\ Len(frames) = 1 /\ Finish(x)
        /\ code' = Deployed(frames[1]) /\ committed' = code' /\ UNCHANGED created
    BY <1>4 DEF EndTransaction, HostClean
  <2>2. VMIdle(w) /\ w.setting = vm.setting /\ w.compiled = vm.compiled
    BY <1>2, <1>3, <2>1
  <2> HIDE DEF w
  <2>3. VMIdle(x) /\ x.setting = w.setting /\ x.compiled = w.compiled
    BY <1>3, <2>2 DEF VMIdle
  <2> HIDE DEF x
  <2> QED BY <1>1, <2>1, <2>2, <2>3
<1>5. CASE FailTransaction
  <2>1. mode = "run" /\ Len(frames) = 1 /\ code' = committed /\ UNCHANGED <<committed, created>>
    BY <1>5 DEF FailTransaction
  <2>2. CASE Finish(HostClean(vm))
    BY <1>1, <1>2, <1>3, <2>1, <2>2 DEF HostClean
  <2>3. CASE hasRetriableExecutionError(vm) /\ Finish(ResetWarmInstance(HostClean(vm)))
    <3>1. IsWarmInstance(vm)
      BY <2>3 DEF hasRetriableExecutionError
    <3>2. HostClean(vm) = vm
      BY <3>1 DEF HostClean, CleanWasmerInstance
    <3>3. VMIdle(vm) /\ vm.instance # Nil
      BY <1>2, <2>1, <3>1 DEF VMIdle, IsWarmInstance
    <3>4. /\ VMIdle(ResetWarmInstance(vm)) /\ ResetWarmInstance(vm).setting = vm.setting
          /\ ResetWarmInstance(vm).compiled = vm.compiled
      BY <3>3, ResetWarmKeeps
    <3> QED BY <1>1, <2>1, <2>3, <3>2, <3>4
  <2> QED BY <1>5, <2>2, <2>3 DEF FailTransaction
<1> QED BY <1>4, <1>5

(* The frames below a new one are the same executions.                     *)
LEMMA AppendFrame ==
  ASSUME NEW F \in Seq(Frame), NEW f \in Frame, frames \in Seq(Frame), Len(F) = Len(frames),
         \A n \in 1 .. Len(frames) : SameFrame(F[n], frames[n])
  PROVE  /\ Append(F, f) \in Seq(Frame) /\ Len(Append(F, f)) = Len(frames) + 1
         /\ \A n \in 1 .. Len(frames) : SameFrame(Append(F, f)[n], frames[n])
         /\ Append(F, f)[Len(frames) + 1] = f
<1>1. /\ Append(F, f) \in Seq(Frame) /\ Len(Append(F, f)) = Len(F) + 1
      /\ \A i \in 1 .. Len(F) : Append(F, f)[i] = F[i]
      /\ Append(F, f)[Len(F) + 1] = f
  BY AppendProperties
<1> QED BY <1>1

(* A call of contract c whose instance is started, or not.                 *)
LEMMA CallKind ==
  ASSUME WarmOrCompiled, RuntimeInv, RestTyped, mode = "run",
         NEW v, VMInv(v), v.instance = vm.instance, v.instances = vm.instances,
         v.instanceStack = vm.instanceStack,
         v.setting = vm.setting, v.compiled = vm.compiled,
         NEW c \in Addresses, NEW k \in Codes, NEW newCode \in BOOLEAN,
         NEW kind \in {"call", "upgrade", "create"}, newCode => v.verifyCode,
         kind = "upgrade" => newCode,
         ~CallAfterUpgrade => newCode \/ committed[c] \in {NoCode, k},
         NEW o \in StartWasmerInstance(pushInstance(v), c, k, newCode),
         NEW F \in Seq(Frame), Len(F) = Len(frames),
         \A n \in 1 .. Len(frames) : SameFrame(F[n], frames[n]),
         vm' = IF o.ok THEN o.vm ELSE popInstance(o.vm),
         frames' = IF o.ok THEN Append(F, NewFrame(c, kind, k)) ELSE F,
         created \subseteq created', created' \subseteq Codes,
         kind = "create" => k \in created',
         \/ code' = code
         \/ o.ok /\ code[c] = NoCode /\ kind = "create" /\ code' = [code EXCEPT ![c] = k],
         UNCHANGED <<committed, mode>>
  PROVE  StepKind
<1>1. vm \in VMType /\ VMInv(vm) /\ vm.instance # Nil /\ frames \in Seq(Frame)
  BY DEF RuntimeInv, VMInv
<1>2. o.ok \in BOOLEAN
  <2>1. VMReady(pushInstance(v))
    BY <1>1, PushReady
  <2> QED BY <2>1, StartFacts DEF StartOutcome, RestTyped
<1>3. /\ o.ok => CallBegun(o.vm, c, k, newCode)
      /\ ~o.ok => CallRefused(popInstance(o.vm), c, k, newCode)
  BY <1>1, CallStarts
<1>4. CASE o.ok
  <2>1. vm' = o.vm /\ frames' = Append(F, NewFrame(c, kind, k))
    BY <1>4
  <2>2. /\ VMInv(vm') /\ vm'.setting = vm.setting /\ vm'.instance # Nil
        /\ vm'.instanceStack = Append(vm.instanceStack, vm.instance)
        /\ Len(vm.instanceStack) + 1 < maxWasmerInstances
        /\ KeepsInstances(vm, vm')
        /\ Saves(vm, vm', c, k, newCode) /\ RunsOn(vm, vm', c, k, newCode)
    BY <1>3, <1>4, <2>1 DEF CallBegun
  <2>3. CompiledStep /\ NewRuns(c, kind, k)
    BY <1>1, <2>2, SavesOwnHash, RunsItsCode
  <2>4. NewFrame(c, kind, k) \in Frame
    BY FrameTyped
  <2>5. /\ frames' \in Seq(Frame) /\ Len(frames') = Len(frames) + 1
        /\ \A n \in 1 .. Len(frames) : SameFrame(frames'[n], frames[n])
        /\ frames'[Len(frames) + 1] = NewFrame(c, kind, k)
    BY <1>1, <2>1, <2>4, AppendFrame
  <2>6. NestedStep(c, kind, k)
    BY <2>2, <2>3, <2>5 DEF NestedStep
  <2> QED BY <2>6 DEF StepKind
<1>5. CASE ~o.ok
  <2>1. vm' = popInstance(o.vm) /\ frames' = F
    BY <1>5
  <2>2. /\ VMInv(vm') /\ vm'.setting = vm.setting
        /\ vm'.instanceStack = vm.instanceStack /\ vm'.instance = vm.instance
        /\ KeepsInstances(vm, vm') /\ Saves(vm, vm', c, k, newCode)
    BY <1>3, <1>5, <2>1 DEF CallRefused
  <2>3. CompiledStep
    BY <1>1, <2>2, SavesOwnHash
  <2>4. RefusedStep
    BY <1>5, <2>1, <2>2, <2>3 DEF RefusedStep
  <2> QED BY <2>4 DEF StepKind
<1> QED BY <1>2, <1>4, <1>5

(* A call that changes nothing of the runtime context.                     *)
LEMMA NoCallKind ==
  ASSUME RuntimeInv, RestTyped, mode = "run", vm' = vm, UNCHANGED <<committed, code, created, mode>>,
         frames' \in Seq(Frame), Len(frames') = Len(frames),
         \A n \in 1 .. Len(frames) : SameFrame(frames'[n], frames[n])
  PROVE  StepKind
<1>1. VMInv(vm') /\ CompiledStep /\ KeepsInstances(vm, vm')
  <2>1. Len(vm.instances) \in Nat
    BY LenProperties DEF RuntimeInv, VMInv, VMType
  <2> QED BY <2>1 DEF RuntimeInv, CompiledStep, KeepsInstances
<1> QED BY <1>1 DEF RestTyped, StepKind, RefusedStep

(* The calls, creations, upgrades and callbacks a running contract makes.  *)
LEMMA CallsKind ==
  ASSUME WarmOrCompiled, RuntimeInv, RestTyped, DeployedInv
  PROVE  /\ CallWithoutInstance => StepKind
         /\ \A c \in Addresses : ExecuteOnDestContext(c) => StepKind
         /\ \A k \in NewCodes : CreateNewContract(k) => StepKind
         /\ \A c \in Addresses, k \in NewCodes : executeUpgrade(c, k) => StepKind
         /\ executeSyncCallbackCall => StepKind
<1>1. /\ VMInv(vm) /\ vm \in VMType /\ frames \in Seq(Frame)
      /\ \A n \in 1 .. Len(frames) : SameFrame(frames[n], frames[n])
  BY DEF RuntimeInv, VMInv, SameFrame
<1> DEFINE v == MustVerifyNextContractCode(vm)
<1>2. /\ v.instance = vm.instance /\ v.instances = vm.instances
      /\ v.instanceStack = vm.instanceStack /\ v.setting = vm.setting
      /\ v.compiled = vm.compiled /\ v.verifyCode = TRUE /\ VMInv(v)
  BY <1>1, MustVerifyKeeps
<1> HIDE DEF v
<1>k. NewContract \in Addresses /\ NewCodes \subseteq Codes
  BY InitialCodeRuns DEF Addresses
<1>3. ASSUME CallWithoutInstance PROVE StepKind
  <2>1. mode = "run" /\ vm' = popInstance(pushInstance(vm))
        /\ UNCHANGED <<committed, code, created, frames, mode>>
    BY <1>3 DEF CallWithoutInstance, CanCall, Refused
  <2>2. vm' = vm
    BY <1>1, <2>1, PopPushed
  <2> QED BY <1>1, <2>1, <2>2, NoCallKind
<1>4. ASSUME NEW c \in Addresses, ExecuteOnDestContext(c) PROVE StepKind
  <2>1. mode = "run" /\ code[c] # NoCode /\ CallAllowed(c) /\ UNCHANGED <<code, created>>
    BY <1>4 DEF ExecuteOnDestContext, CanCall
  <2>2. PICK o \in StartWasmerInstance(pushInstance(vm), c, code[c], FALSE) :
          IF o.ok THEN Nested(o.vm, NewFrame(c, "call", code[c])) ELSE Refused(o.vm)
    BY <1>4 DEF ExecuteOnDestContext, ExecuteContractCall
  <2>3. /\ vm' = IF o.ok THEN o.vm ELSE popInstance(o.vm)
        /\ frames' = IF o.ok THEN Append(frames, NewFrame(c, "call", code[c])) ELSE frames
        /\ UNCHANGED <<committed, mode>>
    BY <2>2 DEF Nested, Refused
  <2>4. code[c] \in Codes /\ created \subseteq Codes
    BY <2>1 DEF RestTyped
  <2>5. ~CallAfterUpgrade => committed[c] \in {NoCode, code[c]}
    BY <2>1 DEF CallAllowed
  <2> QED BY <1>1, <2>1, <2>2, <2>3, <2>4, <2>5, CallKind
<1>5. ASSUME NEW k \in NewCodes, CreateNewContract(k) PROVE StepKind
  <2>1. mode = "run" /\ code[NewContract] = NoCode /\ created' = created \cup {k}
    BY <1>5 DEF CreateNewContract, CanCall
  <2>2. PICK o \in StartWasmerInstance(pushInstance(v), NewContract, k, FALSE) :
          IF o.ok
          THEN /\ Nested(o.vm, NewFrame(NewContract, "create", k))
               /\ code' = [code EXCEPT ![NewContract] = k]
          ELSE Refused(o.vm) /\ UNCHANGED code
    BY <1>5 DEF CreateNewContract, v
  <2>3. /\ vm' = IF o.ok THEN o.vm ELSE popInstance(o.vm)
        /\ frames' = IF o.ok THEN Append(frames, NewFrame(NewContract, "create", k)) ELSE frames
        /\ UNCHANGED <<committed, mode>>
        /\ code' = code \/ (o.ok /\ code' = [code EXCEPT ![NewContract] = k])
    BY <2>2 DEF Nested, Refused
  <2>4. created \subseteq created' /\ created' \subseteq Codes /\ k \in created' /\ k \in Codes
    BY <1>k, <2>1 DEF RestTyped
  <2>5. committed[NewContract] = NoCode
    BY <1>k, <2>1 DEF DeployedInv
  <2> QED BY <1>1, <1>2, <1>k, <2>1, <2>2, <2>3, <2>4, <2>5, CallKind
<1>6. ASSUME NEW c \in Addresses, NEW k \in NewCodes, executeUpgrade(c, k) PROVE StepKind
  <2>1. mode = "run" /\ UNCHANGED <<code, created>>
    BY <1>6 DEF executeUpgrade, CanCall
  <2>2. PICK o \in StartWasmerInstance(pushInstance(v), c, k, TRUE) :
          IF o.ok THEN Nested(o.vm, NewFrame(c, "upgrade", k)) ELSE Refused(o.vm)
    BY <1>6 DEF executeUpgrade, v
  <2>3. /\ vm' = IF o.ok THEN o.vm ELSE popInstance(o.vm)
        /\ frames' = IF o.ok THEN Append(frames, NewFrame(c, "upgrade", k)) ELSE frames
        /\ UNCHANGED <<committed, mode>>
    BY <2>2 DEF Nested, Refused
  <2>4. created \subseteq created' /\ created' \subseteq Codes /\ k \in Codes
    BY <1>k, <2>1 DEF RestTyped
  <2> QED BY <1>1, <1>2, <2>1, <2>2, <2>3, <2>4, CallKind
<1>7. ASSUME executeSyncCallbackCall PROVE StepKind
  <2> DEFINE c == Running.contract
             called == [frames EXCEPT ![Len(frames)].stage = "done"]
  <2>1. mode = "run" /\ CallAllowed(c) /\ UNCHANGED <<committed, code, created, mode>>
    BY <1>7 DEF executeSyncCallbackCall
  <2>2. Len(frames) \in 1 .. Len(frames) /\ Running \in Frame
    <3>1. Len(frames) \in Nat \ {0}
      <4>1. Len(vm.instanceStack) \in Nat /\ Len(vm.instanceStack) = Len(frames) - 1
        BY <1>1, <2>1, LenProperties DEF RuntimeInv, VMType
      <4> QED BY <1>1, <4>1, LenProperties
    <3> QED BY <1>1, <3>1, ElementOfSeq DEF Running, Last
  <2>3. /\ called \in Seq(Frame) /\ Len(called) = Len(frames)
        /\ \A n \in 1 .. Len(frames) : SameFrame(called[n], frames[n])
    BY <1>1, <2>2, StageFrames
  <2>4. PICK o \in IF code[c] = NoCode THEN {Failed(pushInstance(vm))}
                   ELSE StartWasmerInstance(pushInstance(vm), c, code[c], FALSE) :
          /\ vm' = IF o.ok THEN o.vm ELSE popInstance(o.vm)
          /\ frames' = IF o.ok THEN Append(called, NewFrame(c, "call", code[c])) ELSE called
    BY <1>7 DEF executeSyncCallbackCall
  <2>5. c \in Addresses
    BY <2>2 DEF Frame
  <2> HIDE DEF c, called
  <2>6. CASE code[c] = NoCode
    <3>1. o.ok = FALSE /\ o.vm = pushInstance(vm)
      BY <2>4, <2>6 DEF Failed
    <3>2. vm' = vm /\ frames' = called
      BY <1>1, <2>4, <3>1, PopPushed
    <3> QED BY <2>1, <2>3, <3>2, NoCallKind
  <2>7. CASE code[c] # NoCode
    <3>1. code[c] \in Codes /\ created \subseteq Codes
      BY <2>5, <2>7 DEF RestTyped
    <3>2. ~CallAfterUpgrade => committed[c] \in {NoCode, code[c]}
      BY <2>1 DEF CallAllowed
    <3>3. o \in StartWasmerInstance(pushInstance(vm), c, code[c], FALSE)
      BY <2>4, <2>7
    <3> QED BY <1>1, <2>1, <2>3, <2>4, <2>5, <3>1, <3>2, <3>3, CallKind
  <2> QED BY <2>6, <2>7
<1> QED BY <1>3, <1>4, <1>5, <1>6, <1>7

(* The frames that remain after a return are the same executions.          *)
LEMMA ResumeFrames ==
  ASSUME frames \in Seq(Frame), Len(frames) > 1
  PROVE  /\ Front(frames) \in Seq(Frame) /\ Resume(Running) \in Seq(Frame)
         /\ Len(Front(frames)) = Len(frames) - 1 /\ Len(Resume(Running)) = Len(frames) - 1
         /\ \A n \in 1 .. Len(frames) - 1 : /\ SameFrame(Front(frames)[n], frames[n])
                                            /\ SameFrame(Resume(Running)[n], frames[n])
<1> DEFINE F == Front(frames)
<1>1. frames # <<>> /\ Len(frames) \in Nat
  BY LenProperties, EmptySeq
<1>2. F \in Seq(Frame) /\ Len(F) = Len(frames) - 1
      /\ \A n \in 1 .. Len(frames) - 1 : F[n] = frames[n]
  BY <1>1, StackPop
<1> HIDE DEF F
<1>3. \A f : SameFrame(f, f)
  BY DEF SameFrame
<1>4. \A n \in 1 .. Len(frames) - 1 : SameFrame(F[n], frames[n])
  BY <1>2, <1>3
<1> DEFINE G == [F EXCEPT ![Len(frames) - 1].stage = "async"]
<1>5. /\ G \in Seq(Frame) /\ Len(G) = Len(frames) - 1
      /\ \A n \in 1 .. Len(frames) - 1 : SameFrame(G[n], F[n])
  <2>1. Len(frames) - 1 \in 1 .. Len(F)
    BY <1>1, <1>2
  <2> QED BY <1>2, <2>1, StageFrames
<1>6. Resume(Running) = G \/ Resume(Running) = F
  BY DEF Resume, F
<1> HIDE DEF G
<1> QED BY <1>2, <1>4, <1>5, <1>6 DEF F

(* The returns from a call, the failed and the panicking ones included.    *)
LEMMA PopsKind ==
  ASSUME RuntimeInv, RestTyped
  PROVE  EndCall \/ FailCall \/ Panic \/ TryCatch => StepKind
<1>1. VMInv(vm) /\ vm \in VMType /\ frames \in Seq(Frame)
  BY DEF RuntimeInv, VMInv
<1>2. ASSUME mode \in {"run", "panic"}, Len(frames) > 1, vm' = popInstance(vm),
             frames' \in {Front(frames), Resume(Running)},
             \/ code' = code
             \/ code' = frames[Len(frames)].saved
             \/ frames[Len(frames)].kind = "upgrade" /\ code' = Deployed(frames[Len(frames)]),
             UNCHANGED <<committed, created, mode>>
      PROVE  StepKind
  <2>1. vm.instanceStack # <<>> /\ Len(vm.instances) \in Nat
    <3>1. Len(vm.instanceStack) = Len(frames) - 1 /\ Len(frames) \in Nat
      BY <1>1, <1>2, LenProperties DEF RuntimeInv
    <3>2. Len(vm.instanceStack) # 0
      BY <1>2, <3>1
    <3>3. Len(<<>>) = 0
      OBVIOUS
    <3> QED BY <1>1, <3>2, <3>3, LenProperties DEF VMType
  <2>2. /\ VMInv(vm') /\ vm'.instance # Nil
        /\ vm'.instance = Last(vm.instanceStack) /\ vm'.instanceStack = Front(vm.instanceStack)
        /\ vm'.setting = vm.setting /\ vm'.compiled = vm.compiled /\ SameInstances(vm, vm')
    BY <1>1, <1>2, <2>1, PopKeeps
  <2>3. CompiledStep /\ KeepsInstances(vm, vm')
    BY <2>1, <2>2 DEF CompiledStep, SameInstances, KeepsInstances
  <2>4. /\ frames' \in Seq(Frame) /\ Len(frames') = Len(frames) - 1
        /\ \A n \in 1 .. Len(frames) - 1 : SameFrame(frames'[n], frames[n])
    BY <1>1, <1>2, ResumeFrames
  <2>5. PopStep
    BY <1>2, <2>2, <2>3, <2>4 DEF PopStep
  <2> QED BY <2>5 DEF StepKind
<1>3. CASE EndCall
  BY <1>2, <1>3 DEF EndCall, Running, Last
<1>4. CASE FailCall
  BY <1>2, <1>4 DEF FailCall, Running, Last
<1>5. CASE Panic
  BY <1>5 DEF Panic, StepKind, PanicStep
<1>6. CASE TryCatch /\ Len(frames) > 1
  BY <1>2, <1>6 DEF TryCatch
<1>7. CASE TryCatch /\ ~(Len(frames) > 1)
  <2>1. /\ mode = "panic" /\ code' = committed /\ UNCHANGED <<committed, created>>
        /\ vm' = CleanWasmerInstance(vm) /\ frames' = <<>> /\ mode' = "idle"
    BY <1>7 DEF TryCatch, Finish, HostClean
  <2>2. Len(frames) = 1 /\ vm.instanceStack = <<>>
    <3>1. /\ Len(vm.instanceStack) = Len(frames) - 1 /\ Len(frames) \in Nat
          /\ vm.instanceStack \in Seq(Nat) /\ Len(vm.instanceStack) \in Nat
      BY <1>1, <2>1, LenProperties DEF RuntimeInv, VMType
    <3>2. ~(Len(frames) > 1)
      BY <1>7
    <3>3. \A a, b \in Nat : b = a - 1 /\ ~(a > 1) => a = 1 /\ b = 0
      OBVIOUS
    <3>4. Len(frames) = 1 /\ Len(vm.instanceStack) = 0
      BY <3>1, <3>2, <3>3
    <3> QED BY <3>1, <3>4, EmptySeq
  <2>3. VMIdle(vm') /\ vm'.setting = vm.setting /\ vm'.compiled = vm.compiled
    BY <1>1, <2>1, <2>2, CleanTopKeeps DEF VMIdle
  <2> QED BY <2>1, <2>2, <2>3 DEF StepKind, FinishStep, CompiledStep
<1> QED BY <1>3, <1>4, <1>5, <1>6, <1>7

(* Every action is one of the kinds of step the invariants are proved for. *)
LEMMA NextIsStepKind ==
  ASSUME WarmOrCompiled, RuntimeInv, RestTyped, DeployedInv, Next
  PROVE  StepKind
  BY StartsKind, FinishKind, CallsKind, PopsKind DEF Next

-----------------------------------------------------------------------------
(* Every kind of step keeps the invariants.                                *)

(* Every kind of step keeps the invariant of the runtime context.          *)
LEMMA RuntimeStep ==
  ASSUME RuntimeInv, RestTyped, StepKind
  PROVE  RuntimeInv'
<1>1. /\ frames \in Seq(Frame) /\ Len(frames) \in Nat /\ Len(frames) <= maxWasmerInstances
      /\ Len(vm.instanceStack) \in Nat /\ vm.instanceStack \in Seq(Nat) /\ vm.instance \in Nat
      /\ maxWasmerInstances \in Nat \ {0}
  BY LenProperties, InitialCodeRuns DEF RuntimeInv, VMInv, VMType
<1>2. <<>> \in Seq(Frame) /\ Len(<<>>) = 0
  BY EmptySeq
<1>3. CASE IdleStep
  BY <1>3 DEF IdleStep, VMIdle, RuntimeInv
<1>4. CASE FinishStep
  <2>1. Len(frames') <= maxWasmerInstances
    BY <1>1, <1>2, <1>4 DEF FinishStep
  <2> QED BY <1>2, <1>4, <2>1 DEF FinishStep, VMIdle, RuntimeInv
<1>5. CASE RefusedStep
  <2>1. Len(frames') = Len(frames) /\ frames' \in Seq(Frame) /\ VMInv(vm')
        /\ vm'.instanceStack = vm.instanceStack /\ vm'.instance = vm.instance
        /\ mode' = mode /\ mode = "run"
    BY <1>5 DEF RefusedStep
  <2> QED BY <2>1 DEF RuntimeInv
<1>6. CASE PopStep
  <2>1. Len(frames') = Len(frames) - 1 /\ frames' \in Seq(Frame) /\ VMInv(vm')
        /\ vm'.instanceStack = Front(vm.instanceStack) /\ vm'.instance # Nil
        /\ mode' = mode /\ mode \in {"run", "panic"} /\ Len(frames) > 1
    BY <1>6 DEF PopStep
  <2>2. Len(vm.instanceStack) = Len(frames) - 1
    BY <2>1 DEF RuntimeInv
  <2>3. Len(vm.instanceStack) # 0
    <3>1. \A a, b \in Nat : b = a - 1 /\ a > 1 => b # 0
      OBVIOUS
    <3> QED BY <1>1, <2>1, <2>2, <3>1
  <2>4. Len(vm'.instanceStack) = Len(vm.instanceStack) - 1
    BY <1>1, <1>2, <2>1, <2>3, StackPop
  <2>5. Len(vm'.instanceStack) = Len(frames') - 1 /\ Len(frames') <= maxWasmerInstances
    BY <1>1, <2>1, <2>2, <2>4
  <2> QED BY <2>1, <2>5 DEF RuntimeInv
<1>7. CASE PanicStep
  BY <1>7 DEF PanicStep, RuntimeInv
<1>8. ASSUME NEW c \in Addresses, NEW kind \in {"call", "upgrade", "create"}, NEW k \in Codes,
             BeginStep(c, kind, k)
      PROVE  RuntimeInv'
  <2>1. NewFrame(c, kind, k) \in Frame
    BY FrameTyped
  <2>2. \A f \in Frame : <<f>> \in Seq(Frame) /\ Len(<<f>>) = 1
    OBVIOUS
  <2>3. frames' \in Seq(Frame) /\ Len(frames') = 1
    BY <1>8, <2>1, <2>2 DEF BeginStep
  <2>4. Len(vm'.instanceStack) = Len(frames') - 1 /\ Len(frames') <= maxWasmerInstances
    <3>1. Len(vm'.instanceStack) = 0
      BY <1>2, <1>8 DEF BeginStep
    <3> QED BY <1>1, <2>3, <3>1
  <2> QED BY <1>8, <2>3, <2>4 DEF BeginStep, RuntimeInv
<1>9. ASSUME NEW c \in Addresses, NEW kind \in {"call", "upgrade", "create"}, NEW k \in Codes,
             NestedStep(c, kind, k)
      PROVE  RuntimeInv'
  <2>1. Len(frames') = Len(frames) + 1 /\ frames' \in Seq(Frame) /\ VMInv(vm')
        /\ vm'.instanceStack = Append(vm.instanceStack, vm.instance) /\ vm'.instance # Nil
        /\ mode' = mode /\ mode = "run" /\ Len(vm.instanceStack) + 1 < maxWasmerInstances
    BY <1>9 DEF NestedStep
  <2>2. Len(vm.instanceStack) = Len(frames) - 1
    BY <2>1 DEF RuntimeInv
  <2>3. Len(vm'.instanceStack) = Len(vm.instanceStack) + 1
    BY <1>1, <2>1, StackPush
  <2>4. Len(vm'.instanceStack) = Len(frames') - 1 /\ Len(frames') <= maxWasmerInstances
    BY <1>1, <2>1, <2>2, <2>3
  <2> QED BY <2>1, <2>4 DEF RuntimeInv
<1> QED BY <1>3, <1>4, <1>5, <1>6, <1>7, <1>8, <1>9 DEF StepKind

(* The counters, which bound the model.                                    *)
LEMMA CountersStep ==
  ASSUME RestTyped, Next
  PROVE  txs' \in 0 .. MaxTxs /\ steps' \in 0 .. MaxSteps
<1>1. \A n, m \in Nat : n < m => n + 1 \in 0 .. m /\ 0 \in 0 .. m
  OBVIOUS
<1>2. MaxTxs \in Nat /\ MaxSteps \in Nat /\ txs \in 0 .. MaxTxs /\ steps \in 0 .. MaxSteps
      /\ txs \in Nat /\ steps \in Nat /\ 0 \in 0 .. MaxSteps
  BY InitialCodeRuns DEF RestTyped
<1>3. CASE StartTransaction
  BY <1>1, <1>2, <1>3 DEF StartTransaction
<1>4. CASE UNCHANGED txs /\ steps < MaxSteps /\ steps' = steps + 1
  BY <1>1, <1>2, <1>4
<1>5. CASE UNCHANGED <<txs, steps>>
  BY <1>2, <1>5
<1>6. StartTransaction \/ UNCHANGED <<txs, steps>> \/ (UNCHANGED txs /\ steps < MaxSteps /\ steps' = steps + 1)
  <2>1. ASSUME NEW c \in Addresses, doRunSmartContractCall(c) PROVE StartTransaction
    BY <2>1 DEF doRunSmartContractCall
  <2>2. ASSUME NEW k \in NewCodes, doRunSmartContractCreate(k) PROVE StartTransaction
    BY <2>2 DEF doRunSmartContractCreate
  <2>3. ASSUME NEW c \in Addresses, NEW k \in NewCodes, doRunSmartContractUpgrade(c, k)
        PROVE  StartTransaction
    BY <2>3 DEF doRunSmartContractUpgrade
  <2>4. EndTransaction \/ FailTransaction => UNCHANGED <<txs, steps>>
    BY DEF EndTransaction, FailTransaction, Finish
  <2>5. CallWithoutInstance => CanCall /\ UNCHANGED txs
    BY DEF CallWithoutInstance, Refused
  <2>6. ASSUME NEW c \in Addresses, ExecuteOnDestContext(c) PROVE CanCall /\ UNCHANGED txs
    BY <2>6 DEF ExecuteOnDestContext, ExecuteContractCall, Nested, Refused
  <2>7. ASSUME NEW k \in NewCodes, CreateNewContract(k) PROVE CanCall /\ UNCHANGED txs
    BY <2>7 DEF CreateNewContract, Nested, Refused
  <2>8. ASSUME NEW c \in Addresses, NEW k \in NewCodes, executeUpgrade(c, k)
        PROVE  CanCall /\ UNCHANGED txs
    BY <2>8 DEF executeUpgrade, Nested, Refused
  <2>9. executeSyncCallbackCall => UNCHANGED txs /\ steps < MaxSteps /\ steps' = steps + 1
    BY DEF executeSyncCallbackCall
  <2>10. EndCall \/ FailCall \/ Panic \/ TryCatch => UNCHANGED <<txs, steps>>
    BY DEF EndCall, FailCall, Panic, TryCatch, Finish
  <2> QED BY <2>1, <2>2, <2>3, <2>4, <2>5, <2>6, <2>7, <2>8, <2>9, <2>10 DEF Next, CanCall
<1> QED BY <1>3, <1>4, <1>5, <1>6

(* The frames keep their types, whatever their number.                     *)
LEMMA FrameOf ==
  ASSUME frames \in Seq(Frame), NEW n \in 1 .. Len(frames)
  PROVE  /\ frames[n] \in Frame /\ frames[n].contract \in Addresses
         /\ frames[n].kind \in {"call", "upgrade", "create"} /\ frames[n].runs \in Codes
         /\ frames[n].saved \in [Addresses -> Codes \cup {NoCode}]
<1>1. frames[n] \in Frame
  BY ElementOfSeq
<1> QED BY <1>1 DEF Frame

(* A finished execution deploys its own code and no other contract's.      *)
LEMMA DeployedTyped ==
  ASSUME RestTyped, NEW f, f.contract \in Addresses, f.runs \in Codes
  PROVE  /\ Deployed(f) \in [Addresses -> Codes \cup {NoCode}]
         /\ \A c \in Addresses : \/ Deployed(f)[c] = code[c]
                                 \/ f.kind # "call" /\ c = f.contract /\ Deployed(f)[c] = f.runs
  BY DEF RestTyped, Deployed

(* Every step keeps the types of the host's state.                         *)
LEMMA RestStep ==
  ASSUME RuntimeInv, RestTyped, StepKind, Next
  PROVE  RestTyped'
<1>1. txs' \in 0 .. MaxTxs /\ steps' \in 0 .. MaxSteps
  BY CountersStep
<1>2. frames \in Seq(Frame) /\ Len(frames) \in Nat
  BY LenProperties DEF RuntimeInv
<1>3. /\ committed' \in [Addresses -> Codes \cup {NoCode}]
      /\ code' \in [Addresses -> Codes \cup {NoCode}]
      /\ created' \subseteq Codes
  <2>1. CASE IdleStep \/ PanicStep \/ RefusedStep
    BY <2>1 DEF IdleStep, PanicStep, RefusedStep, RestTyped
  <2>2. CASE FinishStep
    <3>1. Len(frames) = 1
      BY <2>2 DEF FinishStep
    <3>2. frames[1].contract \in Addresses /\ frames[1].runs \in Codes
      BY <1>2, <3>1, FrameOf
    <3>3. Deployed(frames[1]) \in [Addresses -> Codes \cup {NoCode}]
      BY <3>2, DeployedTyped
    <3> QED BY <2>2, <3>3 DEF FinishStep, RestTyped
  <2>3. CASE PopStep
    <3>1. Len(frames) \in 1 .. Len(frames)
      BY <1>2, <2>3 DEF PopStep
    <3> DEFINE f == frames[Len(frames)]
    <3>2. f.contract \in Addresses /\ f.runs \in Codes /\ f.saved \in [Addresses -> Codes \cup {NoCode}]
      BY <1>2, <3>1, FrameOf
    <3>3. Deployed(f) \in [Addresses -> Codes \cup {NoCode}]
      BY <3>2, DeployedTyped
    <3> QED BY <2>3, <3>2, <3>3 DEF PopStep, RestTyped
  <2>4. ASSUME NEW c \in Addresses, NEW kind \in {"call", "upgrade", "create"}, NEW k \in Codes,
               BeginStep(c, kind, k) \/ NestedStep(c, kind, k)
        PROVE  /\ committed' \in [Addresses -> Codes \cup {NoCode}]
               /\ code' \in [Addresses -> Codes \cup {NoCode}]
               /\ created' \subseteq Codes
    BY <2>4 DEF BeginStep, NestedStep, RestTyped
  <2> QED BY <2>1, <2>2, <2>3, <2>4 DEF StepKind
<1> QED BY <1>1, <1>3 DEF RestTyped

(* Every kind of step keeps the invariant of the deployed code.            *)
LEMMA DeployedStep ==
  ASSUME RuntimeInv, RestTyped, DeployedInv, StepKind
  PROVE  DeployedInv'
<1>1. frames \in Seq(Frame) /\ Len(frames) \in Nat /\ NoCode \notin Codes
  BY LenProperties, NamesAreReal DEF RuntimeInv
<1>2. ASSUME NEW f, f.contract \in Addresses, f.runs \in Codes,
             NEW c \in Addresses, code[c] # NoCode
      PROVE  Deployed(f)[c] # NoCode
  BY <1>1, <1>2, DeployedTyped
<1>3. CASE IdleStep \/ PanicStep
  BY <1>3 DEF IdleStep, PanicStep, DeployedInv
<1>4. CASE FinishStep
  <2>1. Len(<<>>) = 0 /\ frames' = <<>> /\ code' = committed'
    BY <1>4 DEF FinishStep
  <2> QED BY <2>1 DEF DeployedInv
<1>5. CASE RefusedStep
  <2>1. \A n \in 1 .. Len(frames) : frames'[n].saved = frames[n].saved
    BY <1>5 DEF RefusedStep, SameFrame
  <2> QED BY <1>5, <2>1 DEF RefusedStep, DeployedInv
<1>6. CASE PopStep
  <2> DEFINE f == frames[Len(frames)]
  <2>1. Len(frames) \in 1 .. Len(frames) /\ Len(frames') = Len(frames) - 1
        /\ 1 .. Len(frames') \subseteq 1 .. Len(frames)
    BY <1>1, <1>6 DEF PopStep
  <2>2. f.contract \in Addresses /\ f.runs \in Codes
    BY <1>1, <2>1, FrameOf
  <2>3. \A n \in 1 .. Len(frames') : n \in 1 .. Len(frames) /\ frames'[n].saved = frames[n].saved
    BY <1>6, <2>1 DEF PopStep, SameFrame
  <2>4. committed' = committed /\ (code' = code \/ code' = f.saved \/ code' = Deployed(f))
    BY <1>6 DEF PopStep
  <2>5. ASSUME NEW c \in Addresses, committed[c] # NoCode
        PROVE  code'[c] # NoCode
    <3>1. code[c] # NoCode /\ f.saved[c] # NoCode
      BY <2>1, <2>5 DEF DeployedInv
    <3>2. Deployed(f)[c] # NoCode
      BY <1>2, <2>2, <3>1
    <3> QED BY <2>4, <3>1, <3>2
  <2> QED BY <2>3, <2>4, <2>5 DEF DeployedInv
<1>7. ASSUME NEW c \in Addresses, NEW kind \in {"call", "upgrade", "create"}, NEW k \in Codes,
             BeginStep(c, kind, k)
      PROVE  DeployedInv'
  <2>1. frames' = <<NewFrame(c, kind, k)>> /\ UNCHANGED <<committed, code>>
    BY <1>7 DEF BeginStep
  <2>2. Len(frames') = 1 /\ frames'[1].saved = code
    BY <2>1 DEF NewFrame
  <2> QED BY <2>1, <2>2 DEF DeployedInv
<1>8. ASSUME NEW c \in Addresses, NEW kind \in {"call", "upgrade", "create"}, NEW k \in Codes,
             NestedStep(c, kind, k)
      PROVE  DeployedInv'
  <2>1. committed' = committed /\ Len(frames') = Len(frames) + 1
        /\ (code' = code \/ code' = [code EXCEPT ![c] = k])
    BY <1>8 DEF NestedStep
  <2>2. \A n \in 1 .. Len(frames) : frames'[n].saved = frames[n].saved
    BY <1>8 DEF NestedStep, SameFrame
  <2>3. frames'[Len(frames) + 1].saved = code
    BY <1>8 DEF NestedStep, NewFrame
  <2>4. \A n \in 1 .. Len(frames') : n \in 1 .. Len(frames) \/ n = Len(frames) + 1
    BY <1>1, <2>1
  <2>5. ASSUME NEW d \in Addresses, committed[d] # NoCode
        PROVE  code'[d] # NoCode /\ \A n \in 1 .. Len(frames') : frames'[n].saved[d] # NoCode
    <3>1. code[d] # NoCode /\ \A n \in 1 .. Len(frames) : frames[n].saved[d] # NoCode
      BY <2>5 DEF DeployedInv
    <3>2. code'[d] # NoCode
      BY <1>1, <2>1, <3>1 DEF RestTyped
    <3> QED BY <2>2, <2>3, <2>4, <3>1, <3>2
  <2> QED BY <2>1, <2>5 DEF DeployedInv
<1> QED BY <1>3, <1>4, <1>5, <1>6, <1>7, <1>8 DEF StepKind

(* Every kind of step keeps compiled code under its own hash.              *)
LEMMA CompiledCodeStep ==
  ASSUME StepKind, CompiledInv, ~CallAfterUpgrade
  PROVE  CompiledInv'
<1>1. CompiledStep \/ UNCHANGED vm
  BY DEF StepKind, IdleStep, FinishStep, RefusedStep, PopStep, PanicStep, BeginStep, NestedStep
<1> QED BY <1>1 DEF CompiledStep, CompiledInv

(* The instances of the executions in progress exist.                      *)
LEMMA InstanceAtExists ==
  ASSUME RuntimeInv, mode # "idle", NEW n \in 1 .. Len(frames)
  PROVE  /\ InstanceAt(n) \in 1 .. Len(vm.instances)
         /\ n # Len(frames) => n \in 1 .. Len(vm.instanceStack)
<1>1. Len(vm.instanceStack) = Len(frames) - 1 /\ vm.instance # Nil /\ VMInv(vm)
      /\ Len(frames) \in Nat /\ Len(vm.instanceStack) \in Nat
  BY LenProperties DEF RuntimeInv, VMInv, VMType
<1>2. n # Len(frames) => n \in 1 .. Len(vm.instanceStack)
  BY <1>1
<1>3. n # Len(frames) => vm.instanceStack[n] \in 1 .. Len(vm.instances)
  BY <1>1, <1>2 DEF VMInv, StackInv, Alive, Exists
<1>4. vm.instance \in 1 .. Len(vm.instances)
  BY <1>1 DEF VMInv, CurrentInv, Alive, Exists
<1> QED BY <1>2, <1>3, <1>4 DEF InstanceAt

(* An execution that stays in progress keeps its instance.                 *)
LEMMA RunsKept ==
  ASSUME RuntimeInv, RunsInv, mode # "idle", ~vm.setting.useWarmInstance,
         NEW n \in 1 .. Len(frames), KeepsInstances(vm, vm'),
         SameFrame(frames'[n], frames[n]), InstanceAt(n)' = InstanceAt(n)
  PROVE  /\ vm'.instances[InstanceAt(n)'].contract = frames'[n].contract
         /\ vm'.instances[InstanceAt(n)'].code = frames'[n].runs
<1>1. InstanceAt(n) \in 1 .. Len(vm.instances)
  BY InstanceAtExists
<1>2. /\ vm.instances[InstanceAt(n)].contract = frames[n].contract
      /\ vm.instances[InstanceAt(n)].code = frames[n].runs
  BY DEF RunsInv
<1> QED BY <1>1, <1>2 DEF KeepsInstances, SameFrame

(* Every kind of step keeps executions on their contract's code.           *)
LEMMA RunsStep ==
  ASSUME RuntimeInv, RestTyped, CompiledInv, ~CallAfterUpgrade, RunsInv, StepKind
  PROVE  RunsInv'
<1>1. /\ frames \in Seq(Frame) /\ Len(frames) \in Nat /\ vm.instanceStack \in Seq(Nat)
      /\ Len(vm.instanceStack) \in Nat /\ vm.instance \in Nat
  BY LenProperties DEF RuntimeInv, VMInv, VMType
<1>2. CASE IdleStep \/ FinishStep
  BY <1>2 DEF IdleStep, FinishStep, RunsInv
<1>3. CASE PanicStep
  BY <1>3 DEF PanicStep, RunsInv, InstanceAt
<1>4. CASE RefusedStep
  <2>1. /\ mode = "run" /\ vm'.setting = vm.setting /\ KeepsInstances(vm, vm')
        /\ Len(frames') = Len(frames)
        /\ vm'.instanceStack = vm.instanceStack /\ vm'.instance = vm.instance
        /\ \A n \in 1 .. Len(frames) : SameFrame(frames'[n], frames[n])
    BY <1>4 DEF RefusedStep, CompiledStep
  <2>2. \A n \in 1 .. Len(frames) : InstanceAt(n)' = InstanceAt(n)
    BY <2>1 DEF InstanceAt
  <2> QED BY <2>1, <2>2, RunsKept DEF RunsInv
<1>5. CASE PopStep
  <2>1. /\ mode # "idle" /\ vm'.setting = vm.setting /\ KeepsInstances(vm, vm')
        /\ Len(frames') = Len(frames) - 1 /\ Len(frames) > 1
        /\ vm'.instanceStack = Front(vm.instanceStack) /\ vm'.instance = Last(vm.instanceStack)
        /\ \A n \in 1 .. Len(frames) - 1 : SameFrame(frames'[n], frames[n])
    BY <1>5 DEF PopStep, CompiledStep
  <2>2. Len(vm.instanceStack) = Len(frames) - 1
    BY <2>1 DEF RuntimeInv
  <2>3. vm.instanceStack # <<>>
    <3>1. \A a, b \in Nat : b = a - 1 /\ a > 1 => b # 0
      OBVIOUS
    <3>2. Len(vm.instanceStack) # 0
      BY <1>1, <2>1, <2>2, <3>1
    <3>3. Len(<<>>) = 0
      OBVIOUS
    <3> QED BY <3>2, <3>3
  <2>4. /\ vm'.instance = vm.instanceStack[Len(frames) - 1]
        /\ \A i \in 1 .. Len(frames) - 2 : vm'.instanceStack[i] = vm.instanceStack[i]
    <3>1. /\ Last(vm.instanceStack) = vm.instanceStack[Len(vm.instanceStack)]
          /\ \A i \in 1 .. Len(vm.instanceStack) - 1 : Front(vm.instanceStack)[i] = vm.instanceStack[i]
      BY <1>1, <2>3, StackPop
    <3>2. Len(vm.instanceStack) - 1 = Len(frames) - 2
      BY <1>1, <2>2
    <3> QED BY <2>1, <2>2, <3>1, <3>2
  <2>5. ASSUME NEW n \in 1 .. Len(frames')
        PROVE  n \in 1 .. Len(frames) /\ n \in 1 .. Len(frames) - 1 /\ InstanceAt(n)' = InstanceAt(n)
    <3>1. n \in 1 .. Len(frames) /\ n # Len(frames) /\ n \in 1 .. Len(frames) - 1
          /\ (n # Len(frames) - 1 => n \in 1 .. Len(frames) - 2)
      BY <1>1, <2>1, <2>5
    <3> QED BY <2>1, <2>4, <3>1 DEF InstanceAt
  <2> QED BY <2>1, <2>5, RunsKept DEF RunsInv
<1>6. ASSUME NEW c \in Addresses, NEW kind \in {"call", "upgrade", "create"}, NEW k \in Codes,
             BeginStep(c, kind, k)
      PROVE  RunsInv'
  <2>1. frames' = <<NewFrame(c, kind, k)>> /\ vm'.setting = vm.setting
        /\ NewRuns(c, kind, k)
    BY <1>6 DEF BeginStep, CompiledStep
  <2>2. Len(frames') = 1 /\ frames'[1].contract = c /\ frames'[1].runs = k
    BY <2>1 DEF NewFrame
  <2>3. InstanceAt(1)' = vm'.instance
    BY <2>2 DEF InstanceAt
  <2>4. \A n \in 1 .. Len(frames') : n = 1
    BY <2>2
  <2> QED BY <2>1, <2>2, <2>3, <2>4 DEF RunsInv, NewRuns
<1>7. ASSUME NEW c \in Addresses, NEW kind \in {"call", "upgrade", "create"}, NEW k \in Codes,
             NestedStep(c, kind, k)
      PROVE  RunsInv'
  <2>1. /\ mode # "idle" /\ vm'.setting = vm.setting /\ KeepsInstances(vm, vm')
        /\ Len(frames') = Len(frames) + 1
        /\ vm'.instanceStack = Append(vm.instanceStack, vm.instance)
        /\ \A n \in 1 .. Len(frames) : SameFrame(frames'[n], frames[n])
        /\ NewRuns(c, kind, k) /\ frames'[Len(frames) + 1] = NewFrame(c, kind, k)
    BY <1>7 DEF NestedStep, CompiledStep
  <2>2. Len(vm.instanceStack) = Len(frames) - 1
    BY <2>1 DEF RuntimeInv
  <2>3. /\ \A i \in 1 .. Len(frames) - 1 : vm'.instanceStack[i] = vm.instanceStack[i]
        /\ vm'.instanceStack[Len(frames)] = vm.instance
    <3>1. /\ \A i \in 1 .. Len(vm.instanceStack) : vm'.instanceStack[i] = vm.instanceStack[i]
          /\ vm'.instanceStack[Len(vm.instanceStack) + 1] = vm.instance
      BY <1>1, <2>1, StackPush
    <3>2. Len(vm.instanceStack) + 1 = Len(frames)
      BY <1>1, <2>2
    <3>3. \A i \in 1 .. Len(frames) - 1 : vm'.instanceStack[i] = vm.instanceStack[i]
      BY <2>2, <3>1
    <3>4. vm'.instanceStack[Len(frames)] = vm.instance
      BY <3>1, <3>2
    <3> QED BY <3>3, <3>4
  <2>4. ASSUME NEW n \in 1 .. Len(frames) PROVE InstanceAt(n)' = InstanceAt(n)
    <3>1. n # Len(frames') /\ (n # Len(frames) => n \in 1 .. Len(frames) - 1)
      BY <1>1, <2>1
    <3> QED BY <2>3, <3>1 DEF InstanceAt
  <2>5. ASSUME NEW n, n = Len(frames) + 1 PROVE InstanceAt(n)' = vm'.instance
    BY <2>1, <2>5 DEF InstanceAt
  <2>6. frames'[Len(frames) + 1].contract = c /\ frames'[Len(frames) + 1].runs = k
    BY <2>1 DEF NewFrame
  <2>7. \A n \in 1 .. Len(frames') : n \in 1 .. Len(frames) \/ n = Len(frames) + 1
    <3>1. Len(frames') = Len(frames) + 1
      BY <2>1
    <3> QED BY <1>1, <3>1
  <2> SUFFICES ASSUME ~vm'.setting.useWarmInstance, NEW n \in 1 .. Len(frames')
               PROVE  /\ vm'.instances[InstanceAt(n)'].contract = frames'[n].contract
                      /\ vm'.instances[InstanceAt(n)'].code = frames'[n].runs
    BY DEF RunsInv
  <2>8. CASE n \in 1 .. Len(frames)
    BY <2>1, <2>4, <2>8, RunsKept
  <2>9. CASE n = Len(frames) + 1
    <3>1. InstanceAt(n)' = vm'.instance /\ frames'[n].contract = c /\ frames'[n].runs = k
      BY <2>5, <2>6, <2>9
    <3>2. vm'.instances[vm'.instance].contract = c /\ vm'.instances[vm'.instance].code = k
      BY <2>1 DEF NewRuns
    <3> QED BY <3>1, <3>2
  <2> QED BY <2>7, <2>8, <2>9
<1> QED BY <1>2, <1>3, <1>4, <1>5, <1>6, <1>7 DEF StepKind

FramesFine(S, s) ==
  \A n \in 1 .. Len(s) :
    /\ \A c \in Addresses : Fine(S, s[n].saved[c])
    /\ s[n].kind # "call" => Fine(S, s[n].runs)

(* Every kind of step deploys verified code only.                          *)
LEMMA VerifiedStep ==
  ASSUME RuntimeInv, RestTyped, VerifiedInv, StepKind
  PROVE  VerifiedInv'
<1>1. frames \in Seq(Frame) /\ Len(frames) \in Nat
  BY LenProperties DEF RuntimeInv
<1>2. CompiledStep \/ UNCHANGED vm
  BY DEF StepKind, IdleStep, FinishStep, RefusedStep, PopStep, PanicStep, BeginStep, NestedStep
<1>3. vm'.setting = vm.setting
  BY <1>2 DEF CompiledStep
<1>4. CASE vm.setting.useWarmInstance
  BY <1>3, <1>4 DEF VerifiedInv
<1>5. CASE ~vm.setting.useWarmInstance
  <2>1. created \subseteq created'
    BY DEF StepKind, IdleStep, FinishStep, RefusedStep, PopStep, PanicStep, BeginStep, NestedStep
  <2>2. \A k : Fine(created, k) => Fine(created', k)
    BY <2>1 DEF Fine
  <2>3. /\ \A c \in Addresses : Fine(created, committed[c]) /\ Fine(created, code[c])
        /\ FramesFine(created, frames)
    BY <1>5 DEF VerifiedInv, FramesFine
  <2>4. ASSUME NEW n \in 1 .. Len(frames), NEW c \in Addresses
        PROVE  Fine(created, Deployed(frames[n])[c])
    <3>1. frames[n].contract \in Addresses /\ frames[n].runs \in Codes
      BY <1>1, FrameOf
    <3>2. \/ Deployed(frames[n])[c] = code[c]
          \/ frames[n].kind # "call" /\ c = frames[n].contract /\ Deployed(frames[n])[c] = frames[n].runs
      BY <3>1, DeployedTyped
    <3> QED BY <2>3, <3>2 DEF FramesFine
  <2>5. ASSUME NEW n \in 1 .. Len(frames), SameFrame(frames'[n], frames[n])
        PROVE  /\ \A c \in Addresses : Fine(created', frames'[n].saved[c])
               /\ frames'[n].kind # "call" => Fine(created', frames'[n].runs)
    BY <2>2, <2>3, <2>5 DEF SameFrame, FramesFine
  <2>6. SUFFICES /\ \A c \in Addresses : Fine(created', committed'[c]) /\ Fine(created', code'[c])
                 /\ FramesFine(created', frames')
    BY DEF VerifiedInv, FramesFine
  <2>7. CASE UNCHANGED <<committed, code, created, frames>>
    BY <2>3, <2>7
  <2>8. CASE FinishStep
    <3>1. 1 \in 1 .. Len(frames) /\ (committed' = committed \/ committed' = Deployed(frames[1]))
          /\ code' = committed' /\ frames' = <<>>
      BY <2>8 DEF FinishStep
    <3>2. \A c \in Addresses : Fine(created', committed'[c])
      BY <2>2, <2>3, <2>4, <3>1
    <3>3. FramesFine(created', frames')
      BY <3>1 DEF FramesFine
    <3> QED BY <3>1, <3>2, <3>3
  <2>9. CASE RefusedStep
    <3>1. FramesFine(created', frames')
      BY <2>5, <2>9 DEF RefusedStep, FramesFine
    <3> QED BY <2>2, <2>3, <2>9, <3>1 DEF RefusedStep
  <2>10. CASE PopStep
    <3> DEFINE f == frames[Len(frames)]
    <3>1. Len(frames) \in 1 .. Len(frames) /\ Len(frames') = Len(frames) - 1
      BY <1>1, <2>10 DEF PopStep
    <3>2. \A n \in 1 .. Len(frames') : n \in 1 .. Len(frames) /\ SameFrame(frames'[n], frames[n])
      <4>1. \A n \in 1 .. Len(frames) - 1 : n \in 1 .. Len(frames)
        BY <1>1
      <4> QED BY <2>10, <3>1, <4>1 DEF PopStep
    <3>3. FramesFine(created', frames')
      BY <2>5, <3>2 DEF FramesFine
    <3>4. committed' = committed /\ (code' = code \/ code' = f.saved \/ code' = Deployed(f))
      BY <2>10 DEF PopStep
    <3>5. \A c \in Addresses : Fine(created', code'[c])
      <4> TAKE c \in Addresses
      <4>1. Fine(created, f.saved[c])
        BY <2>3, <3>1 DEF FramesFine
      <4>2. Fine(created, Deployed(f)[c])
        BY <2>4, <3>1
      <4> QED BY <2>2, <2>3, <3>4, <4>1, <4>2
    <3> QED BY <2>2, <2>3, <3>3, <3>4, <3>5
  <2>11. ASSUME NEW c \in Addresses, NEW kind \in {"call", "upgrade", "create"}, NEW k \in Codes,
                BeginStep(c, kind, k)
         PROVE  /\ \A d \in Addresses : Fine(created', committed'[d]) /\ Fine(created', code'[d])
                /\ FramesFine(created', frames')
    <3>1. frames' = <<NewFrame(c, kind, k)>> /\ UNCHANGED <<committed, code, created>>
          /\ NewRuns(c, kind, k) /\ mode = "idle"
      BY <2>11 DEF BeginStep
    <3>2. /\ Len(frames') = 1 /\ frames'[1].saved = code /\ frames'[1].kind = kind
          /\ frames'[1].runs = k
      BY <3>1 DEF NewFrame
    <3>3. kind # "call" => Fine(created', k)
      BY <1>5, <3>1 DEF NewRuns, Fine
    <3>4. FramesFine(created', frames')
      BY <2>3, <3>1, <3>2, <3>3 DEF FramesFine
    <3> QED BY <2>3, <3>1, <3>4
  <2>12. ASSUME NEW c \in Addresses, NEW kind \in {"call", "upgrade", "create"}, NEW k \in Codes,
                NestedStep(c, kind, k)
         PROVE  /\ \A d \in Addresses : Fine(created', committed'[d]) /\ Fine(created', code'[d])
                /\ FramesFine(created', frames')
    <3>1. /\ committed' = committed /\ Len(frames') = Len(frames) + 1 /\ NewRuns(c, kind, k)
          /\ code' = code \/ (kind = "create" /\ code' = [code EXCEPT ![c] = k])
          /\ kind = "create" => k \in created'
          /\ \A n \in 1 .. Len(frames) : SameFrame(frames'[n], frames[n])
      BY <2>12 DEF NestedStep
    <3>2. /\ frames'[Len(frames) + 1].saved = code /\ frames'[Len(frames) + 1].kind = kind
          /\ frames'[Len(frames) + 1].runs = k
      BY <2>12 DEF NestedStep, NewFrame
    <3>3. kind # "call" => Fine(created', k)
      BY <1>5, <3>1 DEF NewRuns, Fine
    <3>4. \A n \in 1 .. Len(frames') : n \in 1 .. Len(frames) \/ n = Len(frames) + 1
      <4>1. Len(frames') = Len(frames) + 1
        BY <3>1
      <4> QED BY <1>1, <4>1
    <3>5. FramesFine(created', frames')
      <4> SUFFICES ASSUME NEW n \in 1 .. Len(frames')
                   PROVE  /\ \A d \in Addresses : Fine(created', frames'[n].saved[d])
                          /\ frames'[n].kind # "call" => Fine(created', frames'[n].runs)
        BY DEF FramesFine
      <4>1. CASE n \in 1 .. Len(frames)
        BY <2>5, <3>1, <4>1
      <4>2. CASE n = Len(frames) + 1
        BY <2>2, <2>3, <3>2, <3>3, <4>2
      <4> QED BY <3>4, <4>1, <4>2
    <3>6. \A d \in Addresses : Fine(created', code'[d])
      <4> TAKE d \in Addresses
      <4>1. code'[d] = code[d] \/ (kind = "create" /\ code'[d] = k)
        BY <3>1 DEF RestTyped
      <4> QED BY <2>2, <2>3, <3>3, <4>1
    <3> QED BY <2>2, <2>3, <3>1, <3>5, <3>6
  <2> QED BY <2>7, <2>8, <2>9, <2>10, <2>11, <2>12 DEF StepKind, IdleStep, PanicStep
<1> QED BY <1>4, <1>5

-----------------------------------------------------------------------------
(* The theorems.                                                           *)

(* The invariants hold initially.                                          *)
LEMMA InitInv ==
  ASSUME Init
  PROVE  RuntimeInv /\ RestTyped /\ DeployedInv /\ CompiledInv /\ RunsInv
<1>1. PICK s \in Settings :
        vm = [setting |-> s, instance |-> Nil, instanceStack |-> <<>>, warmInstance |-> Nil,
              warmInstanceAddress |-> NoAddress, verifyCode |-> FALSE,
              instances |-> <<>>, compiled |-> [k \in Codes |-> NoCode]]
  BY DEF Init
<1>2. /\ vm.instance = 0 /\ vm.instanceStack = <<>> /\ vm.warmInstance = 0
      /\ vm.warmInstanceAddress = NoAddress /\ vm.instances = <<>>
      /\ vm.compiled = [k \in Codes |-> NoCode]
  BY <1>1 DEF Nil
<1>3. vm \in VMType
  BY <1>1 DEF VMType, Nil
<1>4. Len(<<>>) = 0
  OBVIOUS
<1>5. VMInv(vm)
  BY <1>2, <1>3, <1>4 DEF VMInv, StackInv, CurrentInv, WarmInv, ReleaseInv, Nil
<1>6. Len(frames) <= maxWasmerInstances
  BY <1>4, InitialCodeRuns DEF Init
<1>7. RuntimeInv
  BY <1>2, <1>5, <1>6 DEF RuntimeInv, Init, Nil
<1>8. RestTyped
  <2>1. txs \in 0 .. MaxTxs /\ steps \in 0 .. MaxSteps
    BY InitialCodeRuns DEF Init
  <2>2. committed \in [Addresses -> Codes \cup {NoCode}]
    BY InitialCodeRuns DEF Init
  <2> QED BY <2>1, <2>2 DEF RestTyped, Init
<1>9. DeployedInv /\ RunsInv
  BY <1>4 DEF Init, DeployedInv, RunsInv
<1>10. CompiledInv
  BY <1>2 DEF CompiledInv
<1> QED BY <1>7, <1>8, <1>9, <1>10

CodeInv == RuntimeInv /\ RestTyped /\ DeployedInv

(* Every step keeps the inductive invariant.                               *)
LEMMA CodeStep ==
  ASSUME WarmOrCompiled, CodeInv, [Next]_vars
  PROVE  CodeInv'
<1>1. CASE Next
  BY <1>1, NextIsStepKind, RuntimeStep, RestStep, DeployedStep DEF CodeInv
<1>2. CASE UNCHANGED vars
  BY <1>2 DEF vars, CodeInv, RuntimeInv, RestTyped, DeployedInv
<1> QED BY <1>1, <1>2

(* What the invariant says of the properties that the runs check.          *)
LEMMA InvImpliesTypeOK ==
  ASSUME CodeInv
  PROVE  TypeOK
<1>1. /\ vm \in VMType /\ frames \in Seq(Frame) /\ VMInv(vm)
      /\ vm.instanceStack \in Seq(Nat) /\ vm.instances \in Seq(InstanceOf)
  BY DEF CodeInv, RuntimeInv, VMInv, VMType
<1>2. /\ Len(vm.instances) \in Nat /\ Len(vm.instanceStack) \in Nat /\ Len(frames) \in Nat
      /\ DOMAIN vm.instanceStack = 1 .. Len(vm.instanceStack)
      /\ DOMAIN frames = 1 .. Len(frames)
  BY <1>1, LenProperties
<1>3. InUse \cup {vm.warmInstance} \subseteq 0 .. Len(vm.instances)
  <2>1. \A n \in 1 .. Len(vm.instanceStack) : vm.instanceStack[n] \in 1 .. Len(vm.instances)
    BY <1>1 DEF VMInv, StackInv, Alive, Exists
  <2>2. vm.instance = 0 \/ vm.instance \in 1 .. Len(vm.instances)
    BY <1>1 DEF VMInv, CurrentInv, Alive, Exists, Nil
  <2>3. vm.warmInstance = 0 \/ vm.warmInstance \in 1 .. Len(vm.instances)
    BY <1>1 DEF VMInv, WarmInv, Alive, Exists, Nil
  <2>4. \A i \in 1 .. Len(vm.instances) : i \in 0 .. Len(vm.instances)
    BY <1>2
  <2>5. 0 \in 0 .. Len(vm.instances)
    BY <1>2
  <2> QED BY <1>2, <2>1, <2>2, <2>3, <2>4, <2>5 DEF InUse, ToSet
<1>4. DOMAIN vm = {"setting", "instance", "instanceStack", "warmInstance", "warmInstanceAddress",
                   "verifyCode", "instances", "compiled"}
  BY <1>1 DEF VMType
<1>5. /\ vm.setting \in Settings /\ vm.warmInstanceAddress \in Addresses \cup {NoAddress}
      /\ vm.verifyCode \in BOOLEAN /\ vm.compiled \in [Codes -> Codes \cup {NoCode}]
  BY <1>1 DEF VMType
<1>6. \A n \in DOMAIN frames : frames[n] \in Frame
  BY <1>1, <1>2, FrameOf
<1>7. Len(frames) <= maxWasmerInstances /\ mode \in {"idle", "run", "panic"} /\ RestTyped
  BY DEF CodeInv, RuntimeInv
<1> QED BY <1>1, <1>3, <1>4, <1>5, <1>6, <1>7 DEF TypeOK, RestTyped

(* The inductive invariant implies that instances in use are alive.        *)
LEMMA InvImpliesAlive ==
  ASSUME CodeInv
  PROVE  InstancesInUseAreAlive
<1>1. /\ VMInv(vm) /\ vm.instanceStack \in Seq(Nat) /\ vm.instances \in Seq(InstanceOf)
  BY DEF CodeInv, RuntimeInv, VMInv, VMType
<1>2. /\ DOMAIN vm.instanceStack = 1 .. Len(vm.instanceStack)
      /\ DOMAIN vm.instances = 1 .. Len(vm.instances)
  BY <1>1, LenProperties
<1>3. \A n \in DOMAIN vm.instances : vm.instances[n].cleans <= 1
  BY <1>1, <1>2 DEF VMInv, ReleaseInv
<1>4. \A n \in 1 .. Len(vm.instanceStack) : vm.instances[vm.instanceStack[n]].cleans = 0
  BY <1>1 DEF VMInv, StackInv, Alive
<1>5. vm.instance # Nil => vm.instances[vm.instance].cleans = 0
  BY <1>1 DEF VMInv, CurrentInv, Alive
<1> QED BY <1>2, <1>3, <1>4, <1>5 DEF InstancesInUseAreAlive, InUse, ToSet

(* The inductive invariant implies that no instance leaks and none is      *)
(* destroyed twice.                                                        *)
LEMMA InvImpliesReleased ==
  ASSUME CodeInv
  PROVE  InstancesAreReleased
<1>1. TypeOK
  BY InvImpliesTypeOK
<1>2. ASSUME mode = "idle"
      PROVE  /\ vm.instanceStack = <<>>
             /\ \A n \in DOMAIN vm.instances : vm.instances[n].cleans = 0 => vm.instances[n].warm
  <2>1. /\ VMInv(vm) /\ vm.instanceStack = <<>>
        /\ vm.instance = Nil \/ vm.instance = vm.warmInstance
        /\ vm.instances \in Seq(InstanceOf)
    BY <1>2 DEF CodeInv, RuntimeInv, VMInv, VMType
  <2>2. DOMAIN vm.instances = 1 .. Len(vm.instances) /\ Len(vm.instanceStack) = 0
    BY <2>1, LenProperties
  <2>3. ASSUME NEW n \in DOMAIN vm.instances, vm.instances[n].cleans = 0, ~vm.instances[n].warm
        PROVE  FALSE
    <3>1. n = vm.instance \/ \E m \in 1 .. Len(vm.instanceStack) : vm.instanceStack[m] = n
      BY <2>1, <2>2, <2>3 DEF VMInv, ReleaseInv
    <3>2. n = vm.instance /\ n # Nil
      BY <2>2, <2>3, <3>1 DEF Nil
    <3>3. vm.warmInstance # Nil /\ n = vm.warmInstance
      BY <2>1, <3>2
    <3> QED BY <2>1, <2>3, <3>3 DEF VMInv, WarmInv
  <2> QED BY <2>1, <2>3
<1> QED BY <1>1, <1>2 DEF InstancesAreReleased

(* No instance is destroyed twice and none in use is destroyed, whatever   *)
(* calls fail, are refused or panic, unless warm instances and code        *)
(* compiled ahead of time are both configured (popInstance,                *)
(* CleanWasmerInstance and StartWasmerInstance of runtime.go).             *)
THEOREM NoDestroyedInstanceRuns ==
  ASSUME WarmOrCompiled
  PROVE  Spec => []InstancesInUseAreAlive
<1>1. Init => CodeInv
  BY InitInv DEF CodeInv
<1>2. CodeInv /\ [Next]_vars => CodeInv'
  BY CodeStep
<1>3. CodeInv => InstancesInUseAreAlive
  BY InvImpliesAlive
<1> QED BY <1>1, <1>2, <1>3, PTL DEF Spec

(* The contexts keep their types, no more executions than the limit are in *)
(* progress, and between transactions nothing is left on the stack and no  *)
(* instance that was never warm is left alive, under the same settings.    *)
THEOREM NoInstanceLeaks ==
  ASSUME WarmOrCompiled
  PROVE  Spec => []InstancesAreReleased
<1>1. Init => CodeInv
  BY InitInv DEF CodeInv
<1>2. CodeInv /\ [Next]_vars => CodeInv'
  BY CodeStep
<1>3. CodeInv => InstancesAreReleased
  BY InvImpliesReleased
<1> QED BY <1>1, <1>2, <1>3, PTL DEF Spec

(* Executions run the code they were given on an instance of their own     *)
(* contract, when no contract is called in the transaction that upgrades   *)
(* it (makeInstanceFromCompiledCode looks the code up by the hash that the *)
(* node has).                                                              *)
THEOREM CallsRunTheRightCode ==
  ASSUME WarmOrCompiled, ~CallAfterUpgrade
  PROVE  Spec => []ExecutionsRunTheirCode
<1> DEFINE Inv == CodeInv /\ CompiledInv /\ RunsInv
<1>1. Init => Inv
  BY InitInv DEF CodeInv
<1>2. Inv /\ [Next]_vars => Inv'
  <2> SUFFICES ASSUME Inv, [Next]_vars PROVE Inv'
    OBVIOUS
  <2>1. CodeInv'
    BY CodeStep
  <2>2. CASE Next
    BY <2>1, <2>2, NextIsStepKind, CompiledCodeStep, RunsStep DEF CodeInv
  <2>3. CASE UNCHANGED vars
    BY <2>1, <2>3 DEF vars, CompiledInv, RunsInv, InstanceAt
  <2> QED BY <2>2, <2>3
<1>3. Inv => ExecutionsRunTheirCode
  <2> SUFFICES ASSUME Inv, mode = "run", ~vm.setting.useWarmInstance, NEW n \in DOMAIN frames
               PROVE  LET i == IF n = Len(frames) THEN vm.instance ELSE vm.instanceStack[n]
                      IN  /\ vm.instances[i].contract = frames[n].contract
                          /\ vm.instances[i].code = frames[n].runs
    BY DEF ExecutionsRunTheirCode
  <2>1. n \in 1 .. Len(frames)
    BY LenProperties DEF CodeInv, RuntimeInv
  <2> QED BY <2>1 DEF RunsInv, InstanceAt
<1> HIDE DEF Inv
<1> QED BY <1>1, <1>2, <1>3, PTL DEF Spec

(* The contracts that are there before the first transaction were          *)
(* verified when they were deployed.                                       *)
InitialCodeIsVerified == \A c \in Contracts : Verified(InitialCode[c])

(* Every code that the node gets from a deployment or an upgrade passed    *)
(* VerifyContractCode, the codes that contracts create aside (newCode is   *)
(* FALSE for their constructors), when no instance is kept warm.           *)
THEOREM OnlyVerifiedCodeIsDeployed ==
  ASSUME WarmOrCompiled, InitialCodeIsVerified
  PROVE  Spec => []DeployedCodeIsVerified
<1> DEFINE Inv == CodeInv /\ VerifiedInv
<1>1. Init => Inv
  <2> SUFFICES ASSUME Init PROVE Inv
    OBVIOUS
  <2>1. CodeInv
    BY InitInv DEF CodeInv
  <2>2. \A c \in Addresses : Fine(created, committed[c]) /\ code[c] = committed[c]
    BY DEF Init, Fine, InitialCodeIsVerified
  <2>3. Len(frames) = 0
    BY DEF Init
  <2> QED BY <2>1, <2>2, <2>3 DEF VerifiedInv
<1>2. Inv /\ [Next]_vars => Inv'
  <2> SUFFICES ASSUME Inv, [Next]_vars PROVE Inv'
    OBVIOUS
  <2>1. CodeInv'
    BY CodeStep
  <2>2. CASE Next
    BY <2>1, <2>2, NextIsStepKind, VerifiedStep DEF CodeInv
  <2>3. CASE UNCHANGED vars
    BY <2>1, <2>3 DEF vars, VerifiedInv
  <2> QED BY <2>2, <2>3
<1>3. Inv => DeployedCodeIsVerified
  <2> SUFFICES ASSUME Inv, NEW c \in Addresses, committed[c] \notin created \cup {NoCode},
                      ~vm.setting.useWarmInstance
               PROVE  /\ Shape[committed[c]].memory
                      /\ \A f \in Shape[committed[c]].exports :
                           /\ f.in = 0 /\ f.out = 0
                           /\ f.name \notin Reserved \cup {"upgradeContract"}
    BY DEF DeployedCodeIsVerified
  <2>1. Verified(committed[c])
    BY DEF VerifiedInv, Fine
  <2> QED BY <2>1 DEF Verified, verifyFunctions, verifyValidFunctionName, verifyVoidFunction,
                      IsReserved, UpgradeFunctionName
<1> HIDE DEF Inv
<1> QED BY <1>1, <1>2, <1>3, PTL DEF Spec
=============================================================================
