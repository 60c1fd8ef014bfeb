-------------------------- MODULE AsyncCallsProofs --------------------------
(***************************************************************************)
(* Proofs about AsyncCalls, for any contracts and shards, any number of    *)
(* asynchronous calls and any depth of nested calls.                       *)
(***************************************************************************)
EXTENDS AsyncCalls, TLAPS, SequenceTheorems, FiniteSetTheorems

-----------------------------------------------------------------------------
(* Types.                                                                  *)

MessageOf == [type : {"call", "callback"}, id : Nat, from : Contracts, to : Contracts, ok : BOOLEAN]
TransferOf == [value : Nat, data : BOOLEAN]
StateOf == [net : SUBSET MessageOf, out : [Contracts -> Seq(TransferOf)], data : BOOLEAN,
            issued : SUBSET Nat, made : SUBSET [id : Nat, within : Nat],
            effects : SUBSET Nat, answers : SUBSET [id : Nat, ok : BOOLEAN]]
FrameOf == [kind : {"root", "nested", "dest", "callback"}, type : {"direct", "async", "callback"},
            self : Contracts, caller : Contracts, id : Nat, within : Nat, value : Nat,
            saved : StateOf]

-----------------------------------------------------------------------------
(* A frame that executes an asynchronous call awaits its outcome; the      *)
(* other calls are in a message or answered.                               *)
Awaits(f) == f.kind = "dest" \/ (f.kind = "root" /\ f.type = "async")
Pending(fs, n) == {fs[i].id : i \in {j \in 1 .. n : Awaits(fs[j])}}

HasMessage(s, id) == \E m \in s.net : m.id = id
HasAnswer(s, id) == \E a \in s.answers : a.id = id
MadeWithin(s, id) == \E c \in s.made : c.within = id

(* Of the calls made in state s, those of P are being executed.            *)
AccountInv(s, P, top) ==
  /\ s.issued \subseteq 1 .. top /\ P \subseteq s.issued /\ s.effects \subseteq s.issued
  /\ \A m \in s.net : m.id \in s.issued \ P /\ ~HasAnswer(s, m.id) /\ ShardOf[m.from] # ShardOf[m.to]
  /\ \A m, k \in s.net : m.id = k.id => m = k
  /\ \A a \in s.answers : a.id \in s.issued \ P
  /\ \A a, b \in s.answers : a.id = b.id => a = b
  /\ \A id \in s.issued \ P : HasMessage(s, id) \/ HasAnswer(s, id)

(* The outcomes that answers and messages report; a call that is not       *)
(* executed yet, or has failed, has made no calls.                         *)
OutcomeInv(s, P, top) ==
  /\ \A id \in P : id \notin s.effects
  /\ \A a \in s.answers : (a.ok <=> a.id \in s.effects) /\ (~a.ok => ~MadeWithin(s, a.id))
  /\ \A m \in s.net : m.type = "callback" =>
       (m.ok <=> m.id \in s.effects) /\ (~m.ok => ~MadeWithin(s, m.id))
  /\ \A m \in s.net : m.type = "call" => m.id \notin s.effects /\ ~MadeWithin(s, m.id)
  /\ \A c \in s.made : c.within \in 0 .. top

StateInv(s, P, top) == s \in StateOf /\ AccountInv(s, P, top) /\ OutcomeInv(s, P, top)

(* What a failure of frame n goes back to.                                 *)
FrameInv(fs, n, top) ==
  /\ fs[n].kind = "root" <=> n = 1
  /\ StateInv(fs[n].saved, Pending(fs, n), top)
  /\ Awaits(fs[n]) => fs[n].id \notin Pending(fs, n - 1) /\ ~MadeWithin(fs[n].saved, fs[n].id)
  /\ fs[n].within \in {0} \cup Pending(fs, n)
  /\ fs[n].kind = "root" /\ fs[n].type = "async" => ShardOf[fs[n].self] # ShardOf[fs[n].caller]

FramesInv(fs, top) == fs \in Seq(FrameOf) /\ \A n \in 1 .. Len(fs) : FrameInv(fs, n, top)

CallsInv ==
  /\ ids \in Nat
  /\ FramesInv(frames, ids)
  /\ StateInv(st, Pending(frames, Len(frames)), ids)
  /\ phase \in {"idle", "running", "ended", "failed"}
  /\ phase = "idle" <=> frames = <<>>
  /\ Len(frames) <= MaxDepth

-----------------------------------------------------------------------------
(* The stack of frames.                                                    *)

(* The stack without its top frame.                                        *)
LEMMA FrontOf ==
  ASSUME NEW S, NEW s \in Seq(S), s # <<>>
  PROVE  /\ Front(s) \in Seq(S) /\ Len(s) \in Nat \ {0} /\ Last(s) = s[Len(s)] /\ Last(s) \in S
         /\ Len(Front(s)) = Len(s) - 1
         /\ \A i \in 1 .. Len(s) - 1 : Front(s)[i] = s[i]
<1>1. PICK n \in Nat : n = Len(s) /\ n # 0
  BY EmptySeq
<1>2. \A i \in 1 .. n : s[i] \in S
  BY <1>1, ElementOfSeq
<1>3. /\ SubSeq(s, 1, n - 1) \in Seq(S)
      /\ Len(SubSeq(s, 1, n - 1)) = n - 1
      /\ \A i \in 1 .. n - 1 : SubSeq(s, 1, n - 1)[i] = s[i]
  <2>1. \A i \in 1 .. n - 1 : s[i] \in S
    BY <1>1, <1>2
  <2>2. /\ SubSeq(s, 1, n - 1) \in Seq(S)
        /\ Len(SubSeq(s, 1, n - 1)) = IF 1 <= n - 1 THEN (n - 1) - 1 + 1 ELSE 0
        /\ \A i \in 1 .. (n - 1) - 1 + 1 : SubSeq(s, 1, n - 1)[i] = s[1 + i - 1]
    BY <2>1, SubSeqProperties, 1 \in Int, n - 1 \in Int
  <2> QED BY <1>1, <2>2
<1>4. Last(s) \in S /\ Last(s) = s[n]
  BY <1>1, <1>2 DEF Last
<1> QED BY <1>1, <1>3, <1>4 DEF Front

(* The pending calls depend on the frames up to n only.                    *)
LEMMA PendingPrefix ==
  ASSUME NEW fs, NEW gs, NEW n \in Nat, \A i \in 1 .. n : fs[i] = gs[i]
  PROVE  Pending(fs, n) = Pending(gs, n)
  BY DEF Pending

(* One frame more adds the call it answers to the pending ones.            *)
LEMMA PendingNext ==
  ASSUME NEW fs, NEW n \in Nat \ {0}
  PROVE  /\ Awaits(fs[n]) => Pending(fs, n) = Pending(fs, n - 1) \cup {fs[n].id}
         /\ ~Awaits(fs[n]) => Pending(fs, n) = Pending(fs, n - 1)
<1>1. 1 .. n = (1 .. n - 1) \cup {n}
  OBVIOUS
<1> QED BY <1>1 DEF Pending

(* With no frame no call is pending.                                       *)
LEMMA PendingNone == ASSUME NEW fs PROVE Pending(fs, 0) = {}
  BY DEF Pending

(* Taking off the top frame keeps the invariant of the frames below.       *)
LEMMA FramesPop ==
  ASSUME NEW fs, NEW top, FramesInv(fs, top), fs # <<>>
  PROVE  /\ FramesInv(Front(fs), top) /\ Len(fs) \in Nat \ {0}
         /\ Len(Front(fs)) = Len(fs) - 1
         /\ Pending(Front(fs), Len(fs) - 1) = Pending(fs, Len(fs) - 1)
         /\ FrameInv(fs, Len(fs), top) /\ Last(fs) = fs[Len(fs)] /\ Last(fs) \in FrameOf
         /\ \A i \in 1 .. Len(fs) - 1 : Front(fs)[i] = fs[i] /\ fs[i] \in FrameOf
<1>1. fs \in Seq(FrameOf)
  BY DEF FramesInv
<1>2. /\ Front(fs) \in Seq(FrameOf) /\ Len(fs) \in Nat \ {0} /\ Last(fs) = fs[Len(fs)]
      /\ Last(fs) \in FrameOf
      /\ Len(Front(fs)) = Len(fs) - 1 /\ \A i \in 1 .. Len(fs) - 1 : Front(fs)[i] = fs[i]
  BY <1>1, FrontOf
<1>3. PICK n \in Nat \ {0} : n = Len(fs)
  BY <1>2
<1>4. \A i \in 1 .. n - 1 : fs[i] \in FrameOf
  BY <1>1, <1>3, ElementOfSeq
<1>5. \A m \in 0 .. n - 1 : Pending(Front(fs), m) = Pending(fs, m)
  <2> TAKE m \in 0 .. n - 1
  <2>1. m \in Nat /\ \A i \in 1 .. m : i \in 1 .. n - 1
    BY <1>3
  <2>2. \A i \in 1 .. m : Front(fs)[i] = fs[i]
    BY <1>2, <1>3, <2>1
  <2> QED BY <2>1, <2>2, PendingPrefix
<1>6. ASSUME NEW m \in 1 .. n - 1 PROVE FrameInv(Front(fs), m, top)
  <2>1. /\ m \in 1 .. Len(fs) /\ m \in 0 .. n - 1 /\ m - 1 \in 0 .. n - 1
    BY <1>3
  <2>2. FrameInv(fs, m, top) /\ Front(fs)[m] = fs[m]
    BY <1>2, <1>3, <2>1 DEF FramesInv
  <2>3. Pending(Front(fs), m) = Pending(fs, m) /\ Pending(Front(fs), m - 1) = Pending(fs, m - 1)
    BY <1>5, <2>1
  <2> QED BY <2>2, <2>3 DEF FrameInv
<1>7. FramesInv(Front(fs), top)
  BY <1>2, <1>3, <1>6 DEF FramesInv
<1>8. n - 1 \in 0 .. n - 1 /\ n \in 1 .. Len(fs)
  BY <1>3
<1>9. FrameInv(fs, Len(fs), top)
  BY <1>3, <1>8 DEF FramesInv
<1> QED BY <1>2, <1>3, <1>4, <1>5, <1>7, <1>8, <1>9

With(P, f) == IF Awaits(f) THEN P \cup {f.id} ELSE P

(* What a new frame must satisfy: P are the calls that the frames below it *)
(* execute, n is their number.                                             *)
NewFrameInv(f, P, top, n) ==
  /\ f \in FrameOf
  /\ f.kind = "root" <=> n = 0
  /\ StateInv(f.saved, With(P, f), top)
  /\ Awaits(f) => f.id \notin P /\ ~MadeWithin(f.saved, f.id)
  /\ f.within \in {0} \cup P \/ (Awaits(f) /\ f.within = f.id)
  /\ f.kind = "root" /\ f.type = "async" => ShardOf[f.self] # ShardOf[f.caller]

(* A new frame that answers a call not yet pending keeps the invariant.    *)
LEMMA FramesPush ==
  ASSUME NEW fs, NEW top, FramesInv(fs, top),
         NEW f, NewFrameInv(f, Pending(fs, Len(fs)), top, Len(fs)), NEW gs, gs = Append(fs, f)
  PROVE  /\ FramesInv(gs, top) /\ gs # <<>>
         /\ Len(fs) \in Nat /\ Len(gs) = Len(fs) + 1
         /\ Pending(gs, Len(gs)) = With(Pending(fs, Len(fs)), f)
<1>p. PICK P : P = Pending(fs, Len(fs)) /\ NewFrameInv(f, P, top, Len(fs))
  OBVIOUS
<1>1. fs \in Seq(FrameOf) /\ f \in FrameOf
  BY DEF FramesInv, NewFrameInv
<1>2. PICK n \in Nat : n = Len(fs)
  BY <1>1, LenProperties
<1>3. /\ gs \in Seq(FrameOf) /\ gs # <<>> /\ Len(gs) = n + 1
      /\ \A i \in 1 .. n : gs[i] = fs[i]
      /\ gs[n + 1] = f
  BY <1>1, <1>2, AppendProperties
<1>5. \A m \in 0 .. n : Pending(gs, m) = Pending(fs, m)
  <2> TAKE m \in 0 .. n
  <2>1. m \in Nat /\ \A i \in 1 .. m : i \in 1 .. n
    BY <1>2
  <2> QED BY <1>3, <2>1, PendingPrefix
<1>6. Pending(gs, n + 1) = With(P, f)
  <2>1. n + 1 \in Nat \ {0} /\ (n + 1) - 1 = n /\ n \in 0 .. n
    BY <1>2
  <2>2. Pending(gs, n) = P
    BY <1>2, <1>5, <1>p, <2>1
  <2>3. \A m \in Nat \ {0} : m = n + 1 => m - 1 = n
    BY <1>2
  <2>4. PICK m \in Nat \ {0} : m = n + 1 /\ m - 1 = n
    BY <2>1, <2>3
  <2>5. /\ Awaits(gs[m]) => Pending(gs, m) = Pending(gs, m - 1) \cup {gs[m].id}
        /\ ~Awaits(gs[m]) => Pending(gs, m) = Pending(gs, m - 1)
    BY PendingNext
  <2> QED BY <1>3, <2>2, <2>4, <2>5 DEF With
<1>7. ASSUME NEW m \in 1 .. n PROVE FrameInv(gs, m, top)
  <2>1. m \in 0 .. n /\ m - 1 \in 0 .. n
    BY <1>2
  <2>2. FrameInv(fs, m, top) /\ gs[m] = fs[m]
    BY <1>2, <1>3 DEF FramesInv
  <2> QED BY <1>5, <2>1, <2>2 DEF FrameInv
<1>8. FrameInv(gs, n + 1, top)
  <2>1. n \in 0 .. n /\ (Len(fs) = 0 <=> n + 1 = 1)
    BY <1>2
  <2>2. Pending(gs, n) = P /\ (n + 1) - 1 = n
    BY <1>2, <1>5, <1>p, <2>1
  <2>3. ASSUME NEW m, m = n + 1, m - 1 = n PROVE FrameInv(gs, m, top)
    <3>1. gs[m] = f /\ Pending(gs, m - 1) = P /\ (Len(fs) = 0 <=> m = 1)
      BY <1>3, <2>1, <2>2, <2>3
    <3>2. Pending(gs, m) = With(P, f)
      BY <1>6, <2>3
    <3> QED BY <1>p, <3>1, <3>2 DEF FrameInv, NewFrameInv, With
  <2> QED BY <2>2, <2>3
<1>9. \A m \in 1 .. n + 1 : m \in 1 .. n \/ m = n + 1
  BY <1>2
<1>10. FramesInv(gs, top)
  BY <1>3, <1>7, <1>8, <1>9 DEF FramesInv
<1> QED BY <1>2, <1>3, <1>6, <1>10, <1>p

(* The number of calls only grows.                                         *)
LEMMA StateLater ==
  ASSUME NEW s, NEW P, NEW top \in Nat, StateInv(s, P, top)
  PROVE  StateInv(s, P, top + 1)
<1>1. \A i \in 1 .. top : i \in 1 .. top + 1
  OBVIOUS
<1>2. \A i \in 0 .. top : i \in 0 .. top + 1
  OBVIOUS
<1>3. AccountInv(s, P, top + 1)
  BY <1>1 DEF StateInv, AccountInv
<1>4. OutcomeInv(s, P, top + 1)
  BY <1>2 DEF StateInv, OutcomeInv
<1> QED BY <1>3, <1>4 DEF StateInv

(* An identifier not given to any call may be skipped.                     *)
LEMMA FramesLater ==
  ASSUME NEW fs, NEW top \in Nat, FramesInv(fs, top)
  PROVE  FramesInv(fs, top + 1)
  BY StateLater DEF FramesInv, FrameInv

-----------------------------------------------------------------------------
(* The operations on the state of a transaction.                           *)

SameLedger(s, t) ==
  /\ t.net = s.net /\ t.issued = s.issued /\ t.made = s.made
  /\ t.effects = s.effects /\ t.answers = s.answers

(* A step that leaves the calls, messages and answers alone keeps the      *)
(* state's invariant.                                                      *)
LEMMA LedgerKeeps ==
  ASSUME NEW s, NEW t \in StateOf, NEW P, NEW top, StateInv(s, P, top), SameLedger(s, t)
  PROVE  StateInv(t, P, top)
<1>1. AccountInv(t, P, top)
  BY DEF StateInv, SameLedger, AccountInv, HasMessage, HasAnswer
<1>2. OutcomeInv(t, P, top)
  BY DEF StateInv, SameLedger, OutcomeInv, MadeWithin
<1> QED BY <1>1, <1>2 DEF StateInv

(* A new call is pending until it is executed or sent.                     *)
LEMMA IssueKeeps ==
  ASSUME NEW s, NEW t \in StateOf, NEW P, NEW top \in Nat, StateInv(s, P, top),
         NEW w \in {0} \cup P,
         t.net = s.net, t.effects = s.effects, t.answers = s.answers,
         t.issued = s.issued \cup {top + 1},
         t.made = s.made \cup {[id |-> top + 1, within |-> w]}
  PROVE  /\ StateInv(t, P \cup {top + 1}, top + 1)
         /\ top + 1 \notin P /\ ~MadeWithin(t, top + 1) /\ top + 1 \notin t.effects
<1>1. /\ s.issued \subseteq 1 .. top /\ P \subseteq s.issued /\ s.effects \subseteq s.issued
      /\ s \in StateOf
  BY DEF StateInv, AccountInv
<1>2. /\ \A i \in 1 .. top : i \in 1 .. top + 1 /\ i \in 0 .. top + 1 /\ i # top + 1
      /\ \A i \in 0 .. top : i \in 0 .. top + 1 /\ i # top + 1
      /\ top + 1 \in 1 .. top + 1 /\ 0 \in 0 .. top
  OBVIOUS
<1>3. top + 1 \notin s.issued /\ top + 1 \notin P /\ top + 1 \notin s.effects
  BY <1>1, <1>2
<1>4. \A c \in t.made : c \in s.made \/ c.within = w
  OBVIOUS
<1>5. w \in 0 .. top
  BY <1>1, <1>2
<1>6. \A c \in t.made : c.within \in 0 .. top
  BY <1>4, <1>5 DEF StateInv, OutcomeInv
<1>7. ~MadeWithin(t, top + 1)
  BY <1>2, <1>6 DEF MadeWithin
<1>8. AccountInv(t, P \cup {top + 1}, top + 1)
  <2>1. \A x : HasAnswer(t, x) <=> HasAnswer(s, x)
    BY DEF HasAnswer
  <2>2. \A x : HasMessage(t, x) <=> HasMessage(s, x)
    BY DEF HasMessage
  <2>3. /\ t.issued \subseteq 1 .. top + 1 /\ P \cup {top + 1} \subseteq t.issued
        /\ t.effects \subseteq t.issued
        /\ t.issued \ (P \cup {top + 1}) = s.issued \ P
    BY <1>1, <1>2, <1>3
  <2> QED BY <2>1, <2>2, <2>3 DEF StateInv, AccountInv
<1>9. OutcomeInv(t, P \cup {top + 1}, top + 1)
  <2>1. ASSUME NEW x \in s.issued \ P, ~MadeWithin(s, x) PROVE ~MadeWithin(t, x)
    <3>1. x # w
      BY <1>1, <1>2, <2>1
    <3> QED BY <1>4, <2>1, <3>1 DEF MadeWithin
  <2>2. /\ \A a \in s.answers : a.id \in s.issued \ P
        /\ \A m \in s.net : m.id \in s.issued \ P
    BY DEF StateInv, AccountInv
  <2>3. \A c \in t.made : c.within \in 0 .. top + 1
    BY <1>2, <1>6
  <2>4. \A x \in P \cup {top + 1} : x \notin t.effects
    BY <1>3 DEF StateInv, OutcomeInv
  <2> QED BY <2>1, <2>2, <2>3, <2>4 DEF StateInv, OutcomeInv
<1> QED BY <1>3, <1>7, <1>8, <1>9 DEF StateInv

(* A pending call is put into message m or gets answer a.                  *)
Resolves(s, t, id, m, a) ==
  /\ t \in StateOf /\ t.issued = s.issued /\ t.made = s.made
  /\ m.id = id /\ a.id = id /\ m.ok = a.ok
  /\ \/ t.net = s.net \cup {m} /\ t.answers = s.answers /\ ShardOf[m.from] # ShardOf[m.to]
     \/ t.net = s.net /\ t.answers = s.answers \cup {a}
  /\ \/ t.answers = s.answers /\ m.type = "call" /\ t.effects = s.effects /\ ~MadeWithin(s, id)
     \/ m.type = "callback" /\ m.ok /\ t.effects = s.effects \cup {id}
     \/ m.type = "callback" /\ ~m.ok /\ t.effects = s.effects /\ ~MadeWithin(s, id)

(* A pending call that is answered here, or sent on as a message, is       *)
(* pending no more.                                                        *)
LEMMA ResolveKeeps ==
  ASSUME NEW s, NEW t, NEW P, NEW Q, NEW top, NEW id, NEW m, NEW a, id \notin P,
         Q = P \cup {id}, StateInv(s, Q, top), Resolves(s, t, id, m, a)
  PROVE  StateInv(t, P, top)
<1> USE DEF Resolves
<1>1. /\ s \in StateOf /\ s.issued \subseteq 1 .. top /\ P \cup {id} \subseteq s.issued
      /\ t \in StateOf /\ s.effects \subseteq s.issued /\ id \notin s.effects
      /\ t.effects \subseteq t.issued
      /\ \A x : x # id => (x \in t.effects <=> x \in s.effects)
  BY DEF StateInv, AccountInv, OutcomeInv
<1>2. /\ \A k \in s.net : k.id \in s.issued \ P /\ k.id # id
      /\ \A b \in s.answers : b.id \in s.issued \ P /\ b.id # id
  BY DEF StateInv, AccountInv
<1>3. AccountInv(t, P, top)
  <2>1. CASE t.net = s.net \cup {m} /\ t.answers = s.answers /\ ShardOf[m.from] # ShardOf[m.to]
    <3>1. /\ \A x : HasAnswer(t, x) <=> HasAnswer(s, x)
          /\ \A x : HasMessage(t, x) <=> HasMessage(s, x) \/ x = id
          /\ ~HasAnswer(s, id)
      BY <1>2, <2>1 DEF HasAnswer, HasMessage
    <3>2. \A k \in t.net : k.id \in t.issued \ P /\ ~HasAnswer(t, k.id)
                           /\ ShardOf[k.from] # ShardOf[k.to]
      BY <1>1, <1>2, <2>1, <3>1 DEF StateInv, AccountInv
    <3>3. \A k, l \in t.net : k.id = l.id => k = l
      BY <1>2, <2>1 DEF StateInv, AccountInv
    <3>4. \A x \in t.issued \ P : HasMessage(t, x) \/ HasAnswer(t, x)
      BY <3>1 DEF StateInv, AccountInv
    <3> QED BY <1>1, <1>2, <2>1, <3>2, <3>3, <3>4 DEF StateInv, AccountInv
  <2>2. CASE t.net = s.net /\ t.answers = s.answers \cup {a}
    <3>1. /\ \A x : HasAnswer(t, x) <=> HasAnswer(s, x) \/ x = id
          /\ \A x : HasMessage(t, x) <=> HasMessage(s, x)
      BY <1>2, <2>2 DEF HasAnswer, HasMessage
    <3>2. \A k \in t.net : k.id \in t.issued \ P /\ ~HasAnswer(t, k.id)
                           /\ ShardOf[k.from] # ShardOf[k.to]
      BY <1>1, <1>2, <2>2, <3>1 DEF StateInv, AccountInv
    <3>3. \A b, c \in t.answers : b.id = c.id => b = c
      BY <1>2, <2>2 DEF StateInv, AccountInv
    <3>4. \A x \in t.issued \ P : HasMessage(t, x) \/ HasAnswer(t, x)
      BY <3>1 DEF StateInv, AccountInv
    <3> QED BY <1>1, <1>2, <2>2, <3>2, <3>3, <3>4 DEF StateInv, AccountInv
  <2> QED BY <2>1, <2>2
<1>4. OutcomeInv(t, P, top)
  <2>1. \A x : MadeWithin(t, x) <=> MadeWithin(s, x)
    BY DEF MadeWithin
  <2>2. \A x \in P : x \notin t.effects
    BY <1>1 DEF StateInv, OutcomeInv
  <2>3. \A c \in t.made : c.within \in 0 .. top
    BY DEF StateInv, OutcomeInv
  <2>4. ASSUME NEW b \in t.answers
        PROVE  (b.ok <=> b.id \in t.effects) /\ (~b.ok => ~MadeWithin(t, b.id))
    <3>1. CASE b \in s.answers
      BY <1>1, <1>2, <2>1, <3>1 DEF StateInv, OutcomeInv
    <3>2. CASE b = a /\ b \notin s.answers
      <4>1. t.answers # s.answers
        BY <3>2
      <4> QED BY <1>1, <2>1, <3>2, <4>1
    <3> QED BY <3>1, <3>2
  <2>5. ASSUME NEW k \in t.net
        PROVE  /\ k.type = "callback" => (k.ok <=> k.id \in t.effects) /\ (~k.ok => ~MadeWithin(t, k.id))
               /\ k.type = "call" => k.id \notin t.effects /\ ~MadeWithin(t, k.id)
    <3>1. CASE k \in s.net
      BY <1>1, <1>2, <2>1, <3>1 DEF StateInv, OutcomeInv
    <3>2. CASE k = m
      BY <1>1, <2>1, <3>2
    <3> QED BY <3>1, <3>2
  <2> QED BY <2>2, <2>3, <2>4, <2>5 DEF OutcomeInv
<1> QED BY <1>3, <1>4 DEF StateInv

(* A message that is delivered makes its call pending.                     *)
LEMMA DeliverCallKeeps ==
  ASSUME NEW s, NEW t \in StateOf, NEW P, NEW top, StateInv(s, P, top), NEW m \in s.net,
         t.issued = s.issued, t.made = s.made, t.effects = s.effects, t.answers = s.answers,
         t.net = s.net \ {m}, m.type = "call"
  PROVE  /\ StateInv(t, P \cup {m.id}, top)
         /\ m.id \notin P /\ ~MadeWithin(t, m.id)
<1>1. /\ m.id \in s.issued \ P /\ ~HasAnswer(s, m.id) /\ m.id \notin s.effects
      /\ ~MadeWithin(s, m.id)
  BY DEF StateInv, AccountInv, OutcomeInv
<1>2. /\ \A x : HasAnswer(t, x) <=> HasAnswer(s, x)
      /\ \A x : x # m.id => (HasMessage(t, x) <=> HasMessage(s, x))
      /\ \A x : MadeWithin(t, x) <=> MadeWithin(s, x)
  BY DEF HasAnswer, HasMessage, MadeWithin
<1>3. /\ \A k \in t.net : k.id # m.id
      /\ \A a \in t.answers : a.id # m.id
  BY <1>1 DEF StateInv, AccountInv, HasAnswer
<1>4. AccountInv(t, P \cup {m.id}, top)
  <2>1. \A x \in t.issued \ (P \cup {m.id}) : HasMessage(t, x) \/ HasAnswer(t, x)
    BY <1>2 DEF StateInv, AccountInv
  <2>2. \A k \in t.net : k \in s.net
    OBVIOUS
  <2>3. \A k \in t.net : k.id \in t.issued \ (P \cup {m.id}) /\ ~HasAnswer(t, k.id)
                         /\ ShardOf[k.from] # ShardOf[k.to]
    BY <1>2, <1>3, <2>2 DEF StateInv, AccountInv
  <2> QED BY <1>1, <1>3, <2>1, <2>2, <2>3 DEF StateInv, AccountInv
<1>5. OutcomeInv(t, P \cup {m.id}, top)
  BY <1>1, <1>2 DEF StateInv, OutcomeInv
<1> QED BY <1>1, <1>2, <1>4, <1>5 DEF StateInv

(* A callback that is delivered is the answer.                             *)
LEMMA DeliverCallbackKeeps ==
  ASSUME NEW s, NEW t \in StateOf, NEW P, NEW top, StateInv(s, P, top), NEW m \in s.net,
         t.issued = s.issued, t.made = s.made, t.effects = s.effects,
         t.answers = s.answers \cup {[id |-> m.id, ok |-> m.ok]},
         t.net = s.net \ {m}, m.type = "callback"
  PROVE  StateInv(t, P, top)
<1> DEFINE a == [id |-> m.id, ok |-> m.ok]
<1>1. /\ m.id \in s.issued \ P /\ ~HasAnswer(s, m.id)
      /\ (m.ok <=> m.id \in s.effects) /\ (~m.ok => ~MadeWithin(s, m.id))
  BY DEF StateInv, AccountInv, OutcomeInv
<1>2. a.id = m.id /\ a.ok = m.ok /\ t.answers = s.answers \cup {a}
  OBVIOUS
<1> HIDE DEF a
<1>3. /\ \A x : HasAnswer(t, x) <=> HasAnswer(s, x) \/ x = m.id
      /\ \A x : x # m.id => (HasMessage(t, x) <=> HasMessage(s, x))
      /\ \A x : MadeWithin(t, x) <=> MadeWithin(s, x)
  BY <1>2 DEF HasAnswer, HasMessage, MadeWithin
<1>4. /\ \A k \in t.net : k.id # m.id /\ k \in s.net
      /\ \A b \in s.answers : b.id # m.id
  BY <1>1 DEF StateInv, AccountInv, HasAnswer
<1>5. AccountInv(t, P, top)
  <2>1. \A x \in t.issued \ P : HasMessage(t, x) \/ HasAnswer(t, x)
    BY <1>3 DEF StateInv, AccountInv
  <2>2. \A k \in t.net : k.id \in t.issued \ P /\ ~HasAnswer(t, k.id)
                         /\ ShardOf[k.from] # ShardOf[k.to]
    BY <1>3, <1>4 DEF StateInv, AccountInv
  <2>3. \A b, c \in t.answers : b.id = c.id => b = c
    BY <1>2, <1>4 DEF StateInv, AccountInv
  <2>4. \A b \in t.answers : b.id \in t.issued \ P
    BY <1>1, <1>2 DEF StateInv, AccountInv
  <2> QED BY <1>4, <2>1, <2>2, <2>3, <2>4 DEF StateInv, AccountInv
<1>6. OutcomeInv(t, P, top)
  <2>1. ASSUME NEW b \in t.answers
        PROVE  (b.ok <=> b.id \in t.effects) /\ (~b.ok => ~MadeWithin(t, b.id))
    <3>1. CASE b \in s.answers
      BY <1>3, <3>1 DEF StateInv, OutcomeInv
    <3>2. CASE b = a
      BY <1>1, <1>2, <1>3, <3>2
    <3> QED BY <1>2, <3>1, <3>2
  <2> QED BY <1>3, <1>4, <2>1 DEF StateInv, OutcomeInv
<1> QED BY <1>5, <1>6 DEF StateInv

(* What the operators of the model do to the fields of a state.            *)
LEMMA CensoredFacts ==
  ASSUME NEW s \in StateOf
  PROVE  Censored(s) \in StateOf /\ SameLedger(s, Censored(s))
<1>1. Censored(s) \in StateOf
  BY Zenon DEF Censored, StateOf
<1> QED BY <1>1 DEF Censored, StateOf, SameLedger

(* What sending a message to another shard changes.                        *)
LEMMA SendFacts ==
  ASSUME NEW s \in StateOf, NEW m \in MessageOf
  PROVE  /\ Send(s, m) \in StateOf /\ Send(s, m).net = s.net \cup {m}
         /\ Send(s, m).issued = s.issued /\ Send(s, m).made = s.made
         /\ Send(s, m).effects = s.effects /\ Send(s, m).answers = s.answers
<1>1. s.net \cup {m} \in SUBSET MessageOf
  BY DEF StateOf
<1>2. ASSUME NEW n \in SUBSET MessageOf PROVE [s EXCEPT !.net = n] \in StateOf
  BY Zenon DEF StateOf
<1>3. Send(s, m) = [s EXCEPT !.net = s.net \cup {m}]
  BY DEF Send
<1>4. Send(s, m) \in StateOf
  BY <1>1, <1>2, <1>3
<1> QED BY <1>3, <1>4 DEF StateOf

(* What the effect of a call changes.                                      *)
LEMMA EffectFacts ==
  ASSUME NEW s \in StateOf, NEW id \in Nat
  PROVE  /\ TakesEffect(s, id) \in StateOf /\ TakesEffect(s, id).effects = s.effects \cup {id}
         /\ TakesEffect(s, id).issued = s.issued /\ TakesEffect(s, id).made = s.made
         /\ TakesEffect(s, id).net = s.net /\ TakesEffect(s, id).answers = s.answers
<1>1. s.effects \cup {id} \in SUBSET Nat
  BY DEF StateOf
<1>2. ASSUME NEW e \in SUBSET Nat PROVE [s EXCEPT !.effects = e] \in StateOf
  BY Zenon DEF StateOf
<1>3. TakesEffect(s, id) = [s EXCEPT !.effects = s.effects \cup {id}]
  BY DEF TakesEffect
<1>4. TakesEffect(s, id) \in StateOf
  BY <1>1, <1>2, <1>3
<1> QED BY <1>3, <1>4 DEF StateOf

(* What answering a call changes.                                          *)
LEMMA AnswerFacts ==
  ASSUME NEW s \in StateOf, NEW id \in Nat, NEW ok \in BOOLEAN
  PROVE  /\ Answer(s, id, ok) \in StateOf
         /\ Answer(s, id, ok).answers = s.answers \cup {[id |-> id, ok |-> ok]}
         /\ Answer(s, id, ok).issued = s.issued /\ Answer(s, id, ok).made = s.made
         /\ Answer(s, id, ok).net = s.net /\ Answer(s, id, ok).effects = s.effects
<1> DEFINE A == s.answers \cup {[id |-> id, ok |-> ok]}
<1>1. [id |-> id, ok |-> ok] \in [id : Nat, ok : BOOLEAN]
  BY Zenon
<1>2. A \in SUBSET [id : Nat, ok : BOOLEAN]
  <2>1. s.answers \in SUBSET [id : Nat, ok : BOOLEAN]
    BY Zenon DEF StateOf
  <2> QED BY <1>1, <2>1, Zenon
<1>3. ASSUME NEW e \in SUBSET [id : Nat, ok : BOOLEAN] PROVE [s EXCEPT !.answers = e] \in StateOf
  BY Zenon DEF StateOf
<1>4. Answer(s, id, ok) = [s EXCEPT !.answers = A]
  BY DEF Answer
<1> HIDE DEF A
<1>5. Answer(s, id, ok) \in StateOf
  BY <1>2, <1>3, <1>4
<1>6. Answer(s, id, ok).answers = A
  BY <1>4 DEF StateOf
<1> QED BY <1>4, <1>5, <1>6 DEF StateOf, A

(* What taking a message from the network changes.                         *)
LEMMA TakenFacts ==
  ASSUME NEW s \in StateOf, NEW m, NEW t, t = [s EXCEPT !.net = @ \ {m}]
  PROVE  /\ t \in StateOf /\ t.net = s.net \ {m}
         /\ t.issued = s.issued /\ t.made = s.made
         /\ t.effects = s.effects /\ t.answers = s.answers
<1>1. s.net \ {m} \in SUBSET MessageOf
  BY DEF StateOf
<1>2. ASSUME NEW n \in SUBSET MessageOf PROVE [s EXCEPT !.net = n] \in StateOf
  BY Zenon DEF StateOf
<1>3. t \in StateOf
  BY <1>1, <1>2
<1> QED BY <1>3 DEF StateOf

(* The fields of a frame.                                                  *)
LEMMA FrameFacts ==
  ASSUME NEW kind, NEW type, NEW self, NEW caller, NEW id, NEW within, NEW value, NEW saved,
         NEW f, f = Frame(kind, type, self, caller, id, within, value, saved)
  PROVE  /\ f.kind = kind /\ f.type = type /\ f.self = self /\ f.caller = caller /\ f.id = id
         /\ f.within = within /\ f.value = value /\ f.saved = saved
         /\ /\ kind \in {"root", "nested", "dest", "callback"}
            /\ type \in {"direct", "async", "callback"}
            /\ self \in Contracts /\ caller \in Contracts /\ id \in Nat /\ within \in Nat
            /\ value \in Nat /\ saved \in StateOf
            => f \in FrameOf
<1>1. /\ f.kind = kind /\ f.type = type /\ f.self = self /\ f.caller = caller /\ f.id = id
      /\ f.within = within /\ f.value = value /\ f.saved = saved
  BY DEF Frame
<1>2. ASSUME kind \in {"root", "nested", "dest", "callback"}, type \in {"direct", "async", "callback"},
             self \in Contracts, caller \in Contracts, id \in Nat, within \in Nat,
             value \in Nat, saved \in StateOf
      PROVE  f \in FrameOf
  BY <1>2, Zenon DEF Frame, FrameOf
<1> QED BY <1>1, <1>2

(* The fields of a message.                                                *)
LEMMA MessageFacts ==
  ASSUME NEW type \in {"call", "callback"}, NEW id \in Nat, NEW from \in Contracts,
         NEW to \in Contracts, NEW ok \in BOOLEAN, NEW m, m = Message(type, id, from, to, ok)
  PROVE  /\ m \in MessageOf /\ m.type = type /\ m.id = id /\ m.from = from /\ m.to = to
         /\ m.ok = ok
<1>1. m \in MessageOf
  BY Zenon DEF Message, MessageOf
<1>2. m.type = type /\ m.id = id /\ m.from = from /\ m.to = to /\ m.ok = ok
  BY DEF Message
<1> QED BY <1>1, <1>2

(* The frame on top of a nest of calls.                                    *)
LEMMA TopFacts ==
  ASSUME CallsInv, phase # "idle"
  PROVE  /\ frames # <<>> /\ Len(frames) \in Nat \ {0} /\ Len(frames) <= MaxDepth
         /\ Top \in FrameOf /\ FrameInv(frames, Len(frames), ids) /\ Top = frames[Len(frames)]
         /\ Top.kind = "root" <=> Len(frames) = 1
         /\ Top.within \in {0} \cup Pending(frames, Len(frames)) /\ Top.within \in Nat
         /\ StateInv(Top.saved, Pending(frames, Len(frames)), ids)
         /\ Top.self \in Contracts /\ Top.caller \in Contracts /\ Top.id \in Nat
<1>1. frames # <<>> /\ FramesInv(frames, ids)
  BY DEF CallsInv
<1>2. /\ Len(frames) \in Nat \ {0} /\ FrameInv(frames, Len(frames), ids)
      /\ Last(frames) = frames[Len(frames)] /\ Last(frames) \in FrameOf
  BY <1>1, FramesPop
<1>3. Top = frames[Len(frames)] /\ Top \in FrameOf
  BY <1>2 DEF Top
<1> QED BY <1>1, <1>2, <1>3 DEF FrameInv, FrameOf, CallsInv

(* Whatever the outcome, the state that is left accounts for the calls of  *)
(* the frames, the one on top included.                                    *)
LEMMA PopFacts ==
  ASSUME CallsInv, phase # "idle", NEW ok \in BOOLEAN
  PROVE  /\ StateInv(Pop(Top, ok), Pending(frames, Len(frames)), ids)
         /\ ~ok /\ Awaits(Top) => ~MadeWithin(Pop(Top, ok), Top.id)
<1>1. StateInv(st, Pending(frames, Len(frames)), ids) /\ st \in StateOf
  BY DEF CallsInv, StateInv
<1>2. /\ StateInv(Top.saved, Pending(frames, Len(frames)), ids) /\ Top.saved \in StateOf
      /\ Awaits(Top) => ~MadeWithin(Top.saved, Top.id)
  BY TopFacts DEF FrameInv, FrameOf
<1>3. CASE ok
  <2>1. Pop(Top, ok) = [st EXCEPT !.data = st.data \/ Top.saved.data]
    BY <1>3 DEF Pop
  <2>2. (st.data \/ Top.saved.data) \in BOOLEAN
    BY Zenon
  <2>3. ASSUME NEW b \in BOOLEAN, NEW t, t = [st EXCEPT !.data = b]
        PROVE  t \in StateOf /\ SameLedger(st, t)
    <3>1. t \in StateOf
      BY <1>1, <2>3, Zenon DEF StateOf
    <3> QED BY <1>1, <2>3, <3>1 DEF StateOf, SameLedger
  <2>4. Pop(Top, ok) \in StateOf /\ SameLedger(st, Pop(Top, ok))
    BY <2>1, <2>2, <2>3
  <2> QED BY <1>1, <1>3, <2>4, LedgerKeeps
<1>4. CASE ~ok
  BY <1>2, <1>4 DEF Pop
<1> QED BY <1>3, <1>4

-----------------------------------------------------------------------------
(* The steps.                                                              *)

Active == {"running", "ended", "failed"}

(* A step that starts an execution on top of the stack.                    *)
LEMMA PushKeeps ==
  ASSUME ids' \in Nat, NEW fs, FramesInv(fs, ids'), Len(fs) < MaxDepth,
         NEW f, NewFrameInv(f, Pending(fs, Len(fs)), ids', Len(fs)),
         frames' = Append(fs, f), st' \in StateOf, SameLedger(f.saved, st'), phase' \in Active
  PROVE  CallsInv'
<1>1. PICK Q : Q = With(Pending(fs, Len(fs)), f)
  OBVIOUS
<1>2. /\ FramesInv(frames', ids') /\ frames' # <<>> /\ Len(fs) \in Nat
      /\ Len(frames') = Len(fs) + 1 /\ Pending(frames', Len(frames')) = Q
  BY <1>1, FramesPush
<1>3. StateInv(f.saved, Q, ids')
  BY <1>1 DEF NewFrameInv
<1>4. StateInv(st', Q, ids')
  BY <1>3, LedgerKeeps
<1>5. Len(frames') <= MaxDepth
  BY <1>2, AsyncAssumption
<1> QED BY <1>2, <1>4, <1>5 DEF CallsInv, Active

(* A step that returns from an execution to the one below it.              *)
LEMMA PopKeeps ==
  ASSUME CallsInv, phase # "idle", Top.kind # "root", ids' = ids, frames' = Front(frames),
         phase' \in Active, StateInv(st', Pending(frames, Len(frames) - 1), ids)
  PROVE  CallsInv'
<1>1. /\ frames # <<>> /\ FramesInv(frames, ids) /\ ids \in Nat /\ Len(frames) <= MaxDepth
      /\ Len(frames) \in Nat \ {0} /\ Len(frames) # 1
  BY TopFacts DEF CallsInv
<1>2. /\ FramesInv(frames', ids) /\ Len(frames') = Len(frames) - 1
      /\ Pending(frames', Len(frames) - 1) = Pending(frames, Len(frames) - 1)
  BY <1>1, FramesPop
<1>3. Len(frames') <= MaxDepth /\ Len(frames') # 0
  BY <1>1, <1>2, AsyncAssumption
<1>4. frames' # <<>>
  <2>1. Len(<<>>) = 0
    OBVIOUS
  <2> QED BY <1>3, <2>1
<1> QED BY <1>1, <1>2, <1>3, <1>4 DEF CallsInv, Active

(* The empty stack, between transactions.                                  *)
LEMMA NoFrames == ASSUME NEW top PROVE FramesInv(<<>>, top) /\ Len(<<>>) = 0 /\ Pending(<<>>, Len(<<>>)) = {}
<1>1. Len(<<>>) = 0 /\ <<>> \in Seq(FrameOf)
  OBVIOUS
<1>2. Pending(<<>>, Len(<<>>)) = {}
  BY <1>1, PendingNone
<1> QED BY <1>1, <1>2 DEF FramesInv

(* A step that ends the transaction.                                       *)
LEMMA CommitKeeps ==
  ASSUME CallsInv, NEW s, StateInv(s, {}, ids), Commit(s)
  PROVE  CallsInv'
<1>1. /\ st' = [s EXCEPT !.out = NoOutput, !.data = FALSE]
      /\ frames' = <<>> /\ phase' = "idle" /\ ids' = ids /\ s \in StateOf
  BY DEF Commit, StateInv
<1>2. NoOutput \in [Contracts -> Seq(TransferOf)]
  BY DEF NoOutput
<1>3. st' \in StateOf
  BY <1>1, <1>2, Zenon DEF StateOf
<1>4. SameLedger(s, st')
  BY <1>1, <1>3 DEF StateOf, SameLedger
<1>5. StateInv(st', {}, ids)
  BY <1>3, <1>4, LedgerKeeps
<1>6. Len(frames') <= MaxDepth
  BY <1>1, AsyncAssumption
<1> QED BY <1>1, <1>5, <1>6, NoFrames DEF CallsInv

(* A hook, or the end of the contract's code, changes only the top         *)
(* execution.                                                              *)
LEMMA HookKeeps ==
  ASSUME CallsInv, Transfer \/ returnData \/ Return \/ FailExecution
  PROVE  CallsInv'
<1>1. st \in StateOf /\ StateInv(st, Pending(frames, Len(frames)), ids)
  BY DEF CallsInv, StateInv
<1>2. UNCHANGED <<frames, ids>> /\ phase = "running" /\ phase' \in Active
  BY DEF Transfer, returnData, Return, FailExecution, CallsHook, Active
<1>3. st' \in StateOf /\ SameLedger(st, st')
  <2>1. CASE Transfer
    <3>1. PICK to \in Contracts, v \in Values, data \in BOOLEAN :
            st' = [st EXCEPT !.out[to] = Append(@, [value |-> v, data |-> data])]
      BY <2>1 DEF Transfer
    <3> DEFINE r == [value |-> v, data |-> data]
               o == [st.out EXCEPT ![to] = Append(st.out[to], r)]
    <3>2. v \in Nat
      BY AsyncAssumption
    <3>3. r \in TransferOf
      BY <3>2, Zenon DEF TransferOf
    <3>4. st.out \in [Contracts -> Seq(TransferOf)]
      BY <1>1 DEF StateOf
    <3> HIDE DEF r
    <3>5. o \in [Contracts -> Seq(TransferOf)]
      BY <3>3, <3>4
    <3>6. st' = [st EXCEPT !.out = o]
      BY <3>1 DEF r
    <3> HIDE DEF o
    <3>7. st' \in StateOf
      BY <1>1, <3>5, <3>6, Zenon DEF StateOf
    <3> QED BY <1>1, <3>6, <3>7 DEF StateOf, SameLedger
  <2>2. CASE returnData
    <3>1. st' = [st EXCEPT !.data = TRUE]
      BY <2>2 DEF returnData
    <3>2. st' \in StateOf
      BY <1>1, <3>1, Zenon DEF StateOf
    <3> QED BY <1>1, <3>1, <3>2 DEF StateOf, SameLedger
  <2>3. CASE Return \/ FailExecution
    BY <1>1, <2>3 DEF Return, FailExecution, SameLedger
  <2> QED BY <2>1, <2>2, <2>3
<1>4. StateInv(st', Pending(frames, Len(frames)), ids)
  BY <1>1, <1>3, LedgerKeeps
<1> QED BY <1>2, <1>4 DEF CallsInv, Active

(* A call on the destination's context starts a nested execution.          *)
LEMMA NestedKeeps ==
  ASSUME CallsInv, ExecuteOnDestContext
  PROVE  CallsInv'
<1>1. PICK c \in Contracts : Push(Frame("nested", "direct", c, Top.self, 0, Top.within, 0, st))
  BY DEF ExecuteOnDestContext
<1>2. /\ phase = "running" /\ Len(frames) < MaxDepth /\ UNCHANGED <<phase, ids>>
  BY DEF ExecuteOnDestContext, CallsHook
<1>3. PICK f : f = Frame("nested", "direct", c, Top.self, 0, Top.within, 0, st)
  OBVIOUS
<1>4. st \in StateOf /\ StateInv(st, Pending(frames, Len(frames)), ids) /\ FramesInv(frames, ids)
      /\ ids \in Nat
  BY DEF CallsInv, StateInv
<1>5. /\ Len(frames) # 0 /\ Top.self \in Contracts /\ Top.within \in Nat
      /\ Top.within \in {0} \cup Pending(frames, Len(frames))
  BY <1>2, TopFacts
<1>6. /\ f \in FrameOf /\ f.kind = "nested" /\ f.within = Top.within /\ f.saved = st
  BY <1>3, <1>4, <1>5, FrameFacts
<1>7. ~Awaits(f)
  BY <1>6 DEF Awaits
<1>8. NewFrameInv(f, Pending(frames, Len(frames)), ids', Len(frames))
  BY <1>2, <1>4, <1>5, <1>6, <1>7 DEF NewFrameInv, With
<1>9. frames' = Append(frames, f) /\ st' \in StateOf /\ SameLedger(f.saved, st')
  BY <1>1, <1>3, <1>4, <1>6, CensoredFacts DEF Push
<1> QED BY <1>2, <1>4, <1>8, <1>9, PushKeeps DEF Active

(* An asynchronous call runs here when the destination is in this shard    *)
(* and is sent to it otherwise.                                            *)
LEMMA AsyncKeeps ==
  ASSUME CallsInv, asyncCall
  PROVE  CallsInv'
<1>1. /\ phase = "running" /\ ids' = ids + 1 /\ ids \in Nat /\ FramesInv(frames, ids)
      /\ st \in StateOf /\ StateInv(st, Pending(frames, Len(frames)), ids)
  BY DEF asyncCall, CallsHook, CallsInv, StateInv
<1> DEFINE P == Pending(frames, Len(frames))
<1>2. /\ frames # <<>> /\ Len(frames) # 0 /\ Top.self \in Contracts /\ Top.within \in Nat
      /\ Top.within \in {0} \cup P
  BY <1>1, TopFacts
<1>3. PICK id \in Nat : id = ids + 1 /\ ids' = id
  BY <1>1
<1>4. PICK made : made = [st EXCEPT !.issued = @ \cup {id},
                                    !.made = @ \cup {[id |-> id, within |-> Top.within]}]
  OBVIOUS
<1>5. /\ made \in StateOf
      /\ made.net = st.net /\ made.effects = st.effects /\ made.answers = st.answers
      /\ made.issued = st.issued \cup {id}
      /\ made.made = st.made \cup {[id |-> id, within |-> Top.within]}
  <2> DEFINE I == st.issued \cup {id}
             M == st.made \cup {[id |-> id, within |-> Top.within]}
  <2>1. I \in SUBSET Nat /\ M \in SUBSET [id : Nat, within : Nat]
    BY <1>1, <1>2 DEF StateOf
  <2>2. made = [st EXCEPT !.issued = I, !.made = M]
    BY <1>4
  <2> HIDE DEF I, M
  <2>3. made \in StateOf
    BY <1>1, <2>1, <2>2, Zenon DEF StateOf
  <2>4. /\ made.net = st.net /\ made.effects = st.effects /\ made.answers = st.answers
        /\ made.issued = I /\ made.made = M
    BY <1>1, <2>2 DEF StateOf
  <2> QED BY <2>3, <2>4 DEF I, M
<1>6. /\ StateInv(made, P \cup {id}, id) /\ id \notin P
      /\ ~MadeWithin(made, id) /\ id \notin made.effects
  BY <1>1, <1>2, <1>3, <1>5, IssueKeeps
<1>7. FramesInv(frames, id)
  BY <1>1, <1>3, FramesLater
<1> HIDE DEF P
<1>8. PICK dest \in Contracts :
        IF SyncCall(dest)
        THEN /\ Len(frames) < MaxDepth /\ UNCHANGED phase
             /\ Push(createDestinationContractCallInput(dest, made))
        ELSE /\ st' = sendAsyncCallToDestination(made, dest)
             /\ phase' = "ended" /\ UNCHANGED frames
  BY <1>3, <1>4 DEF asyncCall
<1>9. CASE SyncCall(dest)
  <2>1. PICK f : f = Frame("dest", "async", dest, Top.self, id, id, 0, made)
    OBVIOUS
  <2>2. f \in FrameOf /\ f.kind = "dest" /\ f.id = id /\ f.within = id /\ f.saved = made
    BY <1>2, <1>3, <1>5, <2>1, FrameFacts
  <2>3. Awaits(f)
    BY <2>2 DEF Awaits
  <2>4. NewFrameInv(f, P, id, Len(frames))
    BY <1>2, <1>6, <2>2, <2>3 DEF NewFrameInv, With
  <2>5. frames' = Append(frames, f) /\ st' \in StateOf /\ SameLedger(f.saved, st')
    BY <1>3, <1>5, <1>8, <1>9, <2>1, <2>2, CensoredFacts DEF Push, createDestinationContractCallInput
  <2>6. Len(frames) < MaxDepth /\ phase' \in Active
    BY <1>1, <1>8, <1>9 DEF Active
  <2> QED BY <1>3, <1>7, <2>4, <2>5, <2>6, PushKeeps DEF P
<1>10. CASE ~SyncCall(dest)
  <2>1. PICK m : m = Message("call", id, Top.self, dest, TRUE)
    OBVIOUS
  <2>2. /\ m \in MessageOf /\ m.type = "call" /\ m.id = id /\ m.ok = TRUE
        /\ m.from = Top.self /\ m.to = dest
    <3>1. TRUE \in BOOLEAN
      OBVIOUS
    <3>2. m.type = "call" /\ m.id = id /\ m.ok = TRUE /\ m.from = Top.self /\ m.to = dest
      BY <2>1 DEF Message
    <3>3. m \in MessageOf
      BY <1>2, <2>1, <3>1, Zenon DEF Message, MessageOf
    <3> QED BY <3>2, <3>3
  <2>3. ShardOf[m.from] # ShardOf[m.to]
    BY <1>10, <2>2 DEF SyncCall
  <2>4. /\ st' = Send(made, m) /\ phase' = "ended" /\ UNCHANGED frames
    BY <1>3, <1>8, <1>10, <2>1 DEF sendAsyncCallToDestination
  <2>5. /\ st' \in StateOf /\ st'.net = made.net \cup {m} /\ st'.issued = made.issued
        /\ st'.made = made.made /\ st'.effects = made.effects /\ st'.answers = made.answers
    BY <1>5, <2>2, <2>4, SendFacts
  <2>6. PICK a : a = [id |-> id, ok |-> TRUE]
    OBVIOUS
  <2>7. a.id = id /\ a.ok = TRUE
    BY <2>6
  <2>8. StateInv(st', P, id)
    <3>1. Resolves(made, st', id, m, a)
      BY <1>6, <2>2, <2>3, <2>5, <2>7 DEF Resolves
    <3> QED BY <1>6, <3>1, ResolveKeeps
  <2>9. Len(frames) <= MaxDepth
    BY DEF CallsInv
  <2> QED BY <1>2, <1>3, <1>7, <2>4, <2>8, <2>9 DEF CallsInv, P
<1> QED BY <1>9, <1>10

(* The end of a nested execution or of a callback run here.                *)
LEMMA FinishNestedKeeps ==
  ASSUME CallsInv, FinishNested \/ FinishCallback
  PROVE  CallsInv'
<1>1. /\ phase # "idle" /\ Top.kind \in {"nested", "callback"} /\ phase' \in Active
      /\ frames' = Front(frames) /\ st' = Pop(Top, Ok) /\ ids' = ids
  BY DEF FinishNested, FinishCallback, Ends, Active
<1>2. Ok \in BOOLEAN
  BY DEF Ok
<1>3. Len(frames) \in Nat \ {0} /\ Top = frames[Len(frames)] /\ ~Awaits(Top)
  BY <1>1, TopFacts DEF Awaits
<1>4. Pending(frames, Len(frames)) = Pending(frames, Len(frames) - 1)
  BY <1>3, PendingNext
<1>5. StateInv(Pop(Top, Ok), Pending(frames, Len(frames)), ids)
  BY <1>1, <1>2, PopFacts
<1> QED BY <1>1, <1>4, <1>5, PopKeeps

(* The answer to a call that was executed within the transaction.          *)
LEMMA FinishDestKeeps ==
  ASSUME CallsInv, FinishDest
  PROVE  CallsInv'
<1>1. /\ phase # "idle" /\ Top.kind = "dest" /\ UNCHANGED ids
  BY DEF FinishDest, Ends
<1>2. PICK ok \in BOOLEAN : ok = Ok
  BY DEF Ok
<1>3. PICK after : after = IF ok THEN TakesEffect(Pop(Top, ok), Top.id) ELSE Pop(Top, ok)
  OBVIOUS
<1>4. PICK told : told = Answer(after, Top.id, ok)
  OBVIOUS
<1>5. \/ st' = told /\ frames' = Front(frames) /\ phase' = "ended"
      \/ /\ frames' = Append(Front(frames), createCallbackContractCallInput(told))
         /\ st' = Censored(told)
         /\ phase' = IF Top.caller \in HasCallback THEN "running" ELSE "ended"
  BY <1>2, <1>3, <1>4 DEF FinishDest
<1>6. /\ Len(frames) \in Nat \ {0} /\ Top = frames[Len(frames)] /\ Awaits(Top) /\ Top.id \in Nat
      /\ Top.self \in Contracts /\ Top.caller \in Contracts /\ Len(frames) # 1
      /\ FrameInv(frames, Len(frames), ids) /\ Len(frames) <= MaxDepth /\ frames # <<>>
  BY <1>1, TopFacts DEF Awaits
<1> DEFINE P == Pending(frames, Len(frames) - 1)
<1>7. Pending(frames, Len(frames)) = P \cup {Top.id} /\ Top.id \notin P
  BY <1>6, PendingNext DEF FrameInv
<1>8. StateInv(Pop(Top, ok), P \cup {Top.id}, ids) /\ (~ok => ~MadeWithin(Pop(Top, ok), Top.id))
  BY <1>1, <1>6, <1>7, PopFacts
<1> HIDE DEF P
<1>9. told \in StateOf /\ StateInv(told, P, ids)
  <2>1. PICK s : s = Pop(Top, ok)
    OBVIOUS
  <2>2. s \in StateOf /\ StateInv(s, P \cup {Top.id}, ids)
    BY <1>8, <2>1 DEF StateInv
  <2>3. /\ after \in StateOf /\ after.net = s.net /\ after.issued = s.issued /\ after.made = s.made
        /\ after.answers = s.answers
        /\ after.effects = IF ok THEN s.effects \cup {Top.id} ELSE s.effects
    <3>1. CASE ok
      BY <1>3, <1>6, <2>1, <2>2, <3>1, EffectFacts
    <3>2. CASE ~ok
      BY <1>3, <2>1, <2>2, <3>2
    <3> QED BY <3>1, <3>2
  <2>4. /\ told \in StateOf /\ told.answers = after.answers \cup {[id |-> Top.id, ok |-> ok]}
        /\ told.issued = after.issued /\ told.made = after.made
        /\ told.net = after.net /\ told.effects = after.effects
    <3>1. after \in StateOf /\ Top.id \in Nat
      BY <1>6, <2>3
    <3> QED BY <1>4, <3>1, AnswerFacts, Zenon
  <2>5. PICK a : a = [id |-> Top.id, ok |-> ok]
    OBVIOUS
  <2>6. a.id = Top.id /\ a.ok = ok
    BY <2>5
  <2>7. PICK m : m = Message("callback", Top.id, Top.self, Top.caller, ok)
    OBVIOUS
  <2>8. m.type = "callback" /\ m.id = Top.id /\ m.ok = ok
    BY <2>7 DEF Message
  <2>9. told.effects = (IF ok THEN s.effects \cup {Top.id} ELSE s.effects)
        /\ told.answers = s.answers \cup {a} /\ told.net = s.net
        /\ told.issued = s.issued /\ told.made = s.made /\ told \in StateOf
    BY <2>3, <2>4, <2>5
  <2>10. Resolves(s, told, Top.id, m, a)
    <3>1. CASE ok
      BY <2>6, <2>8, <2>9, <3>1 DEF Resolves
    <3>2. CASE ~ok
      BY <1>8, <2>1, <2>6, <2>8, <2>9, <3>2 DEF Resolves
    <3> QED BY <3>1, <3>2
  <2> QED BY <1>7, <2>2, <2>4, <2>10, ResolveKeeps
<1>10. CASE st' = told /\ frames' = Front(frames) /\ phase' = "ended"
  BY <1>1, <1>9, <1>10, PopKeeps DEF P, Active
<1>11. CASE /\ frames' = Append(Front(frames), createCallbackContractCallInput(told))
            /\ st' = Censored(told)
            /\ phase' = IF Top.caller \in HasCallback THEN "running" ELSE "ended"
  <2>1. PICK fs : fs = Front(frames)
    OBVIOUS
  <2>2. /\ FramesInv(fs, ids) /\ Len(fs) = Len(frames) - 1 /\ ids \in Nat
        /\ Pending(fs, Len(fs)) = P
    BY <1>6, <2>1, FramesPop DEF CallsInv, P
  <2>3. Len(fs) \in Nat \ {0} /\ Len(fs) < MaxDepth
    <3>1. \A n, d \in Nat \ {0} : n <= d /\ n # 1 => n - 1 \in Nat \ {0} /\ n - 1 < d
      OBVIOUS
    <3> QED BY <1>6, <2>2, <3>1, AsyncAssumption
  <2>4. Last(fs) = fs[Len(fs)] /\ fs[Len(fs)] \in FrameOf /\ FrameInv(fs, Len(fs), ids)
    <3>1. fs # <<>>
      <4>1. Len(<<>>) = 0
        OBVIOUS
      <4> QED BY <2>3, <4>1
    <3> QED BY <2>2, <3>1, FramesPop
  <2>5. Last(fs).within \in {0} \cup P /\ Last(fs).within \in Nat
    BY <2>2, <2>4 DEF FrameInv, FrameOf
  <2>6. computeCallValueFromLastOutputTransfer(Ok) \in Nat
    <3>1. PICK transfers : transfers = st.out[Top.caller]
      OBVIOUS
    <3>2. transfers \in Seq(TransferOf)
      BY <1>6, <3>1 DEF CallsInv, StateInv, StateOf
    <3>3. transfers # <<>> => Last(transfers) \in TransferOf
      BY <3>2, FrontOf
    <3>4. \A r \in TransferOf : r.value \in Nat
      BY DEF TransferOf
    <3> QED BY <3>1, <3>3, <3>4 DEF computeCallValueFromLastOutputTransfer
  <2>7. PICK f : f = createCallbackContractCallInput(told)
    OBVIOUS
  <2>8. /\ f \in FrameOf /\ f.kind = "callback" /\ f.within = Last(fs).within /\ f.saved = told
    BY <1>6, <1>9, <2>1, <2>5, <2>6, <2>7, FrameFacts DEF createCallbackContractCallInput
  <2>9. ~Awaits(f)
    BY <2>8 DEF Awaits
  <2>10. NewFrameInv(f, P, ids, Len(fs))
    BY <1>9, <2>3, <2>5, <2>8, <2>9 DEF NewFrameInv, With
  <2>11. frames' = Append(fs, f) /\ st' \in StateOf /\ SameLedger(f.saved, st') /\ phase' \in Active
    BY <1>9, <1>11, <2>1, <2>7, <2>8, CensoredFacts DEF Active
  <2> QED BY <1>1, <2>2, <2>3, <2>10, <2>11, PushKeeps
<1> QED BY <1>5, <1>10, <1>11

(* The end of a transaction: the outermost frame executes no call, or the  *)
(* call that it executes is answered by a message.                         *)
LEMMA FinishRootKeeps ==
  ASSUME CallsInv, FinishDirect \/ sendCallbackToCurrentCaller \/ FailAsync
  PROVE  CallsInv'
<1>1. phase # "idle" /\ Top.kind = "root"
  BY DEF FinishDirect, sendCallbackToCurrentCaller, FailAsync, Ends
<1>2. /\ Len(frames) = 1 /\ Top = frames[1] /\ FrameInv(frames, 1, ids) /\ Top.id \in Nat
      /\ Top.self \in Contracts /\ Top.caller \in Contracts
  BY <1>1, TopFacts
<1>3. Pending(frames, 0) = {}
  BY PendingNone
<1>4. /\ Awaits(Top) => Pending(frames, Len(frames)) = {} \cup {Top.id}
      /\ ~Awaits(Top) => Pending(frames, Len(frames)) = {}
  <2>1. /\ Awaits(frames[1]) => Pending(frames, 1) = Pending(frames, 1 - 1) \cup {frames[1].id}
        /\ ~Awaits(frames[1]) => Pending(frames, 1) = Pending(frames, 1 - 1)
    BY PendingNext
  <2>2. 1 - 1 = 0
    OBVIOUS
  <2> QED BY <1>2, <1>3, <2>1, <2>2
<1>5. CASE FinishDirect
  <2>1. Ok \in BOOLEAN
    BY DEF Ok
  <2>2. ~Awaits(Top) /\ Commit(Pop(Top, Ok))
    BY <1>5, <1>1 DEF FinishDirect, Awaits
  <2>3. StateInv(Pop(Top, Ok), {}, ids)
    BY <1>1, <1>4, <2>1, <2>2, PopFacts
  <2> QED BY <2>2, <2>3, CommitKeeps
<1>6. ASSUME NEW ok \in BOOLEAN, Top.type = "async", NEW after,
             after = (IF ok THEN TakesEffect(Pop(Top, ok), Top.id) ELSE Pop(Top, ok)),
             Commit(Send(after, Message("callback", Top.id, Top.self, Top.caller, ok)))
      PROVE  CallsInv'
  <2>1. Awaits(Top) /\ ShardOf[Top.self] # ShardOf[Top.caller]
    BY <1>1, <1>2, <1>6 DEF Awaits, FrameInv
  <2>2. PICK s : s = Pop(Top, ok)
    OBVIOUS
  <2>3. /\ s \in StateOf /\ StateInv(s, {} \cup {Top.id}, ids) /\ (~ok => ~MadeWithin(s, Top.id))
    BY <1>1, <1>4, <2>1, <2>2, PopFacts DEF StateInv
  <2>4. /\ after \in StateOf /\ after.net = s.net /\ after.issued = s.issued /\ after.made = s.made
        /\ after.answers = s.answers
        /\ after.effects = IF ok THEN s.effects \cup {Top.id} ELSE s.effects
    <3>1. CASE ok
      BY <1>2, <1>6, <2>2, <2>3, <3>1, EffectFacts
    <3>2. CASE ~ok
      BY <1>6, <2>2, <2>3, <3>2
    <3> QED BY <3>1, <3>2
  <2>5. PICK m : m = Message("callback", Top.id, Top.self, Top.caller, ok)
    OBVIOUS
  <2>6. /\ m \in MessageOf /\ m.type = "callback" /\ m.id = Top.id /\ m.ok = ok
        /\ m.from = Top.self /\ m.to = Top.caller
    BY <1>2, <2>5, MessageFacts
  <2>7. PICK t : t = Send(after, m)
    OBVIOUS
  <2>8. /\ t \in StateOf /\ t.net = s.net \cup {m} /\ t.issued = s.issued /\ t.made = s.made
        /\ t.answers = s.answers
        /\ t.effects = IF ok THEN s.effects \cup {Top.id} ELSE s.effects
    BY <2>4, <2>6, <2>7, SendFacts
  <2>9. PICK a : a = [id |-> Top.id, ok |-> ok]
    OBVIOUS
  <2>10. a.id = Top.id /\ a.ok = ok
    BY <2>9
  <2>11. Resolves(s, t, Top.id, m, a)
    <3>1. CASE ok
      BY <2>1, <2>6, <2>8, <2>10, <3>1 DEF Resolves
    <3>2. CASE ~ok
      BY <2>1, <2>3, <2>6, <2>8, <2>10, <3>2 DEF Resolves
    <3> QED BY <3>1, <3>2
  <2>12. StateInv(t, {}, ids)
    BY <2>3, <2>11, ResolveKeeps
  <2> QED BY <1>6, <2>5, <2>7, <2>12, CommitKeeps
<1>7. CASE sendCallbackToCurrentCaller
  <2>1. /\ Top.type = "async"
        /\ Commit(Send(TakesEffect(Pop(Top, TRUE), Top.id),
                       Message("callback", Top.id, Top.self, Top.caller, TRUE)))
    BY <1>7 DEF sendCallbackToCurrentCaller
  <2> QED BY <1>6, <2>1
<1>8. CASE FailAsync
  <2>1. /\ Top.type = "async"
        /\ Commit(Send(Pop(Top, FALSE), Message("callback", Top.id, Top.self, Top.caller, FALSE)))
    BY <1>8 DEF FailAsync
  <2> QED BY <1>6, <2>1
<1> QED BY <1>5, <1>7, <1>8

(* A step that starts a transaction's first execution.                     *)
LEMMA RootKeeps ==
  ASSUME CallsInv, NEW f, NewFrameInv(f, {}, ids, 0), ids' = ids, frames' = <<f>>,
         st' \in StateOf, SameLedger(f.saved, st'), phase' \in Active
  PROVE  CallsInv'
<1>1. /\ FramesInv(<<>>, ids) /\ Len(<<>>) = 0 /\ Pending(<<>>, Len(<<>>)) = {}
  BY NoFrames
<1>2. PICK fs : fs = <<>>
  OBVIOUS
<1>3. FramesInv(fs, ids) /\ Len(fs) = 0 /\ Pending(fs, Len(fs)) = {}
  BY <1>1, <1>2
<1>4. <<f>> = Append(fs, f)
  BY <1>2
<1>5. ids \in Nat /\ 0 < MaxDepth
  BY AsyncAssumption DEF CallsInv
<1> QED BY <1>3, <1>4, <1>5, PushKeeps

(* A transaction of a user.                                                *)
LEMMA RunKeeps ==
  ASSUME CallsInv, RunDirect
  PROVE  CallsInv'
<1>1. phase = "idle" /\ phase' = "running" /\ UNCHANGED <<st, ids>>
  BY DEF RunDirect
<1>2. PICK c \in Contracts : frames' = <<Frame("root", "direct", c, c, 0, 0, 0, st)>>
  BY DEF RunDirect
<1>3. st \in StateOf /\ StateInv(st, {}, ids)
  BY <1>1, NoFrames DEF CallsInv, StateInv
<1>4. PICK f : f = Frame("root", "direct", c, c, 0, 0, 0, st)
  OBVIOUS
<1>5. f \in FrameOf /\ f.kind = "root" /\ f.type = "direct" /\ f.within = 0 /\ f.saved = st
  BY <1>3, <1>4, FrameFacts
<1>6. ~Awaits(f)
  BY <1>5 DEF Awaits
<1>7. NewFrameInv(f, {}, ids, 0)
  BY <1>3, <1>5, <1>6 DEF NewFrameInv, With
<1>8. st' \in StateOf /\ SameLedger(f.saved, st')
  BY <1>1, <1>3, <1>5 DEF SameLedger
<1> QED BY <1>1, <1>2, <1>4, <1>7, <1>8, RootKeeps DEF Active

(* A message from another shard is taken once and starts a call or a       *)
(* callback.                                                               *)
LEMMA DeliverKeeps ==
  ASSUME CallsInv, Deliver
  PROVE  CallsInv'
<1>1. phase = "idle" /\ UNCHANGED ids
  BY DEF Deliver
<1>2. PICK m \in st.net :
        LET taken == [st EXCEPT !.net = @ \ {m}]
        IN  \/ /\ m.type = "call" /\ st' = taken /\ phase' = "running"
               /\ frames' = <<Frame("root", "async", m.to, m.from, m.id, m.id, 0, taken)>>
            \/ /\ m.type = "callback" /\ st' = Answer(taken, m.id, m.ok)
               /\ frames' = <<Frame("root", "callback", m.to, m.from, m.id, 0, 0, st')>>
               /\ phase' = IF m.to \in HasCallback THEN "running" ELSE "ended"
  BY DEF Deliver
<1>3. st \in StateOf /\ StateInv(st, {}, ids)
  BY <1>1, NoFrames DEF CallsInv, StateInv
<1>4. /\ m \in MessageOf /\ m.id \in Nat /\ m.from \in Contracts /\ m.to \in Contracts
      /\ m.ok \in BOOLEAN /\ ShardOf[m.from] # ShardOf[m.to]
  <2>1. m \in MessageOf
    BY <1>2, <1>3 DEF StateOf
  <2>2. ShardOf[m.from] # ShardOf[m.to]
    BY <1>3 DEF StateInv, AccountInv
  <2> QED BY <2>1, <2>2, Zenon DEF MessageOf
<1>5. PICK taken : taken = [st EXCEPT !.net = @ \ {m}]
  OBVIOUS
<1>6. /\ taken \in StateOf /\ taken.net = st.net \ {m}
      /\ taken.issued = st.issued /\ taken.made = st.made
      /\ taken.effects = st.effects /\ taken.answers = st.answers
  BY <1>3, <1>5, TakenFacts
<1>7. CASE m.type = "call" /\ st' = taken /\ phase' = "running"
           /\ frames' = <<Frame("root", "async", m.to, m.from, m.id, m.id, 0, taken)>>
  <2>1. PICK f : f = Frame("root", "async", m.to, m.from, m.id, m.id, 0, taken)
    OBVIOUS
  <2>2. /\ f \in FrameOf /\ f.kind = "root" /\ f.type = "async" /\ f.within = m.id /\ f.id = m.id
        /\ f.self = m.to /\ f.caller = m.from /\ f.saved = taken
    BY <1>4, <1>6, <2>1, FrameFacts
  <2>3. /\ StateInv(taken, {} \cup {m.id}, ids) /\ ~MadeWithin(taken, m.id)
    BY <1>3, <1>6, <1>7, DeliverCallKeeps
  <2>4. Awaits(f)
    BY <2>2 DEF Awaits
  <2>5. NewFrameInv(f, {}, ids, 0)
    BY <1>4, <2>2, <2>3, <2>4 DEF NewFrameInv, With
  <2>6. st' \in StateOf /\ SameLedger(f.saved, st')
    BY <1>6, <1>7, <2>2 DEF SameLedger
  <2> QED BY <1>1, <1>7, <2>1, <2>5, <2>6, RootKeeps DEF Active
<1>8. CASE m.type = "callback" /\ st' = Answer(taken, m.id, m.ok)
           /\ frames' = <<Frame("root", "callback", m.to, m.from, m.id, 0, 0, st')>>
           /\ phase' = IF m.to \in HasCallback THEN "running" ELSE "ended"
  <2>1. PICK t : t = st'
    OBVIOUS
  <2>2. /\ t \in StateOf /\ t.answers = taken.answers \cup {[id |-> m.id, ok |-> m.ok]}
        /\ t.issued = taken.issued /\ t.made = taken.made
        /\ t.net = taken.net /\ t.effects = taken.effects
    <3>1. taken \in StateOf /\ m.id \in Nat /\ m.ok \in BOOLEAN /\ t = Answer(taken, m.id, m.ok)
      BY <1>4, <1>6, <1>8, <2>1
    <3> QED BY <3>1, AnswerFacts, Zenon
  <2>3. StateInv(t, {}, ids)
    BY <1>3, <1>6, <1>8, <2>2, DeliverCallbackKeeps
  <2>4. PICK f : f = Frame("root", "callback", m.to, m.from, m.id, 0, 0, t)
    OBVIOUS
  <2>5. f \in FrameOf /\ f.kind = "root" /\ f.type = "callback" /\ f.within = 0 /\ f.saved = t
    BY <1>4, <2>2, <2>4, FrameFacts
  <2>6. ~Awaits(f)
    BY <2>5 DEF Awaits
  <2>7. NewFrameInv(f, {}, ids, 0)
    BY <2>3, <2>5, <2>6 DEF NewFrameInv, With
  <2>8. st' \in StateOf /\ SameLedger(f.saved, st')
    BY <2>1, <2>2, <2>5 DEF SameLedger
  <2>9. phase' \in Active /\ frames' = <<f>>
    BY <1>8, <2>1, <2>4 DEF Active
  <2> QED BY <1>1, <2>7, <2>8, <2>9, RootKeeps
<1> QED BY <1>2, <1>5, <1>7, <1>8

(* Every step keeps the inductive invariant.                               *)
LEMMA CallsStep ==
  ASSUME CallsInv, [Next]_vars
  PROVE  CallsInv'
<1>1. CASE Transfer \/ returnData \/ Return \/ FailExecution
  BY <1>1, HookKeeps
<1>2. CASE UNCHANGED vars
  BY <1>2 DEF vars, CallsInv
<1>3. CASE Finish
  BY <1>3, FinishNestedKeeps, FinishDestKeeps, FinishRootKeeps DEF Finish
<1> QED BY <1>1, <1>2, <1>3, NestedKeeps, AsyncKeeps, RunKeeps, DeliverKeeps DEF Next, Idle

(* The inductive invariant holds initially.                                *)
LEMMA CallsInit ==
  ASSUME Init
  PROVE  CallsInv
<1>1. /\ st = [net |-> {}, out |-> NoOutput, data |-> FALSE,
               issued |-> {}, made |-> {}, effects |-> {}, answers |-> {}]
      /\ frames = <<>> /\ phase = "idle" /\ ids = 0
  BY DEF Init
<1>2. NoOutput \in [Contracts -> Seq(TransferOf)]
  BY DEF NoOutput
<1>3. st \in StateOf
  BY <1>1, <1>2 DEF StateOf
<1>4. st.net = {} /\ st.issued = {} /\ st.made = {} /\ st.effects = {} /\ st.answers = {}
  BY <1>1
<1>5. StateInv(st, {}, 0)
  BY <1>3, <1>4 DEF StateInv, AccountInv, OutcomeInv
<1>6. Len(frames) <= MaxDepth
  BY <1>1, AsyncAssumption
<1> QED BY <1>1, <1>5, <1>6, NoFrames DEF CallsInv

-----------------------------------------------------------------------------
(* The theorems.                                                           *)

(* Between transactions every asynchronous call that was made is in        *)
(* exactly one message or has exactly one answer, whatever calls failed,   *)
(* and within one the messages, answers and frames name calls that were    *)
(* made (asyncCall.go, handleAsyncCallBreakpoint and                       *)
(* sendCallbackToCurrentCaller).                                           *)
THEOREM NoCallIsLostOrDoubled == Spec => []CallsAreAnsweredOnce
<1>1. CallsInv => CallsAreAnsweredOnce
  <2> SUFFICES ASSUME CallsInv PROVE CallsAreAnsweredOnce
    OBVIOUS
  <2>1. AccountInv(st, Pending(frames, Len(frames)), ids)
    BY DEF CallsInv, StateInv
  <2>2. TypeOK
    BY <2>1 DEF TypeOK, AccountInv, CallsInv
  <2>c. ASSUME NEW A, NEW B, NEW x, (A = {x} /\ B = {}) \/ (A = {} /\ B = {x})
        PROVE  Cardinality(A) + Cardinality(B) = 1
    <3>1. Cardinality({}) = 0 /\ Cardinality({x}) = 1
      BY FS_EmptySet, FS_Singleton
    <3>2. CASE A = {x} /\ B = {}
      BY <3>1, <3>2
    <3>3. CASE A = {} /\ B = {x}
      BY <3>1, <3>3
    <3> QED BY <2>c, <3>2, <3>3
  <2>3. ASSUME phase = "idle", NEW id \in st.issued
        PROVE  Cardinality({m \in st.net : m.id = id})
                 + Cardinality({a \in st.answers : a.id = id}) = 1
    <3>1. Pending(frames, Len(frames)) = {}
      BY <2>3, NoFrames DEF CallsInv
    <3>2. AccountInv(st, {}, ids)
      BY <2>1, <3>1
    <3> DEFINE A == {k \in st.net : k.id = id}
               B == {a \in st.answers : a.id = id}
    <3>4. CASE HasMessage(st, id)
      <4>1. PICK m \in st.net : m.id = id
        BY <3>4 DEF HasMessage
      <4>2. A = {m}
        BY <3>2, <4>1 DEF AccountInv
      <4>3. B = {}
        BY <3>2, <4>1 DEF AccountInv, HasAnswer
      <4> HIDE DEF A, B
      <4>4. Cardinality(A) + Cardinality(B) = 1
        BY <2>c, <4>2, <4>3
      <4> QED BY <4>4 DEF A, B
    <3>5. CASE HasAnswer(st, id) /\ ~HasMessage(st, id)
      <4>1. PICK b \in st.answers : b.id = id
        BY <3>5 DEF HasAnswer
      <4>2. B = {b}
        BY <3>2, <4>1 DEF AccountInv
      <4>3. A = {}
        BY <3>5 DEF HasMessage
      <4> HIDE DEF A, B
      <4>4. Cardinality(A) + Cardinality(B) = 1
        BY <2>c, <4>2, <4>3
      <4> QED BY <4>4 DEF A, B
    <3> QED BY <3>2, <3>4, <3>5 DEF AccountInv
  <2> QED BY <2>2, <2>3 DEF CallsAreAnsweredOnce
<1>2. Init => CallsInv
  BY CallsInit
<1>3. CallsInv /\ [Next]_vars => CallsInv'
  BY CallsStep
<1> QED BY <1>1, <1>2, <1>3, PTL DEF Spec

(* An answer reports success just when the effects of its call stand, and  *)
(* a call whose failure is reported has left no calls behind               *)
(* (finishExecuteOnDestContext, createCallbackContractCallInput).          *)
THEOREM AnswersAreTrue == Spec => []AnswersTellOutcome
<1>1. CallsInv => AnswersTellOutcome
  BY DEF CallsInv, StateInv, OutcomeInv, MadeWithin, AnswersTellOutcome
<1>2. Init => CallsInv
  BY CallsInit
<1>3. CallsInv /\ [Next]_vars => CallsInv'
  BY CallsStep
<1> QED BY <1>1, <1>2, <1>3, PTL DEF Spec
=============================================================================
