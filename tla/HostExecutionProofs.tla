------------------------ MODULE HostExecutionProofs ------------------------
(***************************************************************************)
(* Proofs about HostExecution, for any accounts, codes, values, number of  *)
(* host calls and depth of calls: types, balances and the stacks of        *)
(* contexts; then what the output of a transaction reports, what a failed  *)
(* call gives back to its caller, and that value is conserved.             *)
(***************************************************************************)
EXTENDS HostExecution, SequenceTheorems, SumProofs

-----------------------------------------------------------------------------
(* Sequences used as stacks.                                               *)

(* Front and Last of a stack that is not empty.                            *)
LEMMA StackPop ==
  ASSUME NEW S, NEW s \in Seq(S), s # <<>>
  PROVE  /\ Last(s) \in S /\ Front(s) \in Seq(S)
         /\ Len(Front(s)) = Len(s) - 1
         /\ \A i \in 1 .. Len(s) - 1 : Front(s)[i] = s[i]
<1>1. PICK n \in Nat : n = Len(s) /\ n # 0
  BY EmptySeq
<1>2. \A i \in 1 .. n : s[i] \in S
  BY <1>1, ElementOfSeq
<1>3. /\ SubSeq(s, 1, n - 1) \in Seq(S)
      /\ Len(SubSeq(s, 1, n - 1)) = n - 1
      /\ \A i \in 1 .. n - 1 : SubSeq(s, 1, n - 1)[i] = s[i]
  <2>1. \A i \in 1 .. n - 1 : s[i] \in S
    BY <1>1, <1>2
  <2>2. /\ SubSeq(s, 1, n - 1) \in Seq(S)
        /\ Len(SubSeq(s, 1, n - 1)) = IF 1 <= n - 1 THEN (n - 1) - 1 + 1 ELSE 0
        /\ \A i \in 1 .. (n - 1) - 1 + 1 : SubSeq(s, 1, n - 1)[i] = s[1 + i - 1]
    BY <2>1, SubSeqProperties, 1 \in Int, n - 1 \in Int
  <2> QED BY <1>1, <2>2
<1>4. Last(s) \in S
  BY <1>1, <1>2 DEF Last
<1> QED BY <1>1, <1>3, <1>4 DEF Front

-----------------------------------------------------------------------------
(* What the operators on output states return.                             *)

(* SetAccount returns an output state.                                     *)
LEMMA SetAccountTyped ==
  ASSUME NEW out \in OutputType, NEW a \in Addresses, NEW acc \in AccountType
  PROVE  SetAccount(out, a, acc) \in OutputType
  BY DEF SetAccount, OutputType

(* So do the operators that list, delete and create accounts.              *)
LEMMA SimpleOutputsTyped ==
  ASSUME NEW out \in OutputType, NEW a \in Addresses
  PROVE  /\ GetOutputAccount(out, a) \in OutputType
         /\ DeleteOutputAccount(out, a) \in OutputType
         /\ NewVMOutput \in OutputType
         /\ NewVMOutputAccount \in AccountType
         /\ \A r \in ReturnCodes : SetReturnCode(out, r) \in OutputType
<1>1. NewVMOutputAccount \in AccountType
  BY EmptySeq DEF NewVMOutputAccount, AccountType
<1>2. NewVMOutput \in OutputType
  BY <1>1 DEF NewVMOutput, OutputType, ReturnCodes
<1>3. GetOutputAccount(out, a) \in OutputType
  BY DEF GetOutputAccount, OutputType
<1>4. DeleteOutputAccount(out, a) \in OutputType
  BY <1>1 DEF DeleteOutputAccount, OutputType
<1>5. \A r \in ReturnCodes : SetReturnCode(out, r) \in OutputType
  BY DEF SetReturnCode, OutputType
<1> QED BY <1>1, <1>2, <1>3, <1>4, <1>5

(* mergeVMOutputs merges two output states into one.                       *)
LEMMA MergeTyped ==
  ASSUME NEW left \in OutputType, NEW right \in OutputType
  PROVE  MergeVMOutputs(left, right) \in OutputType
<1>1. ASSUME NEW l \in AccountType, NEW r \in AccountType
      PROVE  MergeOutputAccounts(l, r) \in AccountType
  <2>1. l.transfers \in Seq(Values) /\ r.transfers \in Seq(Values)
    BY DEF AccountType
  <2>2. PICK m \in Nat, n \in Nat : m = Len(l.transfers) /\ n = Len(r.transfers)
    BY <2>1, LenProperties
  <2>3. \A i \in m + 1 .. n : r.transfers[i] \in Values
    BY <2>1, <2>2, ElementOfSeq
  <2>4. SubSeq(r.transfers, m + 1, n) \in Seq(Values)
    BY <2>3, SubSeqProperties, m + 1 \in Int, n \in Int
  <2>5. l.transfers \o SubSeq(r.transfers, m + 1, n) \in Seq(Values)
    BY <2>1, <2>4, ConcatProperties
  <2>6. /\ r.delta \in Int
        /\ (IF r.store = NoUpdate THEN l.store ELSE r.store) \in Values \cup {NoUpdate}
        /\ (IF r.code = NoCode THEN l.code ELSE r.code) \in Codes \cup {NoCode}
        /\ (IF r.nonce > l.nonce THEN r.nonce ELSE l.nonce) \in Nat
    BY DEF AccountType
  <2> QED BY <2>2, <2>5, <2>6 DEF MergeOutputAccounts, AccountType
<1>2. \A a \in Addresses : left.accounts[a] \in AccountType /\ right.accounts[a] \in AccountType
  BY DEF OutputType
<1>3. [a \in Addresses |-> IF a \in right.listed
         THEN MergeOutputAccounts(left.accounts[a], right.accounts[a])
         ELSE left.accounts[a]] \in [Addresses -> AccountType]
  BY <1>1, <1>2
<1> QED BY <1>3 DEF MergeVMOutputs, OutputType

(* newVMOutput followed by a merge copies an output state.                 *)
LEMMA CopyTyped ==
  ASSUME NEW out \in OutputType
  PROVE  Copy(out) \in OutputType
<1>1. NewVMOutput \in OutputType
  BY EmptySeq DEF NewVMOutput, NewVMOutputAccount, OutputType, AccountType, ReturnCodes
<1> QED BY <1>1, MergeTyped DEF Copy

(* The operators on code return output states.                             *)
LEMMA CodeTyped ==
  ASSUME NEW out \in OutputType, NEW a \in Addresses
  PROVE  /\ CacheCode(out, a) \in OutputType
         /\ \A code \in Codes \cup {NoCode} : DeployCode(out, a, code) \in OutputType
         /\ \A updates : RemoveNonUpdatedCode(out, updates) \in OutputType
         /\ \A updates : GetVMOutput(out, a, updates) \in OutputType
<1>1. out.accounts[a] \in AccountType
  BY DEF OutputType
<1>2. GetCode(out, a) \in Codes \cup {NoCode}
  BY <1>1, HostAssumption DEF GetCode, AccountType
<1>3. \A code \in Codes \cup {NoCode} : [out.accounts[a] EXCEPT !.code = code] \in AccountType
  BY <1>1 DEF AccountType
<1>4. CacheCode(out, a) \in OutputType
  BY <1>2, <1>3, SetAccountTyped DEF CacheCode
<1>5. \A code \in Codes \cup {NoCode} : DeployCode(out, a, code) \in OutputType
  BY <1>3, SetAccountTyped DEF DeployCode
<1>6. ASSUME NEW o \in OutputType, NEW updates
      PROVE  RemoveNonUpdatedCode(o, updates) \in OutputType
  <2>1. \A b \in Addresses : /\ o.accounts[b] \in AccountType
                            /\ [o.accounts[b] EXCEPT !.code = NoCode] \in AccountType
    BY DEF OutputType, AccountType
  <2>2. [b \in Addresses |->
           IF b \in o.listed \ updates THEN [o.accounts[b] EXCEPT !.code = NoCode]
           ELSE o.accounts[b]] \in [Addresses -> AccountType]
    BY <2>1
  <2> QED BY <2>2 DEF RemoveNonUpdatedCode, OutputType
<1>7. \A updates : GetVMOutput(out, a, updates) \in OutputType
  BY <1>6, SimpleOutputsTyped DEF GetVMOutput
<1> QED BY <1>4, <1>5, <1>6, <1>7

(* The operators that move value return output states.                     *)
LEMMA ValueTyped ==
  ASSUME NEW out \in OutputType, NEW a \in Addresses, NEW b \in Addresses,
         NEW v \in Values
  PROVE  /\ TransferValueOnly(out, a, b, v) \in OutputType
         /\ AddTxValueToAccount(out, a, v) \in OutputType
<1>0. v \in Int
  BY HostAssumption
<1>1. \A o \in OutputType, c \in Addresses :
        /\ [o.accounts[c] EXCEPT !.delta = @ - v] \in AccountType
        /\ [o.accounts[c] EXCEPT !.delta = @ + v] \in AccountType
  <2> TAKE o \in OutputType, c \in Addresses
  <2>1. o.accounts[c] \in AccountType
    BY DEF OutputType
  <2> QED BY <1>0, <2>1 DEF AccountType
<1>2. AddTxValueToAccount(out, a, v) \in OutputType
  BY <1>1, SetAccountTyped DEF AddTxValueToAccount
<1>3. TransferValueOnly(out, a, b, v) \in OutputType
  <2> DEFINE from == SetAccount(out, b, [out.accounts[b] EXCEPT !.delta = @ - v])
  <2>1. from \in OutputType
    BY <1>1, SetAccountTyped
  <2> HIDE DEF from
  <2>2. SetAccount(from, a, [from.accounts[a] EXCEPT !.delta = @ + v]) \in OutputType
    BY <1>1, <2>1, SetAccountTyped
  <2> QED BY <2>2 DEF TransferValueOnly, from
<1> QED BY <1>2, <1>3

(* IncreaseNonce returns an output state.                                  *)
LEMMA NonceTyped ==
  ASSUME NEW out \in OutputType, NEW a \in Addresses
  PROVE  IncreaseNonce(out, a) \in OutputType
<1>1. out.accounts[a] \in AccountType
  BY DEF OutputType
<1>2. GetNonce(out, a) \in Nat
  BY <1>1, HostAssumption DEF GetNonce, AccountType
<1>3. [out.accounts[a] EXCEPT !.nonce = GetNonce(out, a) + 1] \in AccountType
  BY <1>1, <1>2 DEF AccountType
<1> QED BY <1>3, SetAccountTyped DEF IncreaseNonce

-----------------------------------------------------------------------------
(* Output states without overdraft, and the operators that keep them so.   *)

GoodOutput == {out \in OutputType : Solvent(out)}
Funds(a) == IF a \in Existing THEN Balance[a] ELSE 0

(* What an account owns on the chain is a natural number.                  *)
LEMMA FundsTyped == \A a \in Addresses : Funds(a) \in Nat
  BY HostAssumption DEF Funds

(* Solvent in terms of Funds.                                              *)
LEMMA SolventIs ==
  ASSUME NEW out \in OutputType
  PROVE  Solvent(out) <=> \A a \in Addresses : out.accounts[a].delta + Funds(a) >= 0
  BY DEF Solvent, Funds

(* Replacing an account by one without overdraft.                          *)
LEMMA GoodSetAccount ==
  ASSUME NEW out \in GoodOutput, NEW a \in Addresses, NEW acc \in AccountType,
         acc.delta + Funds(a) >= 0
  PROVE  SetAccount(out, a, acc) \in GoodOutput
<1> DEFINE new == SetAccount(out, a, acc)
<1>1. out \in OutputType /\ new \in OutputType
  BY SetAccountTyped DEF GoodOutput
<1>2. \A b \in Addresses : new.accounts[b] = IF b = a THEN acc ELSE out.accounts[b]
  BY <1>1 DEF SetAccount, OutputType
<1>3. \A b \in Addresses : out.accounts[b].delta + Funds(b) >= 0
  BY <1>1, SolventIs DEF GoodOutput
<1> HIDE DEF new
<1>4. \A b \in Addresses : new.accounts[b].delta + Funds(b) >= 0
  BY <1>2, <1>3
<1>5. new \in GoodOutput
  BY <1>1, <1>4, SolventIs DEF GoodOutput
<1> QED BY <1>5 DEF new

(* A state whose balance deltas are unchanged or zero.                     *)
LEMMA GoodDeltas ==
  ASSUME NEW out \in GoodOutput, NEW new \in OutputType,
         \A b \in Addresses : \/ new.accounts[b].delta = out.accounts[b].delta
                              \/ new.accounts[b].delta = 0
  PROVE  new \in GoodOutput
<1>1. \A b \in Addresses : out.accounts[b].delta + Funds(b) >= 0
  BY SolventIs DEF GoodOutput
<1>2. \A b \in Addresses : new.accounts[b].delta + Funds(b) >= 0
  BY <1>1, FundsTyped
<1> QED BY <1>2, SolventIs DEF GoodOutput

(* The empty output state overdraws nothing.                               *)
LEMMA GoodNew == NewVMOutput \in GoodOutput
<1>1. NewVMOutput \in OutputType
  BY EmptySeq DEF NewVMOutput, NewVMOutputAccount, OutputType, AccountType, ReturnCodes
<1>2. \A b \in Addresses : NewVMOutput.accounts[b].delta + Funds(b) >= 0
  BY FundsTyped DEF NewVMOutput, NewVMOutputAccount
<1> QED BY <1>1, <1>2, SolventIs DEF GoodOutput

(* mergeOutputAccounts takes one of two deltas, it never adds them.        *)
LEMMA GoodMerge ==
  ASSUME NEW left \in GoodOutput, NEW right \in GoodOutput
  PROVE  MergeVMOutputs(left, right) \in GoodOutput
<1> DEFINE new == MergeVMOutputs(left, right)
<1>1. left \in OutputType /\ right \in OutputType /\ new \in OutputType
  BY MergeTyped DEF GoodOutput
<1>2. \A b \in Addresses : \/ new.accounts[b].delta = right.accounts[b].delta
                           \/ new.accounts[b].delta = left.accounts[b].delta
  BY DEF MergeVMOutputs, MergeOutputAccounts
<1>3. \A b \in Addresses : /\ left.accounts[b].delta + Funds(b) >= 0
                           /\ right.accounts[b].delta + Funds(b) >= 0
  BY <1>1, SolventIs DEF GoodOutput
<1> HIDE DEF new
<1>4. \A b \in Addresses : new.accounts[b].delta + Funds(b) >= 0
  BY <1>2, <1>3
<1>5. new \in GoodOutput
  BY <1>1, <1>4, SolventIs DEF GoodOutput
<1> QED BY <1>5 DEF new

(* The state that PushState puts on the stack.                             *)
LEMMA GoodCopy ==
  ASSUME NEW out \in GoodOutput
  PROVE  Copy(out) \in GoodOutput
  BY GoodNew, GoodMerge DEF Copy

(* DeleteOutputAccount and a return code overdraw nothing.                 *)
LEMMA GoodSimple ==
  ASSUME NEW out \in GoodOutput, NEW a \in Addresses
  PROVE  /\ DeleteOutputAccount(out, a) \in GoodOutput
         /\ \A r \in ReturnCodes : SetReturnCode(out, r) \in GoodOutput
<1>1. out \in OutputType
  BY DEF GoodOutput
<1>2. DeleteOutputAccount(out, a) \in GoodOutput
  <2>1. DeleteOutputAccount(out, a) \in OutputType
    BY <1>1, SimpleOutputsTyped
  <2>2. \A b \in Addresses :
          \/ DeleteOutputAccount(out, a).accounts[b].delta = out.accounts[b].delta
          \/ DeleteOutputAccount(out, a).accounts[b].delta = 0
    BY <1>1 DEF DeleteOutputAccount, OutputType, NewVMOutputAccount
  <2> QED BY <2>1, <2>2, GoodDeltas
<1>3. ASSUME NEW r \in ReturnCodes PROVE SetReturnCode(out, r) \in GoodOutput
  <2>1. SetReturnCode(out, r) \in OutputType
    BY <1>1, SimpleOutputsTyped
  <2>2. SetReturnCode(out, r).accounts = out.accounts
    BY <1>1 DEF SetReturnCode, OutputType
  <2> QED BY <2>1, <2>2, GoodDeltas
<1> QED BY <1>2, <1>3

(* Code and nonces leave the balance deltas alone.                         *)
LEMMA GoodCode ==
  ASSUME NEW out \in GoodOutput, NEW a \in Addresses
  PROVE  /\ CacheCode(out, a) \in GoodOutput
         /\ \A code \in Codes \cup {NoCode} : DeployCode(out, a, code) \in GoodOutput
         /\ \A updates : GetVMOutput(out, a, updates) \in GoodOutput
         /\ IncreaseNonce(out, a) \in GoodOutput
<1>1. out \in OutputType
  BY DEF GoodOutput
<1>2. ASSUME NEW acc, acc.delta = out.accounts[a].delta,
             SetAccount(out, a, acc) \in OutputType
      PROVE  SetAccount(out, a, acc) \in GoodOutput
  <2>1. \A b \in Addresses : SetAccount(out, a, acc).accounts[b] =
                             IF b = a THEN acc ELSE out.accounts[b]
    BY <1>1 DEF SetAccount, OutputType
  <2> QED BY <1>2, <2>1, GoodDeltas
<1>3. \A code : [out.accounts[a] EXCEPT !.code = code].delta = out.accounts[a].delta
  BY <1>1 DEF OutputType, AccountType
<1>4. \A n : [out.accounts[a] EXCEPT !.nonce = n].delta = out.accounts[a].delta
  BY <1>1 DEF OutputType, AccountType
<1>5. CacheCode(out, a) \in GoodOutput
  BY <1>1, <1>2, <1>3, CodeTyped DEF CacheCode
<1>6. \A code \in Codes \cup {NoCode} : DeployCode(out, a, code) \in GoodOutput
  BY <1>1, <1>2, <1>3, CodeTyped DEF DeployCode
<1>7. IncreaseNonce(out, a) \in GoodOutput
  BY <1>1, <1>2, <1>4, NonceTyped DEF IncreaseNonce
<1>8. ASSUME NEW updates PROVE GetVMOutput(out, a, updates) \in GoodOutput
  <2>1. GetVMOutput(out, a, updates) \in OutputType
    BY <1>1, CodeTyped
  <2>2. \A b \in Addresses :
          GetVMOutput(out, a, updates).accounts[b].delta = out.accounts[b].delta
    BY <1>1 DEF GetVMOutput, RemoveNonUpdatedCode, GetOutputAccount, OutputType, AccountType
  <2> QED BY <2>1, <2>2, GoodDeltas
<1> QED BY <1>5, <1>6, <1>7, <1>8

(* TransferValueOnly after hasSufficientBalance.                           *)
LEMMA GoodTransfer ==
  ASSUME NEW out \in GoodOutput, NEW dest \in Addresses, NEW sender \in Addresses,
         NEW v \in Values, HasSufficientBalance(out, sender, v)
  PROVE  TransferValueOnly(out, dest, sender, v) \in GoodOutput
<1>0. v \in Nat /\ out \in OutputType
  BY HostAssumption DEF GoodOutput
<1> DEFINE paid == [out.accounts[sender] EXCEPT !.delta = @ - v]
           from == SetAccount(out, sender, paid)
           got == [from.accounts[dest] EXCEPT !.delta = @ + v]
<1>1. out.accounts[sender] \in AccountType /\ out.accounts[sender].delta + Funds(sender) >= 0
  BY <1>0, SolventIs DEF OutputType, GoodOutput
<1>2. paid \in AccountType /\ paid.delta = out.accounts[sender].delta - v
  BY <1>0, <1>1 DEF AccountType
<1>3. out.accounts[sender].delta \in Int /\ Funds(sender) \in Nat
  BY <1>1, FundsTyped DEF AccountType
<1>4. out.accounts[sender].delta + Funds(sender) >= v
  <2>1. CASE sender \in Existing
    BY <1>3, <2>1 DEF HasSufficientBalance, Funds
  <2>2. CASE sender \notin Existing
    BY <1>1, <1>3, <2>2 DEF HasSufficientBalance
  <2> QED BY <2>1, <2>2
<1>5. paid.delta + Funds(sender) >= 0
  BY <1>0, <1>2, <1>3, <1>4
<1>6. from \in GoodOutput
  BY <1>2, <1>5, GoodSetAccount
<1> HIDE DEF paid, from
<1>7. from.accounts[dest] \in AccountType /\ from.accounts[dest].delta + Funds(dest) >= 0
  BY <1>6, SolventIs DEF OutputType, GoodOutput
<1>8. from.accounts[dest].delta \in Int /\ Funds(dest) \in Nat
  BY <1>7, FundsTyped DEF AccountType
<1>9. got \in AccountType /\ got.delta = from.accounts[dest].delta + v
  BY <1>0, <1>7 DEF AccountType
<1>10. got.delta + Funds(dest) >= 0
  BY <1>0, <1>7, <1>8, <1>9
<1> HIDE DEF got
<1>11. SetAccount(from, dest, got) \in GoodOutput
  BY <1>6, <1>9, <1>10, GoodSetAccount
<1> QED BY <1>11 DEF TransferValueOnly, paid, from, got

(* The value of the transaction is added, never taken.                     *)
LEMMA GoodTxValue ==
  ASSUME NEW out \in GoodOutput, NEW a \in Addresses, NEW v \in Values
  PROVE  AddTxValueToAccount(out, a, v) \in GoodOutput
<1> DEFINE got == [out.accounts[a] EXCEPT !.delta = @ + v]
<1>1. v \in Nat /\ out \in OutputType
  BY HostAssumption DEF GoodOutput
<1>2. out.accounts[a] \in AccountType /\ out.accounts[a].delta + Funds(a) >= 0
  BY <1>1, SolventIs DEF OutputType, GoodOutput
<1>3. got \in AccountType /\ got.delta = out.accounts[a].delta + v
  BY <1>1, <1>2 DEF AccountType
<1>4. out.accounts[a].delta \in Int /\ Funds(a) \in Nat
  BY <1>2, FundsTyped DEF AccountType
<1>5. got.delta + Funds(a) >= 0
  BY <1>1, <1>2, <1>3, <1>4
<1> QED BY <1>3, <1>5, GoodSetAccount DEF AddTxValueToAccount

-----------------------------------------------------------------------------
(* The nest of calls: cs is the stack of calls, ss the stack of storage    *)
(* addresses and sa the active one.  Own(cs, i) are the frames up to i     *)
(* that have storage of their own.                                         *)

Own(cs, i) == {j \in 1 .. i : cs[j].kind \in {"root", "dest"}}

Rooted(cs) ==
  /\ Len(cs) >= 1 /\ cs[1].kind = "root"
  /\ \A i \in 2 .. Len(cs) : cs[i].kind # "root"

Nest(cs, ss, sa) ==
  /\ Rooted(cs)
  /\ Len(ss) = Cardinality(Own(cs, Len(cs))) - 1
  /\ sa = cs[Max(Own(cs, Len(cs)))].target
  /\ \A i \in Own(cs, Len(cs)) \ {1} :
       ss[Cardinality(Own(cs, i)) - 1] = cs[Max(Own(cs, i - 1))].target

(* The calls on their own context among the first i calls.                 *)
LEMMA OwnFacts ==
  ASSUME NEW cs, NEW n \in Nat, n >= 1, cs[1].kind = "root", NEW i \in 1 .. n
  PROVE  /\ 1 \in Own(cs, i) /\ IsFiniteSet(Own(cs, i))
         /\ Cardinality(Own(cs, i)) \in Nat
         /\ Max(Own(cs, i)) \in 1 .. i
         /\ Cardinality(Own(cs, i)) <= Cardinality(Own(cs, n))
         /\ i \in Own(cs, n) \ {1} => Cardinality(Own(cs, i)) >= 2
<1>1. \A k \in 1 .. n : 1 \in Own(cs, k) /\ Own(cs, k) \subseteq 1 .. k
  BY DEF Own
<1>2. \A k \in 1 .. n : IsFiniteSet(Own(cs, k)) /\ Cardinality(Own(cs, k)) \in Nat
  <2> TAKE k \in 1 .. n
  <2>1. IsFiniteSet(1 .. k)
    BY FS_Interval
  <2>2. IsFiniteSet(Own(cs, k))
    BY <1>1, <2>1, FS_Subset
  <2> QED BY <2>2, FS_CardinalityType
<1>3. Max(Own(cs, i)) \in 1 .. i
  <2>1. Own(cs, i) \in SUBSET (0 .. i) /\ Own(cs, i) # {} /\ i \in Nat
    BY <1>1
  <2>2. Max(Own(cs, i)) \in Own(cs, i)
    BY <2>1, MaxExists
  <2> QED BY <1>1, <2>2
<1>4. Cardinality(Own(cs, i)) <= Cardinality(Own(cs, n))
  <2>1. Own(cs, i) \in SUBSET Own(cs, n)
    BY DEF Own
  <2>2. n \in 1 .. n
    OBVIOUS
  <2> QED BY <1>2, <2>1, <2>2, FS_Subset
<1>5. ASSUME i \in Own(cs, n) \ {1} PROVE Cardinality(Own(cs, i)) >= 2
  <2>1. i \in Own(cs, i)
    BY <1>5 DEF Own
  <2>2. {1, i} \in SUBSET Own(cs, i)
    BY <1>1, <2>1
  <2>3. Cardinality({1, i}) = 2
    <3>1. IsFiniteSet({1}) /\ Cardinality({1}) = 1
      BY FS_Singleton
    <3>2. Cardinality({1} \cup {i}) = Cardinality({1}) + 1
      BY <1>5, <3>1, FS_AddElement
    <3>3. {1, i} = {1} \cup {i}
      OBVIOUS
    <3> QED BY <3>1, <3>2, <3>3
  <2>4. Cardinality({1, i}) <= Cardinality(Own(cs, i))
    BY <1>2, <2>2, FS_Subset
  <2> QED BY <1>2, <2>3, <2>4
<1> QED BY <1>1, <1>2, <1>3, <1>4, <1>5

(* Own depends on the first i calls only.                                  *)
LEMMA OwnSame ==
  ASSUME NEW cs, NEW ds, NEW n \in Nat, \A j \in 1 .. n : cs[j] = ds[j]
  PROVE  \A i \in 0 .. n : Own(cs, i) = Own(ds, i)
  BY DEF Own

(* The outermost call is nested properly.                                  *)
LEMMA NestRoot ==
  ASSUME NEW f, f.kind = "root"
  PROVE  Nest(<<f>>, <<>>, f.target)
<1>1. Len(<<f>>) = 1 /\ <<f>>[1] = f
  OBVIOUS
<1>2. Own(<<f>>, 1) = {1}
  BY <1>1 DEF Own
<1>3. Cardinality({1}) = 1
  BY FS_Singleton
<1>4. Max({1}) = 1
  BY DEF Max
<1>5. Rooted(<<f>>)
  BY <1>1 DEF Rooted
<1> QED BY <1>1, <1>2, <1>3, <1>4, <1>5, Len(<<>>) = 0 DEF Nest

(* A call pushed on the stack of calls.                                    *)
LEMMA PushFacts ==
  ASSUME NEW n \in Nat, NEW cs, NEW ds, Rooted(cs), Len(cs) = n, Len(ds) = n + 1,
         \A j \in 1 .. n : ds[j] = cs[j], ds[n + 1].kind # "root"
  PROVE  /\ Rooted(ds)
         /\ \A i \in 0 .. n : Own(ds, i) = Own(cs, i)
         /\ ds[n + 1].kind = "dest" => Own(ds, n + 1) = Own(cs, n) \cup {n + 1}
         /\ ds[n + 1].kind # "dest" => Own(ds, n + 1) = Own(cs, n)
<1>3. Rooted(ds)
  <2>1. n >= 1 /\ cs[1].kind = "root" /\ \A i \in 2 .. n : cs[i].kind # "root"
    BY DEF Rooted
  <2>2. \A i \in 2 .. n + 1 : ds[i].kind # "root"
    <3> TAKE i \in 2 .. n + 1
    <3>1. CASE i = n + 1
      BY <3>1
    <3>2. CASE i \in 2 .. n
      BY <2>1, <3>2
    <3>3. i = n + 1 \/ i \in 2 .. n
      OBVIOUS
    <3> QED BY <3>1, <3>2, <3>3
  <2>3. ds[1].kind = "root"
    BY <2>1
  <2> QED BY <2>1, <2>2, <2>3 DEF Rooted
<1>4. \A i \in 0 .. n : Own(ds, i) = Own(cs, i)
  BY OwnSame
<1>5. /\ ds[n + 1].kind = "dest" => Own(ds, n + 1) = Own(cs, n) \cup {n + 1}
      /\ ds[n + 1].kind # "dest" => Own(ds, n + 1) = Own(cs, n)
  <2>1. \A j \in 1 .. n + 1 : j \in 1 .. n \/ j = n + 1
    OBVIOUS
  <2>2. \A j \in 1 .. n : j \in 1 .. n + 1 /\ j # n + 1
    OBVIOUS
  <2>3. n + 1 \in 1 .. n + 1
    OBVIOUS
  <2> QED BY <2>1, <2>2, <2>3 DEF Own
<1> QED BY <1>3, <1>4, <1>5

(* A call on its own context pushes the storage address too.               *)
LEMMA NestPushOwn ==
  ASSUME NEW F, NEW cs \in Seq(F), NEW f \in F, f.kind = "dest",
         NEW T, NEW ss \in Seq(T), NEW sa \in T, Nest(cs, ss, sa)
  PROVE  Nest(Append(cs, f), Append(ss, sa), f.target)
<1> DEFINE ds == Append(cs, f)
           ts == Append(ss, sa)
<1>0. f.kind # "root"
  OBVIOUS
<1>1. Rooted(cs)
  BY DEF Nest
<1>2. PICK n \in Nat : n = Len(cs)
  BY LenProperties
<1>3. PICK m \in Nat : m = Len(ss)
  BY LenProperties
<1>4. /\ Len(ds) = n + 1 /\ Rooted(ds)
      /\ \A j \in 1 .. n : ds[j] = cs[j]
      /\ ds[n + 1] = f
      /\ \A i \in 0 .. n : Own(ds, i) = Own(cs, i)
      /\ Own(ds, n + 1) = Own(cs, n) \cup {n + 1}
  <2>1. Len(ds) = n + 1 /\ (\A j \in 1 .. n : ds[j] = cs[j]) /\ ds[n + 1] = f
    BY <1>2, AppendProperties
  <2> HIDE DEF ds
  <2>2. Len(cs) = n /\ Len(ds) = n + 1 /\ (\A j \in 1 .. n : ds[j] = cs[j])
    BY <1>2, <2>1
  <2>3. ds[n + 1].kind # "root" /\ ds[n + 1].kind = "dest"
    BY <1>0, <2>1
  <2>4. Rooted(ds) /\ \A i \in 0 .. n : Own(ds, i) = Own(cs, i)
    BY <1>1, <2>2, <2>3, PushFacts
  <2>5. Own(ds, n + 1) = Own(cs, n) \cup {n + 1}
    BY <1>1, <2>2, <2>3, PushFacts
  <2> QED BY <2>1, <2>4, <2>5
<1>5. Len(ts) = m + 1 /\ (\A k \in 1 .. m : ts[k] = ss[k]) /\ ts[m + 1] = sa
  BY <1>3, AppendProperties
<1>6. n >= 1 /\ cs[1].kind = "root"
  BY <1>1, <1>2 DEF Rooted
<1>7. /\ IsFiniteSet(Own(cs, n)) /\ Cardinality(Own(cs, n)) \in Nat
      /\ Max(Own(cs, n)) \in 1 .. n
  BY <1>6, OwnFacts, n \in 1 .. n
<1>8. n + 1 \notin Own(cs, n)
  BY DEF Own
<1>9. Cardinality(Own(ds, n + 1)) = Cardinality(Own(cs, n)) + 1
  BY <1>4, <1>7, <1>8, FS_AddElement
<1>10. m = Cardinality(Own(cs, n)) - 1 /\ sa = cs[Max(Own(cs, n))].target
  BY <1>2, <1>3 DEF Nest
<1>11. Max(Own(ds, n + 1)) = n + 1
  <2>1. n + 1 \in Own(ds, n + 1)
    BY <1>4
  <2>2. \A y \in Own(ds, n + 1) : n + 1 >= y /\ y \in Int
    BY DEF Own
  <2>3. \A x \in Own(ds, n + 1) : (\A y \in Own(ds, n + 1) : x >= y) => x = n + 1
    BY <2>1, <2>2
  <2> QED BY <2>1, <2>2, <2>3 DEF Max
<1> HIDE DEF ds, ts
<1>12. ASSUME NEW i \in Own(ds, n + 1) \ {1}
       PROVE  ts[Cardinality(Own(ds, i)) - 1] = ds[Max(Own(ds, i - 1))].target
  <2>1. CASE i = n + 1
    <3>1. i - 1 = n /\ Own(ds, i - 1) = Own(cs, n)
      BY <1>4, <2>1
    <3>2. Cardinality(Own(ds, i)) - 1 = m + 1
      BY <1>7, <1>9, <1>10, <2>1
    <3>3. ds[Max(Own(cs, n))] = cs[Max(Own(cs, n))]
      BY <1>4, <1>7
    <3> QED BY <1>5, <1>10, <3>1, <3>2, <3>3
  <2>2. CASE i # n + 1
    <3>1. i \in Own(cs, n) \ {1}
      BY <1>4, <2>2
    <3>2. i \in 1 .. n /\ i - 1 \in 1 .. n
      BY <3>1 DEF Own
    <3>3. /\ Cardinality(Own(cs, i)) \in Nat /\ Cardinality(Own(cs, i)) >= 2
          /\ Cardinality(Own(cs, i)) <= Cardinality(Own(cs, n))
      BY <1>6, <3>1, <3>2, OwnFacts
    <3>4. Cardinality(Own(cs, i)) - 1 \in 1 .. m
      BY <1>7, <1>10, <3>3
    <3>5. Max(Own(cs, i - 1)) \in 1 .. i - 1
      BY <1>6, <3>2, OwnFacts
    <3>6. Max(Own(cs, i - 1)) \in 1 .. n
      BY <3>2, <3>5
    <3>7. Own(ds, i) = Own(cs, i) /\ Own(ds, i - 1) = Own(cs, i - 1)
      BY <1>4, <3>2
    <3>8. ss[Cardinality(Own(cs, i)) - 1] = cs[Max(Own(cs, i - 1))].target
      BY <1>2, <3>1 DEF Nest
    <3> QED BY <1>4, <1>5, <3>4, <3>6, <3>7, <3>8
  <2> QED BY <2>1, <2>2
<1>13. Len(ts) = Cardinality(Own(ds, n + 1)) - 1
  BY <1>5, <1>7, <1>9, <1>10
<1>14. f.target = ds[Max(Own(ds, n + 1))].target
  BY <1>4, <1>11
<1>15. Nest(ds, ts, f.target)
  BY <1>4, <1>12, <1>13, <1>14 DEF Nest
<1> QED BY <1>15 DEF ds, ts

(* A call on the same context leaves storage alone.                        *)
LEMMA NestPushSame ==
  ASSUME NEW F, NEW cs \in Seq(F), NEW f \in F, f.kind \in {"same", "readOnly"},
         NEW ss, NEW sa, Nest(cs, ss, sa)
  PROVE  Nest(Append(cs, f), ss, sa)
<1> DEFINE ds == Append(cs, f)
<1>0. f.kind # "root" /\ f.kind # "dest"
  OBVIOUS
<1>1. Rooted(cs)
  BY DEF Nest
<1>2. PICK n \in Nat : n = Len(cs)
  BY LenProperties
<1>3. /\ Len(ds) = n + 1 /\ Rooted(ds)
      /\ \A j \in 1 .. n : ds[j] = cs[j]
      /\ \A i \in 0 .. n : Own(ds, i) = Own(cs, i)
      /\ Own(ds, n + 1) = Own(cs, n)
  <2>1. Len(ds) = n + 1 /\ (\A j \in 1 .. n : ds[j] = cs[j]) /\ ds[n + 1] = f
    BY <1>2, AppendProperties
  <2> HIDE DEF ds
  <2>2. Len(cs) = n /\ Len(ds) = n + 1 /\ (\A j \in 1 .. n : ds[j] = cs[j])
    BY <1>2, <2>1
  <2>3. ds[n + 1].kind # "root" /\ ds[n + 1].kind # "dest"
    BY <1>0, <2>1
  <2>4. Rooted(ds) /\ \A i \in 0 .. n : Own(ds, i) = Own(cs, i)
    BY <1>1, <2>2, <2>3, PushFacts
  <2>5. Own(ds, n + 1) = Own(cs, n)
    BY <1>1, <2>2, <2>3, PushFacts
  <2> QED BY <2>1, <2>4, <2>5
<1>4. n >= 1 /\ cs[1].kind = "root"
  BY <1>1, <1>2 DEF Rooted
<1> HIDE DEF ds
<1>5. Max(Own(cs, n)) \in 1 .. n
  BY <1>4, OwnFacts, n \in 1 .. n
<1>6. ASSUME NEW i \in Own(ds, n + 1) \ {1}
      PROVE  ss[Cardinality(Own(ds, i)) - 1] = ds[Max(Own(ds, i - 1))].target
  <2>1. i \in Own(cs, n) \ {1}
    BY <1>3
  <2>2. i \in 1 .. n /\ i - 1 \in 1 .. n
    BY <2>1 DEF Own
  <2>3. Max(Own(cs, i - 1)) \in 1 .. i - 1
    BY <1>4, <2>2, OwnFacts
  <2>4. Max(Own(cs, i - 1)) \in 1 .. n
    BY <2>2, <2>3
  <2>5. Own(ds, i) = Own(cs, i) /\ Own(ds, i - 1) = Own(cs, i - 1)
    BY <1>3, <2>2
  <2>6. ss[Cardinality(Own(cs, i)) - 1] = cs[Max(Own(cs, i - 1))].target
    BY <1>2, <2>1 DEF Nest
  <2> QED BY <1>3, <2>4, <2>5, <2>6
<1>7. Len(ss) = Cardinality(Own(cs, n)) - 1 /\ sa = cs[Max(Own(cs, n))].target
  BY <1>2 DEF Nest
<1>8. Nest(ds, ss, sa)
  BY <1>3, <1>5, <1>6, <1>7 DEF Nest
<1> QED BY <1>8 DEF ds

(* A call popped from the stack of calls.                                  *)
LEMMA PopFacts ==
  ASSUME NEW F, NEW cs \in Seq(F), Rooted(cs), Len(cs) > 1
  PROVE  /\ Front(cs) \in Seq(F) /\ Len(Front(cs)) = Len(cs) - 1
         /\ \A j \in 1 .. Len(cs) - 1 : Front(cs)[j] = cs[j]
         /\ Rooted(Front(cs))
         /\ \A i \in 0 .. Len(cs) - 1 : Own(Front(cs), i) = Own(cs, i)
         /\ Own(cs, Len(cs)) =
              IF Last(cs).kind = "dest" THEN Own(cs, Len(cs) - 1) \cup {Len(cs)}
              ELSE Own(cs, Len(cs) - 1)
<1>1. PICK n \in Nat : n = Len(cs) /\ n > 1
  BY LenProperties
<1>2. cs # <<>>
  BY <1>1
<1>3. /\ Front(cs) \in Seq(F) /\ Len(Front(cs)) = n - 1
      /\ \A j \in 1 .. n - 1 : Front(cs)[j] = cs[j]
  BY <1>1, <1>2, StackPop
<1>4. cs[1].kind = "root" /\ \A i \in 2 .. n : cs[i].kind # "root"
  BY <1>1 DEF Rooted
<1>5. Rooted(Front(cs))
  BY <1>1, <1>3, <1>4 DEF Rooted
<1>6. \A i \in 0 .. n - 1 : Own(Front(cs), i) = Own(cs, i)
  BY <1>1, <1>3, OwnSame, n - 1 \in Nat
<1>7. Own(cs, n) = IF cs[n].kind = "dest" THEN Own(cs, n - 1) \cup {n} ELSE Own(cs, n - 1)
  <2>1. \A j \in 1 .. n : j \in 1 .. n - 1 \/ j = n
    OBVIOUS
  <2>2. \A j \in 1 .. n - 1 : j \in 1 .. n
    BY <1>1
  <2>3. n \in 1 .. n /\ cs[n].kind # "root"
    BY <1>1, <1>4
  <2> QED BY <2>1, <2>2, <2>3 DEF Own
<1> QED BY <1>1, <1>3, <1>5, <1>6, <1>7 DEF Last

(* The end of a call on its own context restores the storage address.      *)
LEMMA NestPopOwn ==
  ASSUME NEW F, NEW cs \in Seq(F), Len(cs) > 1, Last(cs).kind = "dest",
         NEW T, NEW ss \in Seq(T), NEW sa, Nest(cs, ss, sa)
  PROVE  ss # <<>> /\ Nest(Front(cs), Front(ss), Last(ss))
<1> DEFINE ds == Front(cs)
           ts == Front(ss)
<1>1. Rooted(cs)
  BY DEF Nest
<1>2. PICK n \in Nat : n = Len(cs) /\ n > 1
  BY LenProperties
<1>3. PICK m \in Nat : m = Len(ss)
  BY LenProperties
<1>4. /\ Len(ds) = n - 1 /\ Rooted(ds)
      /\ \A j \in 1 .. n - 1 : ds[j] = cs[j]
      /\ \A i \in 0 .. n - 1 : Own(ds, i) = Own(cs, i)
      /\ Own(cs, n) = Own(cs, n - 1) \cup {n}
  BY <1>1, <1>2, PopFacts
<1>5. n >= 1 /\ cs[1].kind = "root"
  BY <1>1, <1>2 DEF Rooted
<1>6. n \in Own(cs, n) \ {1} /\ n \in 1 .. n /\ n - 1 \in 1 .. n
  BY <1>2, <1>4
<1>7. Cardinality(Own(cs, n)) \in Nat /\ Cardinality(Own(cs, n)) >= 2
  BY <1>5, <1>6, OwnFacts
<1>8. /\ IsFiniteSet(Own(cs, n - 1)) /\ Cardinality(Own(cs, n - 1)) \in Nat
      /\ Max(Own(cs, n - 1)) \in 1 .. n - 1
  BY <1>5, <1>6, OwnFacts
<1>9. n \notin Own(cs, n - 1)
  BY DEF Own
<1>10. Cardinality(Own(cs, n)) = Cardinality(Own(cs, n - 1)) + 1
  BY <1>4, <1>8, <1>9, FS_AddElement
<1>11. m = Cardinality(Own(cs, n)) - 1
  BY <1>2, <1>3 DEF Nest
<1>12. ss # <<>>
  <2>1. m # 0
    BY <1>7, <1>11
  <2> QED BY <1>3, <2>1
<1>13. Len(ts) = m - 1 /\ (\A k \in 1 .. m - 1 : ts[k] = ss[k])
  BY <1>3, <1>12, StackPop
<1>14. Last(ss) = ds[Max(Own(ds, n - 1))].target
  <2>1. ss[Cardinality(Own(cs, n)) - 1] = cs[Max(Own(cs, n - 1))].target
    BY <1>2, <1>6 DEF Nest
  <2>2. Own(ds, n - 1) = Own(cs, n - 1)
    BY <1>2, <1>4
  <2> HIDE DEF ds
  <2> QED BY <1>3, <1>4, <1>8, <1>11, <2>1, <2>2 DEF Last
<1>15. Len(ts) = Cardinality(Own(ds, n - 1)) - 1
  <2>1. Own(ds, n - 1) = Own(cs, n - 1)
    BY <1>2, <1>4
  <2> HIDE DEF ds, ts
  <2> QED BY <1>8, <1>10, <1>11, <1>13, <2>1
<1> HIDE DEF ds, ts
<1>16. ASSUME NEW i \in Own(ds, n - 1) \ {1}
       PROVE  ts[Cardinality(Own(ds, i)) - 1] = ds[Max(Own(ds, i - 1))].target
  <2>1. i \in Own(cs, n - 1) \ {1}
    BY <1>2, <1>4
  <2>2. i \in 1 .. n - 1 /\ i - 1 \in 1 .. n - 1 /\ i \in Own(cs, n) \ {1}
    BY <1>4, <2>1 DEF Own
  <2>3. /\ Cardinality(Own(cs, i)) \in Nat /\ Cardinality(Own(cs, i)) >= 2
        /\ Cardinality(Own(cs, i)) <= Cardinality(Own(cs, n - 1))
    BY <1>2, <1>5, <2>1, <2>2, OwnFacts, n - 1 \in Nat, n - 1 >= 1
  <2>4. Cardinality(Own(cs, i)) - 1 \in 1 .. m - 1
    BY <1>8, <1>10, <1>11, <2>3
  <2>5. Max(Own(cs, i - 1)) \in 1 .. i - 1
    BY <1>2, <1>5, <2>2, OwnFacts, n - 1 \in Nat, n - 1 >= 1
  <2>6. Max(Own(cs, i - 1)) \in 1 .. n - 1
    BY <2>2, <2>5
  <2>7. Own(ds, i) = Own(cs, i) /\ Own(ds, i - 1) = Own(cs, i - 1)
    BY <1>4, <2>2
  <2>8. ss[Cardinality(Own(cs, i)) - 1] = cs[Max(Own(cs, i - 1))].target
    BY <1>2, <2>2 DEF Nest
  <2> QED BY <1>4, <1>13, <2>4, <2>6, <2>7, <2>8
<1>17. Nest(ds, ts, Last(ss))
  BY <1>4, <1>14, <1>15, <1>16 DEF Nest
<1> QED BY <1>12, <1>17 DEF ds, ts

(* The end of a call on the same context leaves storage alone.             *)
LEMMA NestPopSame ==
  ASSUME NEW F, NEW cs \in Seq(F), Len(cs) > 1, Last(cs).kind # "dest",
         NEW ss, NEW sa, Nest(cs, ss, sa)
  PROVE  Nest(Front(cs), ss, sa)
<1> DEFINE ds == Front(cs)
<1>1. Rooted(cs)
  BY DEF Nest
<1>2. PICK n \in Nat : n = Len(cs) /\ n > 1
  BY LenProperties
<1>3. /\ Len(ds) = n - 1 /\ Rooted(ds)
      /\ \A j \in 1 .. n - 1 : ds[j] = cs[j]
      /\ \A i \in 0 .. n - 1 : Own(ds, i) = Own(cs, i)
      /\ Own(cs, n) = Own(cs, n - 1)
  BY <1>1, <1>2, PopFacts
<1>4. cs[1].kind = "root" /\ n - 1 \in Nat /\ n - 1 >= 1 /\ n - 1 \in 1 .. n - 1
  BY <1>1, <1>2 DEF Rooted
<1> HIDE DEF ds
<1>5. Max(Own(cs, n - 1)) \in 1 .. n - 1
  BY <1>4, OwnFacts
<1>6. ASSUME NEW i \in Own(ds, n - 1) \ {1}
      PROVE  ss[Cardinality(Own(ds, i)) - 1] = ds[Max(Own(ds, i - 1))].target
  <2>1. i \in Own(cs, n - 1) \ {1} /\ i \in Own(cs, n) \ {1}
    BY <1>3, <1>4
  <2>2. i \in 1 .. n - 1 /\ i - 1 \in 1 .. n - 1
    BY <2>1 DEF Own
  <2>3. Max(Own(cs, i - 1)) \in 1 .. i - 1
    BY <1>4, <2>2, OwnFacts
  <2>4. Max(Own(cs, i - 1)) \in 1 .. n - 1
    BY <2>2, <2>3
  <2>5. Own(ds, i) = Own(cs, i) /\ Own(ds, i - 1) = Own(cs, i - 1)
    BY <1>3, <2>2
  <2>6. ss[Cardinality(Own(cs, i)) - 1] = cs[Max(Own(cs, i - 1))].target
    BY <1>2, <2>1 DEF Nest
  <2> QED BY <1>3, <2>4, <2>5, <2>6
<1>7. Len(ss) = Cardinality(Own(cs, n - 1)) - 1 /\ sa = cs[Max(Own(cs, n - 1))].target
  BY <1>2, <1>3 DEF Nest
<1>8. Own(ds, n - 1) = Own(cs, n - 1)
  BY <1>3, <1>4
<1>9. Nest(ds, ss, sa)
  BY <1>3, <1>5, <1>6, <1>7, <1>8 DEF Nest
<1> QED BY <1>9 DEF ds

(* Storage is always that of a call in progress.                           *)
LEMMA NestAddress ==
  ASSUME NEW cs \in Seq(FrameType), NEW ss, NEW sa, Nest(cs, ss, sa)
  PROVE  sa \in Addresses
<1>1. PICK n \in Nat : n = Len(cs) /\ n >= 1 /\ cs[1].kind = "root"
  BY LenProperties DEF Nest, Rooted
<1>2. Max(Own(cs, n)) \in 1 .. n
  BY <1>1, OwnFacts, n \in 1 .. n
<1>3. cs[Max(Own(cs, n))] \in FrameType
  BY <1>1, <1>2, ElementOfSeq
<1> QED BY <1>1, <1>3 DEF Nest, FrameType

-----------------------------------------------------------------------------
(* The inductive invariant.                                                *)

GoodInv == output \in GoodOutput /\ outputStack \in Seq(GoodOutput)

IdleInv ==
  phase = "idle" =>
    /\ outputStack = <<>> /\ runtimeStack = <<>> /\ storageStack = <<>>
    /\ bigIntStack = <<>>

NestInv ==
  phase = "running" =>
    /\ Nest(calls, storageStack, storageAddr)
    /\ Len(outputStack) = Len(calls) - 1
    /\ Len(runtimeStack) = Len(calls) - 1
    /\ Len(bigIntStack) = Len(calls) - 1
    /\ runtime.scAddress = calls[Len(calls)].target
    /\ \A i \in 1 .. Len(calls) - 1 : runtimeStack[i].scAddress = calls[i].target

HostInv == TypeOK /\ GoodInv /\ IdleInv /\ NestInv

(* Frames are typed.                                                       *)
LEMMA FrameTyped ==
  ASSUME TypeOK, NEW kind \in Kinds, NEW fn \in EntryPoints, NEW strict \in {"yes", "no"},
         NEW caller \in Addresses, NEW target \in Addresses,
         NEW code \in Codes \cup {NoCode}
  PROVE  /\ Frame(kind, fn, strict, caller, target, code) \in FrameType
         /\ Frame(kind, fn, strict, caller, target, code).kind = kind
         /\ Frame(kind, fn, strict, caller, target, code).target = target
<1>1. output.accounts \in [Addresses -> AccountType]
  BY DEF TypeOK, OutputType
<1>2. runtime.scAddress \in Addresses \cup {NoAddress}
  BY DEF TypeOK, RuntimeType
<1> QED BY <1>1, <1>2 DEF TypeOK, Frame, FrameType

(* The history stays typed.                                                *)
LEMMA HistoryTyped ==
  ASSUME TypeOK, NEW f \in FrameType
  PROVE  /\ Commit(f) => history' \in HistoryType
         /\ NoHistory \in HistoryType
         /\ \A dest \in Addresses, v \in Values :
              [history EXCEPT !.transfers[dest] = Append(@, v)] \in HistoryType
<1>1. /\ history \in HistoryType
      /\ f.target \in Addresses /\ f.code \in Codes \cup {NoCode}
  BY DEF TypeOK, FrameType
<1>2. NoHistory \in HistoryType
  BY EmptySeq DEF NoHistory, HistoryType
<1>3. \A dest \in Addresses, v \in Values :
        [history EXCEPT !.transfers[dest] = Append(@, v)] \in HistoryType
  <2> TAKE dest \in Addresses, v \in Values
  <2>1. Append(history.transfers[dest], v) \in Seq(Values)
    BY <1>1, AppendProperties DEF HistoryType
  <2> QED BY <1>1, <2>1 DEF HistoryType
<1>4. ASSUME Commit(f) PROVE history' \in HistoryType
  <2> DEFINE c == [history.created EXCEPT ![f.target] = IF f.fn = "create" THEN @ + 1 ELSE @]
             d == [history.deployed EXCEPT ![f.target] = IF f.fn = "call" THEN @ ELSE f.code]
  <2>1. /\ history.created \in [Addresses -> Nat]
        /\ history.deployed \in [Addresses -> Codes \cup {NoCode}]
        /\ history.transfers \in [Addresses -> Seq(Values)]
    BY <1>1 DEF HistoryType
  <2>2. c \in [Addresses -> Nat]
    BY <1>1, <2>1
  <2>3. d \in [Addresses -> Codes \cup {NoCode}]
    BY <1>1, <2>1
  <2>4. history' = [transfers |-> history.transfers, created |-> c, deployed |-> d]
    BY <1>1, <1>4 DEF Commit, HistoryType
  <2> HIDE DEF c, d
  <2> QED BY <2>1, <2>2, <2>3, <2>4 DEF HistoryType
<1> QED BY <1>2, <1>3, <1>4

(* The innermost contract and the storage in use have addresses.           *)
LEMMA RunningAddresses ==
  ASSUME HostInv, phase = "running"
  PROVE  runtime.scAddress \in Addresses /\ storageAddr \in Addresses
<1>1. calls \in Seq(FrameType) /\ Nest(calls, storageStack, storageAddr)
  BY DEF HostInv, TypeOK, NestInv
<1>2. storageAddr \in Addresses
  BY <1>1, NestAddress
<1>3. PICK n \in Nat : n = Len(calls) /\ n >= 1
  BY <1>1, LenProperties DEF Nest, Rooted
<1>4. calls[n] \in FrameType
  BY <1>1, <1>3, ElementOfSeq
<1>5. runtime.scAddress = calls[n].target
  BY <1>3 DEF HostInv, NestInv
<1> QED BY <1>2, <1>4, <1>5 DEF FrameType

(* The invariant holds initially.                                          *)
LEMMA HostInit == Init => HostInv
<1> SUFFICES ASSUME Init PROVE HostInv
  OBVIOUS
<1>1. NewVMOutput \in GoodOutput /\ NewVMOutput \in OutputType
  BY GoodNew DEF GoodOutput
<1>2. NoHistory \in HistoryType
  BY EmptySeq DEF NoHistory, HistoryType
<1>3. NoRuntime \in RuntimeType
  BY HostAssumption DEF NoRuntime, RuntimeType
<1>4. TypeOK
  BY <1>1, <1>2, <1>3, EmptySeq, HostAssumption DEF Init, TypeOK
<1>5. GoodInv
  BY <1>1, EmptySeq DEF Init, GoodInv
<1>6. IdleInv /\ NestInv
  BY DEF Init, IdleInv, NestInv
<1> QED BY <1>4, <1>5, <1>6 DEF HostInv

(* Output states without overdraft are output states.                      *)
LEMMA GoodIsTyped ==
  /\ \A o \in GoodOutput : o \in OutputType
  /\ \A s \in Seq(GoodOutput) : s \in Seq(OutputType)
<1>1. GoodOutput \subseteq OutputType
  BY DEF GoodOutput
<1> QED BY <1>1, SeqMonotonic

(* The start of a transaction.                                             *)
LEMMA StartKeepsInv ==
  ASSUME HostInv, phase = "idle", NEW fn \in EntryPoints, NEW caller \in Addresses,
         NEW target \in Addresses, NEW value \in Values, NEW code \in Codes \cup {NoCode},
         NEW out \in GoodOutput, StartTransaction(fn, caller, target, value, code, out)
  PROVE  HostInv'
<1> DEFINE f == Frame("root", fn, "no", caller, target, code)
<1>1. TypeOK /\ IdleInv /\ outputStack \in Seq(GoodOutput)
  BY DEF HostInv, GoodInv
<1>2. f \in FrameType /\ f.kind = "root" /\ f.target = target
  BY <1>1, FrameTyped DEF Kinds
<1> HIDE DEF f
<1>3. calls' = <<f>> /\ Len(<<f>>) = 1 /\ <<f>>[1] = f /\ <<f>> \in Seq(FrameType)
  BY <1>2 DEF StartTransaction, f
<1>4. runtime' \in RuntimeType /\ runtime'.scAddress = target
  BY <1>1 DEF StartTransaction, RuntimeType
<1>5. TypeOK'
  BY <1>1, <1>3, <1>4, GoodIsTyped DEF StartTransaction, TypeOK
<1>6. GoodInv'
  BY <1>1 DEF StartTransaction, GoodInv
<1>7. IdleInv'
  BY DEF StartTransaction, IdleInv
<1>8. NestInv'
  <2>1. Nest(calls', storageStack', storageAddr')
    BY <1>1, <1>2, <1>3, NestRoot DEF StartTransaction, IdleInv
  <2>2. Len(calls') = 1 /\ calls'[1].target = target
    BY <1>2, <1>3
  <2>3. Len(outputStack') = 0 /\ Len(runtimeStack') = 0 /\ Len(bigIntStack') = 0
    BY <1>1 DEF StartTransaction, IdleInv
  <2> QED BY <1>4, <2>1, <2>2, <2>3 DEF NestInv
<1> QED BY <1>5, <1>6, <1>7, <1>8 DEF HostInv

-----------------------------------------------------------------------------
(* Host calls that enter no other contract.                                *)

(* A host call that neither pushes nor pops.                               *)
LEMMA FlatKeepsInv ==
  ASSUME HostInv, phase = "running", TypeOK', output' \in GoodOutput,
         runtime'.scAddress = runtime.scAddress,
         UNCHANGED <<phase, outputStack, runtimeStack, storageAddr, storageStack,
                     bigIntStack, calls>>
  PROVE  HostInv'
<1>1. GoodInv'
  BY DEF HostInv, GoodInv
<1>2. IdleInv'
  BY DEF IdleInv
<1>3. NestInv'
  BY DEF HostInv, NestInv
<1> QED BY <1>1, <1>2, <1>3 DEF HostInv

(* storageStore.                                                           *)
LEMMA SetStorageKeepsInv ==
  ASSUME HostInv, NEW value \in Values, SetStorage(value)
  PROVE  HostInv'
<1>1. phase = "running" /\ TypeOK /\ output \in GoodOutput /\ output \in OutputType
  BY GoodIsTyped DEF HostInv, GoodInv, SetStorage, Executing
<1>2. storageAddr \in Addresses
  BY <1>1, RunningAddresses
<1> DEFINE acc == [output.accounts[storageAddr] EXCEPT !.store = value]
<1>3. output.accounts[storageAddr] \in AccountType
  BY <1>1, <1>2 DEF OutputType
<1>4. acc \in AccountType /\ acc.delta = output.accounts[storageAddr].delta
  BY <1>3 DEF AccountType
<1>5. acc.delta + Funds(storageAddr) >= 0
  BY <1>1, <1>2, <1>4, SolventIs DEF GoodOutput
<1>6. SetAccount(output, storageAddr, acc) \in GoodOutput
  BY <1>1, <1>2, <1>4, <1>5, GoodSetAccount
<1>7. output' \in GoodOutput /\ output' \in OutputType
  BY <1>1, <1>6, GoodIsTyped DEF SetStorage
<1>8. TypeOK'
  BY <1>1, <1>7 DEF SetStorage, Executing, TypeOK
<1> QED BY <1>1, <1>7, <1>8, FlatKeepsInv DEF SetStorage

(* The writers of big integers.                                            *)
LEMMA SetBigIntKeepsInv ==
  ASSUME HostInv, NEW value \in Values, SetBigInt(value)
  PROVE  HostInv'
<1>1. phase = "running" /\ TypeOK /\ output \in GoodOutput
  BY DEF HostInv, GoodInv, SetBigInt, Executing
<1>2. TypeOK'
  BY <1>1 DEF SetBigInt, Executing, TypeOK
<1> QED BY <1>1, <1>2, FlatKeepsInv DEF SetBigInt

(* outputContext.Transfer.                                                 *)
LEMMA TransferKeepsInv ==
  ASSUME HostInv, NEW dest \in Targets, NEW value \in Values, NEW withGas \in BOOLEAN,
         TransferValue(dest, value, withGas)
  PROVE  HostInv'
<1>1. phase = "running" /\ TypeOK /\ output \in GoodOutput /\ dest \in Addresses
  BY HostAssumption DEF HostInv, GoodInv, TransferValue, Executing
<1>2. runtime.scAddress \in Addresses
  BY <1>1, RunningAddresses
<1> DEFINE moved == TransferValueOnly(output, dest, runtime.scAddress, value)
           acc == [moved.accounts[dest] EXCEPT !.transfers = Append(@, value)]
<1>3. ASSUME HasSufficientBalance(output, runtime.scAddress, value)
      PROVE  SetAccount(moved, dest, acc) \in GoodOutput
  <2>1. moved \in GoodOutput
    BY <1>1, <1>2, <1>3, GoodTransfer
  <2> HIDE DEF moved
  <2>2. moved.accounts[dest] \in AccountType /\ moved.accounts[dest].delta + Funds(dest) >= 0
    BY <1>1, <2>1, SolventIs DEF GoodOutput, OutputType
  <2>3. Append(moved.accounts[dest].transfers, value) \in Seq(Values)
    BY <2>2, AppendProperties DEF AccountType
  <2>4. acc \in AccountType /\ acc.delta = moved.accounts[dest].delta
    BY <2>2, <2>3 DEF AccountType
  <2> QED BY <1>1, <2>1, <2>2, <2>4, GoodSetAccount
<1>4. SetReturnCode(output, "ExecutionFailed") \in GoodOutput
  BY <1>1, GoodSimple DEF ReturnCodes
<1>5. \/ /\ HasSufficientBalance(output, runtime.scAddress, value)
         /\ output' = SetAccount(moved, dest, acc)
         /\ history' = [history EXCEPT !.transfers[dest] = Append(@, value)]
         /\ ret' = "ok"
      \/ /\ output' = SetReturnCode(output, "ExecutionFailed")
         /\ ret' = "failed" /\ UNCHANGED history
  BY DEF TransferValue
<1> HIDE DEF moved, acc
<1>6. output' \in GoodOutput
  BY <1>3, <1>4, <1>5
<1>7. history' \in HistoryType
  <2>1. \A d \in Addresses, v \in Values :
          [history EXCEPT !.transfers[d] = Append(@, v)] \in HistoryType
    <3> TAKE d \in Addresses, v \in Values
    <3>1. history \in HistoryType
      BY <1>1 DEF TypeOK
    <3>2. Append(history.transfers[d], v) \in Seq(Values)
      BY <3>1, AppendProperties DEF HistoryType
    <3> QED BY <3>1, <3>2 DEF HistoryType
  <2> QED BY <1>1, <1>5, <2>1 DEF TypeOK
<1>8. ops' \in Nat /\ ret' \in {"none", "ok", "failed"}
  BY <1>1, <1>5 DEF TransferValue, TypeOK
<1>9. TypeOK'
  BY <1>1, <1>6, <1>7, <1>8, GoodIsTyped DEF TransferValue, TypeOK
<1> QED BY <1>1, <1>6, <1>9, FlatKeepsInv DEF TransferValue

(* A call refused on entry.                                                *)
LEMMA RefusedKeepsInv ==
  ASSUME HostInv, phase = "running", NEW strict \in {"yes", "no"}, Refused(strict),
         runtime' \in RuntimeType, runtime'.scAddress = runtime.scAddress,
         ops' = ops + 1, UNCHANGED <<phase, vmOutput, history>>
  PROVE  HostInv'
<1>1. TypeOK /\ output \in GoodOutput
  BY DEF HostInv, GoodInv
<1>2. \A a \in Addresses : SetReturnCode(output, "ExecutionFailed") \in GoodOutput
  BY <1>1, GoodSimple DEF ReturnCodes
<1>3. output' \in GoodOutput
  BY <1>1, <1>2, RunningAddresses DEF Refused
<1>4. TypeOK'
  BY <1>1, <1>3, GoodIsTyped DEF Refused, TypeOK
<1> QED BY <1>1, <1>3, <1>4, FlatKeepsInv DEF Refused

(* Clearing the read-only flag.                                            *)
LEMMA AfterCallTyped ==
  ASSUME NEW rt \in RuntimeType, NEW kind
  PROVE  AfterCall(kind, rt) \in RuntimeType /\ AfterCall(kind, rt).scAddress = rt.scAddress
  BY DEF AfterCall, RuntimeType

-----------------------------------------------------------------------------
(* Calls that enter another contract.                                      *)

(* What entering a callee does to the contexts.                            *)
LEMMA EnterKeeps ==
  ASSUME HostInv, phase = "running", NEW out \in GoodOutput, NEW fn,
         NEW caller \in Addresses, NEW target \in Addresses, NEW value \in Values,
         NEW readOnly \in {"yes", "no"}, HasSufficientBalance(out, caller, value),
         EnterCallee(out, fn, caller, target, value, readOnly)
  PROVE  /\ output' \in GoodOutput /\ outputStack' \in Seq(GoodOutput)
         /\ runtime' \in RuntimeType /\ runtime'.scAddress = target
         /\ runtimeStack' \in Seq(RuntimeType) /\ bigIntStack' \in Seq(Values)
         /\ Len(outputStack') = Len(outputStack) + 1
         /\ Len(runtimeStack') = Len(runtimeStack) + 1
         /\ Len(bigIntStack') = Len(bigIntStack) + 1
         /\ \A i \in 1 .. Len(runtimeStack) : runtimeStack'[i] = runtimeStack[i]
         /\ runtimeStack'[Len(runtimeStack) + 1].scAddress = runtime.scAddress
<1>1. /\ TypeOK /\ outputStack \in Seq(GoodOutput)
      /\ runtime \in RuntimeType /\ runtimeStack \in Seq(RuntimeType)
      /\ bigInts \in Values /\ bigIntStack \in Seq(Values)
  BY DEF HostInv, GoodInv, TypeOK
<1> DEFINE moved == TransferValueOnly(out, target, caller, value)
           rt == [runtime EXCEPT !.readOnly = readOnly]
<1>2. moved \in GoodOutput
  BY GoodTransfer
<1>3. output' \in GoodOutput
  BY <1>2, GoodCode DEF EnterCallee
<1>4. Copy(out) \in GoodOutput
  BY GoodCopy
<1>5. outputStack' \in Seq(GoodOutput) /\ Len(outputStack') = Len(outputStack) + 1
  BY <1>1, <1>4, AppendProperties DEF EnterCallee
<1>6. bigIntStack' \in Seq(Values) /\ Len(bigIntStack') = Len(bigIntStack) + 1
  BY <1>1, AppendProperties DEF EnterCallee
<1>7. runtime' \in RuntimeType /\ runtime'.scAddress = target
  BY DEF EnterCallee, RuntimeType
<1>8. rt \in RuntimeType /\ rt.scAddress = runtime.scAddress
  BY <1>1 DEF RuntimeType
<1> HIDE DEF rt
<1>9. /\ runtimeStack' \in Seq(RuntimeType) /\ Len(runtimeStack') = Len(runtimeStack) + 1
      /\ \A i \in 1 .. Len(runtimeStack) : runtimeStack'[i] = runtimeStack[i]
      /\ runtimeStack'[Len(runtimeStack) + 1] = rt
  BY <1>1, <1>8, AppendProperties DEF EnterCallee, rt
<1> QED BY <1>3, <1>5, <1>6, <1>7, <1>8, <1>9

(* Entering a callee, on its own context or on the caller's.               *)
LEMMA EnterKeepsInv ==
  ASSUME HostInv, phase = "running", NEW out \in GoodOutput, NEW fn,
         NEW caller \in Addresses, NEW target \in Addresses, NEW value \in Values,
         NEW readOnly \in {"yes", "no"}, HasSufficientBalance(out, caller, value),
         EnterCallee(out, fn, caller, target, value, readOnly),
         NEW f \in FrameType, f.target = target, calls' = Append(calls, f),
         \/ /\ f.kind = "dest" /\ bigInts' = 0
            /\ storageStack' = Append(storageStack, storageAddr) /\ storageAddr' = target
         \/ /\ f.kind \in {"same", "readOnly"}
            /\ UNCHANGED <<bigInts, storageStack, storageAddr>>,
         codeUpdates' \in SUBSET Addresses, ops' = ops + 1,
         UNCHANGED <<phase, vmOutput, ret, history>>
  PROVE  HostInv'
<1>1. /\ TypeOK /\ calls \in Seq(FrameType) /\ Nest(calls, storageStack, storageAddr)
      /\ storageAddr \in Addresses \cup {NoAddress}
      /\ storageStack \in Seq(Addresses \cup {NoAddress})
      /\ target \in Addresses \cup {NoAddress} /\ 0 \in Values
  BY HostAssumption DEF HostInv, TypeOK, NestInv
<1>2. /\ output' \in GoodOutput /\ outputStack' \in Seq(GoodOutput)
      /\ runtime' \in RuntimeType /\ runtime'.scAddress = target
      /\ runtimeStack' \in Seq(RuntimeType) /\ bigIntStack' \in Seq(Values)
      /\ Len(outputStack') = Len(outputStack) + 1
      /\ Len(runtimeStack') = Len(runtimeStack) + 1
      /\ Len(bigIntStack') = Len(bigIntStack) + 1
      /\ \A i \in 1 .. Len(runtimeStack) : runtimeStack'[i] = runtimeStack[i]
      /\ runtimeStack'[Len(runtimeStack) + 1].scAddress = runtime.scAddress
  BY EnterKeeps
<1>3. PICK n \in Nat : n = Len(calls) /\ n >= 1
  BY <1>1, LenProperties DEF Nest, Rooted
<1>4. /\ calls' \in Seq(FrameType) /\ Len(calls') = n + 1 /\ calls'[n + 1] = f
      /\ \A i \in 1 .. n : calls'[i] = calls[i]
  BY <1>1, <1>3, AppendProperties
<1>5. /\ Nest(calls', storageStack', storageAddr')
      /\ bigInts' \in Values /\ storageAddr' \in Addresses \cup {NoAddress}
      /\ storageStack' \in Seq(Addresses \cup {NoAddress})
  <2>1. CASE /\ f.kind = "dest" /\ bigInts' = 0
             /\ storageStack' = Append(storageStack, storageAddr) /\ storageAddr' = target
    <3>1. Append(storageStack, storageAddr) \in Seq(Addresses \cup {NoAddress})
      BY <1>1, AppendProperties
    <3>2. Nest(Append(calls, f), Append(storageStack, storageAddr), f.target)
      BY <1>1, <2>1, NestPushOwn
    <3> QED BY <1>1, <2>1, <3>1, <3>2
  <2>2. CASE /\ f.kind \in {"same", "readOnly"}
             /\ UNCHANGED <<bigInts, storageStack, storageAddr>>
    <3>1. Nest(Append(calls, f), storageStack, storageAddr)
      BY <1>1, <2>2, NestPushSame
    <3> QED BY <1>1, <2>2, <3>1 DEF TypeOK
  <2> QED BY <2>1, <2>2
<1>6. TypeOK'
  <2>1. ops' \in Nat
    BY <1>1 DEF TypeOK
  <2> QED BY <1>1, <1>2, <1>4, <1>5, <2>1, GoodIsTyped DEF TypeOK
<1>7. GoodInv'
  BY <1>2 DEF GoodInv
<1>8. IdleInv'
  BY DEF IdleInv
<1>9. NestInv'
  <2>1. /\ Len(outputStack) = n - 1 /\ Len(runtimeStack) = n - 1 /\ Len(bigIntStack) = n - 1
        /\ runtime.scAddress = calls[n].target
        /\ \A i \in 1 .. n - 1 : runtimeStack[i].scAddress = calls[i].target
    BY <1>3 DEF HostInv, NestInv
  <2>2. /\ Len(outputStack') = n /\ Len(runtimeStack') = n /\ Len(bigIntStack') = n
    BY <1>2, <2>1
  <2>3. ASSUME NEW i \in 1 .. n PROVE runtimeStack'[i].scAddress = calls'[i].target
    <3>1. CASE i = n
      BY <1>2, <1>4, <2>1, <3>1
    <3>2. CASE i \in 1 .. n - 1
      BY <1>2, <1>4, <2>1, <3>2
    <3>3. i = n \/ i \in 1 .. n - 1
      BY <1>3
    <3> QED BY <3>1, <3>2, <3>3
  <2>4. runtime'.scAddress = calls'[n + 1].target
    BY <1>2, <1>4
  <2>5. Len(calls') - 1 = n
    BY <1>4
  <2> QED BY <1>4, <1>5, <2>2, <2>3, <2>4, <2>5 DEF NestInv
<1> QED BY <1>6, <1>7, <1>8, <1>9 DEF HostInv

(* The function a call asks for.                                           *)
LEMMA FunctionTyped ==
  ASSUME NEW code \in NewCodes \cup {NoCode}
  PROVE  FunctionOf(code) \in EntryPoints /\ code \in Codes \cup {NoCode}
  BY HostAssumption DEF FunctionOf, EntryPoints

(* ExecuteOnDestContext.                                                   *)
LEMMA ExecuteOnDestContextKeepsInv ==
  ASSUME HostInv, NEW strict \in {"yes", "no"}, NEW caller \in Addresses,
         NEW target \in Addresses, NEW value \in Values,
         NEW code \in NewCodes \cup {NoCode},
         ExecuteOnDestContext(strict, caller, target, value, code)
  PROVE  HostInv'
<1> DEFINE fn == FunctionOf(code)
           f == Frame("dest", fn, strict, caller, target, code)
<1>1. /\ phase = "running" /\ TypeOK /\ output \in GoodOutput
      /\ runtime \in RuntimeType /\ runtime.readOnly \in {"yes", "no"}
      /\ codeUpdates \in SUBSET Addresses
  BY DEF HostInv, GoodInv, TypeOK, RuntimeType, ExecuteOnDestContext, Executing
<1>2. fn \in EntryPoints /\ code \in Codes \cup {NoCode}
  BY FunctionTyped
<1>3. f \in FrameType /\ f.kind = "dest" /\ f.target = target
  BY <1>1, <1>2, FrameTyped DEF Kinds
<1>4. \/ /\ HasSufficientBalance(output, caller, value)
         /\ EnterOnDestContext(output, fn, caller, target, value)
         /\ calls' = Append(calls, f) /\ UNCHANGED <<codeUpdates, ret>>
      \/ Refused(strict) /\ UNCHANGED runtime
  BY DEF ExecuteOnDestContext, Enters
<1>5. ops' = ops + 1 /\ UNCHANGED <<phase, vmOutput, history>>
  BY DEF ExecuteOnDestContext
<1> HIDE DEF fn, f
<1>6. CASE /\ HasSufficientBalance(output, caller, value)
           /\ EnterOnDestContext(output, fn, caller, target, value)
           /\ calls' = Append(calls, f) /\ UNCHANGED <<codeUpdates, ret>>
  BY <1>1, <1>3, <1>5, <1>6, EnterKeepsInv DEF EnterOnDestContext
<1>7. CASE Refused(strict) /\ UNCHANGED runtime
  BY <1>1, <1>5, <1>7, RefusedKeepsInv
<1> QED BY <1>4, <1>6, <1>7

(* ExecuteOnSameContext, delegateExecution and executeReadOnly.            *)
LEMMA ExecuteOnSameContextKeepsInv ==
  ASSUME HostInv, NEW kind \in {"same", "readOnly"}, NEW target \in Addresses,
         NEW value \in Values, NEW code \in NewCodes \cup {NoCode},
         ExecuteOnSameContext(kind, target, value, code)
  PROVE  HostInv'
<1> DEFINE fn == FunctionOf(code)
           caller == runtime.scAddress
           mode == IF kind = "readOnly" THEN "yes" ELSE runtime.readOnly
           f == Frame(kind, fn, "yes", caller, target, code)
<1>1. /\ phase = "running" /\ TypeOK /\ output \in GoodOutput
      /\ runtime \in RuntimeType /\ mode \in {"yes", "no"}
      /\ codeUpdates \in SUBSET Addresses
  BY DEF HostInv, GoodInv, TypeOK, RuntimeType, ExecuteOnSameContext, Executing
<1>2. fn \in EntryPoints /\ code \in Codes \cup {NoCode} /\ caller \in Addresses
  BY <1>1, FunctionTyped, RunningAddresses
<1>3. f \in FrameType /\ f.kind = kind /\ f.target = target
  BY <1>1, <1>2, FrameTyped DEF Kinds
<1>4. \/ /\ HasSufficientBalance(output, caller, value)
         /\ EnterCallee(output, fn, caller, target, value, mode)
         /\ calls' = Append(calls, f)
         /\ UNCHANGED <<codeUpdates, storageAddr, storageStack, bigInts, ret>>
      \/ Refused("yes") /\ runtime' = AfterCall(kind, runtime)
  BY DEF ExecuteOnSameContext, Enters
<1>5. ops' = ops + 1 /\ UNCHANGED <<phase, vmOutput, history>>
  BY DEF ExecuteOnSameContext
<1>r. AfterCall(kind, runtime) \in RuntimeType /\ AfterCall(kind, runtime).scAddress = caller
  BY <1>1, AfterCallTyped
<1> HIDE DEF fn, f, mode, caller
<1>6. CASE /\ HasSufficientBalance(output, caller, value)
           /\ EnterCallee(output, fn, caller, target, value, mode)
           /\ calls' = Append(calls, f)
           /\ UNCHANGED <<codeUpdates, storageAddr, storageStack, bigInts, ret>>
  BY <1>1, <1>2, <1>3, <1>5, <1>6, EnterKeepsInv
<1>7. CASE Refused("yes") /\ runtime' = AfterCall(kind, runtime)
  BY <1>1, <1>5, <1>r, <1>7, RefusedKeepsInv DEF caller
<1> QED BY <1>4, <1>6, <1>7

(* CreateNewContract, whether it is refused, fails or runs init.           *)
LEMMA CreateNewContractKeepsInv ==
  ASSUME HostInv, NEW value \in Values, NEW code \in NewCodes,
         CreateNewContract(value, code)
  PROVE  HostInv'
<1> DEFINE creator == runtime.scAddress
           p == <<creator, CreationNonce(output, creator)>>
           new == NewAddr[p]
           out == DeployCode(output, new, code)
           f == Frame("dest", "create", "no", creator, new, code)
<1>1. /\ phase = "running" /\ TypeOK /\ output \in GoodOutput
      /\ runtime \in RuntimeType /\ runtime.readOnly \in {"yes", "no"}
      /\ codeUpdates \in SUBSET Addresses /\ code \in Codes \cup {NoCode}
  BY HostAssumption
     DEF HostInv, GoodInv, TypeOK, RuntimeType, CreateNewContract, Executing
<1>2. creator \in Addresses /\ new \in Addresses
  BY <1>1, RunningAddresses, HostAssumption DEF CreateNewContract
<1>3. \/ Refused("no") /\ UNCHANGED runtime
      \/ /\ HasSufficientBalance(out, creator, value)
         /\ codeUpdates' = codeUpdates \cup {new}
         /\ EnterOnDestContext(out, "create", creator, new, value)
         /\ calls' = Append(calls, f) /\ UNCHANGED ret
      \/ /\ output' = DeleteOutputAccount(out, new)
         /\ codeUpdates' = codeUpdates \ {new} /\ ret' = "failed"
         /\ UNCHANGED <<outputStack, runtime, runtimeStack, storageAddr,
                        storageStack, bigInts, bigIntStack, calls>>
  BY DEF CreateNewContract, Enters
<1>4. ops' = ops + 1 /\ UNCHANGED <<phase, vmOutput, history>>
  BY DEF CreateNewContract
<1> HIDE DEF creator, new
<1>5. f \in FrameType /\ f.kind = "dest" /\ f.target = new
  BY <1>1, <1>2, FrameTyped DEF Kinds, EntryPoints
<1>6. out \in GoodOutput
  BY <1>1, <1>2, GoodCode
<1>7. DeleteOutputAccount(out, new) \in GoodOutput
  BY <1>2, <1>6, GoodSimple
<1> HIDE DEF f, out
<1>8. CASE Refused("no") /\ UNCHANGED runtime
  BY <1>1, <1>4, <1>8, RefusedKeepsInv
<1>9. CASE /\ HasSufficientBalance(out, creator, value)
           /\ codeUpdates' = codeUpdates \cup {new}
           /\ EnterOnDestContext(out, "create", creator, new, value)
           /\ calls' = Append(calls, f) /\ UNCHANGED ret
  <2>1. codeUpdates' \in SUBSET Addresses
    BY <1>1, <1>2, <1>9
  <2> QED BY <1>1, <1>2, <1>4, <1>5, <1>6, <1>9, <2>1, EnterKeepsInv DEF EnterOnDestContext
<1>10. CASE /\ output' = DeleteOutputAccount(out, new)
            /\ codeUpdates' = codeUpdates \ {new} /\ ret' = "failed"
            /\ UNCHANGED <<outputStack, runtime, runtimeStack, storageAddr,
                           storageStack, bigInts, bigIntStack, calls>>
  <2>1. output' \in GoodOutput /\ output' \in OutputType
    BY <1>7, <1>10, GoodIsTyped
  <2>2. TypeOK'
    BY <1>1, <1>4, <1>10, <2>1 DEF TypeOK
  <2> QED BY <1>1, <1>4, <1>10, <2>1, <2>2, FlatKeepsInv
<1> QED BY <1>3, <1>8, <1>9, <1>10

-----------------------------------------------------------------------------
(* The transaction begins and ends.                                        *)

(* The three entry points of a transaction.                                *)
LEMMA RunKeepsInv ==
  ASSUME HostInv, NEW caller \in Addresses, NEW value \in Values
  PROVE  /\ \A target \in Addresses : RunSmartContractCall(caller, target, value) => HostInv'
         /\ \A code \in NewCodes : RunSmartContractCreate(caller, value, code) => HostInv'
         /\ \A target \in DOMAIN Owner, code \in NewCodes :
              RunSmartContractUpgrade(caller, target, value, code) => HostInv'
<1>1. \A a \in Addresses : AddTxValueToAccount(NewVMOutput, a, value) \in GoodOutput
  BY GoodNew, GoodTxValue
<1>2. ASSUME NEW target \in Addresses, RunSmartContractCall(caller, target, value)
      PROVE  HostInv'
  <2> DEFINE out == AddTxValueToAccount(NewVMOutput, target, value)
  <2>1. CacheCode(out, target) \in GoodOutput
    BY <1>1, GoodCode
  <2>2. CASE GetCode(out, target) # NoCode
    <3>1. /\ phase = "idle"
          /\ StartTransaction("call", caller, target, value, NoCode, CacheCode(out, target))
      BY <1>2, <2>2 DEF RunSmartContractCall
    <3> QED BY <2>1, <3>1, StartKeepsInv, NoCode \in Codes \cup {NoCode} DEF EntryPoints
  <2>3. CASE ~ (GetCode(out, target) # NoCode)
    <3>1. /\ phase = "idle" /\ phase' = "done"
          /\ vmOutput' = SetReturnCode(NewVMOutput, "ExecutionFailed")
          /\ UNCHANGED <<contexts, calls, ret, history, ops>>
      BY <1>2, <2>3 DEF RunSmartContractCall
    <3>2. vmOutput' \in OutputType
      BY <3>1, GoodNew, GoodSimple, GoodIsTyped DEF ReturnCodes
    <3>3. TypeOK'
      BY <3>1, <3>2 DEF HostInv, TypeOK, contexts
    <3>4. GoodInv' /\ IdleInv' /\ NestInv'
      BY <3>1 DEF HostInv, GoodInv, IdleInv, NestInv, contexts
    <3> QED BY <3>3, <3>4 DEF HostInv
  <2> QED BY <2>2, <2>3
<1>3. ASSUME NEW code \in NewCodes, RunSmartContractCreate(caller, value, code)
      PROVE  HostInv'
  <2> DEFINE p == <<caller, CreationNonce(NewVMOutput, caller)>>
  <2>1. /\ phase = "idle" /\ p \in DOMAIN NewAddr
        /\ StartTransaction("create", caller, NewAddr[p], value, code,
                            AddTxValueToAccount(NewVMOutput, NewAddr[p], value))
    BY <1>3 DEF RunSmartContractCreate
  <2>2. NewAddr[p] \in Addresses /\ code \in Codes \cup {NoCode}
    BY <2>1, HostAssumption
  <2> HIDE DEF p
  <2> QED BY <1>1, <2>1, <2>2, StartKeepsInv DEF EntryPoints
<1>4. ASSUME NEW target \in DOMAIN Owner, NEW code \in NewCodes,
             RunSmartContractUpgrade(caller, target, value, code)
      PROVE  HostInv'
  <2>1. target \in Addresses /\ code \in Codes \cup {NoCode}
    BY HostAssumption
  <2>2. /\ phase = "idle"
        /\ StartTransaction("upgrade", caller, target, value, code,
                            AddTxValueToAccount(NewVMOutput, target, value))
    BY <1>4 DEF RunSmartContractUpgrade
  <2> QED BY <1>1, <2>1, <2>2, StartKeepsInv DEF EntryPoints
<1> QED BY <1>2, <1>3, <1>4

(* The end of a transaction.                                               *)
LEMMA FinishTransactionKeepsInv ==
  ASSUME HostInv, NEW ok \in BOOLEAN, FinishTransaction(ok)
  PROVE  HostInv'
<1> DEFINE f == calls[1]
           out == IF f.fn # "call" THEN DeployCode(output, f.target, f.code) ELSE output
           updates == IF f.fn # "call" THEN codeUpdates \cup {f.target} ELSE codeUpdates
<1>1. phase = "running" /\ Len(calls) = 1 /\ TypeOK /\ output \in GoodOutput
  BY DEF HostInv, GoodInv, FinishTransaction
<1>2. f \in FrameType
  BY <1>1, ElementOfSeq, 1 \in 1 .. 1 DEF TypeOK
<1>3. out \in GoodOutput
  BY <1>1, <1>2, GoodCode DEF FrameType
<1>4. \/ vmOutput' = GetVMOutput(out, runtime.scAddress, updates) /\ Commit(f)
      \/ /\ vmOutput' = SetReturnCode(NewVMOutput, "ExecutionFailed")
         /\ history' = NoHistory
  BY DEF FinishTransaction
<1>5. phase' = "done" /\ calls' = <<>> /\ UNCHANGED <<contexts, ret, ops>>
  BY DEF FinishTransaction
<1> HIDE DEF f, out, updates
<1>6. GetVMOutput(out, runtime.scAddress, updates) \in OutputType
  BY <1>1, <1>3, RunningAddresses, GoodCode, GoodIsTyped
<1>7. SetReturnCode(NewVMOutput, "ExecutionFailed") \in OutputType
  BY <1>1, RunningAddresses, GoodNew, GoodSimple, GoodIsTyped DEF ReturnCodes
<1>8. vmOutput' \in OutputType /\ history' \in HistoryType
  BY <1>1, <1>2, <1>4, <1>6, <1>7, HistoryTyped
<1>9. TypeOK'
  BY <1>1, <1>5, <1>8, EmptySeq DEF TypeOK, contexts
<1>10. GoodInv' /\ IdleInv' /\ NestInv'
  BY <1>5 DEF HostInv, GoodInv, IdleInv, NestInv, contexts
<1> QED BY <1>9, <1>10 DEF HostInv

-----------------------------------------------------------------------------
(* Calls that end.                                                         *)

(* What a call in progress finds on the stacks.                            *)
LEMMA InCallFacts ==
  ASSUME HostInv, NEW kinds, InCall(kinds)
  PROVE  /\ phase = "running" /\ Len(calls) > 1 /\ Last(calls) \in FrameType
         /\ Front(calls) \in Seq(FrameType)
         /\ Last(outputStack) \in GoodOutput /\ Front(outputStack) \in Seq(GoodOutput)
         /\ Last(runtimeStack) \in RuntimeType /\ Front(runtimeStack) \in Seq(RuntimeType)
         /\ Last(bigIntStack) \in Values /\ Front(bigIntStack) \in Seq(Values)
<1>1. phase = "running" /\ Len(calls) > 1
  BY DEF InCall
<1>2. /\ calls \in Seq(FrameType) /\ outputStack \in Seq(GoodOutput)
      /\ runtimeStack \in Seq(RuntimeType) /\ bigIntStack \in Seq(Values)
  BY DEF HostInv, TypeOK, GoodInv
<1>3. PICK n \in Nat : n = Len(calls) /\ n > 1
  BY <1>1, <1>2, LenProperties
<1>4. Len(outputStack) = n - 1 /\ Len(runtimeStack) = n - 1 /\ Len(bigIntStack) = n - 1
  BY <1>1, <1>3 DEF HostInv, NestInv
<1>5. n # 0 /\ n - 1 # 0
  BY <1>3
<1>6. calls # <<>> /\ outputStack # <<>> /\ runtimeStack # <<>> /\ bigIntStack # <<>>
  BY <1>2, <1>3, <1>4, <1>5, EmptySeq
<1>7. Last(calls) \in FrameType /\ Front(calls) \in Seq(FrameType)
  BY <1>2, <1>6, StackPop
<1>8. Last(outputStack) \in GoodOutput /\ Front(outputStack) \in Seq(GoodOutput)
  BY <1>2, <1>6, StackPop
<1>9. Last(runtimeStack) \in RuntimeType /\ Front(runtimeStack) \in Seq(RuntimeType)
  BY <1>2, <1>6, StackPop
<1>10. Last(bigIntStack) \in Values /\ Front(bigIntStack) \in Seq(Values)
  BY <1>2, <1>6, StackPop
<1> QED BY <1>1, <1>7, <1>8, <1>9, <1>10

(* The end of a call, good or bad.                                         *)
LEMMA PopKeepsInv ==
  ASSUME HostInv, NEW kinds, InCall(kinds), NEW f \in FrameType, f = Last(calls),
         output' \in GoodOutput, outputStack' = Front(outputStack),
         codeUpdates' \in SUBSET Addresses, bigInts' \in Values,
         bigIntStack' = Front(bigIntStack), PopRuntime(f),
         \/ f.kind = "dest" /\ PopStorage
         \/ f.kind # "dest" /\ UNCHANGED <<storageAddr, storageStack>>,
         history' \in HistoryType, calls' = Front(calls),
         ret' \in {"none", "ok", "failed"}, UNCHANGED <<phase, vmOutput, ops>>
  PROVE  HostInv'
<1>1. /\ phase = "running" /\ Len(calls) > 1 /\ Front(calls) \in Seq(FrameType)
      /\ Front(outputStack) \in Seq(GoodOutput)
      /\ Last(runtimeStack) \in RuntimeType /\ Front(runtimeStack) \in Seq(RuntimeType)
      /\ Front(bigIntStack) \in Seq(Values)
  BY InCallFacts
<1>2. /\ TypeOK /\ calls \in Seq(FrameType) /\ Nest(calls, storageStack, storageAddr)
      /\ storageStack \in Seq(Addresses \cup {NoAddress})
      /\ outputStack \in Seq(GoodOutput) /\ runtimeStack \in Seq(RuntimeType)
      /\ bigIntStack \in Seq(Values)
  BY <1>1 DEF HostInv, TypeOK, GoodInv, NestInv
<1>3. PICK n \in Nat : n = Len(calls) /\ n > 1
  BY <1>1, <1>2, LenProperties
<1>4. /\ Len(outputStack) = n - 1 /\ Len(runtimeStack) = n - 1 /\ Len(bigIntStack) = n - 1
      /\ \A i \in 1 .. n - 1 : runtimeStack[i].scAddress = calls[i].target
  BY <1>1, <1>3 DEF HostInv, NestInv
<1>5. /\ n # 0 /\ n - 1 # 0 /\ n - 1 \in 1 .. n - 1
      /\ \A i \in 1 .. n - 2 : i \in 1 .. n - 1 /\ i \in 1 .. (n - 1) - 1
      /\ (n - 1) - 1 = n - 2
  BY <1>3
<1>6. calls # <<>> /\ outputStack # <<>> /\ runtimeStack # <<>> /\ bigIntStack # <<>>
  BY <1>2, <1>3, <1>4, <1>5, EmptySeq
<1>7. /\ Len(calls') = n - 1
      /\ \A i \in 1 .. n - 1 : calls'[i] = calls[i]
  BY <1>2, <1>3, <1>6, StackPop
<1>8. Len(outputStack') = (n - 1) - 1
  BY <1>2, <1>4, <1>6, StackPop
<1>9. Len(bigIntStack') = (n - 1) - 1
  BY <1>2, <1>4, <1>6, StackPop
<1>10. /\ Len(runtimeStack') = (n - 1) - 1
       /\ \A i \in 1 .. (n - 1) - 1 : runtimeStack'[i] = runtimeStack[i]
  BY <1>2, <1>4, <1>6, StackPop DEF PopRuntime
<1>11. runtime' \in RuntimeType /\ runtime'.scAddress = Last(runtimeStack).scAddress
  BY <1>1, AfterCallTyped DEF PopRuntime
<1>12. Last(runtimeStack) = runtimeStack[n - 1]
  BY <1>4 DEF Last
<1>13. /\ Nest(calls', storageStack', storageAddr')
       /\ storageAddr' \in Addresses \cup {NoAddress}
       /\ storageStack' \in Seq(Addresses \cup {NoAddress})
  <2>1. CASE f.kind = "dest" /\ PopStorage
    <3>1. Last(calls).kind = "dest"
      BY <2>1
    <3>2. storageStack # <<>> /\ Nest(Front(calls), Front(storageStack), Last(storageStack))
      BY <1>1, <1>2, <3>1, NestPopOwn
    <3>3. /\ Last(storageStack) \in Addresses \cup {NoAddress}
          /\ Front(storageStack) \in Seq(Addresses \cup {NoAddress})
      BY <1>2, <3>2, StackPop
    <3> QED BY <2>1, <3>2, <3>3 DEF PopStorage
  <2>2. CASE f.kind # "dest" /\ UNCHANGED <<storageAddr, storageStack>>
    <3>1. Last(calls).kind # "dest"
      BY <2>2
    <3>2. Nest(Front(calls), storageStack, storageAddr)
      BY <1>1, <1>2, <3>1, NestPopSame
    <3> QED BY <1>2, <2>2, <3>2 DEF TypeOK
  <2> QED BY <2>1, <2>2
<1>14. TypeOK'
  <2>1. runtimeStack' \in Seq(RuntimeType)
    BY <1>1 DEF PopRuntime
  <2> QED BY <1>1, <1>2, <1>11, <1>13, <2>1, GoodIsTyped DEF TypeOK
<1>15. GoodInv'
  BY <1>1 DEF GoodInv
<1>16. IdleInv'
  BY <1>1 DEF IdleInv
<1>17. NestInv'
  <2>1. runtime'.scAddress = calls'[n - 1].target
    BY <1>4, <1>5, <1>7, <1>11, <1>12
  <2>2. \A i \in 1 .. n - 2 : runtimeStack'[i].scAddress = calls'[i].target
    BY <1>4, <1>5, <1>7, <1>10
  <2>3. Len(calls') - 1 = n - 2
    BY <1>5, <1>7
  <2>4. Len(outputStack') = n - 2 /\ Len(bigIntStack') = n - 2 /\ Len(runtimeStack') = n - 2
    BY <1>5, <1>8, <1>9, <1>10
  <2> QED BY <1>7, <1>13, <2>1, <2>2, <2>3, <2>4 DEF NestInv
<1> QED BY <1>14, <1>15, <1>16, <1>17 DEF HostInv

(* The code that an upgrade deploys.                                       *)
LEMMA UpgradeTyped ==
  ASSUME TypeOK, output \in GoodOutput, NEW f \in FrameType
  PROVE  Upgraded(f) \in GoodOutput /\ UpdatesAfter(f) \in SUBSET Addresses
<1>1. f.target \in Addresses /\ f.code \in Codes \cup {NoCode}
  BY DEF FrameType
<1>2. DeployCode(output, f.target, f.code) \in GoodOutput
  BY <1>1, GoodCode
<1> QED BY <1>1, <1>2 DEF Upgraded, UpdatesAfter, TypeOK

(* finishExecuteOnDestContext.                                             *)
LEMMA FinishOnDestKeepsInv ==
  ASSUME HostInv, FinishExecuteOnDestContext
  PROVE  HostInv'
<1> DEFINE f == Last(calls)
           vo == GetVMOutput(Upgraded(f), runtime.scAddress, UpdatesAfter(f))
           merged == PopMerge(vo)
<1>1. /\ InCall({"dest"}) /\ f.kind = "dest"
      /\ output' = IF f.fn = "create" THEN IncreaseNonce(merged, f.caller) ELSE merged
      /\ outputStack' = Front(outputStack) /\ codeUpdates' = UpdatesAfter(f)
      /\ bigInts' = Last(bigIntStack) /\ bigIntStack' = Front(bigIntStack)
      /\ PopRuntime(f) /\ PopStorage /\ Commit(f)
      /\ calls' = Front(calls) /\ ret' = "ok" /\ UNCHANGED <<phase, vmOutput, ops>>
  BY DEF FinishExecuteOnDestContext, InCall
<1>2. /\ phase = "running" /\ f \in FrameType /\ Last(outputStack) \in GoodOutput
      /\ Last(bigIntStack) \in Values
  BY <1>1, InCallFacts
<1>3. TypeOK /\ output \in GoodOutput /\ f.caller \in Addresses
  BY <1>2 DEF HostInv, GoodInv, FrameType
<1>4. runtime.scAddress \in Addresses
  BY <1>2, RunningAddresses
<1> HIDE DEF f
<1>5. Upgraded(f) \in GoodOutput /\ UpdatesAfter(f) \in SUBSET Addresses
  BY <1>2, <1>3, UpgradeTyped
<1>6. vo \in GoodOutput
  BY <1>4, <1>5, GoodCode
<1> HIDE DEF vo
<1>7. merged \in GoodOutput
  BY <1>2, <1>6, GoodMerge, GoodCopy DEF PopMerge
<1> HIDE DEF merged
<1>8. output' \in GoodOutput
  BY <1>1, <1>3, <1>7, GoodCode
<1>9. history' \in HistoryType
  BY <1>1, <1>2, <1>3, HistoryTyped
<1>10. f = Last(calls)
  BY DEF f
<1> QED BY <1>1, <1>2, <1>5, <1>8, <1>9, <1>10, PopKeepsInv

(* finishExecuteOnSameContext.                                             *)
LEMMA FinishOnSameKeepsInv ==
  ASSUME HostInv, FinishExecuteOnSameContext
  PROVE  HostInv'
<1> DEFINE f == Last(calls)
<1>1. /\ InCall({"same", "readOnly"}) /\ f.kind # "dest"
      /\ output' = GetVMOutput(Upgraded(f), runtime.scAddress, UpdatesAfter(f))
      /\ outputStack' = Front(outputStack) /\ codeUpdates' = UpdatesAfter(f)
      /\ bigIntStack' = Front(bigIntStack) /\ PopRuntime(f) /\ Commit(f)
      /\ calls' = Front(calls) /\ ret' = "ok"
      /\ UNCHANGED <<phase, vmOutput, storageAddr, storageStack, bigInts, ops>>
  BY DEF FinishExecuteOnSameContext, InCall
<1>2. phase = "running" /\ f \in FrameType
  BY <1>1, InCallFacts
<1>3. TypeOK /\ output \in GoodOutput
  BY DEF HostInv, GoodInv
<1>4. runtime.scAddress \in Addresses
  BY <1>2, RunningAddresses
<1>5. f = Last(calls)
  OBVIOUS
<1> HIDE DEF f
<1>6. Upgraded(f) \in GoodOutput /\ UpdatesAfter(f) \in SUBSET Addresses
  BY <1>2, <1>3, UpgradeTyped
<1>7. output' \in GoodOutput
  BY <1>1, <1>4, <1>6, GoodCode
<1>8. history' \in HistoryType /\ bigInts' \in Values
  BY <1>1, <1>2, <1>3, HistoryTyped DEF TypeOK
<1> QED BY <1>1, <1>2, <1>5, <1>6, <1>7, <1>8, PopKeepsInv

(* A call that fails.                                                      *)
LEMMA FailCallKeepsInv ==
  ASSUME HostInv, FailCall
  PROVE  HostInv'
<1> DEFINE f == Last(calls)
           ks == {"dest", "same", "readOnly"}
<1>1. /\ InCall(ks) /\ output' = OutputAfterFailure(f)
      /\ outputStack' = Front(outputStack)
      /\ codeUpdates' \in IF f.fn = "create" THEN {codeUpdates \ {f.target}}
                          ELSE {codeUpdates, UpdatesAfter(f)}
      /\ bigInts' = Last(bigIntStack) /\ bigIntStack' = Front(bigIntStack)
      /\ PopRuntime(f)
      /\ \/ f.kind = "dest" /\ PopStorage
         \/ f.kind # "dest" /\ UNCHANGED <<storageAddr, storageStack>>
      /\ history' = f.history
      /\ calls' = Front(calls) /\ ret' = "failed" /\ UNCHANGED <<phase, vmOutput, ops>>
  BY DEF FailCall
<1>2. f \in FrameType /\ Last(outputStack) \in GoodOutput /\ Last(bigIntStack) \in Values
  BY <1>1, InCallFacts
<1>3. TypeOK /\ output \in GoodOutput
  BY DEF HostInv, GoodInv
<1>4. f = Last(calls)
  OBVIOUS
<1> HIDE DEF f, ks
<1>5. f.target \in Addresses /\ f.history \in HistoryType
  BY <1>2 DEF FrameType
<1>6. DeleteOutputAccount(Last(outputStack), f.target) \in GoodOutput
  BY <1>2, <1>5, GoodSimple
<1>7. OutputAfterFailure(f) \in GoodOutput
  BY <1>2, <1>5, <1>6, GoodSimple DEF OutputAfterFailure, ReturnCodes
<1>8. codeUpdates' \in SUBSET Addresses
  <2>1. UpdatesAfter(f) \in SUBSET Addresses /\ codeUpdates \in SUBSET Addresses
    BY <1>2, <1>3, UpgradeTyped DEF TypeOK
  <2> QED BY <1>1, <2>1
<1>9. output' \in GoodOutput /\ history' \in HistoryType /\ bigInts' \in Values
  BY <1>1, <1>2, <1>5, <1>7
<1> QED BY <1>1, <1>2, <1>4, <1>8, <1>9, PopKeepsInv

-----------------------------------------------------------------------------
(* Every step preserves the invariant, one case per action.                *)
LEMMA HostStep == HostInv /\ [Next]_vars => HostInv'
<1> SUFFICES ASSUME HostInv, [Next]_vars PROVE HostInv'
  OBVIOUS
<1>1. CASE \E c \in Addresses, a \in Addresses, v \in Values :
             c \in Existing \ Contracts /\ RunSmartContractCall(c, a, v)
  BY <1>1, RunKeepsInv
<1>2. CASE \E c \in Addresses, v \in Values, code \in NewCodes :
             c \in Existing \ Contracts /\ RunSmartContractCreate(c, v, code)
  BY <1>2, RunKeepsInv
<1>3. CASE \E c \in Addresses, a \in DOMAIN Owner, v \in Values, code \in NewCodes :
             c \in Existing \ Contracts /\ RunSmartContractUpgrade(c, a, v, code)
  BY <1>3, RunKeepsInv
<1>4. CASE \E v \in Values : SetStorage(v) \/ SetBigInt(v)
  BY <1>4, SetStorageKeepsInv, SetBigIntKeepsInv
<1>5. CASE \E a \in Targets, v \in Values, withGas \in BOOLEAN : TransferValue(a, v, withGas)
  BY <1>5, TransferKeepsInv
<1>6. CASE \E strict \in {"yes", "no"}, c \in Addresses, a \in Addresses,
              v \in Values, code \in NewCodes \cup {NoCode} :
             ExecuteOnDestContext(strict, c, a, v, code)
  BY <1>6, ExecuteOnDestContextKeepsInv
<1>7. CASE \E kind \in {"same", "readOnly"}, a \in Addresses, v \in Values,
              code \in NewCodes \cup {NoCode} : ExecuteOnSameContext(kind, a, v, code)
  BY <1>7, ExecuteOnSameContextKeepsInv
<1>8. CASE \E v \in Values, code \in NewCodes : CreateNewContract(v, code)
  BY <1>8, CreateNewContractKeepsInv
<1>9. CASE FinishExecuteOnDestContext \/ FinishExecuteOnSameContext \/ FailCall
  BY <1>9, FinishOnDestKeepsInv, FinishOnSameKeepsInv, FailCallKeepsInv
<1>10. CASE \E ok \in BOOLEAN : FinishTransaction(ok)
  BY <1>10, FinishTransactionKeepsInv
<1>11. CASE UNCHANGED vars
  <2>1. TypeOK'
    BY <1>11 DEF HostInv, TypeOK, vars
  <2>2. GoodInv' /\ IdleInv' /\ NestInv'
    BY <1>11 DEF HostInv, GoodInv, IdleInv, NestInv, vars
  <2> QED BY <2>1, <2>2 DEF HostInv
<1> QED BY <1>1, <1>2, <1>3, <1>4, <1>5, <1>6, <1>7, <1>8, <1>9, <1>10, <1>11 DEF Next

(* HostInv is inductive: every state that Run* and the host calls reach    *)
(* satisfies it.                                                           *)
THEOREM HostInvariant == Spec => []HostInv
  BY HostInit, HostStep, PTL DEF Spec

(* The contexts keep their types whatever the contracts do.                *)
THEOREM HostTypeCorrect == Spec => []TypeOK
<1>1. HostInv => TypeOK
  BY DEF HostInv
<1> QED BY <1>1, HostInvariant, PTL

(* hasSufficientBalance, together with merging and undoing of outputs,     *)
(* lets no account spend more than it has, at any depth of calls.          *)
THEOREM NeverOverdrawn == Spec => []NoOverdraft
<1>1. HostInv => NoOverdraft
  <2> SUFFICES ASSUME HostInv PROVE NoOverdraft
    OBVIOUS
  <2>1. Solvent(output)
    BY DEF HostInv, GoodInv, GoodOutput
  <2>2. ASSUME NEW i \in DOMAIN outputStack PROVE Solvent(outputStack[i])
    <3>1. outputStack \in Seq(GoodOutput)
      BY DEF HostInv, GoodInv
    <3>2. i \in 1 .. Len(outputStack)
      BY <3>1, LenProperties
    <3>3. outputStack[i] \in GoodOutput
      BY <3>1, <3>2, ElementOfSeq
    <3> QED BY <3>3 DEF GoodOutput
  <2>3. TypeOK
    BY DEF HostInv
  <2> QED BY <2>1, <2>2, <2>3 DEF NoOverdraft
<1> QED BY <1>1, HostInvariant, PTL

(* PushState and the pops of the five contexts stay in step, at any depth: *)
(* a call returns to the contract that made it, and to its storage.        *)
THEOREM StacksAligned == Spec => []ContextsAligned
<1>1. HostInv => ContextsAligned
  <2> SUFFICES ASSUME HostInv, phase = "running" PROVE ContextsAligned
    BY DEF ContextsAligned
  <2>1. calls \in Seq(FrameType) /\ runtimeStack \in Seq(RuntimeType)
    BY DEF HostInv, TypeOK
  <2>2. DOMAIN calls = 1 .. Len(calls) /\ DOMAIN runtimeStack = 1 .. Len(runtimeStack)
    BY <2>1, LenProperties
  <2>3. OwnContext = Own(calls, Len(calls))
    BY <2>2 DEF OwnContext, Own
  <2>4. Last(calls) = calls[Len(calls)]
    BY DEF Last
  <2>5. Nest(calls, storageStack, storageAddr) /\ NestInv
    BY DEF HostInv, NestInv
  <2>6. /\ Len(storageStack) = Cardinality(OwnContext) - 1
        /\ storageAddr = calls[Max(OwnContext)].target
    BY <2>3, <2>5 DEF Nest
  <2> QED BY <2>2, <2>4, <2>5, <2>6 DEF ContextsAligned, NestInv
<1> QED BY <1>1, HostInvariant, PTL

-----------------------------------------------------------------------------
(* What the output reports, and what a failure restores.                   *)
(*                                                                         *)
(* Two restrictions on what contracts do, without which the code does not  *)
(* have these properties: the init function of a new contract calls no     *)
(* contract (it may create further ones), and nobody sends value to the    *)
(* address of a contract before it is created.                             *)

Future == {NewAddr[p] : p \in DOMAIN NewAddr}
ConstructorsCallNobody == InitTargets = {}
NoValueAhead == Targets \cap Future = {}

(* Contracts whose code was deployed by calls that did not fail, contracts *)
(* being created by the first i calls, and the addresses that the output   *)
(* may know: the others are those of contracts that do not exist yet.      *)
Deployed(h) == {a \in Addresses : h.deployed[a] # NoCode}
Making(cs, i) == {cs[j].target : j \in {k \in 1 .. i : cs[k].fn = "create"}}
Known(h, cs, i) == (Addresses \ Future) \cup Making(cs, i) \cup Deployed(h)

(* Code that the output has to keep.                                       *)
Kept(h, cs, i) ==
  Deployed(h) \cup {cs[j].target : j \in {k \in 2 .. i : cs[k].fn = "create"}}

Clean(out) ==
  \A a \in Addresses : a \notin out.listed => out.accounts[a] = NewVMOutputAccount
NoncesGrow(out) ==
  \A a \in Existing :
    out.accounts[a].nonce = 0 \/ out.accounts[a].nonce >= ChainNonce[a]
UsersHaveNoCode(out) ==
  \A a \in Addresses \ (Contracts \cup Future) : out.accounts[a].code = NoCode

(* A nonce is used up when its contract is deployed.                       *)
NoncesUsed(out, h, making) ==
  \A c \in Addresses, k \in Nat : <<c, k>> \in DOMAIN NewAddr =>
    /\ NewAddr[<<c, k>>] \in Deployed(h) => k < CreationNonce(out, c)
    /\ NewAddr[<<c, k>>] \in making => k <= CreationNonce(out, c)

Reports(out, h) ==
  \A a \in Addresses :
    /\ out.accounts[a].transfers = h.transfers[a]
    /\ h.created[a] <= 1
    /\ h.deployed[a] # NoCode =>
         a \in Contracts \cup Future /\ out.accounts[a].code = h.deployed[a]

(* The output that the caller gets back when the call f fails.             *)
Undo(out, f) == IF f.fn = "create" THEN DeleteOutputAccount(out, f.target) ELSE out

(* An output state and a history that the innermost of i calls may have.   *)
Level(out, h, cs, i) ==
  /\ Clean(out) /\ NoncesGrow(out) /\ UsersHaveNoCode(out)
  /\ Reports(out, h) /\ NoncesUsed(out, h, Making(cs, i))
  /\ \A a \in Addresses \ Known(h, cs, i) : a \notin out.listed /\ h.created[a] = 0
  /\ \A a \in Making(cs, i) : h.created[a] = 0 /\ h.deployed[a] = NoCode
  /\ \A j \in 1 .. i : cs[j].target \in Contracts \cup Making(cs, i) \cup Deployed(h)
  /\ \A j \in 2 .. i : cs[j].fn = "create" => out.accounts[cs[j].target].code = cs[j].code

(* The first i calls create contracts at future addresses.                 *)
Formed(cs, i) ==
  \A j \in 1 .. i : /\ cs[j].target \in Addresses
                    /\ cs[j].fn = "create" => cs[j].target \in Future

Prefix(s, t) == Len(s) <= Len(t) /\ \A x \in 1 .. Len(s) : s[x] = t[x]

(* The calls: a call that creates a contract is made by the contract       *)
(* below it, at an address that no call below it has, and all calls above  *)
(* it create contracts too; the outermost one is made by a user.           *)
Shape(cs) ==
  \A j \in 1 .. Len(cs) :
    /\ cs[j].fn # "call" => cs[j].code # NoCode
    /\ cs[j].fn = "upgrade" => cs[j].target \in Contracts
    /\ cs[j].fn = "create" =>
         /\ \A i \in 1 .. j - 1 : cs[i].target # cs[j].target
         /\ \A i \in j .. Len(cs) : cs[i].fn = "create"
         /\ \E k \in Nat : /\ <<cs[j].caller, k>> \in DOMAIN NewAddr
                           /\ NewAddr[<<cs[j].caller, k>>] = cs[j].target
         /\ IF j = 1 THEN cs[j].caller \in Existing \ Contracts
            ELSE cs[j].kind = "dest" /\ cs[j].caller = cs[j - 1].target

(* How the state of a call extends the one that its caller pushed.         *)
Grows(o1, h1, o2, h2) ==
  /\ o1.listed \subseteq o2.listed /\ Deployed(h1) \subseteq Deployed(h2)
  /\ \A a \in Addresses :
       /\ o1.accounts[a].nonce <= o2.accounts[a].nonce
       /\ Prefix(o1.accounts[a].transfers, o2.accounts[a].transfers)

(* Steps that move value, write storage, or cache or drop code, but keep   *)
(* the codes of P and touch no account outside K.                          *)
Quiet(o1, o2, K, P) ==
  /\ o1.listed \subseteq o2.listed /\ o2.listed \subseteq o1.listed \cup K
  /\ Clean(o2)
  /\ \A a \in Addresses :
       /\ o2.accounts[a].nonce = o1.accounts[a].nonce
       /\ o2.accounts[a].transfers = o1.accounts[a].transfers
       /\ \/ o2.accounts[a].code = o1.accounts[a].code
          \/ a \notin P /\ a \in Contracts \cup Future

(* The accounts after SetAccount.                                          *)
LEMMA SetAccountIs ==
  ASSUME NEW out \in OutputType, NEW a \in Addresses, NEW acc
  PROVE  /\ SetAccount(out, a, acc).listed = out.listed \cup {a}
         /\ SetAccount(out, a, acc).returnCode = out.returnCode
         /\ \A b \in Addresses : SetAccount(out, a, acc).accounts[b]
                                   = IF b = a THEN acc ELSE out.accounts[b]
  BY DEF SetAccount, OutputType

(* The fields of an updated account.                                       *)
LEMMA AccountFields ==
  ASSUME NEW acc \in AccountType
  PROVE  /\ \A d \in Int : LET e == [acc EXCEPT !.delta = d] IN
              /\ e \in AccountType /\ e.delta = d
              /\ e.nonce = acc.nonce /\ e.code = acc.code /\ e.transfers = acc.transfers
         /\ \A s \in Values : LET e == [acc EXCEPT !.store = s] IN
              /\ e \in AccountType /\ e.delta = acc.delta
              /\ e.nonce = acc.nonce /\ e.code = acc.code /\ e.transfers = acc.transfers
         /\ \A c \in Codes \cup {NoCode} : LET e == [acc EXCEPT !.code = c] IN
              /\ e \in AccountType /\ e.delta = acc.delta /\ e.store = acc.store
              /\ e.nonce = acc.nonce /\ e.code = c /\ e.transfers = acc.transfers
         /\ \A n \in Nat : LET e == [acc EXCEPT !.nonce = n] IN
              /\ e \in AccountType /\ e.delta = acc.delta
              /\ e.nonce = n /\ e.code = acc.code /\ e.transfers = acc.transfers
         /\ \A x \in Seq(Values) : LET e == [acc EXCEPT !.transfers = x] IN
              /\ e \in AccountType /\ e.delta = acc.delta
              /\ e.nonce = acc.nonce /\ e.code = acc.code /\ e.transfers = x
<1> USE DEF AccountType
<1>1. \A d \in Int : LET e == [acc EXCEPT !.delta = d] IN
        /\ e \in AccountType /\ e.delta = d
        /\ e.nonce = acc.nonce /\ e.code = acc.code /\ e.transfers = acc.transfers
  OBVIOUS
<1>2. \A s \in Values : LET e == [acc EXCEPT !.store = s] IN
        /\ e \in AccountType /\ e.delta = acc.delta
        /\ e.nonce = acc.nonce /\ e.code = acc.code /\ e.transfers = acc.transfers
  OBVIOUS
<1>3. \A c \in Codes \cup {NoCode} : LET e == [acc EXCEPT !.code = c] IN
        /\ e \in AccountType /\ e.delta = acc.delta /\ e.store = acc.store
        /\ e.nonce = acc.nonce /\ e.code = c /\ e.transfers = acc.transfers
  OBVIOUS
<1>4. \A n \in Nat : LET e == [acc EXCEPT !.nonce = n] IN
        /\ e \in AccountType /\ e.delta = acc.delta
        /\ e.nonce = n /\ e.code = acc.code /\ e.transfers = acc.transfers
  OBVIOUS
<1>5. \A x \in Seq(Values) : LET e == [acc EXCEPT !.transfers = x] IN
        /\ e \in AccountType /\ e.delta = acc.delta
        /\ e.nonce = acc.nonce /\ e.code = acc.code /\ e.transfers = x
  OBVIOUS
<1> QED BY <1>1, <1>2, <1>3, <1>4, <1>5

(* Addresses of future contracts do not exist.                             *)
LEMMA FutureFacts ==
  /\ Future \subseteq Addresses \ Existing
  /\ Contracts \subseteq Existing /\ Contracts \subseteq Addresses
  /\ Existing \subseteq Addresses
  BY HostAssumption DEF Future

(* An update of one account that leaves nonce and transfers alone.         *)
LEMMA QuietSet ==
  ASSUME NEW out \in OutputType, Clean(out), NEW K, NEW P, NEW a \in Addresses, a \in K,
         NEW acc, acc.nonce = out.accounts[a].nonce,
         acc.transfers = out.accounts[a].transfers,
         \/ acc.code = out.accounts[a].code
         \/ a \notin P /\ a \in Contracts \cup Future
  PROVE  Quiet(out, SetAccount(out, a, acc), K, P)
<1> DEFINE o2 == SetAccount(out, a, acc)
<1>1. /\ o2.listed = out.listed \cup {a}
      /\ \A b \in Addresses : o2.accounts[b] = IF b = a THEN acc ELSE out.accounts[b]
  BY SetAccountIs
<1> HIDE DEF o2
<1>2. Clean(o2)
  BY <1>1 DEF Clean
<1>3. Quiet(out, o2, K, P)
  BY <1>1, <1>2 DEF Quiet
<1> QED BY <1>3 DEF o2

(* Quiet steps follow one another.                                         *)
LEMMA QuietTrans ==
  ASSUME NEW K, NEW P, NEW o1, NEW o2, NEW o3, Quiet(o1, o2, K, P), Quiet(o2, o3, K, P)
  PROVE  Quiet(o1, o3, K, P)
<1>1. /\ o1.listed \subseteq o3.listed /\ o3.listed \subseteq o1.listed \cup K /\ Clean(o3)
  BY DEF Quiet
<1>2. ASSUME NEW a \in Addresses
      PROVE  /\ o3.accounts[a].nonce = o1.accounts[a].nonce
             /\ o3.accounts[a].transfers = o1.accounts[a].transfers
             /\ \/ o3.accounts[a].code = o1.accounts[a].code
                \/ a \notin P /\ a \in Contracts \cup Future
  BY DEF Quiet
<1> QED BY <1>1, <1>2 DEF Quiet

(* Value moves quietly between accounts that are known.                    *)
LEMMA QuietTransfer ==
  ASSUME NEW out \in OutputType, Clean(out), NEW K, NEW P,
         NEW dest \in Addresses, dest \in K, NEW sender \in Addresses, sender \in K,
         NEW v \in Values
  PROVE  Quiet(out, TransferValueOnly(out, dest, sender, v), K, P)
<1> DEFINE acc == [out.accounts[sender] EXCEPT !.delta = @ - v]
           from == SetAccount(out, sender, acc)
           acc2 == [from.accounts[dest] EXCEPT !.delta = @ + v]
<1>1. out.accounts[sender] \in AccountType /\ v \in Int
  BY HostAssumption DEF OutputType
<1>2. PICK d \in Int : d = out.accounts[sender].delta - v
  BY <1>1 DEF AccountType
<1>d. acc = [out.accounts[sender] EXCEPT !.delta = d]
  BY <1>2
<1>a. acc.nonce = out.accounts[sender].nonce /\ acc.code = out.accounts[sender].code
      /\ acc.transfers = out.accounts[sender].transfers /\ acc \in AccountType
  BY <1>1, <1>d, AccountFields
<1> HIDE DEF acc
<1>3. Quiet(out, from, K, P) /\ from \in OutputType
  BY <1>a, QuietSet, SetAccountTyped
<1> HIDE DEF from
<1>4. from.accounts[dest] \in AccountType /\ Clean(from)
  BY <1>3 DEF OutputType, Quiet
<1>b. PICK d2 \in Int : d2 = from.accounts[dest].delta + v
  BY <1>1, <1>4 DEF AccountType
<1>c. acc2 = [from.accounts[dest] EXCEPT !.delta = d2]
  BY <1>b
<1>5. acc2.nonce = from.accounts[dest].nonce /\ acc2.code = from.accounts[dest].code
      /\ acc2.transfers = from.accounts[dest].transfers
  BY <1>4, <1>c, AccountFields
<1> HIDE DEF acc2
<1>6. Quiet(from, SetAccount(from, dest, acc2), K, P)
  BY <1>3, <1>4, <1>5, QuietSet
<1>7. Quiet(out, SetAccount(from, dest, acc2), K, P)
  BY <1>3, <1>6, QuietTrans
<1> QED BY <1>7 DEF TransferValueOnly, from, acc, acc2

(* Nonces as numbers; a larger nonce of the account is a larger nonce.     *)
LEMMA NonceMonotone ==
  ASSUME NEW o1 \in OutputType, NEW o2 \in OutputType, NEW c \in Addresses,
         o1.accounts[c].nonce <= o2.accounts[c].nonce, NoncesGrow(o2)
  PROVE  /\ CreationNonce(o1, c) \in Nat /\ CreationNonce(o2, c) \in Nat
         /\ GetNonce(o1, c) \in Nat /\ GetNonce(o2, c) \in Nat
         /\ GetNonce(o1, c) <= GetNonce(o2, c)
         /\ CreationNonce(o1, c) <= CreationNonce(o2, c)
<1>1. o1.accounts[c].nonce \in Nat /\ o2.accounts[c].nonce \in Nat
  BY DEF OutputType, AccountType
<1>2. c \in Existing => ChainNonce[c] \in Nat
  BY HostAssumption
<1>3. c \in Existing => o2.accounts[c].nonce = 0 \/ o2.accounts[c].nonce >= ChainNonce[c]
  BY DEF NoncesGrow
<1>4. GetNonce(o1, c) \in Nat /\ GetNonce(o2, c) \in Nat /\ GetNonce(o1, c) <= GetNonce(o2, c)
  BY <1>1, <1>2, <1>3 DEF GetNonce
<1>5. PICK m \in Nat, n \in Nat : m = GetNonce(o1, c) /\ n = GetNonce(o2, c) /\ m <= n
  BY <1>4
<1>6. /\ CreationNonce(o1, c) = IF c \notin Existing \/ c \in Contracts \/ m = 0 THEN m ELSE m - 1
      /\ CreationNonce(o2, c) = IF c \notin Existing \/ c \in Contracts \/ n = 0 THEN n ELSE n - 1
  BY <1>5 DEF CreationNonce
<1>7. CASE c \notin Existing \/ c \in Contracts
  BY <1>4, <1>5, <1>6, <1>7
<1>8. CASE ~ (c \notin Existing \/ c \in Contracts)
  <2>1. /\ CreationNonce(o1, c) = IF m = 0 THEN m ELSE m - 1
        /\ CreationNonce(o2, c) = IF n = 0 THEN n ELSE n - 1
    BY <1>6, <1>8
  <2> QED BY <1>4, <1>5, <2>1
<1> QED BY <1>7, <1>8

(* Nonces of two outputs with the same nonces.                             *)
LEMMA NonceSame ==
  ASSUME NEW o1, NEW o2, NEW c, o1.accounts[c].nonce = o2.accounts[c].nonce
  PROVE  GetNonce(o1, c) = GetNonce(o2, c) /\ CreationNonce(o1, c) = CreationNonce(o2, c)
<1>1. GetNonce(o1, c) = GetNonce(o2, c)
  BY DEF GetNonce
<1> QED BY <1>1 DEF CreationNonce

(* Sequences extend themselves, and extensions of extensions.              *)
LEMMA PrefixFacts ==
  /\ \A s \in Seq(Values) : Prefix(s, s)
  /\ \A s, t, u \in Seq(Values) : Prefix(s, t) /\ Prefix(t, u) => Prefix(s, u)
  /\ \A s \in Seq(Values), v \in Values : Prefix(s, Append(s, v))
<1>1. \A s \in Seq(Values) : Len(s) \in Nat
  BY LenProperties
<1>2. \A s \in Seq(Values) : Prefix(s, s)
  BY <1>1 DEF Prefix
<1>3. ASSUME NEW s \in Seq(Values), NEW t \in Seq(Values), NEW u \in Seq(Values),
             Prefix(s, t), Prefix(t, u)
      PROVE  Prefix(s, u)
  <2>1. Len(s) <= Len(u) /\ \A x \in 1 .. Len(s) : x \in 1 .. Len(t)
    BY <1>1, <1>3 DEF Prefix
  <2> QED BY <1>3, <2>1 DEF Prefix
<1>4. ASSUME NEW s \in Seq(Values), NEW v \in Values PROVE Prefix(s, Append(s, v))
  <2>1. Len(Append(s, v)) = Len(s) + 1 /\ \A x \in 1 .. Len(s) : Append(s, v)[x] = s[x]
    BY AppendProperties
  <2> QED BY <1>1, <2>1 DEF Prefix
<1> QED BY <1>2, <1>3, <1>4

(* Transfers of typed outputs.                                             *)
LEMMA TransfersTyped ==
  ASSUME NEW o \in OutputType, NEW a \in Addresses
  PROVE  o.accounts[a] \in AccountType /\ o.accounts[a].transfers \in Seq(Values)
         /\ o.accounts[a].nonce \in Nat /\ o.accounts[a].delta \in Int
         /\ o.accounts[a].code \in Codes \cup {NoCode}
  BY DEF OutputType, AccountType

(* Growing is reflexive ...                                                *)
LEMMA GrowsSelf ==
  ASSUME NEW o \in OutputType, NEW h PROVE Grows(o, h, o, h)
<1>1. \A a \in Addresses : o.accounts[a].transfers \in Seq(Values) /\ o.accounts[a].nonce \in Nat
  BY TransfersTyped
<1> QED BY <1>1, PrefixFacts DEF Grows

(* ... and transitive.                                                     *)
LEMMA GrowsTrans ==
  ASSUME NEW o1 \in OutputType, NEW o2 \in OutputType, NEW o3 \in OutputType,
         NEW h1, NEW h2, NEW h3, Grows(o1, h1, o2, h2), Grows(o2, h2, o3, h3)
  PROVE  Grows(o1, h1, o3, h3)
<1>1. o1.listed \subseteq o3.listed /\ Deployed(h1) \subseteq Deployed(h3)
  BY DEF Grows
<1>2. ASSUME NEW a \in Addresses
      PROVE  /\ o1.accounts[a].nonce <= o3.accounts[a].nonce
             /\ Prefix(o1.accounts[a].transfers, o3.accounts[a].transfers)
  <2>1. /\ o1.accounts[a].transfers \in Seq(Values) /\ o2.accounts[a].transfers \in Seq(Values)
        /\ o3.accounts[a].transfers \in Seq(Values)
        /\ o1.accounts[a].nonce \in Nat /\ o2.accounts[a].nonce \in Nat
        /\ o3.accounts[a].nonce \in Nat
    BY TransfersTyped
  <2>2. /\ o1.accounts[a].nonce <= o2.accounts[a].nonce
        /\ o2.accounts[a].nonce <= o3.accounts[a].nonce
        /\ Prefix(o1.accounts[a].transfers, o2.accounts[a].transfers)
        /\ Prefix(o2.accounts[a].transfers, o3.accounts[a].transfers)
    BY DEF Grows
  <2>3. o1.accounts[a].nonce <= o3.accounts[a].nonce
    BY <2>1, <2>2
  <2> QED BY <2>1, <2>2, <2>3, PrefixFacts
<1> QED BY <1>1, <1>2 DEF Grows

(* A quiet step stays on its level.                                        *)
LEMMA LevelQuiet ==
  ASSUME NEW o1 \in OutputType, NEW o2 \in OutputType, NEW h, NEW cs, NEW i,
         Level(o1, h, cs, i), Quiet(o1, o2, Known(h, cs, i), Kept(h, cs, i)),
         Formed(cs, i)
  PROVE  Level(o2, h, cs, i) /\ Grows(o1, h, o2, h)
<1>1. \A a \in Addresses :
        /\ o2.accounts[a].nonce = o1.accounts[a].nonce
        /\ o2.accounts[a].transfers = o1.accounts[a].transfers
        /\ \/ o2.accounts[a].code = o1.accounts[a].code
           \/ a \notin Kept(h, cs, i) /\ a \in Contracts \cup Future
  BY DEF Quiet
<1>2. /\ o1.listed \subseteq o2.listed /\ o2.listed \subseteq o1.listed \cup Known(h, cs, i)
      /\ Clean(o2)
  BY DEF Quiet
<1>3. NoncesGrow(o2)
  BY <1>1, FutureFacts DEF Level, NoncesGrow
<1>4. UsersHaveNoCode(o2)
  BY <1>1 DEF Level, UsersHaveNoCode
<1>5. Reports(o2, h)
  <2>1. Reports(o1, h)
    BY DEF Level
  <2>2. \A a \in Addresses : h.deployed[a] # NoCode => a \in Kept(h, cs, i)
    BY DEF Kept, Deployed
  <2> QED BY <1>1, <2>1, <2>2 DEF Reports
<1>6. NoncesUsed(o2, h, Making(cs, i))
  <2>1. \A c \in Addresses : CreationNonce(o2, c) = CreationNonce(o1, c)
    BY <1>1, NonceSame
  <2> QED BY <2>1 DEF Level, NoncesUsed
<1>7. \A a \in Addresses \ Known(h, cs, i) : a \notin o2.listed /\ h.created[a] = 0
  BY <1>2 DEF Level
<1>8. ASSUME NEW j \in 2 .. i, cs[j].fn = "create"
      PROVE  o2.accounts[cs[j].target].code = cs[j].code
  <2>1. cs[j].target \in Kept(h, cs, i) /\ cs[j].target \in Addresses
    BY <1>8 DEF Kept, Formed
  <2>2. o1.accounts[cs[j].target].code = cs[j].code
    BY <1>8 DEF Level
  <2> QED BY <1>1, <2>1, <2>2
<1>9. Level(o2, h, cs, i)
  BY <1>2, <1>3, <1>4, <1>5, <1>6, <1>7, <1>8 DEF Level
<1>10. Grows(o1, h, o2, h)
  <2>1. ASSUME NEW a \in Addresses
        PROVE  /\ o1.accounts[a].nonce <= o2.accounts[a].nonce
               /\ Prefix(o1.accounts[a].transfers, o2.accounts[a].transfers)
    <3>1. o1.accounts[a].transfers \in Seq(Values) /\ o1.accounts[a].nonce \in Nat
      BY TransfersTyped
    <3>2. Prefix(o1.accounts[a].transfers, o2.accounts[a].transfers)
      BY <1>1, <3>1, PrefixFacts
    <3> QED BY <1>1, <3>1, <3>2
  <2> QED BY <1>2, <2>1 DEF Grows
<1> QED BY <1>9, <1>10

(* blockchainContext.GetCode keeps code in an account only.                *)
LEMMA QuietCache ==
  ASSUME NEW out \in OutputType, NEW h, NEW cs, NEW i, Level(out, h, cs, i),
         Formed(cs, i), NEW a \in Addresses, a \in Known(h, cs, i)
  PROVE  Quiet(out, CacheCode(out, a), Known(h, cs, i), Kept(h, cs, i))
<1> DEFINE code == GetCode(out, a)
           acc == [out.accounts[a] EXCEPT !.code = code]
<1>1. out.accounts[a] \in AccountType /\ code \in Codes \cup {NoCode}
  BY TransfersTyped, HostAssumption DEF GetCode
<1>2. acc.nonce = out.accounts[a].nonce /\ acc.code = code
      /\ acc.transfers = out.accounts[a].transfers
  <2> HIDE DEF code
  <2> QED BY <1>1, AccountFields
<1>3. code = out.accounts[a].code \/ (a \notin Kept(h, cs, i) /\ a \in Contracts \cup Future)
  <2>1. CASE out.accounts[a].code # NoCode
    BY <2>1 DEF GetCode
  <2>2. CASE out.accounts[a].code = NoCode /\ a \notin Contracts
    BY <2>2 DEF GetCode
  <2>3. CASE out.accounts[a].code = NoCode /\ a \in Contracts
    <3>1. a \notin Deployed(h)
      BY <2>3 DEF Level, Reports, Deployed
    <3>2. a \notin Future
      BY <2>3, FutureFacts
    <3>3. a \notin Kept(h, cs, i)
      BY <3>1, <3>2 DEF Kept, Formed
    <3> QED BY <2>3, <3>3
  <2> QED BY <2>1, <2>2, <2>3
<1>4. Clean(out)
  BY DEF Level
<1> HIDE DEF acc, code
<1>5. Quiet(out, SetAccount(out, a, acc), Known(h, cs, i), Kept(h, cs, i))
  BY <1>2, <1>3, <1>4, QuietSet
<1> QED BY <1>5 DEF CacheCode, acc, code

(* GetVMOutput drops code that was not updated.                            *)
LEMMA QuietVMOutput ==
  ASSUME NEW out \in OutputType, NEW h, NEW cs, NEW i, Level(out, h, cs, i),
         NEW a \in Addresses, a \in Known(h, cs, i), NEW updates,
         Kept(h, cs, i) \subseteq updates
  PROVE  Quiet(out, GetVMOutput(out, a, updates), Known(h, cs, i), Kept(h, cs, i))
<1> DEFINE o2 == GetOutputAccount(out, a)
           vo == GetVMOutput(out, a, updates)
<1>1. o2 \in OutputType /\ o2.listed = out.listed \cup {a} /\ o2.accounts = out.accounts
  BY SimpleOutputsTyped DEF GetOutputAccount, OutputType
<1>2. /\ vo.listed = out.listed \cup {a}
      /\ \A b \in Addresses :
           vo.accounts[b] = IF b \in (out.listed \cup {a}) \ updates
                            THEN [out.accounts[b] EXCEPT !.code = NoCode]
                            ELSE out.accounts[b]
  <2> HIDE DEF o2
  <2>1. vo = RemoveNonUpdatedCode(o2, updates)
    BY DEF GetVMOutput, o2
  <2> QED BY <1>1, <2>1 DEF RemoveNonUpdatedCode, OutputType
<1> HIDE DEF vo, o2
<1>3. ASSUME NEW b \in Addresses
      PROVE  /\ vo.accounts[b].nonce = out.accounts[b].nonce
             /\ vo.accounts[b].transfers = out.accounts[b].transfers
             /\ \/ vo.accounts[b].code = out.accounts[b].code
                \/ b \notin Kept(h, cs, i) /\ b \in Contracts \cup Future
  <2>1. out.accounts[b] \in AccountType /\ NoCode \in Codes \cup {NoCode}
    BY TransfersTyped
  <2>2. PICK e : e = [out.accounts[b] EXCEPT !.code = NoCode]
    OBVIOUS
  <2>3. e.nonce = out.accounts[b].nonce /\ e.transfers = out.accounts[b].transfers
        /\ e.code = NoCode
    BY <2>1, <2>2, AccountFields
  <2>4. CASE b \in updates
    BY <1>2, <2>4
  <2>5. CASE b \notin updates
    <3>1. b \notin Kept(h, cs, i)
      BY <2>5
    <3>2. b \in Contracts \cup Future \/ out.accounts[b].code = NoCode
      BY DEF Level, UsersHaveNoCode
    <3>3. vo.accounts[b] = e \/ vo.accounts[b] = out.accounts[b]
      BY <1>2, <2>2
    <3> QED BY <2>3, <3>1, <3>2, <3>3
  <2> QED BY <2>4, <2>5
<1>4. Clean(vo)
  BY <1>2 DEF Level, Clean
<1>5. Quiet(out, vo, Known(h, cs, i), Kept(h, cs, i))
  BY <1>2, <1>3, <1>4 DEF Quiet
<1> QED BY <1>5 DEF vo

(* Levels depend on the first calls only.                                  *)
LEMMA LevelSame ==
  ASSUME NEW cs, NEW ds, NEW i \in Nat, \A j \in 1 .. i : cs[j] = ds[j], NEW h
  PROVE  /\ Making(cs, i) = Making(ds, i) /\ Known(h, cs, i) = Known(h, ds, i)
         /\ Kept(h, cs, i) = Kept(h, ds, i)
         /\ Formed(cs, i) => Formed(ds, i)
         /\ \A o : Level(o, h, cs, i) => Level(o, h, ds, i)
<1>1. Making(cs, i) = Making(ds, i)
  BY DEF Making
<1>2. Known(h, cs, i) = Known(h, ds, i)
  BY <1>1 DEF Known
<1>3. Kept(h, cs, i) = Kept(h, ds, i)
  BY DEF Kept
<1>4. Formed(cs, i) => Formed(ds, i)
  BY DEF Formed
<1>5. ASSUME NEW o, Level(o, h, cs, i) PROVE Level(o, h, ds, i)
  <2>1. \A j \in 1 .. i : ds[j].target \in Contracts \cup Making(ds, i) \cup Deployed(h)
    BY <1>1, <1>5 DEF Level
  <2>2. \A j \in 2 .. i : ds[j].fn = "create" => o.accounts[ds[j].target].code = ds[j].code
    <3>1. \A j \in 2 .. i : j \in 1 .. i
      OBVIOUS
    <3> QED BY <1>5, <3>1 DEF Level
  <2> QED BY <1>1, <1>2, <1>5, <2>1, <2>2 DEF Level
<1> QED BY <1>1, <1>2, <1>3, <1>4, <1>5

(* A prefix is completed by the rest.                                      *)
LEMMA PrefixCompleted ==
  ASSUME NEW s \in Seq(Values), NEW t \in Seq(Values), Prefix(s, t)
  PROVE  s \o SubSeq(t, Len(s) + 1, Len(t)) = t
<1>1. PICK m \in Nat, n \in Nat : m = Len(s) /\ n = Len(t) /\ m <= n
  BY LenProperties DEF Prefix
<1>2. \A i \in m + 1 .. n : t[i] \in Values
  BY <1>1, ElementOfSeq
<1>3. PICK r : r = SubSeq(t, m + 1, n)
  OBVIOUS
<1>4. /\ r \in Seq(Values) /\ Len(r) = n - m
      /\ \A i \in 1 .. n - m : r[i] = t[m + i]
  <2>1. /\ r \in Seq(Values)
        /\ Len(r) = IF m + 1 <= n THEN n - (m + 1) + 1 ELSE 0
        /\ \A i \in 1 .. n - (m + 1) + 1 : r[i] = t[(m + 1) + i - 1]
    BY <1>2, <1>3, SubSeqProperties, m + 1 \in Int, n \in Int
  <2>2. n - (m + 1) + 1 = n - m /\ \A i \in 1 .. n - m : (m + 1) + i - 1 = m + i
    BY <1>1
  <2> QED BY <1>1, <2>1, <2>2
<1>5. PICK u : u = s \o r
  OBVIOUS
<1>6. /\ u \in Seq(Values) /\ Len(u) = m + (n - m)
      /\ \A i \in 1 .. m + (n - m) : u[i] = IF i <= m THEN s[i] ELSE r[i - m]
  <2>1. /\ u \in Seq(Values) /\ Len(u) = Len(s) + Len(r)
        /\ \A i \in 1 .. Len(s) + Len(r) :
             u[i] = IF i <= Len(s) THEN s[i] ELSE r[i - Len(s)]
    BY <1>4, <1>5, ConcatProperties
  <2>2. Len(s) = m /\ Len(r) = n - m
    BY <1>1, <1>4
  <2> QED BY <2>1, <2>2
<1>7. m + (n - m) = n
  BY <1>1
<1>8. ASSUME NEW i \in 1 .. n PROVE u[i] = t[i]
  <2>1. CASE i <= m
    <3>1. u[i] = s[i] /\ i \in 1 .. m
      BY <1>6, <1>7, <2>1
    <3> QED BY <1>1, <3>1 DEF Prefix
  <2>2. CASE ~ (i <= m)
    <3>1. u[i] = r[i - m] /\ i - m \in 1 .. n - m /\ m + (i - m) = i
      BY <1>1, <1>6, <1>7, <2>2
    <3> QED BY <1>4, <3>1
  <2> QED BY <2>1, <2>2
<1>9. u = t
  BY <1>1, <1>6, <1>7, <1>8, SeqEqual
<1> QED BY <1>1, <1>3, <1>5, <1>9

(* PushState copies the active state.                                      *)
LEMMA CopyIs ==
  ASSUME NEW out \in OutputType, Clean(out)
  PROVE  Copy(out) = out
<1>1. ASSUME NEW acc \in AccountType PROVE MergeOutputAccounts(NewVMOutputAccount, acc) = acc
  <2>1. acc.transfers \in Seq(Values) /\ acc.nonce \in Nat
    BY DEF AccountType
  <2>2. <<>> \in Seq(Values) /\ Prefix(<<>>, acc.transfers)
    <3>1. Len(acc.transfers) \in Nat /\ Len(<<>>) = 0
      BY <2>1, LenProperties
    <3> QED BY <3>1, EmptySeq DEF Prefix
  <2>3. <<>> \o SubSeq(acc.transfers, Len(<<>>) + 1, Len(acc.transfers)) = acc.transfers
    BY <2>1, <2>2, PrefixCompleted
  <2>4. (IF acc.nonce > 0 THEN acc.nonce ELSE 0) = acc.nonce
    BY <2>1
  <2>5. acc = [delta |-> acc.delta, store |-> acc.store, code |-> acc.code,
               nonce |-> acc.nonce, transfers |-> acc.transfers]
    BY DEF AccountType
  <2> QED BY <2>3, <2>4, <2>5 DEF MergeOutputAccounts, NewVMOutputAccount
<1>2. \A a \in Addresses : NewVMOutput.accounts[a] = NewVMOutputAccount
  BY DEF NewVMOutput
<1>3. ASSUME NEW a \in Addresses
      PROVE  (IF a \in out.listed
              THEN MergeOutputAccounts(NewVMOutput.accounts[a], out.accounts[a])
              ELSE NewVMOutput.accounts[a]) = out.accounts[a]
  BY <1>1, <1>2, TransfersTyped DEF Clean
<1>4. Copy(out).accounts = out.accounts
  <2>1. out.accounts = [a \in Addresses |-> out.accounts[a]]
    BY DEF OutputType
  <2> QED BY <1>3, <2>1 DEF Copy, MergeVMOutputs
<1>5. Copy(out).listed = out.listed /\ Copy(out).returnCode = out.returnCode
  BY DEF Copy, MergeVMOutputs, NewVMOutput
<1>6. Copy(out) \in OutputType
  BY CopyTyped
<1> QED BY <1>4, <1>5, <1>6 DEF OutputType

-----------------------------------------------------------------------------
(* Calls that begin.                                                       *)

(* What one more call adds.                                                *)
LEMMA OneMore ==
  ASSUME NEW cs, NEW n \in Nat, NEW h
  PROVE  /\ cs[n + 1].fn = "create" =>
              /\ Making(cs, n + 1) = Making(cs, n) \cup {cs[n + 1].target}
              /\ Known(h, cs, n + 1) = Known(h, cs, n) \cup {cs[n + 1].target}
              /\ n >= 1 => Kept(h, cs, n + 1) = Kept(h, cs, n) \cup {cs[n + 1].target}
         /\ cs[n + 1].fn # "create" =>
              /\ Making(cs, n + 1) = Making(cs, n)
              /\ Known(h, cs, n + 1) = Known(h, cs, n)
              /\ Kept(h, cs, n + 1) = Kept(h, cs, n)
<1> DEFINE more == IF cs[n + 1].fn = "create" THEN {cs[n + 1].target} ELSE {}
<1>0. /\ \A x \in 1 .. n : x \in 1 .. n + 1
      /\ \A x \in 1 .. n + 1 : x = n + 1 \/ x \in 1 .. n
      /\ n + 1 \in 1 .. n + 1
      /\ \A x \in 2 .. n : x \in 2 .. n + 1
      /\ \A x \in 2 .. n + 1 : x = n + 1 \/ x \in 2 .. n
      /\ n >= 1 => n + 1 \in 2 .. n + 1
  OBVIOUS
<1>1. Making(cs, n + 1) = Making(cs, n) \cup more
  <2>1. Making(cs, n) \subseteq Making(cs, n + 1)
    BY <1>0 DEF Making
  <2>2. more \subseteq Making(cs, n + 1)
    BY <1>0 DEF Making
  <2>3. Making(cs, n + 1) \subseteq Making(cs, n) \cup more
    BY <1>0 DEF Making
  <2> QED BY <2>1, <2>2, <2>3
<1>2. Known(h, cs, n + 1) = Known(h, cs, n) \cup more
  BY <1>1 DEF Known
<1>3. /\ Kept(h, cs, n) \subseteq Kept(h, cs, n + 1)
      /\ Kept(h, cs, n + 1) \subseteq Kept(h, cs, n) \cup more
      /\ n >= 1 => more \subseteq Kept(h, cs, n + 1)
  <2>1. Kept(h, cs, n) \subseteq Kept(h, cs, n + 1)
    BY <1>0 DEF Kept
  <2>2. n >= 1 => more \subseteq Kept(h, cs, n + 1)
    BY <1>0 DEF Kept
  <2>3. Kept(h, cs, n + 1) \subseteq Kept(h, cs, n) \cup more
    BY <1>0 DEF Kept
  <2> QED BY <2>1, <2>2, <2>3
<1>4. CASE cs[n + 1].fn = "create"
  <2>1. more = {cs[n + 1].target}
    BY <1>4
  <2> HIDE DEF more
  <2> QED BY <1>1, <1>2, <1>3, <1>4, <2>1
<1>5. CASE cs[n + 1].fn # "create"
  <2>1. more = {}
    BY <1>5
  <2> HIDE DEF more
  <2> QED BY <1>1, <1>2, <1>3, <1>5, <2>1
<1> QED BY <1>4, <1>5

(* The fields of a call on the stack.                                      *)
LEMMA CallAt ==
  ASSUME NEW cs \in Seq(FrameType), NEW j \in 1 .. Len(cs)
  PROVE  /\ cs[j] \in FrameType /\ cs[j].target \in Addresses
         /\ cs[j].caller \in Addresses /\ cs[j].code \in Codes \cup {NoCode}
         /\ cs[j].fn \in EntryPoints /\ cs[j].history \in HistoryType
<1>1. cs[j] \in FrameType
  BY ElementOfSeq
<1> QED BY <1>1 DEF FrameType

(* The calls of a stack with Shape are formed.                             *)
LEMMA ShapeIsFormed ==
  ASSUME NEW cs \in Seq(FrameType), Shape(cs), NEW i \in 1 .. Len(cs)
  PROVE  Formed(cs, i) /\ Making(cs, i) \subseteq Future
<1>1. Len(cs) \in Nat
  BY LenProperties
<1>2. \A j \in 1 .. i : j \in 1 .. Len(cs)
  BY <1>1
<1>3. \A j \in 1 .. Len(cs) : cs[j].target \in Addresses
  BY CallAt
<1>4. ASSUME NEW j \in 1 .. Len(cs), cs[j].fn = "create" PROVE cs[j].target \in Future
  <2>1. \E p \in DOMAIN NewAddr : NewAddr[p] = cs[j].target
    BY <1>4 DEF Shape
  <2> QED BY <2>1 DEF Future
<1>5. Formed(cs, i)
  BY <1>2, <1>3, <1>4 DEF Formed
<1> QED BY <1>5 DEF Formed, Making

(* The address of a new contract is not known to the output: a contract    *)
(* that is being created makes no call, so that its creator cannot be      *)
(* creating at the same nonce.                                             *)
LEMMA NewIsUnknown ==
  ASSUME NEW cs \in Seq(FrameType), Shape(cs), NEW n \in Nat, n = Len(cs), n >= 1,
         NEW o \in OutputType, NEW h, Level(o, h, cs, n),
         NEW c, c = cs[n].target, NEW k \in Nat, k = CreationNonce(o, c),
         <<c, k>> \in DOMAIN NewAddr
  PROVE  /\ NewAddr[<<c, k>>] \in Future /\ NewAddr[<<c, k>>] \notin Known(h, cs, n)
         /\ NewAddr[<<c, k>>] \in Addresses
         /\ \A j \in 1 .. n : cs[j].target # NewAddr[<<c, k>>]
<1>1. PICK a : a = NewAddr[<<c, k>>]
  OBVIOUS
<1>2. a \in Future /\ a \in Addresses /\ a \notin Existing /\ a \notin Contracts
  BY <1>1, FutureFacts DEF Future
<1>3. n \in 1 .. n /\ c \in Addresses
  <2>1. n \in 1 .. Len(cs)
    OBVIOUS
  <2> QED BY <2>1, CallAt
<1>4. a \notin Deployed(h)
  <2> SUFFICES ASSUME a \in Deployed(h) PROVE FALSE
    OBVIOUS
  <2>1. k < CreationNonce(o, c)
    BY <1>1, <1>3 DEF Level, NoncesUsed
  <2> QED BY <2>1
<1>5. Making(cs, n) \subseteq Future /\ Deployed(h) \subseteq Contracts \cup Future
  BY <1>3, ShapeIsFormed DEF Level, Reports, Deployed
<1>6. c \notin Existing \ Contracts
  <2>1. c \in Contracts \cup Making(cs, n) \cup Deployed(h)
    BY <1>3 DEF Level
  <2> QED BY <1>5, <2>1, FutureFacts
<1>7. a \notin Making(cs, n)
  <2> SUFFICES ASSUME a \in Making(cs, n) PROVE FALSE
    OBVIOUS
  <2>1. PICK j \in 1 .. n : cs[j].fn = "create" /\ cs[j].target = a
    BY DEF Making
  <2>2. PICK m \in Nat : /\ <<cs[j].caller, m>> \in DOMAIN NewAddr
                         /\ NewAddr[<<cs[j].caller, m>>] = a
    BY <2>1 DEF Shape
  <2>3. <<cs[j].caller, m>> = <<c, k>>
    BY <1>1, <2>2, HostAssumption
  <2>4. cs[j].caller = c
    BY <2>3
  <2>5. CASE j = 1
    BY <1>6, <2>1, <2>4, <2>5 DEF Shape
  <2>6. CASE j # 1
    <3>1. j - 1 \in 1 .. n - 1 /\ n \in j .. n
      BY <2>6
    <3>2. cs[n].fn = "create" /\ cs[j].caller = cs[j - 1].target
      BY <2>1, <2>6, <3>1 DEF Shape
    <3>3. cs[j - 1].target # cs[n].target
      BY <1>3, <3>1, <3>2 DEF Shape
    <3> QED BY <2>4, <3>2, <3>3
  <2> QED BY <2>5, <2>6
<1>8. a \notin Known(h, cs, n)
  BY <1>2, <1>4, <1>7 DEF Known
<1>9. \A j \in 1 .. n : cs[j].target # a
  BY <1>2, <1>4, <1>7 DEF Level
<1> QED BY <1>1, <1>2, <1>8, <1>9

(* A call of a contract that exists.                                       *)
LEMMA LevelEnter ==
  ASSUME NEW o, NEW h, NEW cs, NEW n \in Nat, Level(o, h, cs, n),
         cs[n + 1].fn # "create",
         cs[n + 1].target \in Contracts \cup Making(cs, n) \cup Deployed(h)
  PROVE  Level(o, h, cs, n + 1)
<1>1. Making(cs, n + 1) = Making(cs, n) /\ Known(h, cs, n + 1) = Known(h, cs, n)
  BY OneMore
<1>2. /\ \A x \in 1 .. n + 1 : x = n + 1 \/ x \in 1 .. n
      /\ \A x \in 2 .. n + 1 : x = n + 1 \/ x \in 2 .. n
  OBVIOUS
<1>3. \A j \in 1 .. n + 1 : cs[j].target \in Contracts \cup Making(cs, n) \cup Deployed(h)
  BY <1>2 DEF Level
<1>4. \A j \in 2 .. n + 1 : cs[j].fn = "create" => o.accounts[cs[j].target].code = cs[j].code
  BY <1>2 DEF Level
<1> QED BY <1>1, <1>3, <1>4 DEF Level

(* The code of a new contract is deployed before init runs.                *)
LEMMA LevelCreate ==
  ASSUME NEW o \in OutputType, NEW h, NEW cs, NEW n \in Nat, n >= 1, Level(o, h, cs, n),
         NEW new \in Addresses, new \notin Known(h, cs, n),
         NEW code \in Codes, code # NoCode, Formed(cs, n),
         cs[n + 1].fn = "create", cs[n + 1].target = new, cs[n + 1].code = code,
         \A j \in 1 .. n : cs[j].target # new,
         \A c \in Addresses, k \in Nat :
           <<c, k>> \in DOMAIN NewAddr /\ NewAddr[<<c, k>>] = new => k <= CreationNonce(o, c)
  PROVE  /\ Level(DeployCode(o, new, code), h, cs, n + 1)
         /\ Undo(DeployCode(o, new, code), cs[n + 1]) = o
         /\ Grows(o, h, DeployCode(o, new, code), h)
<1> DEFINE acc == [o.accounts[new] EXCEPT !.code = code]
           out == DeployCode(o, new, code)
<1>1. o.accounts[new] = NewVMOutputAccount /\ new \notin o.listed /\ h.created[new] = 0
  BY DEF Level, Clean
<1>2. new \notin Deployed(h) /\ new \in Future /\ new \notin Making(cs, n)
  BY DEF Known
<1>3. o.accounts[new] \in AccountType /\ code \in Codes \cup {NoCode}
  BY TransfersTyped
<1>4. acc.nonce = o.accounts[new].nonce /\ acc.code = code
      /\ acc.transfers = o.accounts[new].transfers
  BY <1>3, AccountFields
<1> HIDE DEF acc
<1>5. /\ out.listed = o.listed \cup {new} /\ out.returnCode = o.returnCode
      /\ \A b \in Addresses : out.accounts[b] = IF b = new THEN acc ELSE o.accounts[b]
  BY SetAccountIs DEF DeployCode, acc
<1>t. out \in OutputType
  BY <1>3, CodeTyped
<1> HIDE DEF out
<1>6. /\ \A b \in Addresses : out.accounts[b].nonce = o.accounts[b].nonce
      /\ \A b \in Addresses : out.accounts[b].transfers = o.accounts[b].transfers
      /\ \A b \in Addresses \ {new} : out.accounts[b].code = o.accounts[b].code
      /\ out.accounts[new].code = code
  BY <1>4, <1>5
<1>7. Making(cs, n + 1) = Making(cs, n) \cup {new} /\ Known(h, cs, n + 1) = Known(h, cs, n) \cup {new}
  BY OneMore
<1>8. Clean(out)
  BY <1>5 DEF Level, Clean
<1>9. NoncesGrow(out)
  BY <1>6, FutureFacts DEF Level, NoncesGrow
<1>10. UsersHaveNoCode(out)
  BY <1>2, <1>6 DEF Level, UsersHaveNoCode
<1>11. Reports(out, h)
  BY <1>2, <1>6 DEF Level, Reports, Deployed
<1>12. NoncesUsed(out, h, Making(cs, n + 1))
  <2>1. \A c \in Addresses : CreationNonce(out, c) = CreationNonce(o, c)
    BY <1>6, NonceSame
  <2> QED BY <1>7, <2>1 DEF Level, NoncesUsed
<1>13. \A a \in Addresses \ Known(h, cs, n + 1) : a \notin out.listed /\ h.created[a] = 0
  BY <1>5, <1>7 DEF Level
<1>14. \A a \in Making(cs, n + 1) : h.created[a] = 0 /\ h.deployed[a] = NoCode
  BY <1>1, <1>2, <1>7 DEF Level, Deployed
<1>15. /\ \A x \in 1 .. n + 1 : x = n + 1 \/ x \in 1 .. n
       /\ \A x \in 2 .. n + 1 : x = n + 1 \/ x \in 2 .. n
       /\ \A x \in 2 .. n : x \in 1 .. n
  OBVIOUS
<1>16. \A j \in 1 .. n + 1 : cs[j].target \in Contracts \cup Making(cs, n + 1) \cup Deployed(h)
  BY <1>7, <1>15 DEF Level
<1>17. ASSUME NEW j \in 2 .. n + 1, cs[j].fn = "create"
       PROVE  out.accounts[cs[j].target].code = cs[j].code
  <2>1. CASE j = n + 1
    BY <1>6, <2>1
  <2>2. CASE j \in 2 .. n
    <3>1. cs[j].target \in Making(cs, n)
      BY <1>15, <1>17, <2>2 DEF Making
    <3>2. cs[j].target \in Addresses
      BY <1>15, <2>2 DEF Formed
    <3>3. o.accounts[cs[j].target].code = cs[j].code
      BY <1>17, <2>2 DEF Level
    <3> QED BY <1>6, <1>15, <2>2, <3>2, <3>3
  <2> QED BY <1>15, <2>1, <2>2
<1>18. Level(out, h, cs, n + 1)
  BY <1>8, <1>9, <1>10, <1>11, <1>12, <1>13, <1>14, <1>16, <1>17 DEF Level
<1>19. Undo(out, cs[n + 1]) = o
  <2>1. Undo(out, cs[n + 1]) = DeleteOutputAccount(out, new)
    BY DEF Undo
  <2>2. DeleteOutputAccount(out, new) \in OutputType
    BY <1>t, SimpleOutputsTyped
  <2>3. /\ DeleteOutputAccount(out, new).listed = out.listed \ {new}
        /\ DeleteOutputAccount(out, new).returnCode = out.returnCode
        /\ \A b \in Addresses : DeleteOutputAccount(out, new).accounts[b]
                                  = IF b = new THEN NewVMOutputAccount ELSE out.accounts[b]
    BY <1>t DEF DeleteOutputAccount, OutputType
  <2>4. /\ DeleteOutputAccount(out, new).listed = o.listed
        /\ DeleteOutputAccount(out, new).returnCode = o.returnCode
        /\ \A b \in Addresses : DeleteOutputAccount(out, new).accounts[b] = o.accounts[b]
    BY <1>1, <1>5, <2>3
  <2>5. DeleteOutputAccount(out, new).accounts = o.accounts
    BY <2>2, <2>4 DEF OutputType
  <2> QED BY <2>1, <2>2, <2>4, <2>5 DEF OutputType
<1>20. Grows(o, h, out, h)
  <2>1. ASSUME NEW a \in Addresses
        PROVE  /\ o.accounts[a].nonce <= out.accounts[a].nonce
               /\ Prefix(o.accounts[a].transfers, out.accounts[a].transfers)
    BY <1>6, TransfersTyped, PrefixFacts
  <2> QED BY <1>5, <2>1 DEF Grows
<1> QED BY <1>18, <1>19, <1>20 DEF out

(* The state after a call to a contract that exists is one of its caller.  *)
LEMMA LevelLeave ==
  ASSUME NEW o, NEW h, NEW cs, NEW n \in Nat, Level(o, h, cs, n + 1),
         cs[n + 1].fn # "create"
  PROVE  Level(o, h, cs, n)
<1>1. Making(cs, n + 1) = Making(cs, n) /\ Known(h, cs, n + 1) = Known(h, cs, n)
  BY OneMore
<1>2. /\ \A x \in 1 .. n : x \in 1 .. n + 1
      /\ \A x \in 2 .. n : x \in 2 .. n + 1
  OBVIOUS
<1>3. \A j \in 1 .. n : cs[j].target \in Contracts \cup Making(cs, n) \cup Deployed(h)
  BY <1>1, <1>2 DEF Level
<1>4. \A j \in 2 .. n : cs[j].fn = "create" => o.accounts[cs[j].target].code = cs[j].code
  BY <1>2 DEF Level
<1> QED BY <1>1, <1>3, <1>4 DEF Level

-----------------------------------------------------------------------------
(* Steps that the history records.                                         *)

(* A transfer is recorded in the output and in the history.                *)
LEMMA LevelTransfer ==
  ASSUME NEW o \in OutputType, NEW h \in HistoryType, NEW cs, NEW n, Level(o, h, cs, n),
         Formed(cs, n), NEW dest \in Addresses, dest \in Known(h, cs, n), NEW v \in Values
  PROVE  LET o2 == SetAccount(o, dest, [o.accounts[dest] EXCEPT !.transfers = Append(@, v)])
             h2 == [h EXCEPT !.transfers[dest] = Append(@, v)]
         IN  Level(o2, h2, cs, n) /\ Grows(o, h, o2, h2)
<1> DEFINE x == Append(o.accounts[dest].transfers, v)
           acc == [o.accounts[dest] EXCEPT !.transfers = x]
           o2 == SetAccount(o, dest, acc)
           h2 == [h EXCEPT !.transfers[dest] = Append(@, v)]
<1>1. /\ o.accounts[dest] \in AccountType /\ o.accounts[dest].transfers \in Seq(Values)
      /\ x \in Seq(Values)
  BY TransfersTyped, AppendProperties
<1>2. acc.nonce = o.accounts[dest].nonce /\ acc.code = o.accounts[dest].code
      /\ acc.transfers = x /\ acc \in AccountType
  <2> HIDE DEF x
  <2> QED BY <1>1, AccountFields
<1> HIDE DEF acc
<1>3. /\ o2.listed = o.listed \cup {dest} /\ o2 \in OutputType
      /\ \A b \in Addresses : o2.accounts[b] = IF b = dest THEN acc ELSE o.accounts[b]
  BY <1>2, SetAccountIs, SetAccountTyped
<1> HIDE DEF o2
<1>4. /\ h2.created = h.created /\ h2.deployed = h.deployed
      /\ \A b \in Addresses : h2.transfers[b] = IF b = dest THEN Append(h.transfers[b], v)
                                                ELSE h.transfers[b]
  BY DEF HistoryType
<1> HIDE DEF h2
<1>5. Deployed(h2) = Deployed(h) /\ Known(h2, cs, n) = Known(h, cs, n)
  BY <1>4 DEF Deployed, Known
<1>6. /\ \A b \in Addresses : o2.accounts[b].nonce = o.accounts[b].nonce
      /\ \A b \in Addresses : o2.accounts[b].code = o.accounts[b].code
  BY <1>2, <1>3
<1>7. Clean(o2)
  BY <1>3 DEF Level, Clean
<1>8. NoncesGrow(o2)
  BY <1>6, FutureFacts DEF Level, NoncesGrow
<1>9. UsersHaveNoCode(o2)
  BY <1>6 DEF Level, UsersHaveNoCode
<1>10. Reports(o2, h2)
  <2>1. Reports(o, h)
    BY DEF Level
  <2>2. \A b \in Addresses : o2.accounts[b].transfers = h2.transfers[b]
    BY <1>2, <1>3, <1>4, <2>1 DEF Reports
  <2> QED BY <1>4, <1>6, <2>1, <2>2 DEF Reports
<1>11. NoncesUsed(o2, h2, Making(cs, n))
  <2>1. \A c \in Addresses : CreationNonce(o2, c) = CreationNonce(o, c)
    BY <1>6, NonceSame
  <2> QED BY <1>5, <2>1 DEF Level, NoncesUsed
<1>12. \A a \in Addresses \ Known(h2, cs, n) : a \notin o2.listed /\ h2.created[a] = 0
  BY <1>3, <1>4, <1>5 DEF Level
<1>13. ASSUME NEW j \in 2 .. n, cs[j].fn = "create"
       PROVE  o2.accounts[cs[j].target].code = cs[j].code
  <2>1. cs[j].target \in Addresses
    BY DEF Formed
  <2>2. o.accounts[cs[j].target].code = cs[j].code
    BY <1>13 DEF Level
  <2> QED BY <1>6, <2>1, <2>2
<1>14. /\ \A a \in Making(cs, n) : h2.created[a] = 0 /\ h2.deployed[a] = NoCode
       /\ \A j \in 1 .. n : cs[j].target \in Contracts \cup Making(cs, n) \cup Deployed(h2)
  BY <1>4, <1>5 DEF Level
<1>15. Level(o2, h2, cs, n)
  BY <1>7, <1>8, <1>9, <1>10, <1>11, <1>12, <1>13, <1>14 DEF Level
<1>16. Grows(o, h, o2, h2)
  <2>1. ASSUME NEW a \in Addresses
        PROVE  /\ o.accounts[a].nonce <= o2.accounts[a].nonce
               /\ Prefix(o.accounts[a].transfers, o2.accounts[a].transfers)
    <3>1. o.accounts[a].transfers \in Seq(Values) /\ o.accounts[a].nonce \in Nat
      BY TransfersTyped
    <3>2. CASE a = dest
      <4>1. o2.accounts[a].transfers = Append(o.accounts[a].transfers, v)
        BY <1>2, <1>3, <3>2
      <4>2. Prefix(o.accounts[a].transfers, Append(o.accounts[a].transfers, v))
        BY <3>1, PrefixFacts
      <4> QED BY <1>6, <3>1, <4>1, <4>2
    <3>3. CASE a # dest
      <4>1. o2.accounts[a] = o.accounts[a]
        BY <1>3, <3>3
      <4>2. Prefix(o.accounts[a].transfers, o.accounts[a].transfers)
        BY <3>1, PrefixFacts
      <4> QED BY <3>1, <4>1, <4>2
    <3> QED BY <3>2, <3>3
  <2> QED BY <1>3, <1>5, <2>1 DEF Grows
<1> QED BY <1>15, <1>16 DEF o2, h2, acc

(* What Commit makes of the history.                                       *)
Committed(h, f) ==
  [h EXCEPT !.created[f.target] = IF f.fn = "create" THEN @ + 1 ELSE @,
            !.deployed[f.target] = IF f.fn = "call" THEN @ ELSE f.code]

(* What a call that succeeded adds to the history.                         *)
LEMMA CommittedIs ==
  ASSUME NEW h \in HistoryType, NEW f \in FrameType
  PROVE  /\ Committed(h, f).transfers = h.transfers
         /\ \A a \in Addresses :
              /\ Committed(h, f).created[a]
                   = IF a = f.target /\ f.fn = "create" THEN h.created[a] + 1 ELSE h.created[a]
              /\ Committed(h, f).deployed[a]
                   = IF a = f.target /\ f.fn # "call" THEN f.code ELSE h.deployed[a]
  BY DEF Committed, HistoryType, FrameType

(* The code of an upgrade is deployed when init has run.                   *)
LEMMA LevelUpgrade ==
  ASSUME NEW o \in OutputType, NEW h \in HistoryType, NEW cs, NEW n, Level(o, h, cs, n),
         Formed(cs, n), NEW f \in FrameType, f.fn # "create",
         f.fn = "upgrade" => f.target \in Contracts /\ f.code # NoCode
  PROVE  LET o2 == IF f.fn = "upgrade" THEN DeployCode(o, f.target, f.code) ELSE o
         IN  Level(o2, Committed(h, f), cs, n) /\ Grows(o, h, o2, Committed(h, f))
             /\ o2 \in OutputType
<1> DEFINE o2 == IF f.fn = "upgrade" THEN DeployCode(o, f.target, f.code) ELSE o
           acc == [o.accounts[f.target] EXCEPT !.code = f.code]
           h2 == Committed(h, f)
<1>1. f.target \in Addresses /\ f.code \in Codes \cup {NoCode} /\ f.fn \in EntryPoints
  BY DEF FrameType
<1>2. o.accounts[f.target] \in AccountType
  BY <1>1, TransfersTyped
<1>3. acc.nonce = o.accounts[f.target].nonce /\ acc.code = f.code
      /\ acc.transfers = o.accounts[f.target].transfers
  BY <1>1, <1>2, AccountFields
<1>4. /\ h2.transfers = h.transfers
      /\ \A a \in Addresses : h2.created[a] = h.created[a]
      /\ \A a \in Addresses : h2.deployed[a] = IF a = f.target /\ f.fn = "upgrade"
                                               THEN f.code ELSE h.deployed[a]
  BY <1>1, CommittedIs DEF EntryPoints
<1> HIDE DEF acc, h2
<1>5. /\ o2 \in OutputType
      /\ f.fn = "upgrade" =>
           /\ o2.listed = o.listed \cup {f.target}
           /\ \A b \in Addresses : o2.accounts[b] = IF b = f.target THEN acc ELSE o.accounts[b]
  BY <1>1, SetAccountIs, CodeTyped DEF DeployCode, acc
<1>6. f.fn # "upgrade" => o2 = o
  OBVIOUS
<1> HIDE DEF o2
<1>7. /\ \A b \in Addresses : o2.accounts[b].nonce = o.accounts[b].nonce
      /\ \A b \in Addresses : o2.accounts[b].transfers = o.accounts[b].transfers
      /\ \A b \in Addresses : o2.accounts[b].code = IF b = f.target /\ f.fn = "upgrade"
                                                    THEN f.code ELSE o.accounts[b].code
  BY <1>3, <1>5, <1>6
<1>8. /\ Deployed(h) \subseteq Deployed(h2)
      /\ \A a \in Deployed(h2) : a \in Deployed(h) \/ (f.fn = "upgrade" /\ a = f.target)
  BY <1>4 DEF Deployed
<1>9. Known(h, cs, n) = Known(h2, cs, n)
  BY <1>1, <1>8, FutureFacts DEF Known
<1>10. Clean(o2)
  <2>1. Clean(o)
    BY DEF Level
  <2>2. CASE f.fn = "upgrade"
    BY <1>5, <2>1, <2>2 DEF Clean
  <2> QED BY <1>6, <2>1, <2>2
<1>11. NoncesGrow(o2)
  BY <1>7, FutureFacts DEF Level, NoncesGrow
<1>12. UsersHaveNoCode(o2)
  BY <1>7 DEF Level, UsersHaveNoCode
<1>13. Reports(o2, h2)
  <2>1. Reports(o, h)
    BY DEF Level
  <2> QED BY <1>4, <1>7, <2>1 DEF Reports
<1>14. NoncesUsed(o2, h2, Making(cs, n))
  <2>1. \A c \in Addresses : CreationNonce(o2, c) = CreationNonce(o, c)
    BY <1>7, NonceSame
  <2>2. \A p \in DOMAIN NewAddr : NewAddr[p] \in Deployed(h2) => NewAddr[p] \in Deployed(h)
    BY <1>8, FutureFacts DEF Future
  <2> QED BY <2>1, <2>2 DEF Level, NoncesUsed
<1>15. \A a \in Addresses \ Known(h2, cs, n) : a \notin o2.listed /\ h2.created[a] = 0
  <2>1. f.fn = "upgrade" => f.target \in Known(h, cs, n)
    BY <1>1, FutureFacts DEF Known
  <2> QED BY <1>4, <1>5, <1>6, <1>9, <2>1 DEF Level
<1>16. Making(cs, n) \subseteq Future
  BY DEF Making, Formed
<1>17. ASSUME NEW j \in 2 .. n, cs[j].fn = "create"
       PROVE  o2.accounts[cs[j].target].code = cs[j].code
  <2>1. cs[j].target \in Addresses /\ cs[j].target \in Future
    BY <1>17 DEF Formed
  <2>2. o.accounts[cs[j].target].code = cs[j].code
    BY <1>17 DEF Level
  <2> QED BY <1>7, <2>1, <2>2, FutureFacts
<1>18. /\ \A a \in Making(cs, n) : h2.created[a] = 0 /\ h2.deployed[a] = NoCode
       /\ \A j \in 1 .. n : cs[j].target \in Contracts \cup Making(cs, n) \cup Deployed(h2)
  <2>1. \A a \in Making(cs, n) : a \in Addresses /\ ~ (f.fn = "upgrade" /\ a = f.target)
    BY <1>16, FutureFacts
  <2> QED BY <1>4, <1>8, <2>1 DEF Level
<1>19. Level(o2, h2, cs, n)
  BY <1>10, <1>11, <1>12, <1>13, <1>14, <1>15, <1>17, <1>18 DEF Level
<1>20. Grows(o, h, o2, h2)
  <2>1. ASSUME NEW a \in Addresses
        PROVE  /\ o.accounts[a].nonce <= o2.accounts[a].nonce
               /\ Prefix(o.accounts[a].transfers, o2.accounts[a].transfers)
    BY <1>7, TransfersTyped, PrefixFacts
  <2>2. o.listed \subseteq o2.listed
    BY <1>5, <1>6
  <2> QED BY <1>8, <2>1, <2>2 DEF Grows
<1> QED BY <1>5, <1>19, <1>20 DEF o2, h2

-----------------------------------------------------------------------------
(* Calls that succeed.                                                     *)

(* What the caller pushed, as the merge needs it.                          *)
LeftOf(left, right) ==
  /\ left \in OutputType /\ Clean(left) /\ UsersHaveNoCode(left)
  /\ left.listed \subseteq right.listed
  /\ \A a \in Addresses :
       /\ left.accounts[a].nonce <= right.accounts[a].nonce
       /\ Prefix(left.accounts[a].transfers, right.accounts[a].transfers)

(* mergeVMOutputs: the callee's accounts win, but for code that the callee *)
(* does not have.                                                          *)
LEMMA MergeIs ==
  ASSUME NEW left, NEW right \in OutputType, LeftOf(left, right), Clean(right)
  PROVE  /\ MergeVMOutputs(left, right).listed = right.listed
         /\ MergeVMOutputs(left, right) \in OutputType
         /\ Clean(MergeVMOutputs(left, right))
         /\ \A a \in Addresses :
              LET acc == MergeVMOutputs(left, right).accounts[a] IN
              /\ acc.delta = right.accounts[a].delta
              /\ acc.nonce = right.accounts[a].nonce
              /\ acc.transfers = right.accounts[a].transfers
              /\ acc.code = IF right.accounts[a].code = NoCode THEN left.accounts[a].code
                            ELSE right.accounts[a].code
<1> DEFINE m == MergeVMOutputs(left, right)
<1>1. left \in OutputType /\ left.listed \subseteq right.listed
  BY DEF LeftOf
<1>2. m.listed = right.listed /\ m \in OutputType
  BY <1>1, MergeTyped DEF MergeVMOutputs
<1>3. \A a \in Addresses : m.accounts[a] =
        IF a \in right.listed THEN MergeOutputAccounts(left.accounts[a], right.accounts[a])
        ELSE left.accounts[a]
  BY DEF MergeVMOutputs
<1> HIDE DEF m
<1>4. ASSUME NEW a \in Addresses, a \notin right.listed
      PROVE  /\ m.accounts[a] = NewVMOutputAccount
             /\ left.accounts[a] = NewVMOutputAccount
             /\ right.accounts[a] = NewVMOutputAccount
  BY <1>1, <1>3, <1>4 DEF LeftOf, Clean
<1>5. Clean(m)
  BY <1>2, <1>4 DEF Clean
<1>6. ASSUME NEW a \in Addresses
      PROVE  /\ m.accounts[a].delta = right.accounts[a].delta
             /\ m.accounts[a].nonce = right.accounts[a].nonce
             /\ m.accounts[a].transfers = right.accounts[a].transfers
             /\ m.accounts[a].code = IF right.accounts[a].code = NoCode
                                     THEN left.accounts[a].code ELSE right.accounts[a].code
  <2>1. CASE a \notin right.listed
    BY <1>4, <2>1
  <2>2. CASE a \in right.listed
    <3>1. PICK l, r : l = left.accounts[a] /\ r = right.accounts[a]
      OBVIOUS
    <3>2. /\ l.transfers \in Seq(Values) /\ r.transfers \in Seq(Values)
          /\ l.nonce \in Nat /\ r.nonce \in Nat
      BY <1>1, <3>1, TransfersTyped
    <3>3. l.nonce <= r.nonce /\ Prefix(l.transfers, r.transfers)
      BY <3>1 DEF LeftOf
    <3>4. m.accounts[a] = MergeOutputAccounts(l, r)
      BY <1>3, <2>2, <3>1
    <3>5. l.transfers \o SubSeq(r.transfers, Len(l.transfers) + 1, Len(r.transfers))
            = r.transfers
      BY <3>2, <3>3, PrefixCompleted
    <3>6. (IF r.nonce > l.nonce THEN r.nonce ELSE l.nonce) = r.nonce
      BY <3>2, <3>3
    <3>7. /\ m.accounts[a].delta = r.delta /\ m.accounts[a].nonce = r.nonce
          /\ m.accounts[a].transfers = r.transfers
          /\ m.accounts[a].code = IF r.code = NoCode THEN l.code ELSE r.code
      <4>1. PICK t, k, c, s : /\ t = l.transfers \o SubSeq(r.transfers, Len(l.transfers) + 1, Len(r.transfers))
                              /\ k = (IF r.nonce > l.nonce THEN r.nonce ELSE l.nonce)
                              /\ c = (IF r.code = NoCode THEN l.code ELSE r.code)
                              /\ s = (IF r.store = NoUpdate THEN l.store ELSE r.store)
        OBVIOUS
      <4>2. m.accounts[a] = [delta |-> r.delta, store |-> s, code |-> c, nonce |-> k, transfers |-> t]
        BY <3>4, <4>1 DEF MergeOutputAccounts
      <4>3. k = r.nonce /\ t = r.transfers
        BY <3>5, <3>6, <4>1
      <4>4. m.accounts[a].code = c /\ m.accounts[a].delta = r.delta
            /\ m.accounts[a].nonce = k /\ m.accounts[a].transfers = t
        BY <4>2
      <4>5. c = IF r.code = NoCode THEN l.code ELSE r.code
        BY <4>1
      <4>6. m.accounts[a].code = IF r.code = NoCode THEN l.code ELSE r.code
        BY <4>4, <4>5
      <4> QED BY <4>3, <4>4, <4>6
    <3> QED BY <3>1, <3>7
  <2> QED BY <2>1, <2>2
<1> QED BY <1>2, <1>5, <1>6 DEF m

(* PopMergeActiveState is a quiet step for the callee's output.            *)
LEMMA QuietMerge ==
  ASSUME NEW left, NEW right \in OutputType, LeftOf(left, right),
         NEW h, NEW cs, NEW i, Level(right, h, cs, i),
         \A j \in 2 .. i : cs[j].fn = "create" => cs[j].code # NoCode
  PROVE  /\ Copy(MergeVMOutputs(left, right)) \in OutputType
         /\ Quiet(right, Copy(MergeVMOutputs(left, right)), Known(h, cs, i), Kept(h, cs, i))
         /\ \A a \in Addresses : Copy(MergeVMOutputs(left, right)).accounts[a].delta
                                   = right.accounts[a].delta
<1> DEFINE m == MergeVMOutputs(left, right)
<1>1. /\ m.listed = right.listed /\ m \in OutputType /\ Clean(m)
      /\ \A a \in Addresses :
           /\ m.accounts[a].delta = right.accounts[a].delta
           /\ m.accounts[a].nonce = right.accounts[a].nonce
           /\ m.accounts[a].transfers = right.accounts[a].transfers
           /\ m.accounts[a].code = IF right.accounts[a].code = NoCode
                                   THEN left.accounts[a].code ELSE right.accounts[a].code
  <2>1. Clean(right)
    BY DEF Level
  <2> QED BY <2>1, MergeIs
<1> HIDE DEF m
<1>2. Copy(m) = m
  BY <1>1, CopyIs
<1>3. ASSUME NEW a \in Addresses
      PROVE  \/ m.accounts[a].code = right.accounts[a].code
             \/ a \notin Kept(h, cs, i) /\ a \in Contracts \cup Future
  <2>1. CASE a \in Kept(h, cs, i)
    <3>1. right.accounts[a].code # NoCode
      BY <2>1 DEF Kept, Deployed, Level, Reports
    <3> QED BY <1>1, <3>1
  <2>2. CASE a \notin Contracts \cup Future
    <3>1. left.accounts[a].code = NoCode /\ right.accounts[a].code = NoCode
      BY <2>2 DEF LeftOf, Level, UsersHaveNoCode
    <3> QED BY <1>1, <3>1
  <2> QED BY <2>1, <2>2
<1>4. Quiet(right, m, Known(h, cs, i), Kept(h, cs, i))
  BY <1>1, <1>3 DEF Quiet
<1> QED BY <1>1, <1>2, <1>4 DEF m

(* Increasing a nonce.                                                     *)
LEMMA IncreaseIs ==
  ASSUME NEW o \in OutputType, NEW c \in Addresses
  PROVE  /\ IncreaseNonce(o, c) \in OutputType
         /\ IncreaseNonce(o, c).listed = o.listed \cup {c}
         /\ IncreaseNonce(o, c).accounts[c].nonce = GetNonce(o, c) + 1
         /\ GetNonce(o, c) \in Nat
         /\ \A b \in Addresses :
              /\ IncreaseNonce(o, c).accounts[b].delta = o.accounts[b].delta
              /\ IncreaseNonce(o, c).accounts[b].code = o.accounts[b].code
              /\ IncreaseNonce(o, c).accounts[b].transfers = o.accounts[b].transfers
              /\ b # c => IncreaseNonce(o, c).accounts[b] = o.accounts[b]
<1>1. o.accounts[c] \in AccountType /\ o.accounts[c].nonce \in Nat
  BY TransfersTyped
<1>2. PICK k \in Nat : k = GetNonce(o, c) + 1 /\ GetNonce(o, c) \in Nat
  <2>1. GetNonce(o, c) \in Nat
    BY <1>1, HostAssumption DEF GetNonce
  <2> QED BY <2>1
<1>3. PICK acc : acc = [o.accounts[c] EXCEPT !.nonce = k]
  OBVIOUS
<1>4. /\ acc \in AccountType /\ acc.nonce = k /\ acc.delta = o.accounts[c].delta
      /\ acc.code = o.accounts[c].code /\ acc.transfers = o.accounts[c].transfers
  BY <1>1, <1>3, AccountFields
<1>5. PICK o2 : o2 = SetAccount(o, c, acc)
  OBVIOUS
<1>6. IncreaseNonce(o, c) = o2
  BY <1>2, <1>3, <1>5 DEF IncreaseNonce
<1>7. /\ o2.listed = o.listed \cup {c}
      /\ \A b \in Addresses : o2.accounts[b] = IF b = c THEN acc ELSE o.accounts[b]
  BY <1>5, SetAccountIs
<1>8. o2 \in OutputType
  BY <1>6, NonceTyped
<1> QED BY <1>2, <1>4, <1>6, <1>7, <1>8

(* A contract is created: its nonce is used up.                            *)
LEMMA LevelCommitCreate ==
  ASSUME NEW cs \in Seq(FrameType), Shape(cs), NEW m \in Nat, m >= 1, Len(cs) = m + 1,
         NEW o \in OutputType, NEW h \in HistoryType, Level(o, h, cs, m + 1),
         NEW f, f = cs[m + 1], f.fn = "create"
  PROVE  /\ IncreaseNonce(o, f.caller) \in OutputType
         /\ Level(IncreaseNonce(o, f.caller), Committed(h, f), cs, m)
         /\ Grows(o, h, IncreaseNonce(o, f.caller), Committed(h, f))
<1>1. PICK t, c, o2, h2 : /\ t = f.target /\ c = f.caller /\ o2 = IncreaseNonce(o, f.caller)
                          /\ h2 = Committed(h, f)
  OBVIOUS
<1>2. m + 1 \in 1 .. Len(cs) /\ m \in 1 .. Len(cs) /\ m + 1 # 1 /\ (m + 1) - 1 = m
      /\ m + 1 \in 1 .. m + 1 /\ m + 1 \in 2 .. m + 1 /\ m \in 1 .. m + 1
  OBVIOUS
<1>3. f \in FrameType /\ t \in Addresses /\ c \in Addresses /\ cs[m].target \in Addresses
  BY <1>1, <1>2, CallAt
<1>4. /\ f.code # NoCode /\ c = cs[m].target /\ \A j \in 1 .. m : cs[j].target # t
  BY <1>1, <1>2 DEF Shape
<1>5. PICK k0 \in Nat : <<c, k0>> \in DOMAIN NewAddr /\ NewAddr[<<c, k0>>] = t
  BY <1>1, <1>2 DEF Shape
<1>6. /\ Making(cs, m + 1) = Making(cs, m) \cup {t}
      /\ Known(h, cs, m + 1) = Known(h, cs, m) \cup {t}
  BY <1>1, OneMore
<1>7. t \notin Making(cs, m) /\ t \in Making(cs, m + 1) /\ t \in Future
  BY <1>4, <1>5, <1>6 DEF Making, Future
<1>8. h.created[t] = 0 /\ h.deployed[t] = NoCode /\ o.accounts[t].code = f.code
  BY <1>1, <1>2, <1>7 DEF Level
<1>9. /\ h2.transfers = h.transfers
      /\ \A a \in Addresses : h2.created[a] = IF a = t THEN h.created[a] + 1 ELSE h.created[a]
      /\ \A a \in Addresses : h2.deployed[a] = IF a = t THEN f.code ELSE h.deployed[a]
  BY <1>1, <1>3, CommittedIs
<1>10. Deployed(h2) = Deployed(h) \cup {t}
  BY <1>3, <1>4, <1>9 DEF Deployed
<1>11. Known(h2, cs, m) = Known(h, cs, m + 1)
  BY <1>6, <1>10 DEF Known
<1>12. /\ o2 \in OutputType /\ o2.listed = o.listed \cup {c}
       /\ o2.accounts[c].nonce = GetNonce(o, c) + 1 /\ GetNonce(o, c) \in Nat
       /\ \A b \in Addresses :
            /\ o2.accounts[b].code = o.accounts[b].code
            /\ o2.accounts[b].transfers = o.accounts[b].transfers
            /\ b # c => o2.accounts[b] = o.accounts[b]
  <2>1. o2 = IncreaseNonce(o, c)
    BY <1>1
  <2>2. IncreaseNonce(o, c) \in OutputType /\ IncreaseNonce(o, c).listed = o.listed \cup {c}
        /\ IncreaseNonce(o, c).accounts[c].nonce = GetNonce(o, c) + 1 /\ GetNonce(o, c) \in Nat
    BY <1>3, IncreaseIs
  <2>3. \A b \in Addresses :
          /\ IncreaseNonce(o, c).accounts[b].code = o.accounts[b].code
          /\ IncreaseNonce(o, c).accounts[b].transfers = o.accounts[b].transfers
          /\ b # c => IncreaseNonce(o, c).accounts[b] = o.accounts[b]
    BY <1>3, IncreaseIs
  <2> QED BY <2>1, <2>2, <2>3
<1>13. /\ Clean(o) /\ NoncesGrow(o) /\ UsersHaveNoCode(o) /\ Reports(o, h)
       /\ NoncesUsed(o, h, Making(cs, m + 1))
  BY DEF Level
<1>14. Clean(o2)
  BY <1>12, <1>13 DEF Clean
<1>15. \A b \in Addresses : o.accounts[b].nonce <= o2.accounts[b].nonce
  <2> TAKE b \in Addresses
  <2>1. o.accounts[b].nonce \in Nat
    BY TransfersTyped
  <2>2. CASE b = c
    <3>1. o.accounts[c].nonce <= GetNonce(o, c)
      BY <1>12, <2>1, <2>2 DEF GetNonce
    <3> QED BY <1>12, <2>1, <2>2, <3>1
  <2>3. CASE b # c
    BY <1>12, <2>1, <2>3
  <2> QED BY <2>2, <2>3
<1>16. NoncesGrow(o2)
  <2>1. ASSUME NEW a \in Existing
        PROVE  o2.accounts[a].nonce = 0 \/ o2.accounts[a].nonce >= ChainNonce[a]
    <3>1. ChainNonce[a] \in Nat /\ a \in Addresses /\ o.accounts[a].nonce \in Nat
      BY HostAssumption, FutureFacts, TransfersTyped
    <3>2. o.accounts[a].nonce = 0 \/ o.accounts[a].nonce >= ChainNonce[a]
      BY <1>13 DEF NoncesGrow
    <3>3. CASE a = c
      <4>1. GetNonce(o, c) >= ChainNonce[a]
        BY <3>1, <3>2, <3>3 DEF GetNonce
      <4> QED BY <1>12, <3>1, <3>3, <4>1
    <3>4. CASE a # c
      BY <1>12, <3>1, <3>2, <3>4
    <3> QED BY <3>3, <3>4
  <2> QED BY <2>1 DEF NoncesGrow
<1>17. UsersHaveNoCode(o2)
  BY <1>12, <1>13 DEF UsersHaveNoCode
<1>18. Reports(o2, h2)
  <2>1. ASSUME NEW a \in Addresses
        PROVE  /\ o2.accounts[a].transfers = h2.transfers[a]
               /\ h2.created[a] <= 1
               /\ h2.deployed[a] # NoCode =>
                    a \in Contracts \cup Future /\ o2.accounts[a].code = h2.deployed[a]
    <3>1. o2.accounts[a].transfers = h2.transfers[a]
      BY <1>9, <1>12, <1>13 DEF Reports
    <3>2. h2.created[a] <= 1
      <4>1. CASE a = t
        BY <1>3, <1>8, <1>9, <4>1
      <4>2. CASE a # t
        BY <1>9, <1>13, <4>2 DEF Reports
      <4> QED BY <4>1, <4>2
    <3>3. CASE a = t
      BY <1>7, <1>8, <1>9, <1>12, <3>1, <3>2, <3>3
    <3>4. CASE a # t
      BY <1>9, <1>12, <1>13, <3>1, <3>2, <3>4 DEF Reports
    <3> QED BY <3>3, <3>4
  <2> QED BY <2>1 DEF Reports
<1>19. c \in Contracts \cup Making(cs, m) \cup Deployed(h) /\ c \notin Existing \ Contracts
  <2>1. c \in Contracts \cup Making(cs, m + 1) \cup Deployed(h)
    BY <1>2, <1>4 DEF Level
  <2>2. c # t
    BY <1>2, <1>4
  <2>3. Making(cs, m + 1) \subseteq Future
    BY <1>2, ShapeIsFormed
  <2>4. Deployed(h) \subseteq Contracts \cup Future
    BY <1>13 DEF Reports, Deployed
  <2> QED BY <1>6, <2>1, <2>2, <2>3, <2>4, FutureFacts
<1>20. \A b \in Addresses : /\ CreationNonce(o, b) \in Nat /\ CreationNonce(o2, b) \in Nat
                            /\ CreationNonce(o, b) <= CreationNonce(o2, b)
  BY <1>12, <1>15, <1>16, NonceMonotone
<1>21. CreationNonce(o, c) < CreationNonce(o2, c)
  <2>1. CreationNonce(o, c) = GetNonce(o, c) /\ CreationNonce(o2, c) = GetNonce(o2, c)
    BY <1>19 DEF CreationNonce
  <2>2. GetNonce(o2, c) = GetNonce(o, c) + 1
    BY <1>12 DEF GetNonce
  <2> QED BY <1>12, <2>1, <2>2
<1>22. NoncesUsed(o2, h2, Making(cs, m))
  <2>1. ASSUME NEW b \in Addresses, NEW k \in Nat, <<b, k>> \in DOMAIN NewAddr
        PROVE  /\ NewAddr[<<b, k>>] \in Deployed(h2) => k < CreationNonce(o2, b)
               /\ NewAddr[<<b, k>>] \in Making(cs, m) => k <= CreationNonce(o2, b)
    <3>1. /\ NewAddr[<<b, k>>] \in Deployed(h) => k < CreationNonce(o, b)
          /\ NewAddr[<<b, k>>] \in Making(cs, m + 1) => k <= CreationNonce(o, b)
      BY <1>13, <2>1 DEF NoncesUsed
    <3>2. CASE NewAddr[<<b, k>>] = t
      <4>1. <<b, k>> = <<c, k0>>
        BY <1>5, <2>1, <3>2, HostAssumption
      <4>2. b = c /\ k <= CreationNonce(o, c)
        BY <1>7, <3>1, <3>2, <4>1
      <4>3. k < CreationNonce(o2, b)
        BY <1>3, <1>20, <1>21, <4>2
      <4> QED BY <1>7, <3>2, <4>3
    <3>3. CASE NewAddr[<<b, k>>] # t
      <4>1. NewAddr[<<b, k>>] \in Deployed(h2) => NewAddr[<<b, k>>] \in Deployed(h)
        BY <1>10, <3>3
      <4>2. NewAddr[<<b, k>>] \in Making(cs, m) => NewAddr[<<b, k>>] \in Making(cs, m + 1)
        BY <1>6
      <4>3. PICK x \in Nat, y \in Nat : x = CreationNonce(o, b) /\ y = CreationNonce(o2, b) /\ x <= y
        BY <1>20
      <4> QED BY <3>1, <4>1, <4>2, <4>3
    <3> QED BY <3>2, <3>3
  <2> QED BY <2>1 DEF NoncesUsed
<1>23. \A a \in Addresses \ Known(h2, cs, m) : a \notin o2.listed /\ h2.created[a] = 0
  <2>1. c \in Known(h, cs, m + 1) /\ t \in Known(h, cs, m + 1)
    BY <1>6, <1>19, FutureFacts DEF Known
  <2> QED BY <1>9, <1>11, <1>12, <2>1 DEF Level
<1>24. \A a \in Making(cs, m) : h2.created[a] = 0 /\ h2.deployed[a] = NoCode
  <2>1. \A a \in Making(cs, m) : a \in Making(cs, m + 1) /\ a # t /\ a \in Addresses
    <3>1. Making(cs, m) \subseteq Future
      BY <1>2, ShapeIsFormed
    <3> QED BY <1>6, <1>7, <3>1, FutureFacts
  <2> QED BY <1>9, <2>1 DEF Level
<1>25. \A j \in 1 .. m : cs[j].target \in Contracts \cup Making(cs, m) \cup Deployed(h2)
  <2>1. \A j \in 1 .. m : j \in 1 .. m + 1
    OBVIOUS
  <2> QED BY <1>6, <1>10, <2>1 DEF Level
<1>26. ASSUME NEW j \in 2 .. m, cs[j].fn = "create"
       PROVE  o2.accounts[cs[j].target].code = cs[j].code
  <2>1. j \in 2 .. m + 1 /\ j \in 1 .. Len(cs)
    OBVIOUS
  <2>2. o.accounts[cs[j].target].code = cs[j].code
    BY <1>26, <2>1 DEF Level
  <2>3. cs[j].target \in Addresses
    BY <2>1, CallAt
  <2> QED BY <1>12, <2>2, <2>3
<1>27. Level(o2, h2, cs, m)
  BY <1>14, <1>16, <1>17, <1>18, <1>22, <1>23, <1>24, <1>25, <1>26 DEF Level
<1>28. Grows(o, h, o2, h2)
  <2>1. \A a \in Addresses : Prefix(o.accounts[a].transfers, o2.accounts[a].transfers)
    BY <1>12, TransfersTyped, PrefixFacts
  <2> QED BY <1>10, <1>12, <1>15, <2>1 DEF Grows
<1> QED BY <1>1, <1>12, <1>27, <1>28

-----------------------------------------------------------------------------
(* The total of the balance deltas.                                        *)

Even(o1, o2) == \A a \in Addresses : o2.accounts[a].delta = o1.accounts[a].delta

(* Accounts with the same deltas have the same total.                      *)
LEMMA EvenTotal ==
  ASSUME NEW o1, NEW o2, Even(o1, o2) PROVE TotalDelta(o2) = TotalDelta(o1)
<1>1. [a \in Addresses |-> o2.accounts[a].delta] = [a \in Addresses |-> o1.accounts[a].delta]
  BY DEF Even
<1> QED BY <1>1 DEF TotalDelta

(* What an update of one account does to the total.                        *)
LEMMA TotalSet ==
  ASSUME NEW o \in OutputType, NEW a \in Addresses, NEW acc \in AccountType
  PROVE  /\ TotalDelta(o) \in Int
         /\ TotalDelta(SetAccount(o, a, acc)) = TotalDelta(o) - o.accounts[a].delta + acc.delta
<1> DEFINE o2 == SetAccount(o, a, acc)
           f == [b \in Addresses |-> o.accounts[b].delta]
           g == [b \in Addresses |-> o2.accounts[b].delta]
<1>1. /\ o2 \in OutputType
      /\ \A b \in Addresses : o2.accounts[b] = IF b = a THEN acc ELSE o.accounts[b]
  BY SetAccountIs, SetAccountTyped
<1> HIDE DEF o2
<1>2. f \in [Addresses -> Int] /\ g \in [Addresses -> Int]
  BY <1>1, TransfersTyped
<1>3. /\ \A x \in Addresses \ {a} : g[x] = f[x]
      /\ f[a] = o.accounts[a].delta /\ g[a] = acc.delta
  BY <1>1
<1>4. IsFiniteSet(Addresses)
  BY HostAssumption
<1>5. TotalDelta(o) = SumFunction(f) /\ TotalDelta(o2) = SumFunction(g)
  BY DEF TotalDelta
<1> HIDE DEF f, g
<1>6. SumFunction(g) = SumFunction(f) - f[a] + g[a] /\ SumFunction(f) \in Int
  BY <1>2, <1>3, <1>4, SumExcept, SumTyped
<1> QED BY <1>3, <1>5, <1>6 DEF o2

(* Value that moves from one account to another, even to itself.           *)
LEMMA TotalMoved ==
  ASSUME NEW out \in OutputType, NEW dest \in Addresses, NEW sender \in Addresses,
         NEW v \in Values
  PROVE  TotalDelta(TransferValueOnly(out, dest, sender, v)) = TotalDelta(out)
<1>1. out.accounts[sender] \in AccountType /\ v \in Int /\ out.accounts[sender].delta \in Int
  BY TransfersTyped, HostAssumption
<1>2. PICK d \in Int : d = out.accounts[sender].delta - v
  BY <1>1
<1>3. PICK acc : acc = [out.accounts[sender] EXCEPT !.delta = d]
  OBVIOUS
<1>4. acc \in AccountType /\ acc.delta = d
  BY <1>1, <1>3, AccountFields
<1>5. PICK from : from = SetAccount(out, sender, acc)
  OBVIOUS
<1>6. from \in OutputType /\ TotalDelta(out) \in Int
      /\ TotalDelta(from) = TotalDelta(out) - out.accounts[sender].delta + d
  BY <1>4, <1>5, SetAccountTyped, TotalSet
<1>7. from.accounts[dest] \in AccountType /\ from.accounts[dest].delta \in Int
  BY <1>6, TransfersTyped
<1>8. PICK e \in Int : e = from.accounts[dest].delta + v
  BY <1>1, <1>7
<1>9. PICK acc2 : acc2 = [from.accounts[dest] EXCEPT !.delta = e]
  OBVIOUS
<1>10. acc2 \in AccountType /\ acc2.delta = e
  BY <1>7, <1>9, AccountFields
<1>11. TotalDelta(SetAccount(from, dest, acc2))
         = TotalDelta(from) - from.accounts[dest].delta + e
  BY <1>6, <1>10, TotalSet
<1>12. TotalDelta(SetAccount(from, dest, acc2)) = TotalDelta(out)
  BY <1>1, <1>2, <1>6, <1>7, <1>8, <1>11
<1>13. acc = [out.accounts[sender] EXCEPT !.delta = @ - v]
       /\ acc2 = [from.accounts[dest] EXCEPT !.delta = @ + v]
  BY <1>2, <1>3, <1>8, <1>9
<1> QED BY <1>5, <1>12, <1>13 DEF TransferValueOnly

(* The output at the start of a transaction.                               *)
LEMMA TotalStart ==
  /\ TotalDelta(NewVMOutput) = 0
  /\ \A a \in Addresses, v \in Values : TotalDelta(AddTxValueToAccount(NewVMOutput, a, v)) = v
<1>1. \A a \in Addresses : NewVMOutput.accounts[a] = NewVMOutputAccount
                           /\ NewVMOutput.accounts[a].delta = 0
  BY DEF NewVMOutput, NewVMOutputAccount
<1>2. TotalDelta(NewVMOutput) = 0
  <2>1. [a \in Addresses |-> NewVMOutput.accounts[a].delta] = [a \in Addresses |-> 0]
    BY <1>1
  <2>2. SumFunction([a \in Addresses |-> 0]) = 0
    BY SumOfZeros, HostAssumption
  <2> QED BY <2>1, <2>2 DEF TotalDelta
<1>3. ASSUME NEW a \in Addresses, NEW v \in Values
      PROVE  TotalDelta(AddTxValueToAccount(NewVMOutput, a, v)) = v
  <2>1. NewVMOutput \in OutputType /\ v \in Int
    BY GoodNew, GoodIsTyped, HostAssumption
  <2>2. PICK acc : acc = [NewVMOutput.accounts[a] EXCEPT !.delta = v]
    OBVIOUS
  <2>3. acc \in AccountType /\ acc.delta = v
    BY <2>1, <2>2, TransfersTyped, AccountFields
  <2>4. TotalDelta(SetAccount(NewVMOutput, a, acc)) = 0 - 0 + v
    BY <1>1, <1>2, <2>1, <2>3, TotalSet
  <2>5. NewVMOutput.accounts[a].delta + v = v
    BY <1>1, <2>1
  <2>6. AddTxValueToAccount(NewVMOutput, a, v) = SetAccount(NewVMOutput, a, acc)
    BY <2>2, <2>5 DEF AddTxValueToAccount
  <2> QED BY <2>1, <2>4, <2>6
<1> QED BY <1>2, <1>3

(* The operators that leave all deltas alone.                              *)
LEMMA EvenOps ==
  ASSUME NEW out \in OutputType, NEW a \in Addresses
  PROVE  /\ \A r : Even(out, SetReturnCode(out, r))
         /\ Even(out, CacheCode(out, a))
         /\ \A code \in Codes \cup {NoCode} : Even(out, DeployCode(out, a, code))
         /\ \A updates : Even(out, GetVMOutput(out, a, updates))
<1>1. \A r : Even(out, SetReturnCode(out, r))
  BY DEF Even, SetReturnCode, OutputType
<1>2. ASSUME NEW code \in Codes \cup {NoCode}
      PROVE  Even(out, SetAccount(out, a, [out.accounts[a] EXCEPT !.code = code]))
  <2>1. PICK acc : acc = [out.accounts[a] EXCEPT !.code = code]
    OBVIOUS
  <2>2. acc.delta = out.accounts[a].delta
    BY <2>1, TransfersTyped, AccountFields
  <2>3. Even(out, SetAccount(out, a, acc))
    BY <2>2, SetAccountIs DEF Even
  <2> QED BY <2>1, <2>3
<1>3. GetCode(out, a) \in Codes \cup {NoCode}
  BY TransfersTyped, HostAssumption DEF GetCode
<1>4. Even(out, CacheCode(out, a))
  BY <1>2, <1>3 DEF CacheCode
<1>5. \A code \in Codes \cup {NoCode} : Even(out, DeployCode(out, a, code))
  BY <1>2 DEF DeployCode
<1>6. ASSUME NEW updates PROVE Even(out, GetVMOutput(out, a, updates))
  <2>1. PICK o2 : o2 = GetOutputAccount(out, a)
    OBVIOUS
  <2>2. o2 \in OutputType /\ o2.accounts = out.accounts
    BY <2>1, SimpleOutputsTyped DEF GetOutputAccount, OutputType
  <2>3. \A b \in Addresses : \/ RemoveNonUpdatedCode(o2, updates).accounts[b] = out.accounts[b]
                             \/ RemoveNonUpdatedCode(o2, updates).accounts[b]
                                  = [out.accounts[b] EXCEPT !.code = NoCode]
    BY <2>2 DEF RemoveNonUpdatedCode, OutputType
  <2>4. \A b \in Addresses : [out.accounts[b] EXCEPT !.code = NoCode].delta = out.accounts[b].delta
    BY TransfersTyped, AccountFields
  <2>5. Even(out, RemoveNonUpdatedCode(o2, updates))
    BY <2>3, <2>4 DEF Even
  <2> QED BY <2>1, <2>5 DEF GetVMOutput
<1> QED BY <1>1, <1>4, <1>5, <1>6

-----------------------------------------------------------------------------
(* The nest of calls, from the transaction to the innermost call.  Call i  *)
(* sees output O[i] and history H[i] and was made by C[i]: what is active  *)
(* now for the innermost one, and for the others what they get back when   *)
(* the call above them fails.  U are the code updates and v is the value   *)
(* of the transaction.                                                     *)

Outs(cs, out, os) ==
  [i \in 1 .. Len(cs) |-> IF i = Len(cs) THEN out ELSE Undo(os[i], cs[i + 1])]
Hists(cs, h) == [i \in 1 .. Len(cs) |-> IF i = Len(cs) THEN h ELSE cs[i + 1].history]
Callers(cs, rt, rs) ==
  [i \in 1 .. Len(cs) |-> IF i = Len(cs) THEN rt.caller ELSE rs[i].caller]

Rung(o, h, c, cs, i, v) ==
  /\ o \in OutputType /\ h \in HistoryType /\ Level(o, h, cs, i)
  /\ c \in Known(h, cs, i) /\ TotalDelta(o) = v

Ladder(cs, O, H, C, U, v) ==
  /\ \A i \in 1 .. Len(cs) : Rung(O[i], H[i], C[i], cs, i, v) /\ Deployed(H[i]) \subseteq U
  /\ \A i \in 2 .. Len(cs) : cs[i].fn = "create" => cs[i].target \in U
  /\ \A i \in 1 .. Len(cs), j \in 1 .. Len(cs) : i <= j => Grows(O[i], H[i], O[j], H[j])

(* What a call remembers of its caller, and what the caller of a new       *)
(* contract pushed.                                                        *)
Remembered(cs, O, bs) ==
  \A i \in 1 .. Len(cs) - 1 :
    cs[i + 1].before = [accounts |-> O[i].accounts, bigInts |-> bs[i],
                        scAddress |-> cs[i].target,
                        storageAddr |-> cs[Max(Own(cs, i))].target]
Pushed(cs, O, os) ==
  \A i \in 1 .. Len(cs) - 1 :
    cs[i + 1].fn = "create" => os[i] = DeployCode(O[i], cs[i + 1].target, cs[i + 1].code)

(* A rung depends on the first calls only.                                 *)
LEMMA RungSame ==
  ASSUME NEW cs, NEW ds, NEW i \in Nat, \A j \in 1 .. i : cs[j] = ds[j],
         NEW o, NEW h, NEW c, NEW v, Rung(o, h, c, cs, i, v)
  PROVE  Rung(o, h, c, ds, i, v)
<1>1. Known(h, cs, i) = Known(h, ds, i) /\ (Level(o, h, cs, i) => Level(o, h, ds, i))
  BY LevelSame
<1> QED BY <1>1 DEF Rung

(* The innermost call that remains has a new state: a host call, or the    *)
(* end of a call above it.                                                 *)
LEMMA LadderTop ==
  ASSUME NEW cs, NEW ds, NEW n \in Nat, n >= 1, NEW l \in Nat, l = Len(cs), n <= l, Len(ds) = n,
         \A i \in 1 .. n : ds[i] = cs[i],
         NEW O, NEW H, NEW C, NEW U, NEW v, NEW O2, NEW H2, NEW C2, NEW U2,
         Ladder(cs, O, H, C, U, v),
         \A i \in 1 .. n - 1 : O2[i] = O[i] /\ H2[i] = H[i] /\ C2[i] = C[i],
         Rung(O2[n], H2[n], C2[n], cs, n, v), Grows(O[n], H[n], O2[n], H2[n]),
         Deployed(H2[n]) \subseteq U2,
         \A i \in 2 .. n : cs[i].fn = "create" => cs[i].target \in U2
  PROVE  Ladder(ds, O2, H2, C2, U2, v)
<1>1. /\ \A i \in 1 .. n : i = n \/ i \in 1 .. n - 1
      /\ \A i \in 1 .. n - 1 : i \in 1 .. n /\ i <= n
      /\ \A i \in 1 .. n : i \in 1 .. l
      /\ \A i \in 2 .. n : i \in 1 .. n
      /\ n \in 1 .. n
  OBVIOUS
<1>2. /\ \A i \in 1 .. n : Rung(O[i], H[i], C[i], cs, i, v)
      /\ \A i \in 1 .. n, j \in 1 .. n : i <= j => Grows(O[i], H[i], O[j], H[j])
  BY <1>1 DEF Ladder
<1>3. \A i \in 1 .. n : O[i] \in OutputType /\ O2[i] \in OutputType
  BY <1>1, <1>2 DEF Rung
<1>4. \A i \in 1 .. n : Grows(O[i], H[i], O2[n], H2[n])
  BY <1>1, <1>2, <1>3, GrowsTrans
<1>5. ASSUME NEW i \in 1 .. n
      PROVE  Rung(O2[i], H2[i], C2[i], ds, i, v) /\ Deployed(H2[i]) \subseteq U2
  <2>1. Rung(O2[i], H2[i], C2[i], cs, i, v)
    BY <1>1, <1>2
  <2>2. i \in Nat /\ \A j \in 1 .. i : cs[j] = ds[j]
    OBVIOUS
  <2>3. Rung(O2[i], H2[i], C2[i], ds, i, v)
    BY <2>1, <2>2, RungSame
  <2>4. Deployed(H[i]) \subseteq Deployed(H2[n])
    BY <1>4 DEF Grows
  <2>5. CASE i = n
    BY <2>3, <2>5
  <2>6. CASE i # n
    BY <1>1, <2>3, <2>4, <2>6
  <2> QED BY <2>5, <2>6
<1>6. ASSUME NEW i \in 1 .. n, NEW j \in 1 .. n, i <= j
      PROVE  Grows(O2[i], H2[i], O2[j], H2[j])
  <2>1. CASE j = n /\ i = n
    BY <1>1, <1>3, <2>1, GrowsSelf
  <2>2. CASE j = n /\ i # n
    BY <1>1, <1>4, <2>2
  <2>3. CASE j # n
    <3>1. i \in 1 .. n - 1 /\ j \in 1 .. n - 1
      BY <1>6, <2>3
    <3> QED BY <1>2, <1>6, <3>1
  <2> QED BY <2>1, <2>2, <2>3
<1>7. \A i \in 2 .. n : ds[i].fn = "create" => ds[i].target \in U2
  BY <1>1
<1> QED BY <1>5, <1>6, <1>7 DEF Ladder

(* One more call.                                                          *)
LEMMA LadderPush ==
  ASSUME NEW cs, NEW ds, Len(cs) \in Nat, Len(cs) >= 1, Len(ds) = Len(cs) + 1,
         \A i \in 1 .. Len(cs) : ds[i] = cs[i],
         NEW O, NEW H, NEW C, NEW U, NEW v, NEW O2, NEW H2, NEW C2, NEW U2,
         Ladder(cs, O, H, C, U, v), U \subseteq U2,
         \A i \in 1 .. Len(cs) : O2[i] = O[i] /\ H2[i] = H[i] /\ C2[i] = C[i],
         Rung(O2[Len(ds)], H2[Len(ds)], C2[Len(ds)], ds, Len(ds), v),
         Grows(O[Len(cs)], H[Len(cs)], O2[Len(ds)], H2[Len(ds)]),
         Deployed(H2[Len(ds)]) \subseteq U2,
         ds[Len(ds)].fn = "create" => ds[Len(ds)].target \in U2
  PROVE  Ladder(ds, O2, H2, C2, U2, v)
<1>0. PICK n \in Nat, k \in Nat : n = Len(cs) /\ k = Len(ds) /\ k = n + 1 /\ n >= 1
  OBVIOUS
<1>0a. /\ \A i \in 1 .. n : ds[i] = cs[i]
       /\ \A i \in 1 .. n : O2[i] = O[i] /\ H2[i] = H[i] /\ C2[i] = C[i]
       /\ Rung(O2[k], H2[k], C2[k], ds, k, v) /\ Grows(O[n], H[n], O2[k], H2[k])
       /\ Deployed(H2[k]) \subseteq U2 /\ (ds[k].fn = "create" => ds[k].target \in U2)
  BY <1>0
<1> USE <1>0, <1>0a
<1>1. /\ \A i \in 1 .. k : i = k \/ i \in 1 .. n
      /\ \A i \in 1 .. n : i \in 1 .. k /\ i <= n
      /\ \A i \in 2 .. k : i = k \/ (i \in 2 .. n /\ i \in 1 .. n)
      /\ n \in 1 .. n /\ k \in 1 .. k
  OBVIOUS
<1>2. /\ \A i \in 1 .. n : Rung(O[i], H[i], C[i], cs, i, v) /\ Deployed(H[i]) \subseteq U
      /\ \A i \in 1 .. n, j \in 1 .. n : i <= j => Grows(O[i], H[i], O[j], H[j])
      /\ \A i \in 2 .. n : cs[i].fn = "create" => cs[i].target \in U
  BY DEF Ladder
<1>3. O2[k] \in OutputType /\ \A i \in 1 .. n : O[i] \in OutputType
  BY <1>2 DEF Rung
<1>4. \A i \in 1 .. n : Grows(O[i], H[i], O2[k], H2[k])
  BY <1>1, <1>2, <1>3, GrowsTrans
<1>5. ASSUME NEW i \in 1 .. k
      PROVE  Rung(O2[i], H2[i], C2[i], ds, i, v) /\ Deployed(H2[i]) \subseteq U2
  <2>1. CASE i = k
    BY <2>1
  <2>2. CASE i \in 1 .. n
    <3>1. i \in Nat /\ \A j \in 1 .. i : cs[j] = ds[j]
      BY <2>2
    <3>3. Rung(O[i], H[i], C[i], cs, i, v)
      BY <1>2, <2>2
    <3>2. Rung(O[i], H[i], C[i], ds, i, v)
      BY <3>1, <3>3, RungSame
    <3> QED BY <1>2, <2>2, <3>2
  <2> QED BY <1>1, <2>1, <2>2
<1>6. ASSUME NEW i \in 1 .. k, NEW j \in 1 .. k, i <= j
      PROVE  Grows(O2[i], H2[i], O2[j], H2[j])
  <2>1. CASE j = k /\ i = k
    BY <1>3, <2>1, GrowsSelf
  <2>2. CASE j = k /\ i # k
    BY <1>1, <1>4, <2>2
  <2>3. CASE j # k
    <3>1. i \in 1 .. n /\ j \in 1 .. n
      BY <1>6, <2>3
    <3> QED BY <1>2, <1>6, <3>1
  <2> QED BY <2>1, <2>2, <2>3
<1>7. ASSUME NEW i \in 2 .. k, ds[i].fn = "create" PROVE ds[i].target \in U2
  BY <1>1, <1>2, <1>7
<1> QED BY <1>5, <1>6, <1>7 DEF Ladder

(* Calls keep their shape when the innermost one ends ...                  *)
LEMMA ShapePop ==
  ASSUME NEW cs, NEW ds, NEW l \in Nat, NEW n \in Nat, l = Len(cs), n = Len(ds), n <= l,
         \A i \in 1 .. n : ds[i] = cs[i], Shape(cs)
  PROVE  Shape(ds)
<1>1. /\ \A j \in 1 .. n : j \in 1 .. l
      /\ \A j \in 1 .. n : \A i \in j .. n : i \in 1 .. n /\ i \in j .. l
      /\ \A j \in 1 .. n : \A i \in 1 .. j - 1 : i \in 1 .. n
      /\ \A j \in 1 .. n : j # 1 => j - 1 \in 1 .. n
  OBVIOUS
<1> SUFFICES ASSUME NEW j \in 1 .. n
             PROVE  /\ ds[j].fn # "call" => ds[j].code # NoCode
                    /\ ds[j].fn = "upgrade" => ds[j].target \in Contracts
                    /\ ds[j].fn = "create" =>
                         /\ \A i \in 1 .. j - 1 : ds[i].target # ds[j].target
                         /\ \A i \in j .. n : ds[i].fn = "create"
                         /\ \E k \in Nat : /\ <<ds[j].caller, k>> \in DOMAIN NewAddr
                                           /\ NewAddr[<<ds[j].caller, k>>] = ds[j].target
                         /\ IF j = 1 THEN ds[j].caller \in Existing \ Contracts
                            ELSE ds[j].kind = "dest" /\ ds[j].caller = ds[j - 1].target
  BY DEF Shape
<1>2. ds[j] = cs[j] /\ (j # 1 => ds[j - 1] = cs[j - 1])
  BY <1>1
<1>3. /\ cs[j].fn # "call" => cs[j].code # NoCode
      /\ cs[j].fn = "upgrade" => cs[j].target \in Contracts
      /\ cs[j].fn = "create" =>
           /\ \A i \in 1 .. j - 1 : cs[i].target # cs[j].target
           /\ \A i \in j .. l : cs[i].fn = "create"
           /\ \E k \in Nat : /\ <<cs[j].caller, k>> \in DOMAIN NewAddr
                             /\ NewAddr[<<cs[j].caller, k>>] = cs[j].target
           /\ IF j = 1 THEN cs[j].caller \in Existing \ Contracts
              ELSE cs[j].kind = "dest" /\ cs[j].caller = cs[j - 1].target
  BY <1>1 DEF Shape
<1>4. CASE ds[j].fn # "create"
  BY <1>2, <1>3, <1>4
<1>5. CASE ds[j].fn = "create"
  <2>1. \A i \in 1 .. j - 1 : ds[i].target # ds[j].target
    BY <1>1, <1>2, <1>3, <1>5
  <2>2. \A i \in j .. n : ds[i].fn = "create"
    BY <1>1, <1>2, <1>3, <1>5
  <2> QED BY <1>2, <1>3, <1>5, <2>1, <2>2
<1> QED BY <1>4, <1>5

(* ... and when another one begins.                                        *)
LEMMA ShapePush ==
  ASSUME NEW cs, NEW ds, NEW n \in Nat, n >= 1, n = Len(cs), Len(ds) = n + 1,
         \A i \in 1 .. n : ds[i] = cs[i], Shape(cs), NEW f, f = ds[n + 1],
         f.fn # "call" => f.code # NoCode, f.fn = "upgrade" => f.target \in Contracts,
         cs[n].fn = "create" => f.fn = "create",
         f.fn = "create" =>
           /\ \A i \in 1 .. n : cs[i].target # f.target
           /\ \E k \in Nat : /\ <<f.caller, k>> \in DOMAIN NewAddr
                             /\ NewAddr[<<f.caller, k>>] = f.target
           /\ f.kind = "dest" /\ f.caller = cs[n].target
  PROVE  Shape(ds)
<1>1. /\ \A j \in 1 .. n + 1 : j = n + 1 \/ j \in 1 .. n
      /\ \A j \in 1 .. n : n \in j .. n
      /\ \A j \in 1 .. n : \A i \in j .. n + 1 : i = n + 1 \/ (i \in j .. n /\ i \in 1 .. n)
      /\ \A j \in 1 .. n : \A i \in 1 .. j - 1 : i \in 1 .. n
      /\ \A j \in 1 .. n : j # 1 => j - 1 \in 1 .. n
      /\ (n + 1) - 1 = n /\ n + 1 # 1 /\ \A i \in n + 1 .. n + 1 : i = n + 1
      /\ n \in 1 .. n
  OBVIOUS
<1>2. ASSUME NEW j \in 1 .. n + 1
      PROVE  /\ ds[j].fn # "call" => ds[j].code # NoCode
             /\ ds[j].fn = "upgrade" => ds[j].target \in Contracts
             /\ ds[j].fn = "create" =>
                  /\ \A i \in 1 .. j - 1 : ds[i].target # ds[j].target
                  /\ \A i \in j .. n + 1 : ds[i].fn = "create"
                  /\ \E k \in Nat : /\ <<ds[j].caller, k>> \in DOMAIN NewAddr
                                    /\ NewAddr[<<ds[j].caller, k>>] = ds[j].target
                  /\ IF j = 1 THEN ds[j].caller \in Existing \ Contracts
                     ELSE ds[j].kind = "dest" /\ ds[j].caller = ds[j - 1].target
  <2>1. CASE j = n + 1
    <3>1. ds[j] = f /\ ds[j - 1] = cs[n] /\ j # 1
      BY <1>1, <2>1
    <3>2. \A i \in 1 .. j - 1 : i \in 1 .. n
      BY <2>1
    <3>3. f.fn = "create" => \A i \in 1 .. j - 1 : ds[i].target # f.target
      BY <3>2
    <3>4. f.fn = "create" => \A i \in j .. n + 1 : ds[i].fn = "create"
      BY <1>1, <2>1
    <3> QED BY <3>1, <3>3, <3>4
  <2>2. CASE j \in 1 .. n
    <3>1. ds[j] = cs[j] /\ (j # 1 => ds[j - 1] = cs[j - 1])
      BY <1>1, <2>2
    <3>2. /\ cs[j].fn # "call" => cs[j].code # NoCode
          /\ cs[j].fn = "upgrade" => cs[j].target \in Contracts
          /\ cs[j].fn = "create" =>
               /\ \A i \in 1 .. j - 1 : cs[i].target # cs[j].target
               /\ \A i \in j .. n : cs[i].fn = "create"
               /\ \E k \in Nat : /\ <<cs[j].caller, k>> \in DOMAIN NewAddr
                                 /\ NewAddr[<<cs[j].caller, k>>] = cs[j].target
               /\ IF j = 1 THEN cs[j].caller \in Existing \ Contracts
                  ELSE cs[j].kind = "dest" /\ cs[j].caller = cs[j - 1].target
      BY <2>2 DEF Shape
    <3>3. CASE ds[j].fn # "create"
      BY <3>1, <3>2, <3>3
    <3>4. CASE ds[j].fn = "create"
      <4>1. \A i \in 1 .. j - 1 : ds[i].target # ds[j].target
        BY <1>1, <2>2, <3>1, <3>2, <3>4
      <4>2. cs[n].fn = "create"
        BY <1>1, <2>2, <3>1, <3>2, <3>4
      <4>3. \A i \in j .. n + 1 : ds[i].fn = "create"
        BY <1>1, <2>2, <3>1, <3>2, <3>4, <4>2
      <4> QED BY <3>1, <3>2, <3>4, <4>1, <4>3
    <3> QED BY <3>3, <3>4
  <2> QED BY <1>1, <2>1, <2>2
<1> QED BY <1>2 DEF Shape

-----------------------------------------------------------------------------
(* The inductive invariant.                                                *)

AllOuts == Outs(calls, output, outputStack)
AllHists == Hists(calls, history)
AllCallers == Callers(calls, runtime, runtimeStack)

ReportInv ==
  phase = "running" =>
    /\ Shape(calls)
    /\ Ladder(calls, AllOuts, AllHists, AllCallers, codeUpdates, TxValue)
    /\ Remembered(calls, AllOuts, bigIntStack)
    /\ Pushed(calls, AllOuts, outputStack)

RestInv ==
  /\ phase = "idle" =>
       /\ output = NewVMOutput /\ history = NoHistory
       /\ codeUpdates = {} /\ runtime = NoRuntime
  /\ phase = "done" => CreatedOnce /\ DeployedCodeIsReported /\ BalancesConserved

(* The innermost call of a running transaction.                            *)
LEMMA TopFacts ==
  ASSUME HostInv, phase = "running", ReportInv
  PROVE  /\ calls \in Seq(FrameType) /\ Len(calls) \in Nat /\ Len(calls) >= 1
         /\ Len(calls) \in 1 .. Len(calls) /\ Shape(calls) /\ Formed(calls, Len(calls))
         /\ Len(outputStack) = Len(calls) - 1 /\ Len(runtimeStack) = Len(calls) - 1
         /\ Len(bigIntStack) = Len(calls) - 1
         /\ outputStack \in Seq(GoodOutput) /\ runtimeStack \in Seq(RuntimeType)
         /\ bigIntStack \in Seq(Values)
         /\ output \in OutputType /\ history \in HistoryType
         /\ Level(output, history, calls, Len(calls)) /\ TotalDelta(output) = TxValue
         /\ runtime.caller \in Known(history, calls, Len(calls))
         /\ runtime.scAddress = calls[Len(calls)].target
         /\ runtime.scAddress \in Addresses
         /\ runtime.scAddress \in Known(history, calls, Len(calls))
         /\ Deployed(history) \subseteq codeUpdates
         /\ \A i \in 2 .. Len(calls) : calls[i].fn = "create" => calls[i].target \in codeUpdates
<1>1. /\ calls \in Seq(FrameType) /\ outputStack \in Seq(GoodOutput)
      /\ runtimeStack \in Seq(RuntimeType) /\ bigIntStack \in Seq(Values)
      /\ output \in OutputType /\ history \in HistoryType
  BY DEF HostInv, TypeOK, GoodInv
<1>2. PICK n \in Nat : n = Len(calls) /\ n >= 1 /\ n \in 1 .. n
  <2>1. Len(calls) \in Nat /\ Len(calls) >= 1
    BY <1>1, LenProperties DEF HostInv, NestInv, Nest, Rooted
  <2> QED BY <2>1
<1>3. /\ Len(outputStack) = n - 1 /\ Len(runtimeStack) = n - 1 /\ Len(bigIntStack) = n - 1
      /\ runtime.scAddress = calls[n].target
  BY <1>2 DEF HostInv, NestInv
<1>4. /\ Shape(calls)
      /\ Ladder(calls, AllOuts, AllHists, AllCallers, codeUpdates, TxValue)
  BY DEF ReportInv
<1>5. AllOuts[n] = output /\ AllHists[n] = history /\ AllCallers[n] = runtime.caller
  BY <1>2 DEF AllOuts, AllHists, AllCallers, Outs, Hists, Callers
<1>6. /\ Rung(output, history, runtime.caller, calls, n, TxValue)
      /\ Deployed(history) \subseteq codeUpdates
      /\ \A i \in 2 .. n : calls[i].fn = "create" => calls[i].target \in codeUpdates
  BY <1>2, <1>4, <1>5 DEF Ladder
<1>7. Formed(calls, n)
  BY <1>1, <1>2, <1>4, ShapeIsFormed
<1>8. runtime.scAddress \in Addresses
  BY RunningAddresses
<1>9. runtime.scAddress \in Known(history, calls, n)
  <2>1. calls[n].target \in Contracts \cup Making(calls, n) \cup Deployed(history)
    BY <1>2, <1>6 DEF Rung, Level
  <2> QED BY <1>3, <2>1, FutureFacts DEF Known
<1> QED BY <1>1, <1>2, <1>3, <1>4, <1>6, <1>7, <1>8, <1>9 DEF Rung

(* A host call that neither pushes nor pops.                               *)
LEMMA FlatKeepsReport ==
  ASSUME HostInv, HostInv', phase = "running", ReportInv,
         UNCHANGED <<phase, outputStack, runtimeStack, bigIntStack, calls>>,
         runtime'.caller = runtime.caller, runtime'.callValue = runtime.callValue,
         Level(output', history', calls, Len(calls)), Grows(output, history, output', history'),
         TotalDelta(output') = TotalDelta(output), Deployed(history') \subseteq codeUpdates',
         \A i \in 2 .. Len(calls) : calls[i].fn = "create" => calls[i].target \in codeUpdates'
  PROVE  ReportInv' /\ TxValue' = TxValue /\ TotalDelta(output') = TxValue
<1>1. PICK n \in Nat : n = Len(calls) /\ n >= 1 /\ n \in 1 .. n /\ n <= n
  BY TopFacts
<1>2. /\ runtime.caller \in Known(history, calls, n) /\ TotalDelta(output) = TxValue
  BY <1>1, TopFacts
<1>3. TxValue' = TxValue
  BY DEF TxValue
<1>4. /\ Shape(calls)
      /\ Ladder(calls, AllOuts, AllHists, AllCallers, codeUpdates, TxValue)
      /\ Remembered(calls, AllOuts, bigIntStack) /\ Pushed(calls, AllOuts, outputStack)
  BY DEF ReportInv
<1>5. /\ AllOuts[n] = output /\ AllHists[n] = history
      /\ AllOuts'[n] = output' /\ AllHists'[n] = history' /\ AllCallers'[n] = runtime'.caller
      /\ \A i \in 1 .. n - 1 : AllOuts'[i] = AllOuts[i] /\ AllHists'[i] = AllHists[i]
                               /\ AllCallers'[i] = AllCallers[i]
  BY <1>1 DEF AllOuts, AllHists, AllCallers, Outs, Hists, Callers
<1>6. output' \in OutputType /\ history' \in HistoryType
  BY DEF HostInv, TypeOK
<1>7. Rung(AllOuts'[n], AllHists'[n], AllCallers'[n], calls, n, TxValue)
  <2>1. Known(history, calls, n) \subseteq Known(history', calls, n)
    BY DEF Known, Grows
  <2> QED BY <1>1, <1>2, <1>5, <1>6, <2>1 DEF Rung
<1>8. Ladder(calls, AllOuts', AllHists', AllCallers', codeUpdates', TxValue)
  BY <1>1, <1>4, <1>5, <1>7, LadderTop
<1>9. Remembered(calls, AllOuts', bigIntStack) /\ Pushed(calls, AllOuts', outputStack)
  BY <1>1, <1>4, <1>5 DEF Remembered, Pushed
<1>10. ReportInv'
  BY <1>3, <1>4, <1>8, <1>9 DEF ReportInv
<1> QED BY <1>2, <1>3, <1>10

(* A call is made.                                                         *)
LEMMA PushKeepsReport ==
  ASSUME HostInv, HostInv', phase = "running", ReportInv, NEW f \in FrameType, NEW out,
         UNCHANGED <<phase, history>>, calls' = Append(calls, f),
         f.history = history,
         f.before = [accounts |-> output.accounts, bigInts |-> bigInts,
                     scAddress |-> runtime.scAddress, storageAddr |-> storageAddr],
         outputStack' = Append(outputStack, out), out \in GoodOutput, Undo(out, f) = output,
         f.fn = "create" => out = DeployCode(output, f.target, f.code),
         NEW rt \in RuntimeType, rt.caller = runtime.caller, rt.callValue = runtime.callValue,
         runtimeStack' = Append(runtimeStack, rt),
         bigIntStack' = Append(bigIntStack, bigInts), Shape(calls'),
         Level(output', history, calls', Len(calls) + 1),
         Grows(output, history, output', history), TotalDelta(output') = TxValue,
         runtime'.caller \in Known(history, calls', Len(calls) + 1),
         codeUpdates \subseteq codeUpdates',
         f.fn = "create" => f.target \in codeUpdates'
  PROVE  ReportInv' /\ TxValue' = TxValue
<1>1. PICK n \in Nat : n = Len(calls) /\ n >= 1 /\ n \in 1 .. n
  BY TopFacts
<1>2. /\ calls \in Seq(FrameType) /\ outputStack \in Seq(GoodOutput)
      /\ runtimeStack \in Seq(RuntimeType) /\ bigIntStack \in Seq(Values) /\ bigInts \in Values
      /\ Len(outputStack) = n - 1 /\ Len(runtimeStack) = n - 1 /\ Len(bigIntStack) = n - 1
      /\ runtime.scAddress = calls[n].target /\ Deployed(history) \subseteq codeUpdates
  BY <1>1, TopFacts DEF HostInv, TypeOK
<1>3. /\ Len(calls') = n + 1 /\ calls'[n + 1] = f /\ \A i \in 1 .. n : calls'[i] = calls[i]
  BY <1>1, <1>2, AppendProperties
<1>4. outputStack'[n] = out /\ \A i \in 1 .. n - 1 : outputStack'[i] = outputStack[i]
  <2>1. n - 1 + 1 = n
    BY <1>1
  <2> QED BY <1>2, <2>1, AppendProperties
<1>5. /\ runtimeStack'[n] = rt /\ Len(runtimeStack') = n
      /\ \A i \in 1 .. n - 1 : runtimeStack'[i] = runtimeStack[i]
  <2>1. n - 1 + 1 = n
    BY <1>1
  <2> QED BY <1>2, <2>1, AppendProperties
<1>6. bigIntStack'[n] = bigInts /\ \A i \in 1 .. n - 1 : bigIntStack'[i] = bigIntStack[i]
  <2>1. n - 1 + 1 = n
    BY <1>1
  <2> QED BY <1>2, <2>1, AppendProperties
<1>7. TxValue' = TxValue
  <2>1. runtimeStack' # <<>> /\ TxValue' = runtimeStack'[1].callValue
    BY <1>1, <1>5, Len(<<>>) = 0 DEF TxValue
  <2>2. CASE n = 1
    <3>1. runtimeStack = <<>>
      BY <1>2, <2>2, EmptySeq
    <3> QED BY <1>5, <2>1, <2>2, <3>1 DEF TxValue
  <2>3. CASE n # 1
    <3>1. runtimeStack # <<>> /\ 1 \in 1 .. n - 1
      BY <1>1, <1>2, <2>3, Len(<<>>) = 0
    <3> QED BY <1>5, <2>1, <3>1 DEF TxValue
  <2> QED BY <2>2, <2>3
<1>8. /\ Ladder(calls, AllOuts, AllHists, AllCallers, codeUpdates, TxValue)
      /\ Remembered(calls, AllOuts, bigIntStack) /\ Pushed(calls, AllOuts, outputStack)
  BY DEF ReportInv
<1>9. /\ \A i \in 1 .. n : i = n \/ (i \in 1 .. n - 1 /\ i + 1 \in 1 .. n)
      /\ \A i \in 1 .. n : i \in 1 .. n + 1 /\ i # n + 1
      /\ \A i \in 1 .. n - 1 : i # n
      /\ n + 1 \in 1 .. n + 1 /\ Len(calls') - 1 = n
  BY <1>1, <1>3
<1>10. /\ AllOuts[n] = output /\ AllHists[n] = history /\ AllCallers[n] = runtime.caller
       /\ AllOuts'[n] = Undo(out, f) /\ AllHists'[n] = f.history /\ AllCallers'[n] = rt.caller
       /\ AllOuts'[n + 1] = output' /\ AllHists'[n + 1] = history
       /\ AllCallers'[n + 1] = runtime'.caller
  BY <1>1, <1>3, <1>4, <1>5, <1>9 DEF AllOuts, AllHists, AllCallers, Outs, Hists, Callers
<1>11. \A i \in 1 .. n - 1 : AllOuts'[i] = AllOuts[i] /\ AllHists'[i] = AllHists[i]
                             /\ AllCallers'[i] = AllCallers[i]
  <2> TAKE i \in 1 .. n - 1
  <2>1. i \in 1 .. n /\ i + 1 \in 1 .. n /\ i \in 1 .. n + 1 /\ i # n + 1 /\ i # n
    BY <1>1
  <2>2. calls'[i + 1] = calls[i + 1]
    BY <1>3, <2>1
  <2> QED BY <1>1, <1>3, <1>4, <1>5, <2>1, <2>2
          DEF AllOuts, AllHists, AllCallers, Outs, Hists, Callers
<1>12. \A i \in 1 .. n : AllOuts'[i] = AllOuts[i] /\ AllHists'[i] = AllHists[i]
                         /\ AllCallers'[i] = AllCallers[i]
  BY <1>9, <1>10, <1>11
<1>13. output' \in OutputType /\ history \in HistoryType
  BY DEF HostInv, TypeOK
<1>14. Rung(AllOuts'[n + 1], AllHists'[n + 1], AllCallers'[n + 1], calls', n + 1, TxValue)
  BY <1>1, <1>10, <1>13 DEF Rung
<1>15. Ladder(calls', AllOuts', AllHists', AllCallers', codeUpdates', TxValue)
  <2>1. Deployed(AllHists'[n + 1]) \subseteq codeUpdates'
    BY <1>2, <1>10
  <2>2. Grows(AllOuts[n], AllHists[n], AllOuts'[n + 1], AllHists'[n + 1])
    BY <1>10
  <2>3. calls'[n + 1].fn = "create" => calls'[n + 1].target \in codeUpdates'
    BY <1>3
  <2>4. PICK k \in Nat : k = n + 1
    BY <1>1
  <2>5. /\ Len(calls') = k /\ Rung(AllOuts'[k], AllHists'[k], AllCallers'[k], calls', k, TxValue)
        /\ Deployed(AllHists'[k]) \subseteq codeUpdates'
        /\ Grows(AllOuts[n], AllHists[n], AllOuts'[k], AllHists'[k])
        /\ calls'[k].fn = "create" => calls'[k].target \in codeUpdates'
    BY <1>3, <1>14, <2>1, <2>2, <2>3, <2>4
  <2>6. /\ \A i \in 1 .. n : calls'[i] = calls[i]
        /\ Ladder(calls, AllOuts, AllHists, AllCallers, codeUpdates, TxValue)
    BY <1>3, <1>8
  <2>7. n = Len(calls) /\ n \in Nat /\ codeUpdates \subseteq codeUpdates'
    BY <1>1
  <2>8. /\ Len(calls') = Len(calls) + 1
        /\ Rung(AllOuts'[Len(calls')], AllHists'[Len(calls')], AllCallers'[Len(calls')], calls', Len(calls'), TxValue)
        /\ Deployed(AllHists'[Len(calls')]) \subseteq codeUpdates'
        /\ Grows(AllOuts[Len(calls)], AllHists[Len(calls)], AllOuts'[Len(calls')], AllHists'[Len(calls')])
        /\ calls'[Len(calls')].fn = "create" => calls'[Len(calls')].target \in codeUpdates'
    BY <1>1, <2>4, <2>5
  <2>9. PICK cs, ds, O, H, C, U, v, O2, H2, C2, U2 :
          /\ cs = calls /\ O = AllOuts /\ H = AllHists /\ C = AllCallers /\ U = codeUpdates
          /\ ds = calls' /\ O2 = AllOuts' /\ H2 = AllHists' /\ C2 = AllCallers'
          /\ U2 = codeUpdates' /\ v = TxValue
    OBVIOUS
  <2>10. Len(cs) \in Nat /\ Len(cs) >= 1 /\ Len(ds) = Len(cs) + 1
    BY <1>1, <2>8, <2>9
  <2>11. /\ Rung(O2[Len(ds)], H2[Len(ds)], C2[Len(ds)], ds, Len(ds), v)
         /\ Grows(O[Len(cs)], H[Len(cs)], O2[Len(ds)], H2[Len(ds)])
    BY <2>8, <2>9
  <2>12. /\ Deployed(H2[Len(ds)]) \subseteq U2 /\ U \subseteq U2
         /\ ds[Len(ds)].fn = "create" => ds[Len(ds)].target \in U2
    BY <2>7, <2>8, <2>9
  <2>13. \A i \in 1 .. Len(cs) : ds[i] = cs[i]
    BY <1>1, <2>6, <2>9
  <2>14. \A i \in 1 .. Len(cs) : O2[i] = O[i] /\ H2[i] = H[i] /\ C2[i] = C[i]
    BY <1>1, <1>12, <2>9
  <2>15. Ladder(cs, O, H, C, U, v)
    BY <2>6, <2>9
  <2>16. Ladder(ds, O2, H2, C2, U2, v)
    BY ONLY <2>10, <2>11, <2>12, <2>13, <2>14, <2>15, LadderPush
  <2> QED BY <2>9, <2>16
<1>16. Remembered(calls', AllOuts', bigIntStack')
  <2>1. ASSUME NEW i \in 1 .. n
        PROVE  calls'[i + 1].before =
                 [accounts |-> AllOuts'[i].accounts, bigInts |-> bigIntStack'[i],
                  scAddress |-> calls'[i].target,
                  storageAddr |-> calls'[Max(Own(calls', i))].target]
    <3>1. /\ Nest(calls, storageStack, storageAddr) /\ calls[1].kind = "root"
      BY DEF HostInv, NestInv, Nest, Rooted
    <3>2. Own(calls', i) = Own(calls, i)
      <4>1. i \in 0 .. n /\ \A j \in 1 .. n : calls'[j] = calls[j]
        BY <1>3
      <4> QED BY <4>1, OwnSame
    <3>3. Max(Own(calls, i)) \in 1 .. n
      <4>1. Max(Own(calls, i)) \in 1 .. i
        BY <1>1, <3>1, OwnFacts
      <4> QED BY <4>1
    <3>4. calls'[Max(Own(calls', i))] = calls[Max(Own(calls, i))] /\ calls'[i] = calls[i]
      BY <1>3, <3>2, <3>3
    <3>5. CASE i = n
      <4>1. storageAddr = calls[Max(Own(calls, n))].target
        BY <1>1, <3>1 DEF Nest
      <4> QED BY <1>2, <1>3, <1>6, <1>10, <3>4, <3>5, <4>1
    <3>6. CASE i \in 1 .. n - 1
      <4>1. calls'[i + 1] = calls[i + 1]
        BY <1>3, <3>6
      <4>2. calls[i + 1].before =
              [accounts |-> AllOuts[i].accounts, bigInts |-> bigIntStack[i],
               scAddress |-> calls[i].target,
               storageAddr |-> calls[Max(Own(calls, i))].target]
        BY <1>1, <1>8, <3>6 DEF Remembered
      <4> QED BY <1>6, <1>11, <3>4, <3>6, <4>1, <4>2
    <3> QED BY <1>9, <3>5, <3>6
  <2> QED BY <1>9, <2>1 DEF Remembered
<1>17. Pushed(calls', AllOuts', outputStack')
  <2>1. ASSUME NEW i \in 1 .. n, calls'[i + 1].fn = "create"
        PROVE  outputStack'[i] = DeployCode(AllOuts'[i], calls'[i + 1].target, calls'[i + 1].code)
    <3>1. CASE i = n
      BY <1>3, <1>4, <1>10, <2>1, <3>1
    <3>2. CASE i \in 1 .. n - 1
      <4>1. calls'[i + 1] = calls[i + 1]
        BY <1>3, <3>2
      <4> QED BY <1>1, <1>4, <1>8, <1>11, <2>1, <3>2, <4>1 DEF Pushed
    <3> QED BY <1>9, <3>1, <3>2
  <2> QED BY <1>9, <2>1 DEF Pushed
<1>18. ReportInv'
  BY <1>7, <1>15, <1>16, <1>17 DEF ReportInv
<1> QED BY <1>7, <1>18

(* A call ends: its caller has a state that grows out of what it pushed.   *)
LEMMA PopKeepsReport ==
  ASSUME HostInv, HostInv', phase = "running", ReportInv, NEW m \in Nat, m >= 1,
         Len(calls) = m + 1, UNCHANGED phase, calls' = Front(calls),
         outputStack' = Front(outputStack), bigIntStack' = Front(bigIntStack),
         NEW f, PopRuntime(f),
         Level(output', history', calls, m),
         Grows(AllOuts[m], AllHists[m], output', history'), TotalDelta(output') = TxValue,
         Deployed(history') \subseteq codeUpdates',
         \A i \in 2 .. m : calls[i].fn = "create" => calls[i].target \in codeUpdates'
  PROVE  ReportInv' /\ TxValue' = TxValue
<1>1. /\ calls \in Seq(FrameType) /\ outputStack \in Seq(GoodOutput)
      /\ runtimeStack \in Seq(RuntimeType) /\ bigIntStack \in Seq(Values)
      /\ Len(outputStack) = m /\ Len(runtimeStack) = m /\ Len(bigIntStack) = m
  <2>1. (m + 1) - 1 = m
    OBVIOUS
  <2> QED BY <2>1, TopFacts
<1>2. calls # <<>> /\ outputStack # <<>> /\ runtimeStack # <<>> /\ bigIntStack # <<>>
  BY <1>1, Len(<<>>) = 0
<1>3. Len(calls') = m /\ \A i \in 1 .. m : calls'[i] = calls[i]
  <2>1. (m + 1) - 1 = m
    OBVIOUS
  <2> QED BY <1>1, <1>2, <2>1, StackPop
<1>4. Len(outputStack') = m - 1 /\ \A i \in 1 .. m - 1 : outputStack'[i] = outputStack[i]
  BY <1>1, <1>2, StackPop
<1>5. Len(bigIntStack') = m - 1 /\ \A i \in 1 .. m - 1 : bigIntStack'[i] = bigIntStack[i]
  BY <1>1, <1>2, StackPop
<1>6. /\ Len(runtimeStack') = m - 1 /\ runtimeStack' \in Seq(RuntimeType)
      /\ \A i \in 1 .. m - 1 : runtimeStack'[i] = runtimeStack[i]
  BY <1>1, <1>2, StackPop DEF PopRuntime
<1>7. /\ runtime'.caller = runtimeStack[m].caller
      /\ runtime'.callValue = runtimeStack[m].callValue
  <2>1. runtimeStack[m] \in RuntimeType
    BY <1>1, ElementOfSeq
  <2>2. runtime' = AfterCall(f.kind, runtimeStack[m])
    BY <1>1 DEF PopRuntime, Last
  <2> QED BY <2>1, <2>2 DEF AfterCall, RuntimeType
<1>8. TxValue' = TxValue
  <2>1. TxValue = runtimeStack[1].callValue
    BY <1>2 DEF TxValue
  <2>2. CASE m = 1
    <3>1. runtimeStack' = <<>>
      BY <1>6, <2>2, EmptySeq
    <3> QED BY <1>7, <2>1, <2>2, <3>1 DEF TxValue
  <2>3. CASE m # 1
    <3>1. runtimeStack' # <<>> /\ 1 \in 1 .. m - 1
      BY <1>6, <2>3, Len(<<>>) = 0
    <3> QED BY <1>6, <2>1, <3>1 DEF TxValue
  <2> QED BY <2>2, <2>3
<1>9. /\ Shape(calls) /\ Ladder(calls, AllOuts, AllHists, AllCallers, codeUpdates, TxValue)
      /\ Remembered(calls, AllOuts, bigIntStack) /\ Pushed(calls, AllOuts, outputStack)
  BY DEF ReportInv
<1>10. /\ AllOuts'[m] = output' /\ AllHists'[m] = history' /\ AllCallers'[m] = runtime'.caller
       /\ AllCallers[m] = runtimeStack[m].caller
  BY <1>3 DEF AllOuts, AllHists, AllCallers, Outs, Hists, Callers
<1>11. \A i \in 1 .. m - 1 : AllOuts'[i] = AllOuts[i] /\ AllHists'[i] = AllHists[i]
                             /\ AllCallers'[i] = AllCallers[i]
  <2> TAKE i \in 1 .. m - 1
  <2>1. i \in 1 .. m /\ i + 1 \in 1 .. m /\ i \in 1 .. m + 1 /\ i # m + 1 /\ i # m
    OBVIOUS
  <2>2. calls'[i + 1] = calls[i + 1]
    BY <1>3, <2>1
  <2> QED BY <1>3, <1>4, <1>6, <2>1, <2>2
          DEF AllOuts, AllHists, AllCallers, Outs, Hists, Callers
<1>12. m \in 1 .. m + 1 /\ m + 1 \in Nat /\ m <= m + 1 /\ (m + 1) - 1 = m
       /\ \A i \in 1 .. m - 1 : i \in 1 .. m
  OBVIOUS
<1>13. Rung(AllOuts'[m], AllHists'[m], AllCallers'[m], calls, m, TxValue)
  <2>1. output' \in OutputType /\ history' \in HistoryType
    BY DEF HostInv, TypeOK
  <2>2. AllCallers[m] \in Known(AllHists[m], calls, m)
    BY <1>9, <1>12 DEF Ladder, Rung
  <2>3. Known(AllHists[m], calls, m) \subseteq Known(history', calls, m)
    BY DEF Known, Grows
  <2>4. runtime'.caller \in Known(history', calls, m)
    BY <1>7, <1>10, <2>2, <2>3
  <2> QED BY <1>10, <2>1, <2>4 DEF Rung
<1>14. Ladder(calls', AllOuts', AllHists', AllCallers', codeUpdates', TxValue)
  <2>1. /\ Grows(AllOuts[m], AllHists[m], AllOuts'[m], AllHists'[m])
        /\ Deployed(AllHists'[m]) \subseteq codeUpdates'
    BY <1>10
  <2> QED BY <1>3, <1>9, <1>11, <1>12, <1>13, <2>1, LadderTop
<1>15. Shape(calls')
  BY <1>3, <1>9, <1>12, ShapePop
<1>16. Remembered(calls', AllOuts', bigIntStack')
  <2>1. ASSUME NEW i \in 1 .. m - 1
        PROVE  calls'[i + 1].before =
                 [accounts |-> AllOuts'[i].accounts, bigInts |-> bigIntStack'[i],
                  scAddress |-> calls'[i].target,
                  storageAddr |-> calls'[Max(Own(calls', i))].target]
    <3>1. /\ calls[1].kind = "root"
      BY DEF HostInv, NestInv, Nest, Rooted
    <3>2. Own(calls', i) = Own(calls, i)
      <4>1. i \in 0 .. m /\ \A j \in 1 .. m : calls'[j] = calls[j]
        BY <1>3
      <4> QED BY <4>1, OwnSame
    <3>3. Max(Own(calls, i)) \in 1 .. m
      <4>1. Max(Own(calls, i)) \in 1 .. i
        BY <3>1, OwnFacts
      <4> QED BY <4>1
    <3>4. /\ calls'[Max(Own(calls', i))] = calls[Max(Own(calls, i))]
          /\ calls'[i] = calls[i] /\ calls'[i + 1] = calls[i + 1]
      BY <1>3, <3>2, <3>3
    <3>5. calls[i + 1].before =
            [accounts |-> AllOuts[i].accounts, bigInts |-> bigIntStack[i],
             scAddress |-> calls[i].target,
             storageAddr |-> calls[Max(Own(calls, i))].target]
      BY <1>9, <1>12 DEF Remembered
    <3> QED BY <1>5, <1>11, <3>4, <3>5
  <2> QED BY <1>3, <2>1 DEF Remembered
<1>17. Pushed(calls', AllOuts', outputStack')
  <2>1. ASSUME NEW i \in 1 .. m - 1, calls'[i + 1].fn = "create"
        PROVE  outputStack'[i] = DeployCode(AllOuts'[i], calls'[i + 1].target, calls'[i + 1].code)
    <3>1. calls'[i + 1] = calls[i + 1]
      BY <1>3
    <3> QED BY <1>4, <1>9, <1>11, <1>12, <2>1, <3>1 DEF Pushed
  <2> QED BY <1>3, <2>1 DEF Pushed
<1>18. ReportInv'
  BY <1>8, <1>14, <1>15, <1>16, <1>17 DEF ReportInv
<1> QED BY <1>8, <1>18

-----------------------------------------------------------------------------
(* Host calls that enter no other contract.                                *)

(* A quiet host call.                                                      *)
LEMMA QuietKeepsReport ==
  ASSUME HostInv, HostInv', phase = "running", ReportInv,
         UNCHANGED <<phase, outputStack, runtimeStack, bigIntStack, calls, history, codeUpdates>>,
         runtime'.caller = runtime.caller, runtime'.callValue = runtime.callValue,
         Quiet(output, output', Known(history, calls, Len(calls)), Kept(history, calls, Len(calls))),
         Even(output, output')
  PROVE  ReportInv'
<1>1. /\ output \in OutputType /\ Level(output, history, calls, Len(calls))
      /\ Formed(calls, Len(calls)) /\ Deployed(history) \subseteq codeUpdates
      /\ \A i \in 2 .. Len(calls) : calls[i].fn = "create" => calls[i].target \in codeUpdates
  BY TopFacts
<1>2. output' \in OutputType
  BY DEF HostInv, TypeOK
<1>3. Level(output', history, calls, Len(calls)) /\ Grows(output, history, output', history)
  BY <1>1, <1>2, LevelQuiet
<1>4. TotalDelta(output') = TotalDelta(output)
  BY EvenTotal
<1> QED BY <1>1, <1>3, <1>4, FlatKeepsReport

(* The storage in use is that of an address that is known.                 *)
LEMMA StorageIsKnown ==
  ASSUME HostInv, phase = "running", ReportInv
  PROVE  storageAddr \in Addresses /\ storageAddr \in Known(history, calls, Len(calls))
<1>1. PICK n \in Nat : n = Len(calls) /\ n >= 1 /\ n \in 1 .. n
  BY TopFacts
<1>2. Nest(calls, storageStack, storageAddr) /\ calls[1].kind = "root"
  BY DEF HostInv, NestInv, Nest, Rooted
<1>3. Max(Own(calls, n)) \in 1 .. n /\ storageAddr = calls[Max(Own(calls, n))].target
  BY <1>1, <1>2, OwnFacts DEF Nest
<1>4. Level(output, history, calls, n)
  BY <1>1, TopFacts
<1>5. storageAddr \in Contracts \cup Making(calls, n) \cup Deployed(history)
  BY <1>3, <1>4 DEF Level
<1> QED BY <1>1, <1>5, RunningAddresses, FutureFacts DEF Known

(* storageStore.                                                           *)
LEMMA SetStorageReports ==
  ASSUME HostInv, HostInv', ReportInv, NEW value \in Values, SetStorage(value)
  PROVE  ReportInv'
<1>1. phase = "running"
  BY DEF SetStorage, Executing
<1>2. output \in OutputType /\ Clean(output) /\ storageAddr \in Addresses
      /\ storageAddr \in Known(history, calls, Len(calls))
  BY <1>1, TopFacts, StorageIsKnown DEF Level
<1>3. PICK acc : acc = [output.accounts[storageAddr] EXCEPT !.store = value]
  OBVIOUS
<1>4. /\ acc.delta = output.accounts[storageAddr].delta /\ acc.nonce = output.accounts[storageAddr].nonce
      /\ acc.code = output.accounts[storageAddr].code
      /\ acc.transfers = output.accounts[storageAddr].transfers
  BY <1>2, <1>3, TransfersTyped, AccountFields
<1>5. output' = output \/ output' = SetAccount(output, storageAddr, acc)
  BY <1>3 DEF SetStorage
<1>6. Quiet(output, output', Known(history, calls, Len(calls)), Kept(history, calls, Len(calls)))
  <2>1. CASE output' = output
    BY <1>2, <2>1 DEF Quiet
  <2>2. CASE output' = SetAccount(output, storageAddr, acc)
    BY <1>2, <1>4, <2>2, QuietSet
  <2> QED BY <1>5, <2>1, <2>2
<1>7. Even(output, output')
  BY <1>2, <1>4, <1>5, SetAccountIs DEF Even
<1> QED BY <1>1, <1>6, <1>7, QuietKeepsReport DEF SetStorage

(* The writers of big integers.                                            *)
LEMMA SetBigIntReports ==
  ASSUME HostInv, HostInv', ReportInv, NEW value \in Values, SetBigInt(value)
  PROVE  ReportInv'
<1>1. phase = "running"
  BY DEF SetBigInt, Executing
<1>2. Clean(output)
  BY <1>1, TopFacts DEF Level
<1>3. Quiet(output, output', Known(history, calls, Len(calls)), Kept(history, calls, Len(calls)))
  BY <1>2 DEF Quiet, SetBigInt
<1>4. Even(output, output')
  BY DEF Even, SetBigInt
<1> QED BY <1>1, <1>3, <1>4, QuietKeepsReport DEF SetBigInt

(* Setting the return code is quiet.                                       *)
LEMMA QuietReturnCode ==
  ASSUME NEW o \in OutputType, Clean(o), NEW r, NEW K, NEW P
  PROVE  Quiet(o, SetReturnCode(o, r), K, P)
<1>1. SetReturnCode(o, r).accounts = o.accounts /\ SetReturnCode(o, r).listed = o.listed
  BY DEF SetReturnCode, OutputType
<1>2. PICK o2 : o2 = SetReturnCode(o, r)
  OBVIOUS
<1>3. o2.accounts = o.accounts /\ o2.listed = o.listed
  BY <1>1, <1>2
<1>4. Quiet(o, o2, K, P)
  BY <1>3 DEF Quiet, Clean
<1> QED BY <1>2, <1>4

(* A call refused on entry.                                                *)
LEMMA RefusedReports ==
  ASSUME HostInv, HostInv', phase = "running", ReportInv, NEW strict, Refused(strict),
         runtime'.caller = runtime.caller, runtime'.callValue = runtime.callValue,
         UNCHANGED <<phase, history>>
  PROVE  ReportInv'
<1>1. output \in OutputType /\ Clean(output) /\ runtime.scAddress \in Addresses
  BY TopFacts DEF Level
<1>2. output' = output \/ output' = SetReturnCode(output, "ExecutionFailed")
  BY DEF Refused
<1>3. Quiet(output, output', Known(history, calls, Len(calls)), Kept(history, calls, Len(calls)))
  <2>1. CASE output' = output
    BY <1>1, <2>1 DEF Quiet
  <2>2. CASE output' = SetReturnCode(output, "ExecutionFailed")
    BY <1>1, <2>2, QuietReturnCode
  <2> QED BY <1>2, <2>1, <2>2
<1>4. Even(output, output')
  <2>1. CASE output' = output
    BY <2>1 DEF Even
  <2>2. CASE output' = SetReturnCode(output, "ExecutionFailed")
    BY <1>1, <2>2, EvenOps
  <2> QED BY <1>2, <2>1, <2>2
<1> QED BY <1>3, <1>4, QuietKeepsReport DEF Refused

(* outputContext.Transfer: nobody sends value ahead of a creation.         *)
LEMMA TransferReports ==
  ASSUME NoValueAhead, HostInv, HostInv', ReportInv, NEW dest \in Targets, NEW value \in Values,
         NEW withGas, TransferValue(dest, value, withGas)
  PROVE  ReportInv'
<1>1. phase = "running" /\ UNCHANGED <<phase, outputStack, runtimeStack, bigIntStack, calls,
                                       codeUpdates, runtime>>
  BY DEF TransferValue, Executing
<1>2. PICK n \in Nat : n = Len(calls) /\ n >= 1
  BY <1>1, TopFacts
<1>3. /\ output \in OutputType /\ history \in HistoryType /\ Level(output, history, calls, n)
      /\ Formed(calls, n) /\ Deployed(history) \subseteq codeUpdates
      /\ \A i \in 2 .. Len(calls) : calls[i].fn = "create" => calls[i].target \in codeUpdates
      /\ runtime.scAddress \in Addresses /\ runtime.scAddress \in Known(history, calls, n)
  BY <1>1, <1>2, TopFacts
<1>4. dest \in Addresses /\ dest \in Known(history, calls, n)
  BY HostAssumption DEF NoValueAhead, Known
<1>5. Clean(output)
  BY <1>3 DEF Level
<1>6. PICK moved : moved = TransferValueOnly(output, dest, runtime.scAddress, value)
  OBVIOUS
<1>7. /\ moved \in OutputType /\ TotalDelta(moved) = TotalDelta(output)
      /\ Quiet(output, moved, Known(history, calls, n), Kept(history, calls, n))
  BY <1>3, <1>4, <1>5, <1>6, ValueTyped, TotalMoved, QuietTransfer
<1>8. Level(moved, history, calls, n) /\ Grows(output, history, moved, history)
  BY <1>3, <1>7, LevelQuiet
<1>9. PICK o2, h2 :
        /\ o2 = SetAccount(moved, dest, [moved.accounts[dest] EXCEPT !.transfers = Append(@, value)])
        /\ h2 = [history EXCEPT !.transfers[dest] = Append(@, value)]
  OBVIOUS
<1>10. Level(o2, h2, calls, n) /\ Grows(moved, history, o2, h2)
  BY <1>3, <1>4, <1>7, <1>8, <1>9, LevelTransfer
<1>11. o2 \in OutputType /\ Even(moved, o2)
  <2>1. moved.accounts[dest] \in AccountType /\ moved.accounts[dest].transfers \in Seq(Values)
    BY <1>4, <1>7, TransfersTyped
  <2>2. PICK x \in Seq(Values) : x = Append(moved.accounts[dest].transfers, value)
    BY <2>1, AppendProperties
  <2>3. PICK acc : acc = [moved.accounts[dest] EXCEPT !.transfers = x]
    OBVIOUS
  <2>4. acc \in AccountType /\ acc.delta = moved.accounts[dest].delta
    BY <2>1, <2>2, <2>3, AccountFields
  <2>5. o2 = SetAccount(moved, dest, acc)
    BY <1>9, <2>2, <2>3
  <2>6. o2 \in OutputType
    BY <1>4, <1>7, <2>4, <2>5, SetAccountTyped
  <2>7. Even(moved, o2)
    BY <1>4, <1>7, <2>4, <2>5, SetAccountIs DEF Even
  <2> QED BY <2>6, <2>7
<1>12. Grows(output, history, o2, h2)
  BY <1>3, <1>7, <1>8, <1>10, <1>11, GrowsTrans
<1>13. TotalDelta(o2) = TotalDelta(output)
  BY <1>7, <1>11, EvenTotal
<1>14. Deployed(h2) = Deployed(history)
  BY <1>3, <1>9 DEF Deployed, HistoryType
<1>15. \/ output' = o2 /\ history' = h2
       \/ output' = SetReturnCode(output, "ExecutionFailed") /\ history' = history
  BY <1>6, <1>9 DEF TransferValue
<1>16. CASE output' = o2 /\ history' = h2
  <2>1. /\ Level(output', history', calls, Len(calls)) /\ Grows(output, history, output', history')
        /\ TotalDelta(output') = TotalDelta(output) /\ Deployed(history') \subseteq codeUpdates'
        /\ \A i \in 2 .. Len(calls) : calls[i].fn = "create" => calls[i].target \in codeUpdates'
    BY <1>1, <1>2, <1>3, <1>10, <1>12, <1>13, <1>14, <1>16
  <2> QED BY <1>1, <2>1, FlatKeepsReport
<1>17. CASE output' = SetReturnCode(output, "ExecutionFailed") /\ history' = history
  <2>1. Quiet(output, output', Known(history, calls, Len(calls)), Kept(history, calls, Len(calls)))
    BY <1>3, <1>5, <1>17, QuietReturnCode
  <2>2. Even(output, output')
    BY <1>3, <1>17, EvenOps
  <2> QED BY <1>1, <1>17, <2>1, <2>2, QuietKeepsReport
<1> QED BY <1>15, <1>16, <1>17

-----------------------------------------------------------------------------
(* Calls that enter another contract.                                      *)

(* The value moves and the code is fetched.                                *)
LEMMA EnteredLevel ==
  ASSUME NEW out \in OutputType, NEW h, NEW cs, NEW k, Level(out, h, cs, k), Formed(cs, k),
         NEW target \in Addresses, target \in Known(h, cs, k),
         NEW caller \in Addresses, caller \in Known(h, cs, k), NEW value \in Values, NEW fn,
         NEW o2, o2 = LET moved == TransferValueOnly(out, target, caller, value)
                      IN IF fn = "upgrade" THEN moved ELSE CacheCode(moved, target)
  PROVE  /\ o2 \in OutputType /\ Level(o2, h, cs, k) /\ Grows(out, h, o2, h)
         /\ TotalDelta(o2) = TotalDelta(out)
<1>1. PICK moved : moved = TransferValueOnly(out, target, caller, value)
  OBVIOUS
<1>2. Clean(out)
  BY DEF Level
<1>3. /\ moved \in OutputType /\ TotalDelta(moved) = TotalDelta(out)
      /\ Quiet(out, moved, Known(h, cs, k), Kept(h, cs, k))
  BY <1>1, <1>2, ValueTyped, TotalMoved, QuietTransfer
<1>4. Level(moved, h, cs, k) /\ Grows(out, h, moved, h)
  BY <1>3, LevelQuiet
<1>5. PICK cached : cached = CacheCode(moved, target)
  OBVIOUS
<1>6. cached \in OutputType /\ TotalDelta(cached) = TotalDelta(moved)
  BY <1>3, <1>5, CodeTyped, EvenOps, EvenTotal
<1>7. Quiet(moved, cached, Known(h, cs, k), Kept(h, cs, k))
  BY <1>3, <1>4, <1>5, QuietCache
<1>8. Level(cached, h, cs, k) /\ Grows(moved, h, cached, h)
  BY <1>3, <1>4, <1>6, <1>7, LevelQuiet
<1>9. Grows(out, h, cached, h)
  BY <1>3, <1>4, <1>6, <1>8, GrowsTrans
<1>10. o2 = moved \/ o2 = cached
  BY <1>1, <1>5
<1> QED BY <1>3, <1>4, <1>6, <1>8, <1>9, <1>10

(* The fields of a new frame.                                              *)
LEMMA FrameIs ==
  ASSUME NEW kind, NEW fn, NEW strict, NEW caller, NEW target, NEW code,
         NEW f, f = Frame(kind, fn, strict, caller, target, code)
  PROVE  /\ f.kind = kind /\ f.fn = fn /\ f.strict = strict /\ f.caller = caller
         /\ f.target = target /\ f.code = code /\ f.history = history
         /\ f.before = [accounts |-> output.accounts, bigInts |-> bigInts,
                        scAddress |-> runtime.scAddress, storageAddr |-> storageAddr]
  BY DEF Frame

(* What EnterCallee pushes.                                                *)
LEMMA EnterPushes ==
  ASSUME HostInv, NEW out, NEW fn, NEW caller, NEW target, NEW value,
         NEW readOnly \in {"yes", "no"}, EnterCallee(out, fn, caller, target, value, readOnly)
  PROVE  \E rt \in RuntimeType :
           /\ rt.caller = runtime.caller /\ rt.callValue = runtime.callValue
           /\ runtimeStack' = Append(runtimeStack, rt) /\ runtime'.caller = caller
<1>1. runtime \in RuntimeType
  BY DEF HostInv, TypeOK
<1>2. PICK rt : rt = [runtime EXCEPT !.readOnly = readOnly]
  OBVIOUS
<1>3. rt \in RuntimeType /\ rt.caller = runtime.caller /\ rt.callValue = runtime.callValue
  BY <1>1, <1>2 DEF RuntimeType
<1>4. runtimeStack' = Append(runtimeStack, rt) /\ runtime'.caller = caller
  BY <1>2 DEF EnterCallee
<1> QED BY <1>3, <1>4

(* A call creates nothing new.                                             *)
LEMMA KnownCall ==
  ASSUME NEW cs, NEW ds, NEW n \in Nat, \A i \in 1 .. n : cs[i] = ds[i], NEW h,
         ds[n + 1].fn # "create"
  PROVE  Known(h, ds, n + 1) = Known(h, cs, n)
<1>1. Known(h, cs, n) = Known(h, ds, n)
  BY ONLY LevelSame, n \in Nat, \A i \in 1 .. n : cs[i] = ds[i]
<1>2. Making(ds, n + 1) = Making(ds, n) /\ Known(h, ds, n + 1) = Known(h, ds, n)
  BY OneMore
<1> QED BY <1>1, <1>2

(* One more call, at the level of its caller.                              *)
LEMMA LevelCall ==
  ASSUME NEW cs, NEW ds, NEW n \in Nat, \A i \in 1 .. n : cs[i] = ds[i],
         NEW o, NEW h, Level(o, h, cs, n), ds[n + 1].fn # "create",
         ds[n + 1].target \in Contracts \cup Making(cs, n) \cup Deployed(h)
  PROVE  Level(o, h, ds, n + 1)
<1>1. Making(cs, n) = Making(ds, n)
  BY LevelSame
<1>2. \A x : Level(x, h, cs, n) => Level(x, h, ds, n)
  BY ONLY LevelSame, n \in Nat, \A i \in 1 .. n : cs[i] = ds[i]
<1> QED BY <1>1, <1>2, LevelEnter

(* The nest of calls with one more call, that of a contract that exists.   *)
LEMMA OneMoreCall ==
  ASSUME NEW cs \in Seq(FrameType), Shape(cs), NEW ds \in Seq(FrameType), NEW n \in Nat, n >= 1,
         n = Len(cs), Len(ds) = n + 1, \A i \in 1 .. n : ds[i] = cs[i], cs[n].fn # "create",
         NEW f, f = ds[n + 1], f.fn # "create", f.fn # "call" => f.code # NoCode,
         f.fn = "upgrade" => f.target \in Contracts,
         NEW o, NEW h, Level(o, h, cs, n),
         f.target \in Contracts \cup Making(cs, n) \cup Deployed(h)
  PROVE  /\ Shape(ds) /\ Formed(ds, n + 1) /\ Level(o, h, ds, n + 1)
         /\ Known(h, ds, n + 1) = Known(h, cs, n) /\ f.target \in Known(h, ds, n + 1)
<1>1. Shape(ds)
  BY ShapePush
<1>2. n + 1 \in 1 .. Len(ds)
  OBVIOUS
<1>3. Formed(ds, n + 1)
  BY <1>1, <1>2, ShapeIsFormed
<1>4. \A i \in 1 .. n : cs[i] = ds[i]
  OBVIOUS
<1>5. ds[n + 1].fn # "create" /\ ds[n + 1].target \in Contracts \cup Making(cs, n) \cup Deployed(h)
  OBVIOUS
<1>7. Level(o, h, ds, n + 1) /\ Known(h, ds, n + 1) = Known(h, cs, n)
  <2>1. Level(o, h, ds, n + 1)
    BY ONLY <1>4, <1>5, LevelCall, n \in Nat, Level(o, h, cs, n)
  <2>2. Known(h, ds, n + 1) = Known(h, cs, n)
    BY ONLY <1>4, <1>5, KnownCall, n \in Nat
  <2> QED BY <2>1, <2>2
<1>9. f.target \in Known(h, cs, n)
  BY FutureFacts DEF Known
<1> QED BY <1>1, <1>3, <1>7, <1>9

(* A call of a contract that exists, or its upgrade.                       *)
LEMMA EnterReports ==
  ASSUME ConstructorsCallNobody, HostInv, HostInv', phase = "running", ReportInv,
         NEW target \in Addresses, MayCall(target), NEW code \in NewCodes \cup {NoCode},
         NEW fn, fn = FunctionOf(code), NEW caller \in Addresses,
         caller \in Known(history, calls, Len(calls)), NEW value \in Values,
         Enters(output, fn, caller, target, value), NEW readOnly \in {"yes", "no"},
         EnterCallee(output, fn, caller, target, value, readOnly),
         NEW kind \in Kinds, NEW strict \in {"yes", "no"},
         NEW f, f = Frame(kind, fn, strict, caller, target, code), calls' = Append(calls, f),
         UNCHANGED <<phase, history, codeUpdates>>
  PROVE  ReportInv'
<1>1. PICK n \in Nat : n = Len(calls) /\ n >= 1 /\ n \in 1 .. n
  BY TopFacts
<1>2. /\ calls \in Seq(FrameType) /\ Shape(calls) /\ output \in OutputType
      /\ Level(output, history, calls, n) /\ TotalDelta(output) = TxValue
      /\ runtime \in RuntimeType /\ output \in GoodOutput
  BY <1>1, TopFacts DEF HostInv, TypeOK, GoodInv
<1>3. /\ f.kind = kind /\ f.fn = fn /\ f.caller = caller /\ f.target = target /\ f.code = code
      /\ f.history = history
      /\ f.before = [accounts |-> output.accounts, bigInts |-> bigInts,
                     scAddress |-> runtime.scAddress, storageAddr |-> storageAddr]
  BY FrameIs
<1>4. f \in FrameType
  BY FrameTyped, FunctionTyped DEF HostInv
<1>5. /\ fn # "create" /\ (fn # "call" => fn = "upgrade" /\ code # NoCode)
      /\ (fn = "upgrade" => target \in Contracts)
  BY HostAssumption DEF FunctionOf, Enters
<1>6. calls[n].fn # "create"
  BY <1>1 DEF MayCall, ConstructorsCallNobody, Last
<1>7. /\ Len(calls') = n + 1 /\ calls'[n + 1] = f /\ calls' \in Seq(FrameType)
      /\ \A i \in 1 .. n : calls'[i] = calls[i]
  BY <1>1, <1>2, <1>4, AppendProperties
<1>11. target \in Contracts \cup Making(calls, n) \cup Deployed(history)
  <2>1. CASE fn = "upgrade"
    BY <1>5, <2>1
  <2>2. CASE fn # "upgrade"
    <3>1. GetCode(output, target) # NoCode
      BY <2>2 DEF Enters
    <3>2. CASE target \in Contracts
      BY <3>2
    <3>3. CASE target \notin Contracts
      <4>1. output.accounts[target].code # NoCode
        BY <3>1, <3>3 DEF GetCode
      <4>2. target \in Future
        BY <1>2, <3>3, <4>1 DEF Level, UsersHaveNoCode
      <4>3. target \in output.listed
        BY <1>2, <4>1 DEF Level, Clean, NewVMOutputAccount
      <4>4. target \in Known(history, calls, n)
        BY <1>2, <4>3 DEF Level
      <4> QED BY <4>2, <4>4 DEF Known
    <3> QED BY <3>2, <3>3
  <2> QED BY <2>1, <2>2
<1>12. PICK ds : ds = calls'
  OBVIOUS
<1>13. /\ Shape(ds) /\ Formed(ds, n + 1) /\ Level(output, history, ds, n + 1)
       /\ Known(history, ds, n + 1) = Known(history, calls, n)
       /\ target \in Known(history, ds, n + 1)
  <2>1. /\ ds \in Seq(FrameType) /\ n = Len(calls) /\ Len(ds) = n + 1
        /\ \A i \in 1 .. n : ds[i] = calls[i]
    BY <1>1, <1>7, <1>12
  <2>2. /\ f = ds[n + 1] /\ f.fn # "create" /\ (f.fn # "call" => f.code # NoCode)
        /\ (f.fn = "upgrade" => f.target \in Contracts)
    BY <1>3, <1>5, <1>7, <1>12
  <2>3. f.target \in Contracts \cup Making(calls, n) \cup Deployed(history)
    BY <1>3, <1>11
  <2>4. /\ Shape(ds) /\ Formed(ds, n + 1) /\ Level(output, history, ds, n + 1)
        /\ Known(history, ds, n + 1) = Known(history, calls, n)
        /\ f.target \in Known(history, ds, n + 1)
    <3>1. n \in Nat /\ n >= 1 /\ calls \in Seq(FrameType) /\ Shape(calls)
          /\ Level(output, history, calls, n) /\ calls[n].fn # "create"
      BY <1>1, <1>2, <1>6
    <3> QED BY ONLY <2>1, <2>2, <2>3, <3>1, OneMoreCall
  <2> QED BY <1>3, <2>4
<1>14. caller \in Known(history, ds, n + 1)
  BY <1>1, <1>13
<1>15. /\ Level(output', history, ds, n + 1) /\ Grows(output, history, output', history)
       /\ TotalDelta(output') = TotalDelta(output)
  <2>1. PICK o2 : o2 = output'
    OBVIOUS
  <2>2. o2 = LET moved == TransferValueOnly(output, target, caller, value)
             IN IF fn = "upgrade" THEN moved ELSE CacheCode(moved, target)
    BY <2>1 DEF EnterCallee
  <2>3. Level(o2, history, ds, n + 1) /\ Grows(output, history, o2, history)
        /\ TotalDelta(o2) = TotalDelta(output)
    <3>1. PICK k : k = n + 1
      OBVIOUS
    <3>2. /\ output \in OutputType /\ Level(output, history, ds, k) /\ Formed(ds, k)
          /\ target \in Known(history, ds, k) /\ caller \in Known(history, ds, k)
      BY <1>2, <1>13, <1>14, <3>1
    <3>3. target \in Addresses /\ caller \in Addresses /\ value \in Values
      OBVIOUS
    <3>4. Level(o2, history, ds, k) /\ Grows(output, history, o2, history)
          /\ TotalDelta(o2) = TotalDelta(output)
      BY ONLY <2>2, <3>2, <3>3, EnteredLevel
    <3> QED BY <3>1, <3>4
  <2> QED BY <2>1, <2>3
<1>16. Copy(output) = output
  BY <1>2, CopyIs DEF Level
<1>17. outputStack' = Append(outputStack, output) /\ bigIntStack' = Append(bigIntStack, bigInts)
  BY <1>16 DEF EnterCallee
<1>18. Undo(output, f) = output
  BY <1>3, <1>5 DEF Undo
<1>19. PICK rt \in RuntimeType :
         /\ rt.caller = runtime.caller /\ rt.callValue = runtime.callValue
         /\ runtimeStack' = Append(runtimeStack, rt) /\ runtime'.caller = caller
  BY EnterPushes
<1>20. /\ Level(output', history, calls', Len(calls) + 1) /\ Shape(calls')
       /\ runtime'.caller \in Known(history, calls', Len(calls) + 1)
       /\ TotalDelta(output') = TxValue /\ f.fn # "create"
  BY <1>1, <1>2, <1>3, <1>5, <1>12, <1>13, <1>14, <1>15, <1>19
<1> QED BY <1>2, <1>3, <1>4, <1>15, <1>17, <1>18, <1>19, <1>20, PushKeepsReport

(* The caller of a call is the contract that makes it, or its own caller.  *)
LEMMA ExecuteOnDestContextReports ==
  ASSUME ConstructorsCallNobody, HostInv, HostInv', ReportInv,
         NEW strict \in {"yes", "no"}, NEW caller \in Addresses, NEW target \in Addresses,
         NEW value \in Values, NEW code \in NewCodes \cup {NoCode},
         ExecuteOnDestContext(strict, caller, target, value, code)
  PROVE  ReportInv'
<1>1. phase = "running" /\ UNCHANGED <<phase, history>> /\ MayCall(target)
  BY DEF ExecuteOnDestContext, Executing
<1>2. caller \in Known(history, calls, Len(calls))
  <2>1. caller = runtime.scAddress \/ caller = runtime.caller
    BY DEF ExecuteOnDestContext
  <2> QED BY <1>1, <2>1, TopFacts
<1>3. PICK fn : fn = FunctionOf(code)
  OBVIOUS
<1>4. CASE Enters(output, fn, caller, target, value)
  <2>1. PICK f : f = Frame("dest", fn, strict, caller, target, code)
    OBVIOUS
  <2>2. /\ calls' = Append(calls, f) /\ UNCHANGED codeUpdates
        /\ EnterCallee(output, fn, caller, target, value, runtime.readOnly)
    BY <1>3, <1>4, <2>1 DEF ExecuteOnDestContext, EnterOnDestContext
  <2>3. runtime.readOnly \in {"yes", "no"} /\ "dest" \in Kinds
    BY DEF HostInv, TypeOK, RuntimeType, Kinds
  <2> QED BY <1>1, <1>2, <1>3, <1>4, <2>1, <2>2, <2>3, EnterReports
<1>5. CASE ~ Enters(output, fn, caller, target, value)
  <2>1. Refused(strict) /\ UNCHANGED runtime
    BY <1>3, <1>5 DEF ExecuteOnDestContext
  <2> QED BY <1>1, <2>1, RefusedReports
<1> QED BY <1>4, <1>5

(* The caller's own context, with the flag of executeReadOnly.             *)
LEMMA ExecuteOnSameContextReports ==
  ASSUME ConstructorsCallNobody, HostInv, HostInv', ReportInv,
         NEW kind \in {"same", "readOnly"}, NEW target \in Addresses,
         NEW value \in Values, NEW code \in NewCodes \cup {NoCode},
         ExecuteOnSameContext(kind, target, value, code)
  PROVE  ReportInv'
<1>1. phase = "running" /\ UNCHANGED <<phase, history>> /\ MayCall(target)
  BY DEF ExecuteOnSameContext, Executing
<1>2. PICK caller : caller = runtime.scAddress
  OBVIOUS
<1>3. caller \in Addresses /\ caller \in Known(history, calls, Len(calls))
  BY <1>1, <1>2, TopFacts
<1>4. PICK fn : fn = FunctionOf(code)
  OBVIOUS
<1>5. CASE Enters(output, fn, caller, target, value)
  <2>1. PICK f : f = Frame(kind, fn, "yes", caller, target, code)
    OBVIOUS
  <2>2. PICK readOnly : readOnly = IF kind = "readOnly" THEN "yes" ELSE runtime.readOnly
    OBVIOUS
  <2>3. /\ calls' = Append(calls, f) /\ UNCHANGED codeUpdates
        /\ EnterCallee(output, fn, caller, target, value, readOnly)
    BY <1>2, <1>4, <1>5, <2>1, <2>2 DEF ExecuteOnSameContext
  <2>4. readOnly \in {"yes", "no"} /\ kind \in Kinds
    BY <2>2 DEF HostInv, TypeOK, RuntimeType, Kinds
  <2> QED BY <1>1, <1>3, <1>4, <1>5, <2>1, <2>3, <2>4, EnterReports
<1>6. CASE ~ Enters(output, fn, caller, target, value)
  <2>1. Refused("yes") /\ runtime' = AfterCall(kind, runtime)
    BY <1>2, <1>4, <1>6 DEF ExecuteOnSameContext
  <2>2. runtime \in RuntimeType
    BY DEF HostInv, TypeOK
  <2>3. runtime'.caller = runtime.caller /\ runtime'.callValue = runtime.callValue
    BY <2>1, <2>2 DEF AfterCall, RuntimeType
  <2> QED BY <1>1, <2>1, <2>3, RefusedReports
<1> QED BY <1>5, <1>6

(* A nest of calls ds with a creation on top of the n calls of cs.         *)
Creates(cs, ds, n, o, h, new, code) ==
  /\ n \in Nat /\ n >= 1 /\ o \in OutputType /\ Level(o, h, cs, n)
  /\ new \in Addresses /\ new \notin Known(h, cs, n)
  /\ code \in Codes /\ code # NoCode /\ Formed(ds, n + 1)
  /\ ds[n + 1].fn = "create" /\ ds[n + 1].target = new /\ ds[n + 1].code = code
  /\ \A i \in 1 .. n : cs[i] = ds[i]
  /\ \A j \in 1 .. n : ds[j].target # new
  /\ \A c \in Addresses, k \in Nat :
       <<c, k>> \in DOMAIN NewAddr /\ NewAddr[<<c, k>>] = new => k <= CreationNonce(o, c)

(* The level above the one that a creation leaves.                         *)
LEMMA LevelCreation ==
  ASSUME NEW cs, NEW ds, NEW n, NEW o, NEW h, NEW new, NEW code,
         Creates(cs, ds, n, o, h, new, code)
  PROVE  /\ Level(DeployCode(o, new, code), h, ds, n + 1)
         /\ Undo(DeployCode(o, new, code), ds[n + 1]) = o
         /\ Grows(o, h, DeployCode(o, new, code), h)
         /\ Known(h, ds, n + 1) = Known(h, cs, n) \cup {new}
<1> USE DEF Creates
<1>1. \A x : Level(x, h, cs, n) => Level(x, h, ds, n)
  <2>1. n \in Nat /\ \A i \in 1 .. n : cs[i] = ds[i]
    OBVIOUS
  <2> QED BY ONLY LevelSame, <2>1
<1>2. Known(h, cs, n) = Known(h, ds, n)
  <2>1. n \in Nat /\ \A i \in 1 .. n : cs[i] = ds[i]
    OBVIOUS
  <2> QED BY ONLY LevelSame, <2>1
<1>3. /\ Making(ds, n + 1) = Making(ds, n) \cup {ds[n + 1].target}
      /\ Known(h, ds, n + 1) = Known(h, ds, n) \cup {ds[n + 1].target}
  <2>1. n \in Nat /\ ds[n + 1].fn = "create"
    OBVIOUS
  <2> QED BY ONLY OneMore, <2>1
<1>4. Formed(ds, n)
  BY DEF Formed
<1>5. /\ Level(DeployCode(o, new, code), h, ds, n + 1)
      /\ Undo(DeployCode(o, new, code), ds[n + 1]) = o
      /\ Grows(o, h, DeployCode(o, new, code), h)
  BY <1>1, <1>2, <1>4, LevelCreate
<1> QED BY <1>2, <1>3, <1>5

(* The frame f of a creation by the innermost contract c of cs, at the     *)
(* address that its nonce k gives, on top of cs.                           *)
CreatesAt(cs, ds, n, o, h, c, k, f) ==
  /\ cs \in Seq(FrameType) /\ Shape(cs) /\ ds \in Seq(FrameType) /\ n \in Nat /\ n >= 1
  /\ n = Len(cs) /\ Len(ds) = n + 1 /\ o \in OutputType /\ Level(o, h, cs, n)
  /\ c = cs[n].target /\ k \in Nat /\ k = CreationNonce(o, c) /\ <<c, k>> \in DOMAIN NewAddr
  /\ f = ds[n + 1] /\ f.fn = "create" /\ f.kind = "dest" /\ f.caller = c
  /\ f.target = NewAddr[<<c, k>>] /\ f.code \in Codes
  /\ \A i \in 1 .. n : ds[i] = cs[i]

(* The nest of calls with one more call, the creation of a contract.       *)
LEMMA OneMoreCreation ==
  ASSUME NEW cs, NEW ds, NEW n, NEW o, NEW h, NEW c, NEW k, NEW f,
         CreatesAt(cs, ds, n, o, h, c, k, f)
  PROVE  /\ Shape(ds) /\ Formed(ds, n + 1) /\ Level(DeployCode(o, f.target, f.code), h, ds, n + 1)
         /\ Undo(DeployCode(o, f.target, f.code), f) = o
         /\ Grows(o, h, DeployCode(o, f.target, f.code), h)
         /\ Known(h, ds, n + 1) = Known(h, cs, n) \cup {f.target} /\ f.target \in Addresses
         /\ f.target \notin Known(h, cs, n) /\ \A j \in 1 .. n : cs[j].target # f.target
<1>0. PICK new : new = NewAddr[<<c, k>>]
  OBVIOUS
<1> USE <1>0 DEF CreatesAt
<1>1. /\ new \in Future /\ new \notin Known(h, cs, n) /\ new \in Addresses
      /\ \A j \in 1 .. n : cs[j].target # new
  <2>1. /\ cs \in Seq(FrameType) /\ Shape(cs) /\ n \in Nat /\ n = Len(cs) /\ n >= 1
        /\ o \in OutputType /\ Level(o, h, cs, n) /\ c = cs[n].target
        /\ k \in Nat /\ k = CreationNonce(o, c) /\ <<c, k>> \in DOMAIN NewAddr
    OBVIOUS
  <2>2. /\ NewAddr[<<c, k>>] \in Future /\ NewAddr[<<c, k>>] \notin Known(h, cs, n)
        /\ NewAddr[<<c, k>>] \in Addresses
        /\ \A j \in 1 .. n : cs[j].target # NewAddr[<<c, k>>]
    BY ONLY <2>1, NewIsUnknown
  <2> QED BY <2>2
<1>2. f.code # NoCode
  BY HostAssumption
<1>3. Shape(ds)
  <2>1. \E l \in Nat : <<f.caller, l>> \in DOMAIN NewAddr /\ NewAddr[<<f.caller, l>>] = f.target
    OBVIOUS
  <2>2. \A i \in 1 .. n : cs[i].target # f.target
    BY <1>1
  <2>3. /\ n \in Nat /\ n >= 1 /\ n = Len(cs) /\ Len(ds) = n + 1 /\ f = ds[n + 1]
        /\ \A i \in 1 .. n : ds[i] = cs[i]
    OBVIOUS
  <2>4. /\ f.caller = cs[n].target /\ f.fn = "create" /\ f.kind = "dest" /\ Shape(cs)
        /\ (f.fn = "upgrade" => f.target \in Contracts) /\ (f.fn # "call" => f.code # NoCode)
        /\ (cs[n].fn = "create" => f.fn = "create")
    BY <1>2
  <2>5. f.fn = "create" =>
          /\ \A i \in 1 .. n : cs[i].target # f.target
          /\ \E l \in Nat : <<f.caller, l>> \in DOMAIN NewAddr /\ NewAddr[<<f.caller, l>>] = f.target
          /\ f.kind = "dest" /\ f.caller = cs[n].target
    BY <2>1, <2>2, <2>4
  <2> QED BY ONLY <2>3, <2>4, <2>5, ShapePush
<1>4. n + 1 \in 1 .. Len(ds) /\ n \in 1 .. Len(cs)
  OBVIOUS
<1>5. Formed(ds, n + 1)
  BY <1>3, <1>4, ShapeIsFormed
<1>6. \A i \in 1 .. n : cs[i] = ds[i]
  OBVIOUS
<1>7. ds[n + 1].fn = "create" /\ ds[n + 1].target = new /\ ds[n + 1].code = f.code
  OBVIOUS
<1>10. ASSUME NEW d \in Addresses, NEW l \in Nat, <<d, l>> \in DOMAIN NewAddr,
              NewAddr[<<d, l>>] = new
       PROVE  l <= CreationNonce(o, d)
  <2>1. <<d, l>> = <<c, k>>
    BY <1>10, HostAssumption
  <2>2. d = c /\ l = k
    BY <2>1
  <2> QED BY <2>2
<1>11. \A j \in 1 .. n : ds[j].target # new
  BY <1>1
<1>12. Creates(cs, ds, n, o, h, new, f.code)
  BY <1>1, <1>2, <1>5, <1>6, <1>7, <1>10, <1>11 DEF Creates
<1>13. /\ Level(DeployCode(o, new, f.code), h, ds, n + 1)
       /\ Undo(DeployCode(o, new, f.code), ds[n + 1]) = o
       /\ Grows(o, h, DeployCode(o, new, f.code), h)
       /\ Known(h, ds, n + 1) = Known(h, cs, n) \cup {new}
  BY ONLY <1>12, LevelCreation
<1> QED BY <1>1, <1>3, <1>5, <1>13

(* A creation is refused in read-only mode, fails without a trace, or runs *)
(* init at an address that nobody knows yet.                               *)
LEMMA CreateNewContractReports ==
  ASSUME HostInv, HostInv', ReportInv, NEW value \in Values, NEW code \in NewCodes,
         CreateNewContract(value, code)
  PROVE  ReportInv'
<1>1. phase = "running" /\ UNCHANGED <<phase, history>>
  BY DEF CreateNewContract, Executing
<1>2. PICK n \in Nat : n = Len(calls) /\ n >= 1 /\ n \in 1 .. n
  BY <1>1, TopFacts
<1>3. /\ calls \in Seq(FrameType) /\ Shape(calls) /\ output \in OutputType
      /\ Level(output, history, calls, n) /\ TotalDelta(output) = TxValue
      /\ runtime \in RuntimeType /\ output \in GoodOutput
      /\ Deployed(history) \subseteq codeUpdates
      /\ \A i \in 2 .. n : calls[i].fn = "create" => calls[i].target \in codeUpdates
  BY <1>1, <1>2, TopFacts DEF HostInv, TypeOK, GoodInv
<1>4. PICK c \in Addresses : c = runtime.scAddress /\ c = calls[n].target /\ c \in Known(history, calls, n)
  BY <1>1, <1>2, TopFacts
<1>5. PICK k \in Nat : k = CreationNonce(output, c)
  <2>1. NoncesGrow(output)
    BY <1>3 DEF Level
  <2>2. output.accounts[c].nonce <= output.accounts[c].nonce
    BY <1>3, TransfersTyped
  <2> QED BY <1>3, <2>1, <2>2, NonceMonotone
<1>6. <<c, k>> \in DOMAIN NewAddr
  BY <1>4, <1>5 DEF CreateNewContract
<1>7. PICK new : new = NewAddr[<<c, k>>]
  OBVIOUS
<1>8. code \in Codes /\ new \in Addresses
  BY <1>6, <1>7, HostAssumption
<1>9. PICK f : f = Frame("dest", "create", "no", c, new, code)
  OBVIOUS
<1>10. /\ f.kind = "dest" /\ f.fn = "create" /\ f.caller = c /\ f.target = new /\ f.code = code
       /\ f.history = history
       /\ f.before = [accounts |-> output.accounts, bigInts |-> bigInts,
                      scAddress |-> runtime.scAddress, storageAddr |-> storageAddr]
  BY <1>9, FrameIs
<1>11. f \in FrameType
  <2>1. "create" \in EntryPoints /\ "dest" \in Kinds /\ code \in Codes \cup {NoCode}
    BY <1>8 DEF EntryPoints, Kinds
  <2> QED BY <1>8, <1>9, <2>1, FrameTyped DEF HostInv
<1>12. PICK ds : ds = Append(calls, f)
  OBVIOUS
<1>13. /\ Len(ds) = n + 1 /\ ds[n + 1] = f /\ ds \in Seq(FrameType)
       /\ \A i \in 1 .. n : ds[i] = calls[i]
  BY <1>2, <1>3, <1>11, <1>12, AppendProperties
<1>14. PICK out : out = DeployCode(output, new, code)
  OBVIOUS
<1>15. /\ Shape(ds) /\ Formed(ds, n + 1) /\ Level(out, history, ds, n + 1)
       /\ Undo(out, f) = output /\ Grows(output, history, out, history)
       /\ Known(history, ds, n + 1) = Known(history, calls, n) \cup {new}
       /\ new \notin Known(history, calls, n) /\ \A j \in 1 .. n : calls[j].target # new
  <2>1. CreatesAt(calls, ds, n, output, history, c, k, f)
    BY <1>2, <1>3, <1>4, <1>5, <1>6, <1>7, <1>8, <1>10, <1>13 DEF CreatesAt
  <2> QED BY <1>10, <1>14, <2>1, OneMoreCreation
<1>16. CASE runtime.readOnly = "yes" /\ Refused("no") /\ UNCHANGED runtime
  BY <1>1, <1>16, RefusedReports
<1>17. CASE /\ codeUpdates' = codeUpdates \cup {new}
            /\ EnterOnDestContext(out, "create", c, new, value)
            /\ calls' = Append(calls, f)
  <2>1. out \in GoodOutput /\ out \in OutputType /\ TotalDelta(out) = TxValue
    <3>1. out \in GoodOutput /\ out \in OutputType
      BY <1>3, <1>8, <1>14, GoodCode, CodeTyped
    <3>2. Even(output, out)
      BY <1>3, <1>8, <1>14, EvenOps
    <3> QED BY <1>3, <3>1, <3>2, EvenTotal
  <2>2. runtime.readOnly \in {"yes", "no"} /\ EnterCallee(out, "create", c, new, value, runtime.readOnly)
    BY <1>3, <1>17 DEF EnterOnDestContext, RuntimeType
  <2>3. PICK o2 : o2 = output'
    OBVIOUS
  <2>4. /\ o2 \in OutputType /\ Level(o2, history, ds, n + 1) /\ Grows(out, history, o2, history)
        /\ TotalDelta(o2) = TotalDelta(out)
    <3>0. PICK fn : fn = "create"
      OBVIOUS
    <3>1. o2 = LET moved == TransferValueOnly(out, new, c, value)
               IN IF fn = "upgrade" THEN moved ELSE CacheCode(moved, new)
      BY <2>2, <2>3, <3>0 DEF EnterCallee
    <3>2. PICK l : l = n + 1
      OBVIOUS
    <3>3. /\ out \in OutputType /\ Level(out, history, ds, l) /\ Formed(ds, l)
          /\ new \in Known(history, ds, l) /\ c \in Known(history, ds, l)
      BY <1>4, <1>15, <2>1, <3>2
    <3>4. new \in Addresses /\ c \in Addresses /\ value \in Values
      BY <1>8
    <3>5. /\ o2 \in OutputType /\ Level(o2, history, ds, l) /\ Grows(out, history, o2, history)
          /\ TotalDelta(o2) = TotalDelta(out)
      BY ONLY <3>1, <3>3, <3>4, EnteredLevel
    <3> QED BY <3>2, <3>5
  <2>5. Grows(output, history, o2, history)
    BY <1>3, <1>15, <2>1, <2>4, GrowsTrans
  <2>6. Copy(out) = out
    BY <1>15, <2>1, CopyIs DEF Level
  <2>7. outputStack' = Append(outputStack, out) /\ bigIntStack' = Append(bigIntStack, bigInts)
    BY <2>2, <2>6 DEF EnterCallee
  <2>8. PICK rt \in RuntimeType :
          /\ rt.caller = runtime.caller /\ rt.callValue = runtime.callValue
          /\ runtimeStack' = Append(runtimeStack, rt) /\ runtime'.caller = c
    BY <2>2, EnterPushes
  <2>9. /\ Level(output', history, calls', Len(calls) + 1) /\ Shape(calls')
        /\ runtime'.caller \in Known(history, calls', Len(calls) + 1)
        /\ TotalDelta(output') = TxValue /\ Grows(output, history, output', history)
    BY <1>2, <1>4, <1>12, <1>15, <1>17, <2>1, <2>3, <2>4, <2>5, <2>8
  <2>10. /\ out = DeployCode(output, f.target, f.code)
         /\ codeUpdates \subseteq codeUpdates' /\ f.target \in codeUpdates'
    BY <1>10, <1>14, <1>17
  <2> QED BY <1>1, <1>10, <1>11, <1>15, <1>17, <2>1, <2>7, <2>8, <2>9, <2>10, PushKeepsReport
<1>18. CASE /\ output' = DeleteOutputAccount(out, new) /\ codeUpdates' = codeUpdates \ {new}
            /\ UNCHANGED <<outputStack, runtime, runtimeStack, bigIntStack, calls>>
  <2>1. output' = output
    BY <1>10, <1>15, <1>18 DEF Undo
  <2>2. Deployed(history) \subseteq codeUpdates'
    BY <1>3, <1>15, <1>18 DEF Known
  <2>3. \A i \in 2 .. Len(calls) : calls[i].fn = "create" => calls[i].target \in codeUpdates'
    BY <1>2, <1>3, <1>15, <1>18
  <2>4. Grows(output, history, output, history)
    BY <1>3, GrowsSelf
  <2> QED BY <1>1, <1>2, <1>3, <1>18, <2>1, <2>2, <2>3, <2>4, FlatKeepsReport
<1>19. \/ runtime.readOnly = "yes" /\ Refused("no") /\ UNCHANGED runtime
       \/ /\ codeUpdates' = codeUpdates \cup {new}
          /\ EnterOnDestContext(out, "create", c, new, value)
          /\ calls' = Append(calls, f)
       \/ /\ output' = DeleteOutputAccount(out, new) /\ codeUpdates' = codeUpdates \ {new}
          /\ UNCHANGED <<outputStack, runtime, runtimeStack, bigIntStack, calls>>
  BY <1>4, <1>5, <1>7, <1>9, <1>14 DEF CreateNewContract
<1> QED BY <1>16, <1>17, <1>18, <1>19

(* The state that the caller of the innermost call gets back if it fails.  *)
LEMMA BelowFacts ==
  ASSUME HostInv, phase = "running", ReportInv, NEW kinds, InCall(kinds)
  PROVE  \E m \in Nat :
           /\ m >= 1 /\ Len(calls) = m + 1 /\ Last(calls) = calls[m + 1]
           /\ Last(calls) \in FrameType /\ Last(outputStack) = outputStack[m]
           /\ Last(outputStack) \in OutputType /\ Last(bigIntStack) = bigIntStack[m]
           /\ AllOuts[m] = Undo(Last(outputStack), Last(calls))
           /\ AllHists[m] = Last(calls).history
           /\ AllOuts[m] \in OutputType /\ AllHists[m] \in HistoryType
           /\ Level(AllOuts[m], AllHists[m], calls, m) /\ TotalDelta(AllOuts[m]) = TxValue
           /\ Deployed(AllHists[m]) \subseteq codeUpdates /\ Formed(calls, m)
           /\ Grows(AllOuts[m], AllHists[m], output, history)
           /\ Last(calls).fn = "create" =>
                Last(outputStack) = DeployCode(AllOuts[m], Last(calls).target, Last(calls).code)
<1>1. PICK n \in Nat : n = Len(calls) /\ n > 1
  BY TopFacts DEF InCall
<1>2. PICK m \in Nat : m >= 1 /\ n = m + 1 /\ n - 1 = m /\ m \in 1 .. n /\ n \in 1 .. n /\ m # n
                       /\ m \in 1 .. n - 1
  <2>1. n - 1 \in Nat /\ n - 1 >= 1 /\ n = (n - 1) + 1
    BY <1>1
  <2> QED BY <2>1
<1>3. /\ calls \in Seq(FrameType) /\ Len(outputStack) = m /\ Len(bigIntStack) = m /\ Shape(calls)
  BY <1>1, <1>2, TopFacts
<1>4. /\ Last(calls) = calls[n] /\ Last(outputStack) = outputStack[m]
      /\ Last(bigIntStack) = bigIntStack[m]
  BY <1>1, <1>2, <1>3 DEF Last
<1>5. Last(calls) \in FrameType /\ Last(outputStack) \in OutputType
  BY InCallFacts DEF GoodOutput
<1>6. /\ AllOuts[m] = Undo(Last(outputStack), Last(calls)) /\ AllHists[m] = Last(calls).history
      /\ AllOuts[n] = output /\ AllHists[n] = history
  BY <1>1, <1>2, <1>4 DEF AllOuts, AllHists, Outs, Hists
<1>7. /\ Ladder(calls, AllOuts, AllHists, AllCallers, codeUpdates, TxValue)
      /\ Pushed(calls, AllOuts, outputStack)
  BY DEF ReportInv
<1>8. /\ Rung(AllOuts[m], AllHists[m], AllCallers[m], calls, m, TxValue)
      /\ Deployed(AllHists[m]) \subseteq codeUpdates
  BY <1>1, <1>2, <1>7 DEF Ladder
<1>9. Grows(AllOuts[m], AllHists[m], output, history)
  <2>1. m <= n
    BY <1>2
  <2> QED BY <1>1, <1>2, <1>6, <1>7, <2>1 DEF Ladder
<1>10. Formed(calls, m)
  BY <1>1, <1>2, <1>3, ShapeIsFormed
<1>11. Last(calls).fn = "create" =>
         Last(outputStack) = DeployCode(AllOuts[m], Last(calls).target, Last(calls).code)
  BY <1>1, <1>2, <1>4, <1>7 DEF Pushed
<1>12. /\ AllOuts[m] \in OutputType /\ AllHists[m] \in HistoryType
       /\ Level(AllOuts[m], AllHists[m], calls, m) /\ TotalDelta(AllOuts[m]) = TxValue
  BY <1>8 DEF Rung
<1> QED BY <1>1, <1>2, <1>4, <1>5, <1>6, <1>8, <1>9, <1>10, <1>11, <1>12

(* A call fails: its caller's level is back.                               *)
LEMMA FailCallReports ==
  ASSUME HostInv, HostInv', ReportInv, FailCall
  PROVE  ReportInv'
<1> DEFINE kinds == {"dest", "same", "readOnly"}
<1>1. phase = "running" /\ UNCHANGED phase /\ InCall(kinds)
  BY DEF FailCall, InCall
<1>2. PICK m \in Nat :
         /\ m >= 1 /\ Len(calls) = m + 1 /\ Last(calls) = calls[m + 1]
         /\ AllOuts[m] = Undo(Last(outputStack), Last(calls))
         /\ AllHists[m] = Last(calls).history
         /\ AllOuts[m] \in OutputType /\ AllHists[m] \in HistoryType
         /\ Level(AllOuts[m], AllHists[m], calls, m) /\ TotalDelta(AllOuts[m]) = TxValue
         /\ Deployed(AllHists[m]) \subseteq codeUpdates /\ Formed(calls, m)
         /\ Grows(AllOuts[m], AllHists[m], output, history)
  BY <1>1, BelowFacts
<1>3. PICK f, o, h : f = Last(calls) /\ o = AllOuts[m] /\ h = AllHists[m]
  OBVIOUS
<1>4. /\ f = calls[m + 1] /\ o \in OutputType /\ h \in HistoryType /\ Level(o, h, calls, m)
      /\ Formed(calls, m) /\ TotalDelta(o) = TxValue
  BY <1>2, <1>3
<1>5. output' = o \/ output' = SetReturnCode(o, "ExecutionFailed")
  BY <1>2, <1>3 DEF FailCall, OutputAfterFailure, Undo
<1>6. history' = h
  BY <1>2, <1>3 DEF FailCall
<1>7. Level(output', h, calls, m) /\ Grows(o, h, output', h) /\ TotalDelta(output') = TxValue
  <2>1. PICK o2 : o2 = SetReturnCode(o, "ExecutionFailed")
    OBVIOUS
  <2>2. o2 \in OutputType
    BY <1>4, <2>1 DEF SetReturnCode, OutputType, ReturnCodes
  <2>3. Quiet(o, o2, Known(h, calls, m), Kept(h, calls, m))
    BY <1>4, <2>1, QuietReturnCode DEF Level
  <2>4. Level(o2, h, calls, m) /\ Grows(o, h, o2, h)
    BY ONLY <1>4, <2>2, <2>3, LevelQuiet
  <2>5. TotalDelta(o2) = TxValue
    <3>1. Even(o, o2)
      BY <1>4, <2>1 DEF Even, SetReturnCode, OutputType
    <3> QED BY <1>4, <3>1, EvenTotal
  <2>6. Grows(o, h, o, h)
    BY <1>4, GrowsSelf
  <2> QED BY <1>4, <1>5, <2>1, <2>4, <2>5, <2>6
<1>8. codeUpdates \ {f.target} \subseteq codeUpdates' /\ (f.fn # "create" => codeUpdates \subseteq codeUpdates')
  <2>1. codeUpdates' \in IF f.fn = "create" THEN {codeUpdates \ {f.target}}
                         ELSE {codeUpdates, UpdatesAfter(f)}
    BY <1>3 DEF FailCall
  <2> QED BY <2>1 DEF UpdatesAfter
<1>9. f.fn = "create" => f.target \notin Deployed(h) /\ \A i \in 1 .. m : calls[i].target # f.target
  <2> SUFFICES ASSUME f.fn = "create"
               PROVE  f.target \notin Deployed(h) /\ \A i \in 1 .. m : calls[i].target # f.target
    OBVIOUS
  <2>1. m + 1 \in 1 .. m + 1 /\ (m + 1) - 1 = m
    OBVIOUS
  <2>2. Shape(calls) /\ Level(output, history, calls, m + 1)
    BY <1>1, <1>2, TopFacts
  <2>3. \A i \in 1 .. m : calls[i].target # f.target
    BY <1>2, <1>4, <2>1, <2>2 DEF Shape
  <2>4. f.target \in Making(calls, m + 1)
    BY <1>4, <2>1 DEF Making
  <2>5. f.target \notin Deployed(history)
    BY <2>2, <2>4 DEF Level, Deployed
  <2>6. Deployed(h) \subseteq Deployed(history)
    BY <1>2, <1>3 DEF Grows
  <2> QED BY <2>3, <2>5, <2>6
<1>10. Deployed(h) \subseteq codeUpdates'
  BY <1>2, <1>3, <1>8, <1>9
<1>11. \A i \in 2 .. m : calls[i].fn = "create" => calls[i].target \in codeUpdates'
  <2> SUFFICES ASSUME NEW i \in 2 .. m, calls[i].fn = "create" PROVE calls[i].target \in codeUpdates'
    OBVIOUS
  <2>1. i \in 2 .. Len(calls) /\ i \in 1 .. m
    BY <1>2
  <2>2. calls[i].target \in codeUpdates
    BY <1>1, <2>1, TopFacts
  <2> QED BY <1>8, <1>9, <2>1, <2>2
<1>12. /\ calls' = Front(calls) /\ outputStack' = Front(outputStack)
       /\ bigIntStack' = Front(bigIntStack) /\ PopRuntime(f)
  BY <1>3 DEF FailCall
<1> QED BY <1>1, <1>2, <1>3, <1>6, <1>7, <1>10, <1>11, <1>12, PopKeepsReport

(* The end of a call or an upgrade that did not fail: what GetVMOutput     *)
(* returns, and what is committed, are at the level of the callee.         *)
LEMMA FinishLevel ==
  ASSUME HostInv, phase = "running", ReportInv, Last(calls).fn # "create", NEW vo,
         vo = GetVMOutput(Upgraded(Last(calls)), runtime.scAddress, UpdatesAfter(Last(calls)))
  PROVE  LET h == Committed(history, Last(calls)) IN
         /\ vo \in OutputType
         /\ Level(vo, h, calls, Len(calls)) /\ Grows(output, history, vo, h)
         /\ TotalDelta(vo) = TxValue /\ Deployed(h) \subseteq UpdatesAfter(Last(calls))
<1>1. PICK n \in Nat : n = Len(calls) /\ n >= 1 /\ n \in 1 .. n
  BY TopFacts
<1>2. /\ calls \in Seq(FrameType) /\ Shape(calls) /\ Formed(calls, n) /\ output \in OutputType
      /\ history \in HistoryType /\ Level(output, history, calls, n) /\ TotalDelta(output) = TxValue
      /\ Deployed(history) \subseteq codeUpdates
      /\ \A i \in 2 .. n : calls[i].fn = "create" => calls[i].target \in codeUpdates
  BY <1>1, TopFacts
<1>3. PICK f : f = Last(calls) /\ f = calls[n]
  BY <1>1 DEF Last
<1>4. /\ f \in FrameType /\ f.target \in Addresses /\ f.code \in Codes \cup {NoCode}
      /\ f.fn # "create" /\ f.fn \in EntryPoints
  BY <1>1, <1>2, <1>3, CallAt
<1>5. f.fn = "upgrade" => f.target \in Contracts /\ f.code # NoCode
  BY <1>1, <1>2, <1>3 DEF Shape
<1>6. PICK h : h = Committed(history, f)
  OBVIOUS
<1>7. PICK up : up = IF f.fn = "upgrade" THEN DeployCode(output, f.target, f.code) ELSE output
  OBVIOUS
<1>8. Level(up, h, calls, n) /\ Grows(output, history, up, h) /\ up \in OutputType
  BY ONLY <1>2, <1>4, <1>5, <1>6, <1>7, LevelUpgrade
<1>9. TotalDelta(up) = TxValue
  <2>1. CASE f.fn = "upgrade"
    <3>1. Even(output, up)
      BY <1>2, <1>4, <1>7, <2>1, EvenOps
    <3> QED BY <1>2, <3>1, EvenTotal
  <2>2. CASE f.fn # "upgrade"
    BY <1>2, <1>7, <2>2
  <2> QED BY <2>1, <2>2
<1>10. PICK updates : updates = UpdatesAfter(f)
  OBVIOUS
<1>11. Deployed(h) \subseteq updates
  <2> SUFFICES ASSUME NEW a \in Deployed(h) PROVE a \in updates
    OBVIOUS
  <2>1. a \in Addresses /\ h.deployed[a] # NoCode
    BY DEF Deployed
  <2>2. h.deployed[a] = IF a = f.target /\ f.fn # "call" THEN f.code ELSE history.deployed[a]
    BY <1>2, <1>4, <1>6, <2>1, CommittedIs
  <2>3. CASE a = f.target /\ f.fn # "call"
    BY <1>4, <1>10, <2>3 DEF UpdatesAfter, EntryPoints
  <2>4. CASE ~ (a = f.target /\ f.fn # "call")
    <3>1. a \in codeUpdates
      BY <1>2, <2>1, <2>2, <2>4 DEF Deployed
    <3> QED BY <1>10, <3>1 DEF UpdatesAfter
  <2> QED BY <2>3, <2>4
<1>12. Kept(h, calls, n) \subseteq updates
  <2>1. \A i \in 2 .. n : calls[i].fn = "create" => calls[i].target \in updates
    BY <1>2, <1>10 DEF UpdatesAfter
  <2> QED BY <1>11, <2>1 DEF Kept
<1>13. PICK a \in Addresses : a = runtime.scAddress /\ a \in Known(h, calls, n)
  <2>1. runtime.scAddress \in Addresses /\ runtime.scAddress = f.target
    BY <1>1, <1>3, TopFacts
  <2>2. f.target \in Contracts \cup Making(calls, n) \cup Deployed(h)
    BY <1>1, <1>3, <1>8 DEF Level
  <2>3. f.target \in Known(h, calls, n)
    BY <1>4, <2>2, FutureFacts DEF Known
  <2> QED BY <2>1, <2>3
<1>14. vo = GetVMOutput(up, a, updates)
  BY <1>3, <1>7, <1>10, <1>13 DEF Upgraded
<1>15. vo \in OutputType
  BY <1>8, <1>14, CodeTyped
<1>16. Quiet(up, vo, Known(h, calls, n), Kept(h, calls, n))
  BY ONLY <1>8, <1>12, <1>13, <1>14, QuietVMOutput
<1>17. Level(vo, h, calls, n) /\ Grows(up, h, vo, h)
  BY ONLY <1>2, <1>8, <1>15, <1>16, LevelQuiet
<1>18. Grows(output, history, vo, h)
  BY ONLY <1>2, <1>8, <1>15, <1>17, GrowsTrans
<1>19. TotalDelta(vo) = TxValue
  <2>1. Even(up, vo)
    BY <1>8, <1>14, EvenOps
  <2> QED BY <1>9, <2>1, EvenTotal
<1> QED BY <1>1, <1>3, <1>6, <1>10, <1>11, <1>15, <1>17, <1>18, <1>19

(* A call on the caller's context returns.                                 *)
LEMMA FinishOnSameReports ==
  ASSUME HostInv, HostInv', ReportInv, FinishExecuteOnSameContext
  PROVE  ReportInv'
<1> DEFINE kinds == {"same", "readOnly"}
<1>1. phase = "running" /\ UNCHANGED phase /\ InCall(kinds)
  BY DEF FinishExecuteOnSameContext, InCall
<1>2. PICK m \in Nat :
         /\ m >= 1 /\ Len(calls) = m + 1 /\ Last(calls) = calls[m + 1]
         /\ AllOuts[m] \in OutputType /\ Grows(AllOuts[m], AllHists[m], output, history)
  BY <1>1, BelowFacts
<1>3. PICK f, o, h, vo, h2 :
         /\ f = Last(calls) /\ o = AllOuts[m] /\ h = AllHists[m] /\ h2 = Committed(history, f)
         /\ vo = GetVMOutput(Upgraded(f), runtime.scAddress, UpdatesAfter(f))
  OBVIOUS
<1>4. f.fn # "create"
  <2>1. m + 1 \in 1 .. Len(calls) /\ m + 1 # 1
    BY <1>2
  <2>2. Shape(calls)
    BY <1>1, TopFacts
  <2>3. f.kind # "dest"
    BY <1>3 DEF FinishExecuteOnSameContext, InCall
  <2> QED BY <1>2, <1>3, <2>1, <2>2, <2>3 DEF Shape
<1>5. /\ vo \in OutputType /\ Level(vo, h2, calls, m + 1) /\ Grows(output, history, vo, h2)
      /\ TotalDelta(vo) = TxValue /\ Deployed(h2) \subseteq UpdatesAfter(f)
  BY <1>1, <1>2, <1>3, <1>4, FinishLevel
<1>6. output' = vo /\ history' = h2 /\ codeUpdates' = UpdatesAfter(f)
  BY <1>3 DEF FinishExecuteOnSameContext, Commit, Committed
<1>7. Level(vo, h2, calls, m)
  BY <1>2, <1>3, <1>4, <1>5, LevelLeave
<1>8. Grows(o, h, vo, h2)
  <2>1. output \in OutputType /\ o \in OutputType /\ Grows(o, h, output, history)
    BY <1>1, <1>2, <1>3, TopFacts
  <2> QED BY ONLY <1>5, <2>1, GrowsTrans
<1>9. \A i \in 2 .. m : calls[i].fn = "create" => calls[i].target \in codeUpdates'
  <2> SUFFICES ASSUME NEW i \in 2 .. m, calls[i].fn = "create" PROVE calls[i].target \in codeUpdates'
    OBVIOUS
  <2>1. i \in 2 .. Len(calls)
    BY <1>2
  <2>2. calls[i].target \in codeUpdates
    BY <1>1, <2>1, TopFacts
  <2> QED BY <1>6, <2>2 DEF UpdatesAfter
<1>10. /\ calls' = Front(calls) /\ outputStack' = Front(outputStack)
       /\ bigIntStack' = Front(bigIntStack) /\ PopRuntime(f)
  BY <1>3 DEF FinishExecuteOnSameContext
<1> QED BY <1>1, <1>2, <1>3, <1>5, <1>6, <1>7, <1>8, <1>9, <1>10, PopKeepsReport

(* Merging what a call returns into what its caller had pushed.            *)
LEMMA MergedLevel ==
  ASSUME NEW left, NEW vo \in OutputType, LeftOf(left, vo), NEW h, NEW cs, NEW i,
         Level(vo, h, cs, i), Formed(cs, i),
         \A j \in 2 .. i : cs[j].fn = "create" => cs[j].code # NoCode,
         NEW merged, merged = Copy(MergeVMOutputs(left, vo))
  PROVE  /\ merged \in OutputType /\ Level(merged, h, cs, i) /\ Grows(vo, h, merged, h)
         /\ TotalDelta(merged) = TotalDelta(vo)
<1>1. /\ merged \in OutputType /\ Quiet(vo, merged, Known(h, cs, i), Kept(h, cs, i))
      /\ \A a \in Addresses : merged.accounts[a].delta = vo.accounts[a].delta
  BY QuietMerge
<1>2. Level(merged, h, cs, i) /\ Grows(vo, h, merged, h)
  BY <1>1, LevelQuiet
<1>3. Even(vo, merged)
  BY <1>1 DEF Even
<1> QED BY <1>1, <1>2, <1>3, EvenTotal

(* A creation that did not fail: what GetVMOutput returns.                 *)
LEMMA FinishCreation ==
  ASSUME HostInv, phase = "running", ReportInv, Last(calls).fn = "create", Len(calls) > 1,
         NEW vo, vo = GetVMOutput(output, runtime.scAddress, codeUpdates)
  PROVE  /\ vo \in OutputType /\ Level(vo, history, calls, Len(calls))
         /\ Grows(output, history, vo, history) /\ TotalDelta(vo) = TxValue
         /\ Last(calls).target \in vo.listed
<1>1. PICK n \in Nat : n = Len(calls) /\ n >= 1 /\ n \in 1 .. n
  BY TopFacts
<1>2. /\ Formed(calls, n) /\ output \in OutputType
      /\ Level(output, history, calls, n) /\ TotalDelta(output) = TxValue
      /\ Deployed(history) \subseteq codeUpdates
      /\ \A i \in 2 .. n : calls[i].fn = "create" => calls[i].target \in codeUpdates
      /\ runtime.scAddress = calls[n].target /\ runtime.scAddress \in Addresses
      /\ runtime.scAddress \in Known(history, calls, n)
  BY <1>1, TopFacts
<1>3. Kept(history, calls, n) \subseteq codeUpdates
  BY <1>2 DEF Kept
<1>4. PICK a \in Addresses : a = runtime.scAddress /\ a \in Known(history, calls, n)
  BY <1>2
<1>5. vo = GetVMOutput(output, a, codeUpdates)
  BY <1>4
<1>6. vo \in OutputType
  BY <1>2, <1>5, CodeTyped
<1>7. Quiet(output, vo, Known(history, calls, n), Kept(history, calls, n))
  BY ONLY <1>2, <1>3, <1>4, <1>5, QuietVMOutput
<1>8. Level(vo, history, calls, n) /\ Grows(output, history, vo, history)
  BY ONLY <1>2, <1>6, <1>7, LevelQuiet
<1>9. Even(output, vo)
  BY <1>2, <1>5, EvenOps
<1>10. TotalDelta(vo) = TxValue
  BY <1>2, <1>9, EvenTotal
<1>11. a \in vo.listed
  BY <1>2, <1>5 DEF GetVMOutput, RemoveNonUpdatedCode, GetOutputAccount, OutputType
<1>12. Last(calls).target = a
  BY <1>1, <1>2, <1>4 DEF Last
<1> QED BY <1>1, <1>6, <1>8, <1>10, <1>11, <1>12

(* The output pushed before a creation is to the left of one that grew     *)
(* from the state before it.                                               *)
LEMMA DeployedLeft ==
  ASSUME NEW o \in OutputType, NEW h, NEW cs, NEW i, Level(o, h, cs, i),
         NEW t \in Future, NEW code \in Codes \cup {NoCode}, NEW vo, NEW h2, Grows(o, h, vo, h2),
         t \in vo.listed
  PROVE  LeftOf(DeployCode(o, t, code), vo)
<1>1. PICK left : left = DeployCode(o, t, code)
  OBVIOUS
<1>2. t \in Addresses
  BY FutureFacts
<1>3. left \in OutputType
  BY <1>1, <1>2, CodeTyped
<1>4. PICK acc : acc = [o.accounts[t] EXCEPT !.code = code]
  OBVIOUS
<1>5. o.accounts[t] \in AccountType
  BY <1>2, TransfersTyped
<1>6. acc.nonce = o.accounts[t].nonce /\ acc.transfers = o.accounts[t].transfers
  BY <1>4, <1>5, AccountFields
<1>7. left = SetAccount(o, t, acc)
  BY <1>1, <1>4 DEF DeployCode
<1>8. /\ left.listed = o.listed \cup {t}
      /\ \A b \in Addresses : left.accounts[b] = IF b = t THEN acc ELSE o.accounts[b]
  BY <1>2, <1>7, SetAccountIs
<1>9. Clean(left)
  BY <1>8 DEF Level, Clean
<1>10. UsersHaveNoCode(left)
  BY <1>8 DEF Level, UsersHaveNoCode
<1>11. \A a \in Addresses :
         /\ left.accounts[a].nonce = o.accounts[a].nonce
         /\ left.accounts[a].transfers = o.accounts[a].transfers
  BY <1>6, <1>8
<1>12. left.listed \subseteq vo.listed
  BY <1>8 DEF Grows
<1> QED BY <1>1, <1>3, <1>9, <1>10, <1>11, <1>12 DEF LeftOf, Grows

(* A call or an upgrade on its own context returns.                        *)
LEMMA FinishCallOnDestReports ==
  ASSUME HostInv, HostInv', ReportInv, FinishExecuteOnDestContext, Last(calls).fn # "create"
  PROVE  ReportInv'
<1> DEFINE kinds == {"dest"}
<1>1. phase = "running" /\ UNCHANGED phase /\ InCall(kinds)
  BY DEF FinishExecuteOnDestContext, InCall
<1>2. PICK m \in Nat :
         /\ m >= 1 /\ Len(calls) = m + 1 /\ Last(calls) = calls[m + 1]
         /\ AllOuts[m] = Undo(Last(outputStack), Last(calls))
         /\ AllOuts[m] \in OutputType /\ Level(AllOuts[m], AllHists[m], calls, m)
         /\ Grows(AllOuts[m], AllHists[m], output, history)
  BY <1>1, BelowFacts
<1>3. PICK f, o, h, vo, h2 :
         /\ f = Last(calls) /\ o = AllOuts[m] /\ h = AllHists[m] /\ h2 = Committed(history, f)
         /\ vo = GetVMOutput(Upgraded(f), runtime.scAddress, UpdatesAfter(f))
  OBVIOUS
<1>4. /\ vo \in OutputType /\ Level(vo, h2, calls, m + 1) /\ Grows(output, history, vo, h2)
      /\ TotalDelta(vo) = TxValue /\ Deployed(h2) \subseteq UpdatesAfter(f)
  BY <1>1, <1>2, <1>3, FinishLevel
<1>5. PICK merged : merged = PopMerge(vo)
  OBVIOUS
<1>6. output' = merged /\ history' = h2 /\ codeUpdates' = UpdatesAfter(f)
  BY <1>3, <1>5 DEF FinishExecuteOnDestContext, Commit, Committed
<1>7. o = Last(outputStack)
  BY <1>2, <1>3 DEF Undo
<1>8. output \in OutputType /\ Shape(calls) /\ Formed(calls, m + 1) /\ o \in OutputType
      /\ Level(o, h, calls, m) /\ Grows(o, h, output, history)
  BY <1>1, <1>2, <1>3, TopFacts
<1>9. Grows(o, h, vo, h2)
  BY ONLY <1>4, <1>8, GrowsTrans
<1>10. LeftOf(o, vo)
  BY <1>8, <1>9 DEF LeftOf, Grows, Level
<1>11. \A j \in 2 .. m + 1 : calls[j].fn = "create" => calls[j].code # NoCode
  <2> SUFFICES ASSUME NEW j \in 2 .. m + 1, calls[j].fn = "create" PROVE calls[j].code # NoCode
    OBVIOUS
  <2>1. j \in 1 .. Len(calls)
    BY <1>2
  <2> QED BY <1>8, <2>1 DEF Shape
<1>12. merged = Copy(MergeVMOutputs(o, vo))
  BY <1>5, <1>7 DEF PopMerge
<1>13. /\ merged \in OutputType /\ Level(merged, h2, calls, m + 1) /\ Grows(vo, h2, merged, h2)
       /\ TotalDelta(merged) = TotalDelta(vo)
  <2>1. PICK l : l = m + 1
    OBVIOUS
  <2>2. /\ vo \in OutputType /\ Level(vo, h2, calls, l) /\ Formed(calls, l)
        /\ \A j \in 2 .. l : calls[j].fn = "create" => calls[j].code # NoCode
    BY <1>4, <1>8, <1>11, <2>1
  <2>3. /\ merged \in OutputType /\ Level(merged, h2, calls, l) /\ Grows(vo, h2, merged, h2)
        /\ TotalDelta(merged) = TotalDelta(vo)
    BY ONLY <1>10, <1>12, <2>2, MergedLevel
  <2> QED BY <2>1, <2>3
<1>14. Grows(o, h, merged, h2)
  BY ONLY <1>4, <1>8, <1>9, <1>13, GrowsTrans
<1>15. Level(merged, h2, calls, m)
  BY <1>2, <1>3, <1>13, LevelLeave
<1>16. \A i \in 2 .. m : calls[i].fn = "create" => calls[i].target \in codeUpdates'
  <2> SUFFICES ASSUME NEW i \in 2 .. m, calls[i].fn = "create" PROVE calls[i].target \in codeUpdates'
    OBVIOUS
  <2>1. i \in 2 .. Len(calls)
    BY <1>2
  <2>2. calls[i].target \in codeUpdates
    BY <1>1, <2>1, TopFacts
  <2> QED BY <1>6, <2>2 DEF UpdatesAfter
<1>17. /\ calls' = Front(calls) /\ outputStack' = Front(outputStack)
       /\ bigIntStack' = Front(bigIntStack) /\ PopRuntime(f)
  BY <1>3 DEF FinishExecuteOnDestContext
<1> QED BY <1>1, <1>2, <1>3, <1>4, <1>6, <1>13, <1>14, <1>15, <1>16, <1>17, PopKeepsReport

(* A creation returns: its contract is deployed, and the nonce of its      *)
(* creator used up.                                                        *)
LEMMA FinishCreationReports ==
  ASSUME HostInv, HostInv', ReportInv, FinishExecuteOnDestContext, Last(calls).fn = "create"
  PROVE  ReportInv'
<1> DEFINE kinds == {"dest"}
<1>1. phase = "running" /\ UNCHANGED phase /\ InCall(kinds) /\ Len(calls) > 1
  BY DEF FinishExecuteOnDestContext, InCall
<1>2. PICK m \in Nat :
         /\ m >= 1 /\ Len(calls) = m + 1 /\ Last(calls) = calls[m + 1] /\ Last(calls) \in FrameType
         /\ AllOuts[m] \in OutputType /\ Level(AllOuts[m], AllHists[m], calls, m)
         /\ Grows(AllOuts[m], AllHists[m], output, history)
         /\ Last(outputStack) = DeployCode(AllOuts[m], Last(calls).target, Last(calls).code)
  BY <1>1, BelowFacts
<1>3. PICK f, o, h, vo :
         /\ f = Last(calls) /\ o = AllOuts[m] /\ h = AllHists[m]
         /\ vo = GetVMOutput(output, runtime.scAddress, codeUpdates)
  OBVIOUS
<1>4. /\ vo \in OutputType /\ Level(vo, history, calls, m + 1) /\ Grows(output, history, vo, history)
      /\ TotalDelta(vo) = TxValue /\ f.target \in vo.listed
  BY <1>1, <1>2, <1>3, FinishCreation
<1>5. PICK merged : merged = PopMerge(vo)
  OBVIOUS
<1>6. Upgraded(f) = output /\ UpdatesAfter(f) = codeUpdates /\ f.fn = "create"
  BY <1>3 DEF Upgraded, UpdatesAfter
<1>7. /\ output' = IncreaseNonce(merged, f.caller) /\ history' = Committed(history, f)
      /\ codeUpdates' = codeUpdates
  BY <1>3, <1>5, <1>6 DEF FinishExecuteOnDestContext, Commit, Committed
<1>8. /\ output \in OutputType /\ Shape(calls) /\ Formed(calls, m + 1) /\ o \in OutputType
      /\ Level(o, h, calls, m) /\ Grows(o, h, output, history) /\ calls \in Seq(FrameType)
      /\ history \in HistoryType /\ f \in FrameType /\ f.caller \in Addresses /\ f = calls[m + 1]
  BY <1>1, <1>2, <1>3, TopFacts DEF FrameType
<1>9. Grows(o, h, vo, history)
  BY ONLY <1>4, <1>8, GrowsTrans
<1>10. f.target \in Future /\ f.code \in Codes \cup {NoCode}
  <2>1. m + 1 \in 1 .. m + 1
    BY <1>2
  <2> QED BY <1>6, <1>8, <2>1 DEF Formed, FrameType
<1>11. PICK left : left = DeployCode(o, f.target, f.code)
  OBVIOUS
<1>12. LeftOf(left, vo)
  BY ONLY <1>4, <1>8, <1>9, <1>10, <1>11, DeployedLeft
<1>13. \A j \in 2 .. m + 1 : calls[j].fn = "create" => calls[j].code # NoCode
  <2> SUFFICES ASSUME NEW j \in 2 .. m + 1, calls[j].fn = "create" PROVE calls[j].code # NoCode
    OBVIOUS
  <2>1. j \in 1 .. Len(calls)
    BY <1>2
  <2> QED BY <1>8, <2>1 DEF Shape
<1>14. merged = Copy(MergeVMOutputs(left, vo))
  BY <1>2, <1>3, <1>5, <1>11 DEF PopMerge
<1>15. /\ merged \in OutputType /\ Level(merged, history, calls, m + 1)
       /\ Grows(vo, history, merged, history) /\ TotalDelta(merged) = TotalDelta(vo)
  <2>1. PICK l : l = m + 1
    OBVIOUS
  <2>2. /\ vo \in OutputType /\ Level(vo, history, calls, l) /\ Formed(calls, l)
        /\ \A j \in 2 .. l : calls[j].fn = "create" => calls[j].code # NoCode
    BY <1>4, <1>8, <1>13, <2>1
  <2>3. /\ merged \in OutputType /\ Level(merged, history, calls, l)
        /\ Grows(vo, history, merged, history) /\ TotalDelta(merged) = TotalDelta(vo)
    BY ONLY <1>12, <1>14, <2>2, MergedLevel
  <2> QED BY <2>1, <2>3
<1>16. PICK o2, h2 : o2 = IncreaseNonce(merged, f.caller) /\ h2 = Committed(history, f)
  OBVIOUS
<1>17. o2 \in OutputType /\ Level(o2, h2, calls, m) /\ Grows(merged, history, o2, h2)
  <2>1. m \in Nat /\ m >= 1 /\ Len(calls) = m + 1
    BY <1>2
  <2> QED BY ONLY <1>6, <1>8, <1>15, <1>16, <2>1, LevelCommitCreate
<1>18. Grows(o, h, o2, h2)
  <2>1. Grows(o, h, merged, history)
    BY ONLY <1>4, <1>8, <1>9, <1>15, GrowsTrans
  <2> QED BY ONLY <1>8, <1>15, <1>17, <2>1, GrowsTrans
<1>19. TotalDelta(o2) = TxValue
  <2>1. Even(merged, o2)
    <3>1. PICK c \in Addresses : c = f.caller
      BY <1>8
    <3>2. \A b \in Addresses : IncreaseNonce(merged, c).accounts[b].delta = merged.accounts[b].delta
      BY ONLY <1>15, <3>1, IncreaseIs
    <3> QED BY <1>16, <3>1, <3>2 DEF Even
  <2> QED BY <1>4, <1>15, <2>1, EvenTotal
<1>20. \A i \in 2 .. m + 1 : calls[i].fn = "create" => calls[i].target \in codeUpdates
  BY <1>1, <1>2, TopFacts
<1>21. Deployed(h2) \subseteq codeUpdates
  <2> SUFFICES ASSUME NEW a \in Deployed(h2) PROVE a \in codeUpdates
    OBVIOUS
  <2>1. a \in Addresses /\ h2.deployed[a] # NoCode
    BY DEF Deployed
  <2>2. h2.deployed[a] = IF a = f.target /\ f.fn # "call" THEN f.code ELSE history.deployed[a]
    BY <1>8, <1>16, <2>1, CommittedIs
  <2>3. CASE a = f.target
    <3>1. m + 1 \in 2 .. m + 1
      BY <1>2
    <3> QED BY <1>6, <1>8, <1>20, <2>3, <3>1
  <2>4. CASE a # f.target
    <3>1. a \in Deployed(history)
      BY <2>1, <2>2, <2>4 DEF Deployed
    <3> QED BY <1>1, <3>1, TopFacts
  <2> QED BY <2>3, <2>4
<1>22. \A i \in 2 .. m : calls[i].fn = "create" => calls[i].target \in codeUpdates'
  BY <1>7, <1>20
<1>23. /\ calls' = Front(calls) /\ outputStack' = Front(outputStack)
       /\ bigIntStack' = Front(bigIntStack) /\ PopRuntime(f)
  BY <1>3 DEF FinishExecuteOnDestContext
<1> QED BY <1>1, <1>2, <1>3, <1>7, <1>16, <1>17, <1>18, <1>19, <1>21, <1>22, <1>23, PopKeepsReport

(* Before the outermost call, nothing is reported and nobody is known but  *)
(* the contract it calls or creates.                                       *)
LEMMA LevelStart ==
  ASSUME NEW cs, NEW t \in Addresses, cs[1].target = t,
         \/ cs[1].fn # "create" /\ t \in Contracts
         \/ /\ cs[1].fn = "create"
            /\ \A c \in Addresses, k \in Nat :
                 <<c, k>> \in DOMAIN NewAddr /\ NewAddr[<<c, k>>] = t =>
                   k <= CreationNonce(NewVMOutput, c)
  PROVE  /\ Level(NewVMOutput, NoHistory, cs, 1) /\ t \in Known(NoHistory, cs, 1)
         /\ Addresses \ Future \subseteq Known(NoHistory, cs, 1) /\ Deployed(NoHistory) = {}
<1>1. /\ NewVMOutput.listed = {}
      /\ \A a \in Addresses : NewVMOutput.accounts[a] = NewVMOutputAccount
      /\ NewVMOutputAccount.nonce = 0 /\ NewVMOutputAccount.code = NoCode
      /\ NewVMOutputAccount.transfers = <<>>
  BY DEF NewVMOutput, NewVMOutputAccount
<1>2. \A a \in Addresses : /\ NoHistory.transfers[a] = <<>> /\ NoHistory.created[a] = 0
                           /\ NoHistory.deployed[a] = NoCode
  BY DEF NoHistory
<1>3. Deployed(NoHistory) = {}
  BY <1>2 DEF Deployed
<1>4. Making(cs, 1) = IF cs[1].fn = "create" THEN {t} ELSE {}
  <2>1. {k \in 1 .. 1 : cs[k].fn = "create"} = IF cs[1].fn = "create" THEN {1} ELSE {}
    OBVIOUS
  <2> QED BY <2>1 DEF Making
<1>5. Clean(NewVMOutput) /\ UsersHaveNoCode(NewVMOutput) /\ NoncesGrow(NewVMOutput)
  BY <1>1, FutureFacts DEF Clean, UsersHaveNoCode, NoncesGrow
<1>6. Reports(NewVMOutput, NoHistory)
  BY <1>1, <1>2 DEF Reports
<1>7. NoncesUsed(NewVMOutput, NoHistory, Making(cs, 1))
  BY <1>3, <1>4 DEF NoncesUsed
<1>8. \A j \in 1 .. 1 : cs[j].target \in Contracts \cup Making(cs, 1) \cup Deployed(NoHistory)
  BY <1>4
<1>9. \A j \in 2 .. 1 : cs[j].fn = "create" => NewVMOutput.accounts[cs[j].target].code = cs[j].code
  OBVIOUS
<1>10. \A a \in Addresses : a \notin NewVMOutput.listed /\ NoHistory.created[a] = 0
  BY <1>1, <1>2
<1>11. \A a \in Making(cs, 1) : NoHistory.created[a] = 0 /\ NoHistory.deployed[a] = NoCode
  BY <1>2, <1>4
<1>12. Level(NewVMOutput, NoHistory, cs, 1)
  BY <1>5, <1>6, <1>7, <1>8, <1>9, <1>10, <1>11 DEF Level
<1> QED BY <1>3, <1>4, <1>12, FutureFacts DEF Known

(* The value of the transaction is received, and the code fetched.         *)
LEMMA ReceivedLevel ==
  ASSUME NEW cs, Level(NewVMOutput, NoHistory, cs, 1), Formed(cs, 1),
         NEW t \in Addresses, t \in Known(NoHistory, cs, 1), NEW v \in Values,
         NEW o, o = AddTxValueToAccount(NewVMOutput, t, v)
  PROVE  /\ o \in OutputType /\ Level(o, NoHistory, cs, 1) /\ TotalDelta(o) = v
         /\ CacheCode(o, t) \in OutputType /\ Level(CacheCode(o, t), NoHistory, cs, 1)
         /\ TotalDelta(CacheCode(o, t)) = v
<1>1. NewVMOutput \in OutputType
  BY GoodNew, GoodIsTyped
<1>2. o \in OutputType /\ TotalDelta(o) = v
  BY <1>1, ValueTyped, TotalStart
<1>3. PICK acc : acc = [NewVMOutput.accounts[t] EXCEPT !.delta = @ + v]
  OBVIOUS
<1>4. NewVMOutput.accounts[t] \in AccountType /\ NewVMOutput.accounts[t].delta + v \in Int
  <2>1. v \in Int
    BY HostAssumption
  <2> QED BY <1>1, <2>1, TransfersTyped
<1>5. /\ acc.nonce = NewVMOutput.accounts[t].nonce
      /\ acc.transfers = NewVMOutput.accounts[t].transfers
      /\ acc.code = NewVMOutput.accounts[t].code
  BY <1>3, <1>4, AccountFields
<1>6. Quiet(NewVMOutput, SetAccount(NewVMOutput, t, acc), Known(NoHistory, cs, 1), Kept(NoHistory, cs, 1))
  <2>1. Clean(NewVMOutput)
    BY DEF Level
  <2> QED BY <1>1, <1>5, <2>1, QuietSet
<1>7. Level(o, NoHistory, cs, 1)
  <2>1. Quiet(NewVMOutput, o, Known(NoHistory, cs, 1), Kept(NoHistory, cs, 1))
    BY <1>3, <1>6 DEF AddTxValueToAccount
  <2> QED BY <1>1, <1>2, <2>1, LevelQuiet
<1>8. PICK cached : cached = CacheCode(o, t)
  OBVIOUS
<1>9. cached \in OutputType /\ Even(o, cached)
  BY <1>2, <1>8, CodeTyped, EvenOps
<1>10. Quiet(o, cached, Known(NoHistory, cs, 1), Kept(NoHistory, cs, 1))
  BY <1>2, <1>7, <1>8, QuietCache
<1>11. Level(cached, NoHistory, cs, 1)
  BY <1>2, <1>7, <1>9, <1>10, LevelQuiet
<1>12. TotalDelta(cached) = v
  BY <1>2, <1>9, EvenTotal
<1> QED BY <1>2, <1>7, <1>8, <1>9, <1>11, <1>12

(* The outermost call starts.                                              *)
LEMMA StartReports ==
  ASSUME HostInv, HostInv', RestInv, phase = "idle", NEW fn \in EntryPoints,
         NEW caller \in Existing \ Contracts, NEW target \in Addresses, NEW value \in Values,
         NEW code \in Codes \cup {NoCode}, NEW out,
         out = AddTxValueToAccount(NewVMOutput, target, value)
           \/ out = CacheCode(AddTxValueToAccount(NewVMOutput, target, value), target),
         StartTransaction(fn, caller, target, value, code, out),
         fn # "call" => code # NoCode, fn # "create" => target \in Contracts,
         fn = "create" =>
           /\ <<caller, CreationNonce(NewVMOutput, caller)>> \in DOMAIN NewAddr
           /\ target = NewAddr[<<caller, CreationNonce(NewVMOutput, caller)>>]
  PROVE  ReportInv'
<1>1. PICK f : f = Frame("root", fn, "no", caller, target, code)
  OBVIOUS
<1>2. f.fn = fn /\ f.caller = caller /\ f.target = target /\ f.code = code
  BY <1>1, FrameIs
<1>3. PICK cs : cs = <<f>>
  OBVIOUS
<1>4. calls' = cs /\ Len(cs) = 1 /\ cs[1] = f
  BY <1>1, <1>3 DEF StartTransaction
<1>5. PICK k : k = CreationNonce(NewVMOutput, caller)
  OBVIOUS
<1>6. k \in Nat /\ caller \in Addresses
  <2>1. caller \in Addresses
    BY FutureFacts
  <2>2. NewVMOutput \in OutputType
    BY GoodNew, GoodIsTyped
  <2>3. NoncesGrow(NewVMOutput)
    BY FutureFacts DEF NoncesGrow, NewVMOutput, NewVMOutputAccount
  <2>4. NewVMOutput.accounts[caller].nonce <= NewVMOutput.accounts[caller].nonce
    BY <2>1, <2>2, TransfersTyped
  <2> QED BY <1>5, <2>1, <2>2, <2>3, <2>4, NonceMonotone
<1>7. fn = "create" => target \in Future /\ <<caller, k>> \in DOMAIN NewAddr
                       /\ NewAddr[<<caller, k>>] = target
  BY <1>5 DEF Future
<1>8. Shape(cs)
  <2> SUFFICES ASSUME NEW j \in 1 .. Len(cs)
               PROVE  /\ cs[j].fn # "call" => cs[j].code # NoCode
                      /\ cs[j].fn = "upgrade" => cs[j].target \in Contracts
                      /\ cs[j].fn = "create" =>
                           /\ \A i \in 1 .. j - 1 : cs[i].target # cs[j].target
                           /\ \A i \in j .. Len(cs) : cs[i].fn = "create"
                           /\ \E l \in Nat : /\ <<cs[j].caller, l>> \in DOMAIN NewAddr
                                             /\ NewAddr[<<cs[j].caller, l>>] = cs[j].target
                           /\ IF j = 1 THEN cs[j].caller \in Existing \ Contracts
                              ELSE cs[j].kind = "dest" /\ cs[j].caller = cs[j - 1].target
    BY DEF Shape
  <2>1. j = 1 /\ Len(cs) = 1 /\ cs[j] = f
    BY <1>4
  <2>2. fn = "create" => \E l \in Nat : /\ <<f.caller, l>> \in DOMAIN NewAddr
                                        /\ NewAddr[<<f.caller, l>>] = f.target
    BY <1>2, <1>6, <1>7
  <2>3. 1 .. j - 1 = {} /\ j .. Len(cs) = {1}
    BY <2>1
  <2> QED BY <1>2, <1>4, <2>1, <2>2, <2>3
<1>9. Formed(cs, 1)
  BY <1>2, <1>4, <1>7 DEF Formed
<1>10. /\ Level(NewVMOutput, NoHistory, cs, 1) /\ target \in Known(NoHistory, cs, 1)
       /\ Addresses \ Future \subseteq Known(NoHistory, cs, 1) /\ Deployed(NoHistory) = {}
  <2>1. CASE fn = "create"
    <3>1. ASSUME NEW c \in Addresses, NEW l \in Nat, <<c, l>> \in DOMAIN NewAddr,
                 NewAddr[<<c, l>>] = target
          PROVE  l <= CreationNonce(NewVMOutput, c)
      <4>1. <<c, l>> = <<caller, k>>
        BY <1>7, <2>1, <3>1, HostAssumption
      <4>2. c = caller /\ l = k
        BY <4>1
      <4> QED BY <1>5, <4>2
    <3>2. cs[1].target = target /\ cs[1].fn = "create"
      BY <1>2, <1>4, <2>1
    <3> QED BY <3>1, <3>2, LevelStart
  <2>2. CASE fn # "create"
    <3>1. cs[1].target = target /\ cs[1].fn # "create" /\ target \in Contracts
      BY <1>2, <1>4, <2>2
    <3> QED BY <3>1, LevelStart
  <2> QED BY <2>1, <2>2
<1>11. out \in OutputType /\ Level(out, NoHistory, cs, 1) /\ TotalDelta(out) = value
  <2>1. PICK o : o = AddTxValueToAccount(NewVMOutput, target, value)
    OBVIOUS
  <2>2. /\ o \in OutputType /\ Level(o, NoHistory, cs, 1) /\ TotalDelta(o) = value
        /\ CacheCode(o, target) \in OutputType /\ Level(CacheCode(o, target), NoHistory, cs, 1)
        /\ TotalDelta(CacheCode(o, target)) = value
    BY <1>9, <1>10, <2>1, ReceivedLevel
  <2> QED BY <2>1, <2>2
<1>12. caller \in Known(NoHistory, cs, 1)
  BY <1>10, FutureFacts
<1>13. /\ output' = out /\ history' = NoHistory /\ runtime'.caller = caller /\ TxValue' = value
  <2>1. history' = NoHistory /\ runtimeStack' = <<>>
    BY DEF StartTransaction, RestInv, HostInv, IdleInv
  <2>2. output' = out /\ runtime'.caller = caller /\ runtime'.callValue = value
    BY DEF StartTransaction
  <2> QED BY <2>1, <2>2 DEF TxValue
<1>14. NoHistory \in HistoryType
  BY HistoryTyped, EmptySeq DEF NoHistory, HistoryType
<1>15. AllOuts'[1] = out /\ AllHists'[1] = NoHistory /\ AllCallers'[1] = caller
  BY <1>4, <1>13 DEF AllOuts, AllHists, AllCallers, Outs, Hists, Callers
<1>16. Rung(out, NoHistory, caller, cs, 1, value)
  BY <1>11, <1>12, <1>14 DEF Rung
<1>17. Grows(out, NoHistory, out, NoHistory)
  BY <1>11, GrowsSelf
<1>18. Ladder(cs, AllOuts', AllHists', AllCallers', codeUpdates', TxValue')
  <2>1. PICK oo, hh, cc : oo = AllOuts' /\ hh = AllHists' /\ cc = AllCallers'
    OBVIOUS
  <2>2. /\ Rung(oo[1], hh[1], cc[1], cs, 1, value) /\ Deployed(hh[1]) \subseteq codeUpdates'
        /\ Grows(oo[1], hh[1], oo[1], hh[1])
    BY <1>10, <1>15, <1>16, <1>17, <2>1
  <2>3. Ladder(cs, oo, hh, cc, codeUpdates', value)
    <3>1. 1 .. Len(cs) = {1} /\ 2 .. Len(cs) = {}
      BY <1>4
    <3> QED BY <2>2, <3>1 DEF Ladder
  <2> QED BY <1>13, <2>1, <2>3
<1>19. 1 .. Len(cs) - 1 = {}
  BY <1>4
<1>20. Remembered(cs, AllOuts', bigIntStack') /\ Pushed(cs, AllOuts', outputStack')
  BY <1>19 DEF Remembered, Pushed
<1> QED BY <1>4, <1>8, <1>18, <1>20 DEF ReportInv

(* The three entry points of a transaction.                                *)
LEMMA RunReports ==
  ASSUME HostInv, HostInv', RestInv, NEW caller \in Existing \ Contracts, NEW value \in Values
  PROVE  /\ \A target \in Addresses :
              RunSmartContractCall(caller, target, value) => ReportInv' /\ RestInv'
         /\ \A code \in NewCodes :
              RunSmartContractCreate(caller, value, code) => ReportInv' /\ RestInv'
         /\ \A target \in DOMAIN Owner, code \in NewCodes :
              RunSmartContractUpgrade(caller, target, value, code) => ReportInv' /\ RestInv'
<1>0. phase' = "running" => RestInv'
  BY DEF RestInv
<1>1. ASSUME NEW target \in Addresses, RunSmartContractCall(caller, target, value)
      PROVE  ReportInv' /\ RestInv'
  <2>1. PICK o : o = AddTxValueToAccount(NewVMOutput, target, value)
    OBVIOUS
  <2>2. CASE GetCode(o, target) # NoCode
    <3>1. /\ phase = "idle"
          /\ StartTransaction("call", caller, target, value, NoCode, CacheCode(o, target))
      BY <1>1, <2>1, <2>2 DEF RunSmartContractCall
    <3>2. target \in Contracts
      <4>1. NewVMOutput \in OutputType
        BY GoodNew, GoodIsTyped
      <4>2. o.accounts[target] = [NewVMOutput.accounts[target] EXCEPT !.delta = @ + value]
        BY <2>1, <4>1, SetAccountIs DEF AddTxValueToAccount
      <4>3. o.accounts[target].code = NoCode
        BY <4>2 DEF NewVMOutput, NewVMOutputAccount
      <4> QED BY <2>2, <4>3 DEF GetCode
    <3>3. "call" \in EntryPoints /\ NoCode \in Codes \cup {NoCode} /\ phase' = "running"
      BY <3>1 DEF EntryPoints, StartTransaction
    <3>4. PICK out : out = CacheCode(o, target)
      OBVIOUS
    <3>5. ReportInv'
      BY <2>1, <3>1, <3>2, <3>3, <3>4, StartReports
    <3> QED BY <1>0, <3>3, <3>5
  <2>3. CASE ~ (GetCode(o, target) # NoCode)
    <3>1. /\ phase = "idle" /\ phase' = "done"
          /\ vmOutput' = SetReturnCode(NewVMOutput, "ExecutionFailed")
          /\ UNCHANGED <<contexts, history>>
      BY <1>1, <2>1, <2>3 DEF RunSmartContractCall
    <3>2. output' = NewVMOutput /\ history' = NoHistory /\ runtime' = NoRuntime /\ runtimeStack' = <<>>
      BY <3>1 DEF RestInv, contexts, HostInv, IdleInv
    <3>3. vmOutput'.returnCode # "Ok"
      BY <3>1 DEF SetReturnCode, NewVMOutput
    <3>4. CreatedOnce'
      BY <3>2 DEF CreatedOnce, NoHistory
    <3>5. DeployedCodeIsReported'
      BY <3>3 DEF DeployedCodeIsReported, Succeeded
    <3>6. BalancesConserved'
      <4>1. TxValue' = 0
        BY <3>2 DEF TxValue, NoRuntime
      <4>2. TotalDelta(output') = 0
        BY <3>2, TotalStart
      <4> QED BY <3>3, <4>1, <4>2 DEF BalancesConserved, TotalDelta
    <3> QED BY <3>1, <3>4, <3>5, <3>6 DEF ReportInv, RestInv
  <2> QED BY <2>2, <2>3
<1>2. ASSUME NEW code \in NewCodes, RunSmartContractCreate(caller, value, code)
      PROVE  ReportInv' /\ RestInv'
  <2>1. PICK p : p = <<caller, CreationNonce(NewVMOutput, caller)>>
    OBVIOUS
  <2>2. PICK target, out : target = NewAddr[p] /\ out = AddTxValueToAccount(NewVMOutput, target, value)
    OBVIOUS
  <2>3. /\ phase = "idle" /\ p \in DOMAIN NewAddr
        /\ StartTransaction("create", caller, target, value, code, out)
    BY <1>2, <2>1, <2>2 DEF RunSmartContractCreate
  <2>4. target \in Addresses /\ code \in Codes \cup {NoCode} /\ code # NoCode
    BY <2>2, <2>3, HostAssumption
  <2>5. "create" \in EntryPoints /\ phase' = "running"
    BY <2>3 DEF EntryPoints, StartTransaction
  <2>6. ReportInv'
    BY <2>1, <2>2, <2>3, <2>4, <2>5, StartReports
  <2> QED BY <1>0, <2>5, <2>6
<1>3. ASSUME NEW target \in DOMAIN Owner, NEW code \in NewCodes,
             RunSmartContractUpgrade(caller, target, value, code)
      PROVE  ReportInv' /\ RestInv'
  <2>1. target \in Addresses /\ target \in Contracts /\ code \in Codes \cup {NoCode} /\ code # NoCode
    BY HostAssumption
  <2>2. PICK out : out = AddTxValueToAccount(NewVMOutput, target, value)
    OBVIOUS
  <2>3. phase = "idle" /\ StartTransaction("upgrade", caller, target, value, code, out)
    BY <1>3, <2>2 DEF RunSmartContractUpgrade
  <2>4. "upgrade" \in EntryPoints /\ phase' = "running"
    BY <2>3 DEF EntryPoints, StartTransaction
  <2>5. ReportInv'
    BY <2>1, <2>2, <2>3, <2>4, StartReports
  <2> QED BY <1>0, <2>4, <2>5
<1> QED BY <1>1, <1>2, <1>3

(* Codes of the updates survive GetVMOutput.                               *)
LEMMA UpdatesSurvive ==
  ASSUME NEW out \in OutputType, NEW t \in Addresses, NEW updates, NEW a \in Addresses,
         a \in updates
  PROVE  GetVMOutput(out, t, updates).accounts[a] = out.accounts[a]
<1>1. PICK o : o = GetOutputAccount(out, t)
  OBVIOUS
<1>2. o.accounts = out.accounts
  BY <1>1 DEF GetOutputAccount, OutputType
<1>3. o \in OutputType
  BY <1>1 DEF GetOutputAccount, OutputType
<1>4. RemoveNonUpdatedCode(o, updates).accounts[a] = o.accounts[a]
  BY <1>3 DEF RemoveNonUpdatedCode, OutputType
<1> QED BY <1>1, <1>2, <1>4 DEF GetVMOutput

(* The transaction ends.                                                   *)
LEMMA FinishTransactionReports ==
  ASSUME HostInv, HostInv', ReportInv, NEW ok \in BOOLEAN, FinishTransaction(ok)
  PROVE  ReportInv' /\ RestInv'
<1>1. /\ phase = "running" /\ phase' = "done" /\ Len(calls) = 1
      /\ UNCHANGED <<output, runtime, runtimeStack, codeUpdates>>
  BY DEF FinishTransaction, contexts
<1>2. /\ calls \in Seq(FrameType) /\ Shape(calls) /\ output \in OutputType /\ history \in HistoryType
      /\ Level(output, history, calls, 1) /\ TotalDelta(output) = TxValue
      /\ Deployed(history) \subseteq codeUpdates /\ runtime.scAddress \in Addresses
  BY <1>1, TopFacts
<1>3. PICK f : f = calls[1]
  OBVIOUS
<1>4. /\ f \in FrameType /\ f.target \in Addresses /\ f.code \in Codes \cup {NoCode}
      /\ f.fn \in EntryPoints
  BY <1>1, <1>2, <1>3, CallAt, 1 \in 1 .. 1
<1>5. TxValue' = TxValue /\ TotalDelta(output') = TxValue'
  BY <1>1, <1>2 DEF TxValue
<1>6. CASE ~ ok
  <2>1. vmOutput'.returnCode # "Ok" /\ history' = NoHistory
    BY <1>6 DEF FinishTransaction, SetReturnCode, NewVMOutput
  <2>2. CreatedOnce'
    BY <2>1 DEF CreatedOnce, NoHistory
  <2>3. DeployedCodeIsReported'
    BY <2>1 DEF DeployedCodeIsReported, Succeeded
  <2>4. BalancesConserved'
    BY <1>5, <2>1 DEF BalancesConserved, TotalDelta
  <2> QED BY <1>1, <2>2, <2>3, <2>4 DEF ReportInv, RestInv
<1>7. CASE ok
  <2>1. PICK out : out = IF f.fn # "call" THEN DeployCode(output, f.target, f.code) ELSE output
    OBVIOUS
  <2>2. PICK updates : updates = IF f.fn # "call" THEN codeUpdates \cup {f.target} ELSE codeUpdates
    OBVIOUS
  <2>3. PICK t \in Addresses : t = runtime.scAddress
    BY <1>2
  <2>4. PICK vo, h2 : vo = GetVMOutput(out, t, updates) /\ h2 = Committed(history, f)
    OBVIOUS
  <2>5. vmOutput' = vo /\ history' = h2
    BY <1>3, <1>7, <2>1, <2>2, <2>3, <2>4 DEF FinishTransaction, Commit, Committed
  <2>6. out \in OutputType /\ Even(output, out)
    <3>1. DeployCode(output, f.target, f.code) \in OutputType
      BY <1>2, <1>4, CodeTyped
    <3>2. Even(output, DeployCode(output, f.target, f.code)) /\ Even(output, output)
      BY <1>2, <1>4, EvenOps DEF Even
    <3> QED BY <1>2, <2>1, <3>1, <3>2
  <2>7. \A a \in Addresses :
          /\ h2.created[a] = IF a = f.target /\ f.fn = "create" THEN history.created[a] + 1
                             ELSE history.created[a]
          /\ h2.deployed[a] = IF a = f.target /\ f.fn # "call" THEN f.code ELSE history.deployed[a]
    BY <1>2, <1>4, <2>4, CommittedIs
  <2>8. \A a \in Addresses : h2.created[a] <= 1
    <3> TAKE a \in Addresses
    <3>1. CASE a = f.target /\ f.fn = "create"
      <4>1. a \in Making(calls, 1)
        BY <1>3, <3>1, 1 \in 1 .. 1 DEF Making
      <4>2. history.created[a] = 0
        BY <1>2, <4>1 DEF Level
      <4> QED BY <2>7, <3>1, <4>2
    <3>2. CASE ~ (a = f.target /\ f.fn = "create")
      BY <1>2, <2>7, <3>2 DEF Level, Reports
    <3> QED BY <3>1, <3>2
  <2>9. ASSUME NEW a \in Addresses, h2.deployed[a] # NoCode
        PROVE  vo.accounts[a].code = h2.deployed[a]
    <3>1. CASE a = f.target /\ f.fn # "call"
      <4>1. a \in updates
        BY <2>2, <3>1
      <4>2. vo.accounts[a] = out.accounts[a]
        BY <2>4, <2>6, <4>1, UpdatesSurvive
      <4>3. out.accounts[a].code = f.code
        <5>1. PICK acc : acc = [output.accounts[a] EXCEPT !.code = f.code]
          OBVIOUS
        <5>2. acc.code = f.code
          BY <1>2, <1>4, <5>1, TransfersTyped, AccountFields
        <5>3. out = SetAccount(output, a, acc)
          BY <2>1, <3>1, <5>1 DEF DeployCode
        <5> QED BY <1>2, <5>2, <5>3, SetAccountIs
      <4> QED BY <2>7, <3>1, <4>2, <4>3
    <3>2. CASE ~ (a = f.target /\ f.fn # "call")
      <4>1. history.deployed[a] # NoCode /\ h2.deployed[a] = history.deployed[a]
        BY <2>7, <2>9, <3>2
      <4>2. a \in codeUpdates /\ output.accounts[a].code = history.deployed[a]
        BY <1>2, <4>1 DEF Deployed, Level, Reports
      <4>3. a \in updates
        BY <2>2, <4>2
      <4>4. vo.accounts[a] = out.accounts[a]
        BY <2>4, <2>6, <4>3, UpdatesSurvive
      <4>5. out.accounts[a] = output.accounts[a]
        <5>1. CASE f.fn = "call"
          BY <2>1, <5>1
        <5>2. CASE f.fn # "call"
          BY <1>2, <1>4, <2>1, <3>2, <5>2, SetAccountIs DEF DeployCode
        <5> QED BY <5>1, <5>2
      <4> QED BY <4>1, <4>2, <4>4, <4>5
    <3> QED BY <3>1, <3>2
  <2>10. TotalDelta(vo) = TxValue
    <3>1. Even(out, vo)
      BY <2>4, <2>6, EvenOps
    <3> QED BY <1>2, <2>6, <3>1, EvenTotal
  <2>11. CreatedOnce'
    BY <2>5, <2>8 DEF CreatedOnce
  <2>12. DeployedCodeIsReported'
    BY <2>5, <2>9 DEF DeployedCodeIsReported
  <2>13. BalancesConserved'
    BY <1>5, <2>5, <2>10 DEF BalancesConserved, TotalDelta
  <2> QED BY <1>1, <2>11, <2>12, <2>13 DEF ReportInv, RestInv
<1> QED BY <1>6, <1>7

-----------------------------------------------------------------------------
ReportsInv == HostInv /\ ReportInv /\ RestInv

(* The initial state.                                                      *)
LEMMA ReportsInit == Init => ReportsInv
  BY HostInit DEF Init, ReportsInv, ReportInv, RestInv

(* Every action keeps the invariant.                                       *)
LEMMA ReportsStep ==
  ASSUME ConstructorsCallNobody, NoValueAhead
  PROVE  ReportsInv /\ [Next]_vars => ReportsInv'
<1> SUFFICES ASSUME ReportsInv, [Next]_vars PROVE ReportsInv'
  OBVIOUS
<1>1. HostInv /\ ReportInv /\ RestInv /\ HostInv'
  BY HostStep DEF ReportsInv
<1>2. phase' = "running" => RestInv'
  BY DEF RestInv
<1>3. ASSUME NEW c \in Addresses, NEW a \in Addresses, NEW v \in Values,
             c \in Existing \ Contracts, RunSmartContractCall(c, a, v)
      PROVE  ReportInv' /\ RestInv'
  BY <1>1, <1>3, RunReports
<1>4. ASSUME NEW c \in Addresses, NEW v \in Values, NEW code \in NewCodes,
             c \in Existing \ Contracts, RunSmartContractCreate(c, v, code)
      PROVE  ReportInv' /\ RestInv'
  BY <1>1, <1>4, RunReports
<1>5. ASSUME NEW c \in Addresses, NEW a \in DOMAIN Owner, NEW v \in Values, NEW code \in NewCodes,
             c \in Existing \ Contracts, RunSmartContractUpgrade(c, a, v, code)
      PROVE  ReportInv' /\ RestInv'
  BY <1>1, <1>5, RunReports
<1>6. ASSUME NEW v \in Values, SetStorage(v) \/ SetBigInt(v)
      PROVE  ReportInv' /\ RestInv'
  <2>1. phase' = "running"
    BY <1>6 DEF SetStorage, SetBigInt, Executing
  <2> QED BY <1>1, <1>2, <1>6, <2>1, SetStorageReports, SetBigIntReports
<1>7. ASSUME NEW a \in Targets, NEW v \in Values, NEW withGas \in BOOLEAN, TransferValue(a, v, withGas)
      PROVE  ReportInv' /\ RestInv'
  <2>1. phase' = "running"
    BY <1>7 DEF TransferValue, Executing
  <2> QED BY <1>1, <1>2, <1>7, <2>1, TransferReports
<1>8. ASSUME NEW strict \in {"yes", "no"}, NEW c \in Addresses, NEW a \in Addresses, NEW v \in Values,
             NEW code \in NewCodes \cup {NoCode}, ExecuteOnDestContext(strict, c, a, v, code)
      PROVE  ReportInv' /\ RestInv'
  <2>1. phase' = "running"
    BY <1>8 DEF ExecuteOnDestContext, Executing
  <2> QED BY <1>1, <1>2, <1>8, <2>1, ExecuteOnDestContextReports
<1>9. ASSUME NEW kind \in {"same", "readOnly"}, NEW a \in Addresses, NEW v \in Values,
             NEW code \in NewCodes \cup {NoCode}, ExecuteOnSameContext(kind, a, v, code)
      PROVE  ReportInv' /\ RestInv'
  <2>1. phase' = "running"
    BY <1>9 DEF ExecuteOnSameContext, Executing
  <2> QED BY <1>1, <1>2, <1>9, <2>1, ExecuteOnSameContextReports
<1>10. ASSUME NEW v \in Values, NEW code \in NewCodes, CreateNewContract(v, code)
       PROVE  ReportInv' /\ RestInv'
  <2>1. phase' = "running"
    BY <1>10 DEF CreateNewContract, Executing
  <2> QED BY <1>1, <1>2, <1>10, <2>1, CreateNewContractReports
<1>11. ASSUME FinishExecuteOnDestContext \/ FinishExecuteOnSameContext \/ FailCall
       PROVE  ReportInv' /\ RestInv'
  <2>1. phase' = "running"
    BY <1>11 DEF FinishExecuteOnDestContext, FinishExecuteOnSameContext, FailCall, InCall
  <2>2. ReportInv'
    BY <1>1, <1>11, FinishCallOnDestReports, FinishCreationReports, FinishOnSameReports, FailCallReports
  <2> QED BY <1>2, <2>1, <2>2
<1>12. ASSUME NEW ok \in BOOLEAN, FinishTransaction(ok)
       PROVE  ReportInv' /\ RestInv'
  BY <1>1, <1>12, FinishTransactionReports
<1>13. CASE UNCHANGED vars
  <2>1. ReportInv'
    BY <1>1, <1>13 DEF ReportInv, AllOuts, AllHists, AllCallers, TxValue, vars
  <2>2. RestInv'
    BY <1>1, <1>13 DEF RestInv, CreatedOnce, DeployedCodeIsReported, Succeeded, BalancesConserved,
       TotalDelta, TxValue, vars
  <2> QED BY <1>1, <2>1, <2>2 DEF ReportsInv
<1>14. CASE Next
  <2>1. ReportInv' /\ RestInv'
    BY <1>3, <1>4, <1>5, <1>6, <1>7, <1>8, <1>9, <1>10, <1>11, <1>12, <1>14 DEF Next
  <2> QED BY <1>1, <2>1 DEF ReportsInv
<1> QED BY <1>13, <1>14

(* The frame of a failed call remembers what its caller finds.             *)
LEMMA FailCallRestores ==
  ASSUME ReportsInv, HostInv', FailCall
  PROVE  Last(calls).before =
           [accounts |-> output'.accounts, bigInts |-> bigInts',
            scAddress |-> runtime'.scAddress, storageAddr |-> storageAddr']
<1> DEFINE kinds == {"dest", "same", "readOnly"}
<1>1. /\ HostInv /\ ReportInv /\ phase = "running" /\ phase' = "running" /\ InCall(kinds)
      /\ calls' = Front(calls) /\ bigInts' = Last(bigIntStack)
  BY DEF FailCall, InCall, ReportsInv
<1>2. PICK m \in Nat :
         /\ m >= 1 /\ Len(calls) = m + 1 /\ Last(calls) = calls[m + 1]
         /\ Last(bigIntStack) = bigIntStack[m] /\ AllOuts[m] \in OutputType
         /\ AllOuts[m] = Undo(Last(outputStack), Last(calls))
  BY <1>1, BelowFacts
<1>3. Len(calls') = m /\ \A i \in 1 .. m : calls'[i] = calls[i]
  <2>1. calls \in Seq(FrameType) /\ (m + 1) - 1 = m
    BY <1>1, TopFacts
  <2>2. calls # <<>>
    BY <1>2, Len(<<>>) = 0
  <2> QED BY <1>1, <1>2, <2>1, <2>2, StackPop
<1>4. Last(calls).before = [accounts |-> AllOuts[m].accounts, bigInts |-> bigIntStack[m],
                            scAddress |-> calls[m].target,
                            storageAddr |-> calls[Max(Own(calls, m))].target]
  <2>1. m \in 1 .. Len(calls) - 1
    BY <1>2
  <2> QED BY <1>1, <1>2, <2>1 DEF ReportInv, Remembered
<1>5. output'.accounts = AllOuts[m].accounts
  <2>1. PICK o : o = AllOuts[m]
    OBVIOUS
  <2>2. output' = o \/ output' = SetReturnCode(o, "ExecutionFailed")
    BY <1>2, <2>1 DEF FailCall, OutputAfterFailure, Undo
  <2>3. SetReturnCode(o, "ExecutionFailed").accounts = o.accounts
    BY <1>2, <2>1 DEF SetReturnCode, OutputType
  <2> QED BY <2>1, <2>2, <2>3
<1>6. /\ Nest(calls', storageStack', storageAddr') /\ runtime'.scAddress = calls'[Len(calls')].target
  BY <1>1 DEF HostInv, NestInv
<1>7. runtime'.scAddress = calls[m].target
  <2>1. m \in 1 .. m
    BY <1>2
  <2> QED BY <1>3, <1>6, <2>1
<1>8. storageAddr' = calls[Max(Own(calls, m))].target
  <2>1. Own(calls', m) = Own(calls, m)
    <3>1. m \in 0 .. m /\ \A j \in 1 .. m : calls'[j] = calls[j]
      BY <1>3
    <3> QED BY <3>1, OwnSame
  <2>2. Max(Own(calls, m)) \in 1 .. m
    <3>1. calls[1].kind = "root" /\ m \in 1 .. m
      BY <1>1, <1>2 DEF HostInv, NestInv, Nest, Rooted
    <3> QED BY <1>2, <3>1, OwnFacts
  <2>3. storageAddr' = calls'[Max(Own(calls', m))].target
    BY <1>3, <1>6 DEF Nest
  <2> QED BY <1>3, <2>1, <2>2, <2>3
<1> QED BY <1>1, <1>2, <1>4, <1>5, <1>7, <1>8

(* No other step looks like the failure of a call.                         *)
LEMMA OnlyFailCallFails ==
  ASSUME HostInv, Next, phase = "running", phase' = "running",
         Len(calls') < Len(calls), ret' = "failed"
  PROVE  FailCall
<1>1. calls \in Seq(FrameType) /\ Len(calls) \in Nat
  BY LenProperties DEF HostInv, TypeOK
<1>2. calls' # calls
  BY <1>1
<1>3. ASSUME NEW f PROVE calls' # Append(calls, f)
  <2>1. Len(Append(calls, f)) = Len(calls) + 1
    BY <1>1, AppendProperties
  <2> QED BY <1>1, <2>1
<1>4. \A v : ~ SetStorage(v) /\ ~ SetBigInt(v)
  BY DEF SetStorage, SetBigInt
<1>5. \A a, v, g : ~ TransferValue(a, v, g)
  BY <1>2 DEF TransferValue
<1>6. \A s, c, a, v, code : ~ ExecuteOnDestContext(s, c, a, v, code)
  BY <1>2, <1>3 DEF ExecuteOnDestContext, Refused
<1>7. \A k, a, v, code : ~ ExecuteOnSameContext(k, a, v, code)
  BY <1>2, <1>3 DEF ExecuteOnSameContext, Refused
<1>8. \A v, code : ~ CreateNewContract(v, code)
  BY <1>2, <1>3 DEF CreateNewContract, Refused
<1>9. ~ FinishExecuteOnDestContext /\ ~ FinishExecuteOnSameContext
  BY DEF FinishExecuteOnDestContext, FinishExecuteOnSameContext
<1>10. \A ok : ~ FinishTransaction(ok)
  BY DEF FinishTransaction
<1>11. /\ \A c, a, v : ~ RunSmartContractCall(c, a, v)
       /\ \A c, v, code : ~ RunSmartContractCreate(c, v, code)
       /\ \A c, a, v, code : ~ RunSmartContractUpgrade(c, a, v, code)
  BY DEF RunSmartContractCall, RunSmartContractCreate, RunSmartContractUpgrade
<1> QED BY <1>4, <1>5, <1>6, <1>7, <1>8, <1>9, <1>10, <1>11 DEF Next

(* ReportsInv is inductive.                                                *)
THEOREM ReportsInvariant ==
  ASSUME ConstructorsCallNobody, NoValueAhead
  PROVE  Spec => []ReportsInv
<1>1. ReportsInv /\ [Next]_vars => ReportsInv'
  BY ReportsStep
<1> QED BY <1>1, ReportsInit, PTL DEF Spec

(* "Restore contexts as if the execution didn't happen": when a call fails *)
(* at any depth, after whatever calls, creations and upgrades of its own,  *)
(* its caller finds accounts, big integers, address and storage as they    *)
(* were.                                                                   *)
THEOREM FailuresAreUndone ==
  ASSUME ConstructorsCallNobody, NoValueAhead
  PROVE  Spec => FailedCallRestores
<1> DEFINE Restored ==
      phase = "running" /\ phase' = "running" /\ Len(calls') < Len(calls) /\ ret' = "failed" =>
        Last(calls).before =
          [accounts |-> output'.accounts, bigInts |-> bigInts',
           scAddress |-> runtime'.scAddress, storageAddr |-> storageAddr']
<1>1. ReportsInv /\ [Next]_vars => [Restored]_vars
  <2> SUFFICES ASSUME ReportsInv, Next, phase = "running", phase' = "running",
                      Len(calls') < Len(calls), ret' = "failed"
               PROVE  Last(calls).before =
                        [accounts |-> output'.accounts, bigInts |-> bigInts',
                         scAddress |-> runtime'.scAddress, storageAddr |-> storageAddr']
    OBVIOUS
  <2>1. HostInv /\ HostInv'
    BY HostStep DEF ReportsInv
  <2>2. FailCall
    BY <2>1, OnlyFailCallFails
  <2> QED BY <2>1, <2>2, FailCallRestores
<1>2. Spec => []ReportsInv
  BY ReportsInvariant
<1> QED BY <1>1, <1>2, PTL DEF Spec, FailedCallRestores

(* The transfers, creations and deployments of the calls that did not fail *)
(* are in the output exactly, in spite of merging, undoing and the removal *)
(* of code that was only read.                                             *)
THEOREM OutputIsTheHistory ==
  ASSUME ConstructorsCallNobody, NoValueAhead
  PROVE  Spec => []SuccessIsReported
<1>1. ReportsInv => SuccessIsReported
  <2> SUFFICES ASSUME ReportsInv PROVE SuccessIsReported
    OBVIOUS
  <2>1. HostInv /\ ReportInv /\ RestInv /\ phase \in {"idle", "running", "done"}
    BY DEF ReportsInv, HostInv, TypeOK
  <2>2. CASE phase = "running"
    <3>1. Reports(output, history)
      BY <2>1, <2>2, TopFacts DEF Level
    <3> QED BY <2>2, <3>1 DEF Reports, SuccessIsReported, TransfersReportedOnce, CreatedOnce,
               DeployedCodeIsReported, Succeeded
  <2>3. CASE phase = "idle"
    BY <2>1, <2>3 DEF RestInv, NoHistory, SuccessIsReported, TransfersReportedOnce, CreatedOnce,
       DeployedCodeIsReported, Succeeded
  <2>4. CASE phase = "done"
    BY <2>1, <2>4 DEF RestInv, SuccessIsReported, TransfersReportedOnce
  <2> QED BY <2>1, <2>2, <2>3, <2>4
<1>2. Spec => []ReportsInv
  BY ReportsInvariant
<1> QED BY <1>1, <1>2, PTL

(* The value that came with the transaction is what all accounts gain      *)
(* together, in every state of the transaction and in its VMOutput.        *)
THEOREM ValueIsConserved ==
  ASSUME ConstructorsCallNobody, NoValueAhead
  PROVE  Spec => []BalancesConserved
<1>1. ReportsInv => BalancesConserved
  <2> SUFFICES ASSUME ReportsInv PROVE BalancesConserved
    OBVIOUS
  <2>1. HostInv /\ ReportInv /\ RestInv /\ phase \in {"idle", "running", "done"}
    BY DEF ReportsInv, HostInv, TypeOK
  <2>2. CASE phase = "running"
    BY <2>1, <2>2, TopFacts DEF BalancesConserved
  <2>3. CASE phase = "idle"
    <3>1. TxValue = 0
      BY <2>1, <2>3 DEF RestInv, HostInv, IdleInv, TxValue, NoRuntime
    <3>2. TotalDelta(output) = 0
      BY <2>1, <2>3, TotalStart DEF RestInv
    <3> QED BY <2>3, <3>1, <3>2 DEF BalancesConserved
  <2>4. CASE phase = "done"
    BY <2>1, <2>4 DEF RestInv
  <2> QED BY <2>1, <2>2, <2>3, <2>4
<1>2. Spec => []ReportsInv
  BY ReportsInvariant
<1> QED BY <1>1, <1>2, PTL
=============================================================================
