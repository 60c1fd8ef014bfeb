----------------------------- MODULE SumProofs -----------------------------
(***************************************************************************)
(* What SumFunction computes: the lemmas behind every property that adds   *)
(* up an amount over accounts or keys.                                     *)
(*                                                                         *)
(* The fold takes the elements in an order that CHOOSE fixes.  Its         *)
(* recursive function exists on every finite set, and the order does not   *)
(* matter; both are shown by looking at a smallest counterexample, because *)
(* NatLessThanWellFounded has no operator as a parameter.                  *)
(***************************************************************************)
EXTENDS Functions, FiniteSetsExt, TLAPS, FiniteSetTheorems, WellFoundedInduction

(* A set of natural numbers that is not empty has a smallest element.      *)
LEMMA SmallestNumber ==
  ASSUME NEW T \in SUBSET Nat, T # {}
  PROVE  \E k \in T : \A j \in T : j >= k
<1>1. PICK k \in T : \A j \in T : ~ (<<j, k>> \in OpToRel(<, Nat))
  BY WFMin, NatLessThanWellFounded
<1>2. ASSUME NEW j \in T, j < k PROVE FALSE
  <2>1. <<j, k>> \in Nat \X Nat /\ <<j, k>>[1] < <<j, k>>[2]
    BY <1>2
  <2>2. <<j, k>> \in OpToRel(<, Nat)
    BY <2>1 DEF OpToRel
  <2> QED BY <1>1, <2>2
<1>3. \A j \in T : j >= k
  BY <1>2
<1> QED BY <1>3

(* A bounded set of numbers that is not empty has a maximum.               *)
LEMMA MaxExists ==
  ASSUME NEW n \in Nat, NEW S \in SUBSET (0 .. n), S # {}
  PROVE  Max(S) \in S /\ \A y \in S : Max(S) >= y
<1> DEFINE T == {k \in Nat : n - k \in S}
<1>1. T \in SUBSET Nat /\ T # {}
  <2>1. PICK x \in S : TRUE
    OBVIOUS
  <2>2. n - x \in Nat /\ n - (n - x) = x
    BY <2>1
  <2> QED BY <2>1, <2>2
<1>2. PICK k \in T : \A j \in T : ~ (<<j, k>> \in OpToRel(<, Nat))
  BY <1>1, WFMin, NatLessThanWellFounded
<1>k. k \in Nat
  OBVIOUS
<1>3. \A j \in T : j >= k
  <2> SUFFICES ASSUME NEW j \in T, j < k PROVE FALSE
    BY <1>k
  <2>1. <<j, k>> \in Nat \X Nat
    BY <1>k
  <2>2. <<j, k>>[1] < <<j, k>>[2]
    OBVIOUS
  <2>3. <<j, k>> \in OpToRel(<, Nat)
    BY <2>1, <2>2 DEF OpToRel
  <2> QED BY <1>2, <2>3
<1>4. n - k \in S
  OBVIOUS
<1>5. \A y \in S : n - k >= y
  <2> TAKE y \in S
  <2>1. y \in 0 .. n /\ n - y \in Nat /\ n - (n - y) = y
    OBVIOUS
  <2>2. n - y \in T
    BY <2>1
  <2>3. n - y >= k
    BY <1>3, <2>2
  <2> QED BY <2>1, <2>3, <1>k
<1> QED BY <1>4, <1>5 DEF Max

(* A family of finite sets that is not empty has a member of least size.   *)
LEMMA SmallestSet ==
  ASSUME NEW F, F # {}, \A s \in F : IsFiniteSet(s)
  PROVE  \E s \in F : \A t : IsFiniteSet(t) /\ Cardinality(t) < Cardinality(s) => t \notin F
<1> DEFINE T == {Cardinality(s) : s \in F}
<1>1. T \in SUBSET Nat /\ T # {}
  BY FS_CardinalityType
<1>2. PICK k \in T : \A j \in T : j >= k
  BY <1>1, SmallestNumber
<1>3. PICK s \in F : k = Cardinality(s)
  BY <1>2
<1>4. ASSUME NEW t \in F PROVE Cardinality(t) >= Cardinality(s)
  BY <1>2, <1>3
<1>5. \A t \in F : Cardinality(t) \in Nat
  BY FS_CardinalityType
<1> QED BY <1>4, <1>5

(* Taking an element away.                                                 *)
LEMMA OneLess ==
  ASSUME NEW s, IsFiniteSet(s), NEW x \in s
  PROVE  IsFiniteSet(s \ {x}) /\ Cardinality(s \ {x}) < Cardinality(s)
<1>1. IsFiniteSet(s \ {x})
  BY FS_Subset
<1>2. Cardinality(s) \in Nat /\ Cardinality(s \ {x}) = Cardinality(s) - 1
  BY FS_RemoveElement, FS_CardinalityType
<1> QED BY <1>1, <1>2

-----------------------------------------------------------------------------
(* The recursive function of the fold.                                     *)

Picked(s) == CHOOSE x \in s : TRUE
SumStep(f, s, g) == IF s = {} THEN 0 ELSE f[Picked(s)] + g[s \ {Picked(s)}]
Adds(g, f, S) == g = [s \in SUBSET S |-> SumStep(f, s, g)]

(* SumFunctionOnSet is the value that the recursive function has.          *)
LEMMA SumIsFold ==
  ASSUME NEW f, NEW S
  PROVE  SumFunctionOnSet(f, S) = (CHOOSE g : Adds(g, f, S))[S]
  BY Zenon DEF SumFunctionOnSet, FoldFunctionOnSet, MapThenFoldSet, Adds, SumStep, Picked

(* CHOOSE takes an element of the set.                                     *)
LEMMA PickedIsElement == ASSUME NEW s, s # {} PROVE Picked(s) \in s
  BY DEF Picked

(* The recursive function of a set, cut to a subset, is that of the subset.*)
LEMMA AddsOnSubset ==
  ASSUME NEW f, NEW S, NEW g, Adds(g, f, S), NEW T \in SUBSET S
  PROVE  Adds([s \in SUBSET T |-> g[s]], f, T)
<1> DEFINE h == [s \in SUBSET T |-> g[s]]
<1>1. \A s \in SUBSET T : h[s] = g[s] /\ g[s] = SumStep(f, s, g)
  BY DEF Adds
<1>2. ASSUME NEW s \in SUBSET T PROVE SumStep(f, s, g) = SumStep(f, s, h)
  <2>1. CASE s = {}
    BY <2>1 DEF SumStep
  <2>2. CASE s # {}
    <3>1. s \ {Picked(s)} \in SUBSET T
      OBVIOUS
    <3>2. h[s \ {Picked(s)}] = g[s \ {Picked(s)}]
      BY <1>1, <3>1
    <3> HIDE DEF h
    <3> QED BY <2>2, <3>2 DEF SumStep
  <2> QED BY <2>1, <2>2
<1>3. h = [s \in SUBSET T |-> SumStep(f, s, h)]
  BY <1>1, <1>2
<1> QED BY <1>3 DEF Adds

(* Two recursive functions of the same finite set agree.                   *)
LEMMA AddsIsUnique ==
  ASSUME NEW f, NEW S, IsFiniteSet(S), NEW g, Adds(g, f, S), NEW h, Adds(h, f, S)
  PROVE  g = h
<1> DEFINE F == {s \in SUBSET S : g[s] # h[s]}
<1>1. SUFFICES F = {}
  <2>1. /\ g = [s \in SUBSET S |-> g[s]] /\ h = [s \in SUBSET S |-> h[s]]
    BY DEF Adds
  <2>2. \A s \in SUBSET S : g[s] = h[s]
    BY <1>1
  <2> QED BY <2>1, <2>2
<1>2. SUFFICES ASSUME F # {} PROVE FALSE
  OBVIOUS
<1>3. \A s \in F : IsFiniteSet(s)
  BY FS_Subset
<1>4. PICK s \in F : \A t : IsFiniteSet(t) /\ Cardinality(t) < Cardinality(s) => t \notin F
  BY <1>2, <1>3, SmallestSet
<1>5. g[s] = SumStep(f, s, g) /\ h[s] = SumStep(f, s, h) /\ s \in SUBSET S
  BY DEF Adds
<1>6. s # {}
  BY <1>5 DEF SumStep
<1>7. PICK x \in s : x = Picked(s)
  BY <1>6, PickedIsElement
<1>8. s \ {x} \notin F
  BY <1>3, <1>4, OneLess
<1>9. g[s \ {x}] = h[s \ {x}]
  BY <1>5, <1>8
<1>10. g[s] = h[s]
  BY <1>5, <1>6, <1>7, <1>9 DEF SumStep
<1> QED BY <1>10

(* Every finite set has such a recursive function.                         *)
LEMMA AddsExists ==
  ASSUME NEW f, NEW S, IsFiniteSet(S)
  PROVE  \E g : Adds(g, f, S)
<1> DEFINE F == {s \in SUBSET S : ~ \E g : Adds(g, f, s)}
<1>1. SUFFICES ASSUME F # {} PROVE FALSE
  OBVIOUS
<1>2. \A s \in SUBSET S : IsFiniteSet(s)
  BY FS_Subset
<1>3. PICK m \in F : \A t : IsFiniteSet(t) /\ Cardinality(t) < Cardinality(m) => t \notin F
  BY <1>1, <1>2, SmallestSet
<1> DEFINE Part(s) == CHOOSE g : Adds(g, f, s)
           h == [s \in SUBSET m |-> IF s = {} THEN 0
                   ELSE f[Picked(s)] + Part(s \ {Picked(s)})[s \ {Picked(s)}]]
<1>4. ASSUME NEW s \in SUBSET m, s # m PROVE IsFiniteSet(s) /\ Adds(Part(s), f, s)
  <2>1. PICK x \in m : s \in SUBSET (m \ {x})
    BY <1>4
  <2>2. IsFiniteSet(m \ {x}) /\ Cardinality(m \ {x}) < Cardinality(m)
    BY <1>2, OneLess
  <2>3. m \ {x} \notin F
    BY <1>3, <2>2
  <2>4. PICK g : Adds(g, f, m \ {x})
    BY <2>3
  <2>5. \E k : Adds(k, f, s)
    BY <2>1, <2>4, AddsOnSubset
  <2> QED BY <1>2, <2>5
<1>5. ASSUME NEW s \in SUBSET m, s # m PROVE Part(s)[s] = h[s]
  <2>1. Part(s)[s] = SumStep(f, s, Part(s))
    BY <1>4, <1>5 DEF Adds
  <2>2. CASE s = {}
    BY <2>1, <2>2 DEF SumStep
  <2>3. CASE s # {}
    <3>1. PICK x \in s : x = Picked(s)
      BY <2>3, PickedIsElement
    <3>2. PICK t \in SUBSET s : t = s \ {x} /\ t # m /\ t \in SUBSET m
      BY <1>5
    <3>3. Adds([u \in SUBSET t |-> Part(s)[u]], f, t)
      BY <1>4, <1>5, <3>2, AddsOnSubset
    <3>4. Adds(Part(t), f, t) /\ IsFiniteSet(t)
      BY <1>4, <3>2
    <3>5. Part(t) = [u \in SUBSET t |-> Part(s)[u]]
      <4> HIDE DEF Part
      <4> QED BY <3>3, <3>4, AddsIsUnique
    <3>6. Part(t)[t] = Part(s)[t]
      <4> HIDE DEF Part
      <4> QED BY <3>5
    <3>7. h[s] = f[x] + Part(t)[t]
      BY <2>3, <3>1, <3>2
    <3>8. SumStep(f, s, Part(s)) = f[x] + Part(s)[t]
      BY <2>3, <3>1, <3>2 DEF SumStep
    <3> HIDE DEF h, Part
    <3> QED BY <2>1, <3>6, <3>7, <3>8
  <2> QED BY <2>2, <2>3
<1>6. ASSUME NEW s \in SUBSET m PROVE h[s] = SumStep(f, s, h)
  <2>1. CASE s = {}
    BY <2>1 DEF SumStep
  <2>2. CASE s # {}
    <3>1. PICK x \in s : x = Picked(s)
      BY <2>2, PickedIsElement
    <3>2. PICK t \in SUBSET m : t = s \ {x} /\ t # m
      <4>1. s \ {x} \in SUBSET m /\ s \ {x} # m
        OBVIOUS
      <4> QED BY <4>1
    <3>3. h[s] = f[x] + Part(t)[t]
      BY <2>2, <3>1, <3>2
    <3>4. Part(t)[t] = h[t]
      BY <1>5, <3>2
    <3> HIDE DEF h, Part
    <3> QED BY <2>2, <3>1, <3>2, <3>3, <3>4 DEF SumStep
  <2> QED BY <2>1, <2>2
<1>7. h = [s \in SUBSET m |-> h[s]]
  OBVIOUS
<1> HIDE DEF h
<1>8. h = [s \in SUBSET m |-> SumStep(f, s, h)]
  BY <1>6, <1>7
<1>9. Adds(h, f, m)
  BY <1>8 DEF Adds
<1> QED BY <1>3, <1>9

-----------------------------------------------------------------------------
(* Sums over finite sets.                                                  *)

(* The sum over a set is the picked element's value and the sum over the   *)
(* others.                                                                 *)
LEMMA SumUnfolds ==
  ASSUME NEW f, NEW S, IsFiniteSet(S)
  PROVE  /\ S = {} => SumFunctionOnSet(f, S) = 0
         /\ S # {} => SumFunctionOnSet(f, S)
                        = f[Picked(S)] + SumFunctionOnSet(f, S \ {Picked(S)})
<1> DEFINE Whole(s) == CHOOSE g : Adds(g, f, s)
<1>1. \A s : IsFiniteSet(s) => Adds(Whole(s), f, s)
  BY AddsExists
<1>2. \A s : SumFunctionOnSet(f, s) = Whole(s)[s]
  BY SumIsFold
<1>3. Whole(S)[S] = SumStep(f, S, Whole(S))
  <2>1. Adds(Whole(S), f, S)
    BY <1>1
  <2> HIDE DEF Whole
  <2> QED BY <2>1 DEF Adds
<1>4. CASE S = {}
  BY <1>2, <1>3, <1>4 DEF SumStep
<1>5. CASE S # {}
  <2>1. PICK t \in SUBSET S : t = S \ {Picked(S)}
    OBVIOUS
  <2>2. IsFiniteSet(t)
    BY FS_Subset
  <2>3. Adds([u \in SUBSET t |-> Whole(S)[u]], f, t) /\ Adds(Whole(t), f, t)
    BY <1>1, <2>1, <2>2, AddsOnSubset
  <2> HIDE DEF Whole
  <2>4. Whole(t) = [u \in SUBSET t |-> Whole(S)[u]]
    BY <2>2, <2>3, AddsIsUnique
  <2>5. Whole(t)[t] = Whole(S)[t]
    BY <2>4
  <2> QED BY <1>2, <1>3, <1>5, <2>1, <2>5 DEF SumStep
<1> QED BY <1>4, <1>5

(* Sums of integers are integers.                                          *)
LEMMA SumIsInt ==
  ASSUME NEW S, IsFiniteSet(S), NEW f, \A x \in S : f[x] \in Int
  PROVE  SumFunctionOnSet(f, S) \in Int
<1> DEFINE F == {s \in SUBSET S : SumFunctionOnSet(f, s) \notin Int}
<1>1. SUFFICES ASSUME F # {} PROVE FALSE
  <2>1. S \notin F
    BY <1>1
  <2> QED BY <2>1
<1>2. \A s \in SUBSET S : IsFiniteSet(s)
  BY FS_Subset
<1>3. PICK m \in F : \A t : IsFiniteSet(t) /\ Cardinality(t) < Cardinality(m) => t \notin F
  BY <1>1, <1>2, SmallestSet
<1>4. m # {}
  <2>1. IsFiniteSet({}) /\ 0 \in Int
    BY FS_EmptySet
  <2>2. SumFunctionOnSet(f, {}) = 0
    BY <2>1, SumUnfolds
  <2> QED BY <2>1, <2>2
<1>5. PICK x \in m : x = Picked(m)
  BY <1>4, PickedIsElement
<1>6. m \ {x} \in SUBSET S /\ m \ {x} \notin F
  BY <1>2, <1>3, OneLess
<1>7. SumFunctionOnSet(f, m) = f[x] + SumFunctionOnSet(f, m \ {x})
  BY <1>2, <1>4, <1>5, SumUnfolds
<1>8. f[x] \in Int /\ SumFunctionOnSet(f, m \ {x}) \in Int
  BY <1>6
<1> QED BY <1>7, <1>8

(* Functions that agree on a set have the same sum over it.                *)
LEMMA SumAgrees ==
  ASSUME NEW S, IsFiniteSet(S), NEW f, NEW g, \A x \in S : f[x] = g[x]
  PROVE  SumFunctionOnSet(f, S) = SumFunctionOnSet(g, S)
<1> DEFINE F == {s \in SUBSET S : SumFunctionOnSet(f, s) # SumFunctionOnSet(g, s)}
<1>1. SUFFICES ASSUME F # {} PROVE FALSE
  OBVIOUS
<1>2. \A s \in SUBSET S : IsFiniteSet(s)
  BY FS_Subset
<1>3. PICK m \in F : \A t : IsFiniteSet(t) /\ Cardinality(t) < Cardinality(m) => t \notin F
  BY <1>1, <1>2, SmallestSet
<1>4. m # {}
  BY <1>2, SumUnfolds
<1>5. PICK x \in m : x = Picked(m)
  BY <1>4, PickedIsElement
<1>6. m \ {x} \in SUBSET S /\ m \ {x} \notin F
  BY <1>2, <1>3, OneLess
<1>7. /\ SumFunctionOnSet(f, m) = f[x] + SumFunctionOnSet(f, m \ {x})
      /\ SumFunctionOnSet(g, m) = g[x] + SumFunctionOnSet(g, m \ {x})
  BY <1>2, <1>4, <1>5, SumUnfolds
<1>8. f[x] = g[x] /\ SumFunctionOnSet(f, m \ {x}) = SumFunctionOnSet(g, m \ {x})
  BY <1>6
<1> QED BY <1>7, <1>8

(* The order does not matter: any element may be taken out first.          *)
LEMMA SumTakesOut ==
  ASSUME NEW S, IsFiniteSet(S), NEW f, \A x \in S : f[x] \in Int, NEW a \in S
  PROVE  SumFunctionOnSet(f, S) = f[a] + SumFunctionOnSet(f, S \ {a})
<1> DEFINE Out(s, b) == SumFunctionOnSet(f, s) = f[b] + SumFunctionOnSet(f, s \ {b})
           F == {s \in SUBSET S : \E b \in s : ~ Out(s, b)}
<1>1. SUFFICES ASSUME F # {} PROVE FALSE
  OBVIOUS
<1>2. \A s \in SUBSET S : IsFiniteSet(s)
  BY FS_Subset
<1>3. PICK m \in F : \A t : IsFiniteSet(t) /\ Cardinality(t) < Cardinality(m) => t \notin F
  BY <1>1, <1>2, SmallestSet
<1>4. PICK b \in m : ~ Out(m, b)
  OBVIOUS
<1>5. PICK x \in m : x = Picked(m)
  BY PickedIsElement
<1>6. SumFunctionOnSet(f, m) = f[x] + SumFunctionOnSet(f, m \ {x})
  BY <1>2, <1>5, SumUnfolds
<1>7. x # b
  BY <1>4, <1>6
<1>8. /\ m \ {x} \in SUBSET S /\ m \ {x} \notin F
      /\ m \ {b} \in SUBSET S /\ m \ {b} \notin F
  BY <1>2, <1>3, OneLess
<1>9. Out(m \ {x}, b) /\ Out(m \ {b}, x)
  <2>1. b \in m \ {x} /\ x \in m \ {b}
    BY <1>7
  <2> HIDE DEF Out
  <2> QED BY <1>8, <2>1
<1>10. (m \ {x}) \ {b} = (m \ {b}) \ {x}
  OBVIOUS
<1>11. PICK r : r = SumFunctionOnSet(f, (m \ {x}) \ {b})
  OBVIOUS
<1>12. r \in Int /\ f[b] \in Int /\ f[x] \in Int
  <2>1. (m \ {x}) \ {b} \in SUBSET S
    OBVIOUS
  <2> QED BY <1>2, <1>11, <2>1, SumIsInt
<1>13. /\ SumFunctionOnSet(f, m \ {x}) = f[b] + r
       /\ SumFunctionOnSet(f, m \ {b}) = f[x] + r
  BY <1>9, <1>10, <1>11
<1>14. SumFunctionOnSet(f, m) = f[b] + SumFunctionOnSet(f, m \ {b})
  BY <1>6, <1>12, <1>13
<1> QED BY <1>4, <1>14

-----------------------------------------------------------------------------
(* Sums of functions.                                                      *)

(* A sum of integers is an integer.                                        *)
LEMMA SumTyped ==
  ASSUME NEW S, IsFiniteSet(S), NEW f \in [S -> Int]
  PROVE  SumFunction(f) \in Int
<1>1. DOMAIN f = S /\ \A x \in S : f[x] \in Int
  OBVIOUS
<1> QED BY <1>1, SumIsInt DEF SumFunction

(* Changing one value changes the sum by the difference.                   *)
LEMMA SumExcept ==
  ASSUME NEW S, IsFiniteSet(S), NEW f \in [S -> Int], NEW g \in [S -> Int],
         NEW a \in S, \A x \in S \ {a} : g[x] = f[x]
  PROVE  SumFunction(g) = SumFunction(f) - f[a] + g[a]
<1>1. DOMAIN f = S /\ DOMAIN g = S
  OBVIOUS
<1>2. /\ SumFunctionOnSet(f, S) = f[a] + SumFunctionOnSet(f, S \ {a})
      /\ SumFunctionOnSet(g, S) = g[a] + SumFunctionOnSet(g, S \ {a})
  BY SumTakesOut
<1>3. IsFiniteSet(S \ {a})
  BY FS_Subset
<1>4. SumFunctionOnSet(f, S \ {a}) = SumFunctionOnSet(g, S \ {a})
  BY <1>3, SumAgrees
<1>5. SumFunctionOnSet(f, S \ {a}) \in Int /\ f[a] \in Int /\ g[a] \in Int
  BY <1>3, SumIsInt
<1> QED BY <1>1, <1>2, <1>4, <1>5 DEF SumFunction

(* The sum of zeros.                                                       *)
LEMMA SumOfZeros ==
  ASSUME NEW S, IsFiniteSet(S)
  PROVE  SumFunction([x \in S |-> 0]) = 0
<1> DEFINE f == [x \in S |-> 0]
           F == {s \in SUBSET S : SumFunctionOnSet(f, s) # 0}
<1>1. \A x \in S : f[x] = 0
  OBVIOUS
<1>d. DOMAIN f = S
  OBVIOUS
<1> HIDE DEF f
<1>2. SUFFICES ASSUME F # {} PROVE FALSE
  <2>1. S \notin F
    BY <1>2
  <2> QED BY <2>1, <1>d DEF SumFunction, f
<1>3. \A s \in SUBSET S : IsFiniteSet(s)
  BY FS_Subset
<1>4. PICK m \in F : \A t : IsFiniteSet(t) /\ Cardinality(t) < Cardinality(m) => t \notin F
  BY <1>2, <1>3, SmallestSet
<1>5. m # {}
  BY <1>3, SumUnfolds
<1>6. PICK x \in m : x = Picked(m)
  BY <1>5, PickedIsElement
<1>7. m \ {x} \in SUBSET S /\ m \ {x} \notin F
  BY <1>3, <1>4, OneLess
<1>8. SumFunctionOnSet(f, m) = f[x] + SumFunctionOnSet(f, m \ {x})
  BY <1>3, <1>5, <1>6, SumUnfolds
<1>9. f[x] = 0 /\ SumFunctionOnSet(f, m \ {x}) = 0
  BY <1>1, <1>7
<1> QED BY <1>8, <1>9

(* A sum of natural numbers is one.                                        *)
LEMMA SumIsNat ==
  ASSUME NEW S, IsFiniteSet(S), NEW f \in [S -> Nat]
  PROVE  SumFunction(f) \in Nat
<1> DEFINE F == {s \in SUBSET S : SumFunctionOnSet(f, s) \notin Nat}
<1>1. DOMAIN f = S /\ \A x \in S : f[x] \in Nat
  OBVIOUS
<1>2. SUFFICES ASSUME F # {} PROVE FALSE
  <2>1. S \notin F
    BY <1>2
  <2> QED BY <1>1, <2>1 DEF SumFunction
<1>3. \A s \in SUBSET S : IsFiniteSet(s)
  BY FS_Subset
<1>4. PICK m \in F : \A t : IsFiniteSet(t) /\ Cardinality(t) < Cardinality(m) => t \notin F
  BY <1>2, <1>3, SmallestSet
<1>5. m # {}
  <2>1. IsFiniteSet({})
    BY FS_EmptySet
  <2>2. SumFunctionOnSet(f, {}) = 0
    BY <2>1, SumUnfolds
  <2> QED BY <2>2
<1>6. PICK x \in m : x = Picked(m)
  BY <1>5, PickedIsElement
<1>7. m \ {x} \in SUBSET S /\ m \ {x} \notin F
  BY <1>3, <1>4, OneLess
<1>8. SumFunctionOnSet(f, m) = f[x] + SumFunctionOnSet(f, m \ {x})
  BY <1>3, <1>5, <1>6, SumUnfolds
<1>9. f[x] \in Nat /\ SumFunctionOnSet(f, m \ {x}) \in Nat
  BY <1>1, <1>7
<1> QED BY <1>8, <1>9

(* One more element adds its value.                                        *)
LEMMA SumOneMore ==
  ASSUME NEW n \in Nat, NEW f \in [1 .. n -> Int], NEW g \in [1 .. n + 1 -> Int],
         \A i \in 1 .. n : g[i] = f[i]
  PROVE  SumFunction(g) = SumFunction(f) + g[n + 1]
<1>1. IsFiniteSet(1 .. n) /\ IsFiniteSet(1 .. n + 1)
  BY FS_Interval
<1>2. DOMAIN f = 1 .. n /\ DOMAIN g = 1 .. n + 1 /\ n + 1 \in 1 .. n + 1
      /\ (1 .. n + 1) \ {n + 1} = 1 .. n
  OBVIOUS
<1>3. \A i \in 1 .. n + 1 : g[i] \in Int
  OBVIOUS
<1>4. SumFunctionOnSet(g, 1 .. n + 1) = g[n + 1] + SumFunctionOnSet(g, (1 .. n + 1) \ {n + 1})
  BY ONLY <1>1, <1>2, <1>3, SumTakesOut
<1>5. SumFunctionOnSet(g, 1 .. n) = SumFunctionOnSet(f, 1 .. n)
  BY <1>1, SumAgrees
<1>6. g[n + 1] \in Int /\ SumFunctionOnSet(f, 1 .. n) \in Int
  <2>1. \A i \in 1 .. n : f[i] \in Int
    OBVIOUS
  <2> QED BY <1>1, <1>2, <1>3, <2>1, SumIsInt
<1>7. /\ SumFunction(g) = SumFunctionOnSet(g, 1 .. n + 1)
      /\ SumFunction(f) = SumFunctionOnSet(f, 1 .. n)
  BY ONLY <1>2 DEF SumFunction
<1>8. PICK x \in Int, y \in Int : x = g[n + 1] /\ y = SumFunctionOnSet(f, 1 .. n)
  BY <1>6
<1>9. SumFunctionOnSet(g, (1 .. n + 1) \ {n + 1}) = y
  BY ONLY <1>2, <1>5, <1>8
<1> QED BY ONLY <1>4, <1>7, <1>8, <1>9, x \in Int, y \in Int
=============================================================================
