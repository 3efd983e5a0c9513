----------------------------- MODULE NumberFacts -----------------------------
(***************************************************************************)
(* Facts about numbers and sums that the other proofs rest on: the least   *)
(* number of a set, induction, and SumFunctionOnSet of the module          *)
(* Functions, which chooses the order in which it adds.                    *)
(***************************************************************************)
EXTENDS Naturals, FiniteSets, Functions, FiniteSetTheorems,
        WellFoundedInduction, TLAPS

-----------------------------------------------------------------------------
(* Numbers.                                                                *)

(* A set of numbers that is not empty has a least element, because the     *)
(* numbers are well-founded.                                               *)
LEMMA LeastNumber ==
  ASSUME NEW S, S \subseteq Nat, S # {}
  PROVE  \E x \in S : \A k \in S : x <= k
<1>1. \E x \in S : \A y \in S : <<y, x>> \notin OpToRel(<, Nat)
  BY WFMin, NatLessThanWellFounded
<1>2. PICK x \in S : \A y \in S : <<y, x>> \notin OpToRel(<, Nat)
  BY <1>1
<1>3. \A y \in S : ~(y < x)
  <2>1. ASSUME NEW y \in Nat, NEW z \in Nat, y < z
        PROVE  <<y, z>> \in OpToRel(<, Nat)
    <3> DEFINE ss == <<y, z>>
    <3>1. ss \in Nat \X Nat /\ ss[1] = y /\ ss[2] = z
      OBVIOUS
    <3>2. ss[1] < ss[2]
      BY <2>1, <3>1
    <3> HIDE DEF ss
    <3>3. ss \in OpToRel(<, Nat)
      BY <3>1, <3>2, Zenon DEF OpToRel
    <3> USE DEF ss
    <3>4. QED
      BY <3>3, Zenon
  <2>2. QED
    BY <1>2, <2>1, Zenon
<1>4. \A y \in S : x <= y
  BY <1>3
<1>5. QED
  BY <1>2, <1>4

(* Induction, over the numbers that have a property.                       *)
LEMMA NumberInduction ==
  ASSUME NEW B, 0 \in B, \A n \in Nat : n \in B => n + 1 \in B
  PROVE  Nat \subseteq B
<1>1. SUFFICES ASSUME Nat \ B # {} PROVE FALSE
  OBVIOUS
<1>2. PICK m \in Nat \ B : \A k \in Nat \ B : m <= k
  BY <1>1, LeastNumber
<1>3. m - 1 \in Nat /\ m - 1 \in B
  BY <1>2
<1>4. QED
  BY <1>2, <1>3

-----------------------------------------------------------------------------
(* Sums.                                                                   *)

(* The element that is added first, as SumFunctionOnSet chooses it.        *)
First(S) == CHOOSE x \in S : TRUE

(* One step of the sum of the values of f.                                 *)
Adds(f, g, s) == IF s = {} THEN 0 ELSE f[First(s)] + g[s \ {First(s)}]

(* The function that SumFunctionOnSet defines.                             *)
Partial(f, S) == CHOOSE g : g = [s \in SUBSET S |-> Adds(f, g, s)]

LEMMA SumIsPartial ==
  ASSUME NEW f, NEW S
  PROVE  SumFunctionOnSet(f, S) = Partial(f, S)[S]
BY Zenon DEF SumFunctionOnSet, FoldFunctionOnSet, MapThenFoldSet, Partial, Adds, First

LEMMA FirstIsElement ==
  ASSUME NEW S, S # {}
  PROVE  First(S) \in S
BY DEF First

LEMMA RestIsSmaller ==
  ASSUME NEW S, IsFiniteSet(S), NEW x \in S
  PROVE  /\ IsFiniteSet(S \ {x})
         /\ Cardinality(S) \in Nat
         /\ Cardinality(S \ {x}) \in Nat
         /\ Cardinality(S) = Cardinality(S \ {x}) + 1
BY FS_RemoveElement, FS_CardinalityType

(* That function exists: on the subsets of n elements at most, for any n.  *)
LEMMA PartialExists ==
  ASSUME NEW f, NEW S, IsFiniteSet(S)
  PROVE  \E g : g = [s \in SUBSET S |-> Adds(f, g, s)]
<1> DEFINE Small(n) == {s \in SUBSET S : Cardinality(s) <= n}
           B == {n \in Nat : \E g : g = [s \in Small(n) |-> Adds(f, g, s)]}
<1>1. \A s \in SUBSET S : IsFiniteSet(s) /\ Cardinality(s) \in Nat /\ Cardinality(s) <= Cardinality(S)
  BY FS_Subset, FS_CardinalityType
<1>2. 0 \in B
  <2>1. \A s \in Small(0) : s = {}
    BY <1>1, FS_EmptySet
  <2> DEFINE g == [s \in Small(0) |-> 0]
  <2>2. g = [s \in Small(0) |-> Adds(f, g, s)]
    BY <2>1 DEF Adds
  <2>3. QED
    BY <2>2
<1>3. ASSUME NEW n \in Nat, n \in B PROVE n + 1 \in B
  <2>1. PICK g : g = [s \in Small(n) |-> Adds(f, g, s)]
    BY <1>3
  <2> DEFINE h == [s \in Small(n + 1) |-> Adds(f, g, s)]
  <2>2. ASSUME NEW s \in Small(n + 1), s # {}
        PROVE  s \ {First(s)} \in Small(n) /\ s \ {First(s)} \in Small(n + 1)
    <3>1. First(s) \in s /\ s \in SUBSET S
      BY <2>2, FirstIsElement
    <3>2. Cardinality(s) = Cardinality(s \ {First(s)}) + 1 /\ Cardinality(s \ {First(s)}) \in Nat
      BY <1>1, <3>1, RestIsSmaller
    <3>3. Cardinality(s) <= n + 1
      OBVIOUS
    <3>4. QED
      BY <3>1, <3>2, <3>3
  <2>3. ASSUME NEW s \in Small(n), s \in Small(n + 1) PROVE h[s] = g[s]
    BY <2>1, <2>3
  <2>4. ASSUME NEW s \in Small(n + 1) PROVE Adds(f, g, s) = Adds(f, h, s)
    BY <2>2, <2>3 DEF Adds
  <2>5. h = [s \in Small(n + 1) |-> Adds(f, h, s)]
    BY <2>4
  <2> HIDE DEF h, Small
  <2>6. QED
    BY <2>5
<1> HIDE DEF B
<1>4. Cardinality(S) \in B
  BY <1>1, <1>2, <1>3, NumberInduction
<1>5. Small(Cardinality(S)) = SUBSET S
  BY <1>1
<1>6. QED
  BY <1>4, <1>5 DEF B

LEMMA PartialUnfolds ==
  ASSUME NEW f, NEW S, IsFiniteSet(S), NEW s \in SUBSET S
  PROVE  Partial(f, S)[s] = Adds(f, Partial(f, S), s)
<1> DEFINE g == Partial(f, S)
<1>1. g = [t \in SUBSET S |-> Adds(f, g, t)]
  BY PartialExists DEF Partial
<1> HIDE DEF g
<1>2. g[s] = Adds(f, g, s)
  BY <1>1
<1>3. QED
  BY <1>2 DEF g

(* A subset sums up to the same within any larger set.                     *)
LEMMA PartialAgrees ==
  ASSUME NEW f, NEW S, IsFiniteSet(S), NEW T \in SUBSET S, NEW s \in SUBSET T
  PROVE  Partial(f, S)[s] = Partial(f, T)[s]
<1> DEFINE g == Partial(f, S)
           h == Partial(f, T)
           B == {n \in Nat : \A t \in SUBSET T : Cardinality(t) = n => g[t] = h[t]}
<1>1. IsFiniteSet(T) /\ \A t \in SUBSET T : IsFiniteSet(t) /\ Cardinality(t) \in Nat
  BY FS_Subset, FS_CardinalityType
<1>2. \A t \in SUBSET T : g[t] = Adds(f, g, t) /\ h[t] = Adds(f, h, t)
  BY <1>1, PartialUnfolds
<1> HIDE DEF g, h
<1>3. 0 \in B
  <2>1. ASSUME NEW t \in SUBSET T, Cardinality(t) = 0 PROVE g[t] = h[t]
    BY <1>1, <1>2, <2>1, FS_EmptySet DEF Adds
  <2>2. QED
    BY <2>1
<1>4. ASSUME NEW n \in Nat, n \in B PROVE n + 1 \in B
  <2>1. ASSUME NEW t \in SUBSET T, Cardinality(t) = n + 1 PROVE g[t] = h[t]
    <3>1. t # {}
      BY <2>1, FS_EmptySet
    <3>2. First(t) \in t /\ t \ {First(t)} \in SUBSET T
      BY <3>1, FirstIsElement
    <3>3. Cardinality(t \ {First(t)}) = n
      <4>1. PICK x \in t : x = First(t)
        BY <3>2
      <4>2. Cardinality(t) = Cardinality(t \ {x}) + 1 /\ Cardinality(t \ {x}) \in Nat
        BY <1>1, RestIsSmaller
      <4>3. QED
        BY <2>1, <4>1, <4>2
    <3>4. g[t \ {First(t)}] = h[t \ {First(t)}]
      BY <1>4, <3>2, <3>3
    <3>5. QED
      BY <1>2, <3>1, <3>4 DEF Adds
  <2>2. QED
    BY <2>1
<1> HIDE DEF B
<1>5. Cardinality(s) \in B
  BY <1>1, <1>3, <1>4, NumberInduction
<1>6. QED
  BY <1>5 DEF B, g, h

(* The sum of a set of one element more than the rest.                     *)
LEMMA SumUnfolds ==
  ASSUME NEW f, NEW S, IsFiniteSet(S)
  PROVE  /\ SumFunctionOnSet(f, {}) = 0
         /\ S # {} => SumFunctionOnSet(f, S) =
                        f[First(S)] + SumFunctionOnSet(f, S \ {First(S)})
<1>1. SumFunctionOnSet(f, {}) = 0
  <2>1. IsFiniteSet({}) /\ {} \in SUBSET {}
    BY FS_EmptySet
  <2>2. QED
    BY <2>1, SumIsPartial, PartialUnfolds DEF Adds
<1>2. ASSUME S # {}
      PROVE  SumFunctionOnSet(f, S) = f[First(S)] + SumFunctionOnSet(f, S \ {First(S)})
  <2> DEFINE R == S \ {First(S)}
  <2>1. R \in SUBSET S
    OBVIOUS
  <2>2. Partial(f, S)[S] = f[First(S)] + Partial(f, S)[R]
    BY <1>2, PartialUnfolds DEF Adds
  <2>3. Partial(f, S)[R] = Partial(f, R)[R]
    BY <2>1, PartialAgrees
  <2>4. QED
    BY <2>2, <2>3, SumIsPartial
<1>3. QED
  BY <1>1, <1>2

(* The sum is a number, and any element may be taken out of it.            *)
LEMMA SumOfNumbers ==
  ASSUME NEW f, NEW S, IsFiniteSet(S), \A x \in S : f[x] \in Nat
  PROVE  /\ SumFunctionOnSet(f, S) \in Nat
         /\ \A x \in S : SumFunctionOnSet(f, S) = f[x] + SumFunctionOnSet(f, S \ {x})
<1> DEFINE Sum(T) == SumFunctionOnSet(f, T)
           Additive(T) == Sum(T) \in Nat /\ \A x \in T : Sum(T) = f[x] + Sum(T \ {x})
           B == {n \in Nat : \A T \in SUBSET S : Cardinality(T) <= n => Additive(T)}
<1>1. \A T \in SUBSET S : IsFiniteSet(T) /\ Cardinality(T) \in Nat
  BY FS_Subset, FS_CardinalityType
<1>2. /\ Sum({}) = 0
      /\ \A T \in SUBSET S : T # {} => Sum(T) = f[First(T)] + Sum(T \ {First(T)})
  BY <1>1, SumUnfolds, FS_EmptySet
<1> HIDE DEF Sum
<1>3. Additive({})
  BY <1>2
<1>4. ASSUME NEW n \in Nat, \A T \in SUBSET S : Cardinality(T) <= n => Additive(T),
             NEW T \in SUBSET S, T # {}, Cardinality(T) <= n + 1
      PROVE  Additive(T)
  <2>1. ASSUME NEW x \in T
        PROVE  T \ {x} \in SUBSET S /\ Cardinality(T \ {x}) \in Nat /\ Cardinality(T \ {x}) <= n
    <3>1. Cardinality(T) = Cardinality(T \ {x}) + 1 /\ Cardinality(T \ {x}) \in Nat
      BY <1>1, RestIsSmaller
    <3>2. QED
      BY <1>4, <3>1
  <2>2. PICK y \in T : y = First(T)
    BY <1>4, FirstIsElement
  <2>3. Sum(T) = f[y] + Sum(T \ {y}) /\ Sum(T \ {y}) \in Nat /\ f[y] \in Nat
    BY <1>2, <1>4, <2>1, <2>2
  <2>4. ASSUME NEW x \in T, x # y PROVE Sum(T) = f[x] + Sum(T \ {x})
    <3>1. PICK R \in SUBSET S : R = (T \ {y}) \ {x} /\ R = (T \ {x}) \ {y}
      OBVIOUS
    <3>2. x \in T \ {y} /\ y \in T \ {x}
      BY <2>4
    <3>3. Sum(T \ {y}) = f[x] + Sum(R)
      BY <1>4, <2>1, <3>1, <3>2
    <3>4. Sum(T \ {x}) = f[y] + Sum(R)
      BY <1>4, <2>1, <3>1, <3>2
    <3>5. Sum(R) \in Nat
      <4>1. PICK Q \in SUBSET S : Q = T \ {y} /\ Cardinality(Q) <= n
        BY <2>1
      <4>2. R = Q \ {x} /\ x \in Q
        BY <3>1, <3>2, <4>1
      <4>3. Cardinality(Q) = Cardinality(R) + 1
        BY <1>1, <4>2, RestIsSmaller
      <4>4. Cardinality(R) <= n
        BY <1>1, <4>1, <4>3
      <4>5. QED
        BY <1>4, <4>4
    <3>6. f[x] \in Nat
      OBVIOUS
    <3>7. QED
      BY <2>3, <3>3, <3>4, <3>5, <3>6
  <2>5. QED
    BY <2>3, <2>4
<1> HIDE DEF Additive
<1>5. 0 \in B
  <2>1. \A T \in SUBSET S : Cardinality(T) <= 0 => T = {}
    BY <1>1, FS_EmptySet
  <2>2. QED
    BY <1>3, <2>1
<1>6. \A n \in Nat : n \in B => n + 1 \in B
  BY <1>3, <1>4
<1>7. Cardinality(S) \in B
  <2> HIDE DEF B
  <2>1. QED
    BY <1>1, <1>5, <1>6, NumberInduction
<1>8. Additive(S)
  BY <1>1, <1>7
<1>9. QED
  BY <1>8 DEF Additive, Sum

(* A new element adds its value.                                           *)
LEMMA SumAddsElement ==
  ASSUME NEW f, NEW S, IsFiniteSet(S), NEW x, x \notin S,
         \A y \in S \cup {x} : f[y] \in Nat
  PROVE  /\ SumFunctionOnSet(f, S) \in Nat
         /\ SumFunctionOnSet(f, S \cup {x}) = SumFunctionOnSet(f, S) + f[x]
<1>1. IsFiniteSet(S \cup {x}) /\ x \in S \cup {x} /\ (S \cup {x}) \ {x} = S
  BY FS_AddElement
<1>2. SumFunctionOnSet(f, S) \in Nat
  BY SumOfNumbers
<1>3. SumFunctionOnSet(f, S \cup {x}) = f[x] + SumFunctionOnSet(f, (S \cup {x}) \ {x})
  BY <1>1, SumOfNumbers
<1>4. SumFunctionOnSet(f, (S \cup {x}) \ {x}) = SumFunctionOnSet(f, S)
  BY <1>1, Zenon
<1>5. f[x] \in Nat
  BY <1>1
<1>6. SumFunctionOnSet(f, S \cup {x}) = f[x] + SumFunctionOnSet(f, S)
  BY <1>3, <1>4, Zenon
<1>7. QED
  BY <1>2, <1>5, <1>6

(* A subset has no larger sum.                                             *)
LEMMA SumIsMonotone ==
  ASSUME NEW f, NEW S, IsFiniteSet(S), NEW T \in SUBSET S, \A y \in S : f[y] \in Nat
  PROVE  /\ SumFunctionOnSet(f, S) \in Nat
         /\ SumFunctionOnSet(f, T) \in Nat
         /\ SumFunctionOnSet(f, T) <= SumFunctionOnSet(f, S)
<1> DEFINE Sum(R) == SumFunctionOnSet(f, R)
           Between == {R \in SUBSET S : T \subseteq R}
           B == {n \in Nat : \A R \in Between : Cardinality(R) = n => Sum(T) <= Sum(R)}
<1>1. \A R \in SUBSET S : /\ IsFiniteSet(R) /\ Cardinality(R) \in Nat
                          /\ Sum(R) \in Nat
                          /\ \A x \in R : Sum(R) = f[x] + Sum(R \ {x})
  BY FS_Subset, FS_CardinalityType, SumOfNumbers
<1> HIDE DEF Sum
<1>2. 0 \in B
  <2>1. \A R \in Between : Cardinality(R) = 0 => R = T
    BY <1>1, FS_EmptySet
  <2>2. QED
    BY <1>1, <2>1
<1>3. ASSUME NEW n \in Nat, \A R \in Between : Cardinality(R) = n => Sum(T) <= Sum(R)
      PROVE  \A R \in Between : Cardinality(R) = n + 1 => Sum(T) <= Sum(R)
  <2>1. ASSUME NEW R \in Between, Cardinality(R) = n + 1, NEW x \in R \ T
        PROVE  Sum(T) <= Sum(R)
    <3>1. PICK Q \in Between : Q = R \ {x}
      OBVIOUS
    <3>2. Cardinality(R) = Cardinality(Q) + 1
      BY <1>1, <3>1, RestIsSmaller
    <3>3. Cardinality(Q) = n
      BY <1>1, <2>1, <3>2
    <3>4. Sum(T) <= Sum(Q) /\ Sum(R) = f[x] + Sum(Q)
      BY <1>1, <1>3, <3>1, <3>3
    <3>5. f[x] \in Nat /\ Sum(Q) \in Nat /\ Sum(T) \in Nat
      BY <1>1
    <3>6. QED
      BY <3>4, <3>5
  <2>2. ASSUME NEW R \in Between, R \ T = {} PROVE Sum(T) <= Sum(R)
    <3>1. R = T
      BY <2>2
    <3>2. QED
      BY <1>1, <3>1
  <2>3. QED
    BY <2>1, <2>2
<1>4. \A n \in Nat : n \in B => n + 1 \in B
  BY <1>3
<1>5. Cardinality(S) \in B
  <2> HIDE DEF B
  <2>1. QED
    BY <1>1, <1>2, <1>4, NumberInduction
<1>6. Sum(T) <= Sum(S)
  BY <1>5
<1>7. QED
  BY <1>1, <1>6 DEF Sum
=============================================================================
