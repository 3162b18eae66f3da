----------------------------- MODULE SetProofs -----------------------------
(***************************************************************************)
(* Finite sets: the largest of a set of numbers, its elements' ranks, and  *)
(* sums (SumFunction of the community modules), as the models use them.    *)
(* Nothing here knows of an engine or a bank.                              *)
(*                                                                         *)
(* The library's sum is a recursive function that takes elements out in    *)
(* the order of a CHOOSE.  That it exists, and that the order does not     *)
(* matter, is shown by looking at a smallest counterexample (SmallestSet). *)
(***************************************************************************)
EXTENDS Integers, FiniteSets, FiniteSetsExt, WellFoundedInduction, FiniteSetTheorems, TLAPS

(* The largest of a bounded, non-empty set of numbers is one of them. *)
LEMMA MaxIsLargest ==
    ASSUME NEW S \in SUBSET Nat, NEW n \in Nat, S # {}, \A x \in S : x <= n
    PROVE  Max(S) \in S /\ \A x \in S : x <= Max(S)
<1> DEFINE Bounds == {m \in Nat : \A x \in S : x <= m}
<1>1. Bounds \subseteq Nat /\ Bounds # {}
  OBVIOUS
<1>2. \E m \in Bounds : \A y \in Bounds : ~(<<y, m>> \in OpToRel(<, Nat))
  <2> HIDE DEF Bounds
  <2> QED
    BY <1>1, NatLessThanWellFounded, WFMin
<1>3. PICK m \in Bounds : \A y \in Bounds : ~(<<y, m>> \in OpToRel(<, Nat))
  BY <1>2
<1>4. m \in Nat /\ \A x \in S : x <= m
  BY <1>3
<1>5. m \in S
  <2>1. SUFFICES ASSUME m \notin S PROVE FALSE
    OBVIOUS
  <2>2. \A x \in S : x \in Nat /\ x <= m /\ x # m
    BY <1>4, <2>1
  <2>3. m - 1 \in Nat /\ \A x \in S : x <= m - 1
    <3>1. PICK x \in S : TRUE
      OBVIOUS
    <3> QED
      BY <1>4, <2>2, <3>1
  <2>4. m - 1 \in Bounds
    BY <2>3
  <2>5. <<m - 1, m>> \in OpToRel(<, Nat)
    BY <1>4, <2>3 DEF OpToRel
  <2> QED
    BY <1>3, <2>4, <2>5
<1>6. \E x \in S : \A y \in S : x >= y
  BY <1>4, <1>5
<1>7. Max(S) = CHOOSE x \in S : \A y \in S : x >= y
  BY DEF Max
<1>8. Max(S) \in S /\ \A y \in S : Max(S) >= y
  BY <1>6, <1>7
<1> QED
  BY <1>8

(* A strictly smaller set has strictly fewer elements. *)
LEMMA FewerElements ==
    ASSUME NEW T, IsFiniteSet(T), NEW S \in SUBSET T, NEW x \in T, x \notin S
    PROVE  /\ IsFiniteSet(S) /\ Cardinality(S) \in Nat /\ Cardinality(T) \in Nat
           /\ Cardinality(S) < Cardinality(T)
<1>1. IsFiniteSet(S) /\ Cardinality(S) <= Cardinality(T) /\ (Cardinality(T) = Cardinality(S) => T = S)
  BY FS_Subset
<1>2. Cardinality(S) \in Nat /\ Cardinality(T) \in Nat
  BY <1>1, FS_CardinalityType
<1>3. T # S
  OBVIOUS
<1> QED
  BY <1>1, <1>2, <1>3

(* How many elements of a set of numbers are smaller than one of them. *)
Rank(T, i) == Cardinality({j \in T : j < i})

(* The ranks of a finite set of numbers are 0, 1, ..., each once. *)
LEMMA Ranks ==
    ASSUME NEW T \in SUBSET Nat, IsFiniteSet(T)
    PROVE  /\ Cardinality(T) \in Nat
           /\ \A i \in T : Rank(T, i) \in 0 .. Cardinality(T) - 1
           /\ \A i, k \in T : i < k => Rank(T, i) < Rank(T, k)
           /\ \A r \in 0 .. Cardinality(T) - 1 : \E i \in T : Rank(T, i) = r
<1> DEFINE below(i) == {j \in T : j < i}
           N == 0 .. Cardinality(T) - 1
           f == [i \in T |-> Cardinality(below(i))]
<1>1. Cardinality(T) \in Nat
  BY FS_CardinalityType
<1>2. ASSUME NEW i \in T PROVE Cardinality(below(i)) \in N /\ IsFiniteSet(below(i))
  <2>1. below(i) \in SUBSET T /\ i \notin below(i)
    OBVIOUS
  <2> HIDE DEF below
  <2>2. /\ IsFiniteSet(below(i)) /\ Cardinality(below(i)) \in Nat
        /\ Cardinality(below(i)) < Cardinality(T)
    BY <2>1, FewerElements
  <2> QED
    BY <1>1, <2>2
<1>3. ASSUME NEW i \in T, NEW k \in T, i < k
      PROVE  Cardinality(below(i)) < Cardinality(below(k))
  <2>1. below(i) \in SUBSET below(k) /\ i \in below(k) /\ i \notin below(i)
    <3>1. i \in Nat /\ k \in Nat /\ \A j \in T : j \in Nat
      OBVIOUS
    <3>2. \A j \in T : j < i => j < k
      BY <1>3, <3>1
    <3>3. \A j \in below(i) : j \in below(k)
      BY <3>2
    <3>4. i \in below(k) /\ i \notin below(i)
      BY <1>3, <3>1
    <3> HIDE DEF below
    <3> QED
      BY <3>3, <3>4
  <2>2. IsFiniteSet(below(k))
    BY <1>2
  <2> HIDE DEF below
  <2> QED
    BY <2>1, <2>2, FewerElements
<1>4. f \in [T -> N] /\ \A i \in T : f[i] = Cardinality(below(i)) /\ f[i] \in N
  <2> HIDE DEF below, N
  <2> QED
    BY <1>2
<1>5. \A i, k \in T : i < k => f[i] < f[k]
  <2> HIDE DEF below, f
  <2> QED
    BY <1>3, <1>4
<1>6. \A i, k \in T : f[i] = f[k] => i = k
  <2> SUFFICES ASSUME NEW i \in T, NEW k \in T, f[i] = f[k], i # k PROVE FALSE
    OBVIOUS
  <2> HIDE DEF f
  <2>1. i \in Nat /\ k \in Nat /\ f[i] \in Int
    BY <1>4
  <2>2. i < k \/ k < i
    BY <2>1
  <2>3. f[i] < f[k] \/ f[k] < f[i]
    BY <1>5, <2>2
  <2> QED
    BY <2>1, <2>3
<1>7. f \in Injection(T, N)
  BY <1>4, <1>6 DEF Injection, IsInjective
<1>8. IsFiniteSet(N) /\ Cardinality(N) = Cardinality(T)
  <2> DEFINE c == Cardinality(T)
  <2>1. c \in Nat /\ 0 \in Int /\ c - 1 \in Int
    BY <1>1
  <2> HIDE DEF c
  <2>2. IsFiniteSet(0 .. c - 1) /\ Cardinality(0 .. c - 1) = IF 0 > c - 1 THEN 0 ELSE c - 1 - 0 + 1
    BY <2>1, FS_Interval
  <2>3. Cardinality(0 .. c - 1) = c
    BY <2>1, <2>2
  <2> QED
    BY <2>2, <2>3 DEF c
<1> HIDE DEF N
<1>9. f \in Surjection(T, N)
  BY <1>7, <1>8, FS_Injection
<1>10. \A r \in N : \E i \in T : f[i] = r
  BY <1>9 DEF Surjection
<1>11. \A i \in T : Rank(T, i) = f[i]
  BY <1>4 DEF Rank
<1> HIDE DEF f
<1> QED
  BY <1>1, <1>4, <1>5, <1>10, <1>11 DEF N

-----------------------------------------------------------------------------
(* Sums. *)

(* Among sets of subsets of a finite set there is one that contains no other. *)
LEMMA SmallestSet ==
    ASSUME NEW S, IsFiniteSet(S), NEW B \in SUBSET (SUBSET S), B # {}
    PROVE  \E T \in B : \A U \in B : U \subseteq T => U = T
<1>1. /\ IsWellFoundedOn(StrictSubsetOrdering(S), FiniteSubsetsOf(S))
      /\ FiniteSubsetsOf(S) = SUBSET S
  BY FS_StrictSubsetOrderingWellFounded, FS_FiniteSubsetsOfFinite
<1>2. \E T \in B : \A U \in B : ~(<<U, T>> \in StrictSubsetOrdering(S))
  <2>1. IsWellFoundedOn(StrictSubsetOrdering(S), SUBSET S)
    BY <1>1
  <2>2. B \subseteq SUBSET S
    OBVIOUS
  <2> QED
    BY <2>1, <2>2, WFMin
<1>3. PICK T \in B : \A U \in B : ~(<<U, T>> \in StrictSubsetOrdering(S))
  BY <1>2
<1>4. ASSUME NEW U \in B, U \subseteq T PROVE U = T
  BY <1>3, <1>4 DEF StrictSubsetOrdering
<1> QED
  BY <1>4

Pick(s) == CHOOSE x \in s : TRUE

Partial(g, f, S) ==
    g = [s \in SUBSET S |-> IF s = {} THEN 0 ELSE f[Pick(s)] + g[s \ {Pick(s)}]]

(* The library's definition, with its recursion as an equation. *)
LEMMA SumDef ==
    ASSUME NEW f, NEW S
    PROVE  SumFunctionOnSet(f, S) = (CHOOSE g : Partial(g, f, S))[S]
BY DEF SumFunctionOnSet, FoldFunctionOnSet, MapThenFoldSet, Partial, Pick

LEMMA PartialAt ==
    ASSUME NEW f, NEW S, NEW g, Partial(g, f, S), NEW s \in SUBSET S
    PROVE  g[s] = IF s = {} THEN 0 ELSE f[Pick(s)] + g[s \ {Pick(s)}]
BY DEF Partial

LEMMA PickIn == ASSUME NEW s, s # {} PROVE Pick(s) \in s
BY DEF Pick

(* Two solutions of the equation agree where both are defined. *)
LEMMA PartialUnique ==
    ASSUME NEW f, NEW S, IsFiniteSet(S), NEW U \in SUBSET S, NEW V \in SUBSET S,
           NEW g, Partial(g, f, U), NEW h, Partial(h, f, V)
    PROVE  \A s \in SUBSET (U \cap V) : g[s] = h[s]
<1> DEFINE B == {s \in SUBSET (U \cap V) : g[s] # h[s]}
<1>1. SUFFICES ASSUME B # {} PROVE FALSE
  OBVIOUS
<1>2. B \in SUBSET (SUBSET S)
  OBVIOUS
<1>3. PICK T \in B : \A W \in B : W \subseteq T => W = T
  <2> HIDE DEF B
  <2> QED
    BY <1>1, <1>2, SmallestSet
<1>4. /\ g[T] = IF T = {} THEN 0 ELSE f[Pick(T)] + g[T \ {Pick(T)}]
      /\ h[T] = IF T = {} THEN 0 ELSE f[Pick(T)] + h[T \ {Pick(T)}]
  <2>1. T \in SUBSET U /\ T \in SUBSET V
    BY <1>3
  <2> QED
    BY <2>1, PartialAt
<1>5. T # {} /\ g[T \ {Pick(T)}] # h[T \ {Pick(T)}]
  BY <1>3, <1>4
<1>6. Pick(T) \in T
  BY <1>5, PickIn
<1>7. T \ {Pick(T)} \in B
  BY <1>3, <1>5
<1> QED
  BY <1>3, <1>6, <1>7

(* And there is one. *)
LEMMA PartialExists ==
    ASSUME NEW f, NEW S, IsFiniteSet(S)
    PROVE  \E g : Partial(g, f, S)
<1> DEFINE B == {T \in SUBSET S : ~ \E g : Partial(g, f, T)}
<1>1. SUFFICES ASSUME B # {} PROVE FALSE
  OBVIOUS
<1>2. PICK T \in B : \A W \in B : W \subseteq T => W = T
  <2>1. B \in SUBSET (SUBSET S)
    OBVIOUS
  <2> HIDE DEF B
  <2> QED
    BY <1>1, <2>1, SmallestSet
<1> DEFINE G(W) == CHOOSE g : Partial(g, f, W)
<1>3. ASSUME NEW W \in SUBSET T, W # T PROVE Partial(G(W), f, W)
  <2>1. W \in SUBSET S /\ W \notin B
    BY <1>2, <1>3
  <2>2. \E g : Partial(g, f, W)
    BY <2>1
  <2> QED
    BY <2>2
<1> DEFINE less(s) == s \ {Pick(s)}
           g == [s \in SUBSET T |-> IF s = {} THEN 0 ELSE f[Pick(s)] + G(less(s))[less(s)]]
<1>4. ASSUME NEW s \in SUBSET T, s # {} PROVE g[less(s)] = G(less(s))[less(s)]
  <2> DEFINE t == less(s)
  <2>1. Pick(s) \in s /\ t \in SUBSET T /\ t # T
    BY <1>4, PickIn
  <2>2. Partial(G(t), f, t)
    BY <1>3, <2>1
  <2>3. G(t)[t] = IF t = {} THEN 0 ELSE f[Pick(t)] + G(t)[less(t)]
    <3>1. PICK h : h = G(t)
      OBVIOUS
    <3>2. Partial(h, f, t)
      BY <2>2, <3>1
    <3>3. h[t] = IF t = {} THEN 0 ELSE f[Pick(t)] + h[t \ {Pick(t)}]
      <4> HIDE DEF t
      <4>1. t \in SUBSET t
        OBVIOUS
      <4> QED
        BY <3>2, <4>1, PartialAt
    <3> QED
      BY <3>1, <3>3
  <2>4. CASE t = {}
    BY <2>1, <2>3, <2>4
  <2>5. CASE t # {}
    <3>1. Pick(t) \in t /\ less(t) \in SUBSET T /\ less(t) # T
      BY <2>1, <2>5, PickIn
    <3>2. Partial(G(less(t)), f, less(t))
      BY <1>3, <3>1
    <3>3. less(t) \in SUBSET (t \cap less(t)) /\ t \in SUBSET S /\ less(t) \in SUBSET S
      BY <2>1
    <3>4. G(t)[less(t)] = G(less(t))[less(t)]
      <4> HIDE DEF G, less, t
      <4> QED
        BY <2>2, <3>2, <3>3, PartialUnique
    <3> QED
      BY <2>1, <2>3, <2>5, <3>4
  <2> QED
    BY <2>4, <2>5
<1>5. g = [s \in SUBSET T |-> IF s = {} THEN 0 ELSE f[Pick(s)] + g[less(s)]]
  <2> HIDE DEF G
  <2>1. \A s \in SUBSET T :
            g[s] = IF s = {} THEN 0 ELSE f[Pick(s)] + G(less(s))[less(s)]
    OBVIOUS
  <2>2. \A s \in SUBSET T : s # {} => g[less(s)] = G(less(s))[less(s)]
    BY <1>4
  <2> HIDE DEF less, g
  <2>3. \A s \in SUBSET T : g[s] = IF s = {} THEN 0 ELSE f[Pick(s)] + g[less(s)]
    BY <2>1, <2>2
  <2> QED
    BY <2>3 DEF g
<1>6. Partial(g, f, T)
  BY <1>5 DEF Partial
<1> QED
  BY <1>2, <1>6

(* The library's sum takes out one element and goes on with the rest. *)
LEMMA SumStep ==
    ASSUME NEW f, NEW S, IsFiniteSet(S)
    PROVE  SumFunctionOnSet(f, S) =
               IF S = {} THEN 0 ELSE f[Pick(S)] + SumFunctionOnSet(f, S \ {Pick(S)})
<1> DEFINE G(W) == CHOOSE g : Partial(g, f, W)
           T == S \ {Pick(S)}
<1>1. Partial(G(S), f, S)
  BY PartialExists
<1>2. IsFiniteSet(T) /\ T \in SUBSET S /\ S \in SUBSET S /\ T \in SUBSET (S \cap T)
  BY FS_RemoveElement
<1>3. Partial(G(T), f, T)
  <2> HIDE DEF T
  <2> QED
    BY <1>2, PartialExists
<1>4. G(S)[S] = IF S = {} THEN 0 ELSE f[Pick(S)] + G(S)[T]
  <2> HIDE DEF G
  <2> QED
    BY <1>1, <1>2, PartialAt
<1>5. G(S)[T] = G(T)[T]
  <2>1. PICK g, h : g = G(S) /\ h = G(T)
    OBVIOUS
  <2>2. Partial(g, f, S) /\ Partial(h, f, T)
    BY <1>1, <1>3, <2>1
  <2>3. g[T] = h[T]
    <3> HIDE DEF T
    <3>1. \A s \in SUBSET (S \cap T) : g[s] = h[s]
      BY <1>2, <2>2, PartialUnique
    <3> QED
      BY <1>2, <3>1
  <2> QED
    BY <2>1, <2>3
<1>6. SumFunctionOnSet(f, S) = G(S)[S] /\ SumFunctionOnSet(f, T) = G(T)[T]
  BY SumDef
<1> QED
  <2> HIDE DEF G
  <2> QED
    BY <1>4, <1>5, <1>6

-----------------------------------------------------------------------------
(* Facts about sums. *)

LEMMA SumEmpty == ASSUME NEW f PROVE SumFunctionOnSet(f, {}) = 0
<1>1. IsFiniteSet({})
  BY FS_EmptySet
<1> QED
  BY <1>1, SumStep

(* What is summed is read on the set only. *)
LEMMA SumSame ==
    ASSUME NEW f, NEW g, NEW S, IsFiniteSet(S), \A x \in S : f[x] = g[x]
    PROVE  SumFunctionOnSet(f, S) = SumFunctionOnSet(g, S)
<1> DEFINE B == {T \in SUBSET S : SumFunctionOnSet(f, T) # SumFunctionOnSet(g, T)}
<1>1. SUFFICES ASSUME B # {} PROVE FALSE
  OBVIOUS
<1>2. PICK T \in B : \A W \in B : W \subseteq T => W = T
  <2>1. B \in SUBSET (SUBSET S)
    OBVIOUS
  <2> HIDE DEF B
  <2> QED
    BY <1>1, <2>1, SmallestSet
<1>3. IsFiniteSet(T)
  BY <1>2, FS_Subset
<1>4. T # {}
  <2>1. SumFunctionOnSet(f, {}) = SumFunctionOnSet(g, {})
    BY SumEmpty
  <2> QED
    BY <1>2, <2>1
<1>5. Pick(T) \in T /\ T \ {Pick(T)} \notin B
  BY <1>2, <1>4, PickIn
<1>6. SumFunctionOnSet(f, T \ {Pick(T)}) = SumFunctionOnSet(g, T \ {Pick(T)})
  BY <1>2, <1>5
<1>7. SumFunctionOnSet(f, T) = SumFunctionOnSet(g, T)
  BY <1>2, <1>3, <1>5, <1>6, SumStep
<1> QED
  BY <1>2, <1>7

(* A sum of integers is one. *)
LEMMA SumInt ==
    ASSUME NEW f, NEW S, IsFiniteSet(S), \A x \in S : f[x] \in Int
    PROVE  SumFunctionOnSet(f, S) \in Int
<1> DEFINE B == {T \in SUBSET S : SumFunctionOnSet(f, T) \notin Int}
<1>1. SUFFICES ASSUME B # {} PROVE FALSE
  OBVIOUS
<1>2. PICK T \in B : \A W \in B : W \subseteq T => W = T
  <2>1. B \in SUBSET (SUBSET S)
    OBVIOUS
  <2> HIDE DEF B
  <2> QED
    BY <1>1, <2>1, SmallestSet
<1>3. IsFiniteSet(T)
  BY <1>2, FS_Subset
<1>4. T # {}
  <2>1. SumFunctionOnSet(f, {}) \in Int
    BY SumEmpty
  <2> QED
    BY <1>2, <2>1
<1>5. Pick(T) \in T /\ T \ {Pick(T)} \notin B
  BY <1>2, <1>4, PickIn
<1>6. SumFunctionOnSet(f, T \ {Pick(T)}) \in Int /\ f[Pick(T)] \in Int
  BY <1>2, <1>5
<1>7. SumFunctionOnSet(f, T) \in Int
  BY <1>3, <1>4, <1>6, SumStep
<1> QED
  BY <1>2, <1>7

(* Any element may be taken out first. *)
LEMMA SumRemove ==
    ASSUME NEW f, NEW S, IsFiniteSet(S), \A x \in S : f[x] \in Int
    PROVE  \A x \in S : SumFunctionOnSet(f, S) = f[x] + SumFunctionOnSet(f, S \ {x})
<1> DEFINE Sum(T) == SumFunctionOnSet(f, T)
           B == {T \in SUBSET S : \E x \in T : Sum(T) # f[x] + Sum(T \ {x})}
<1>1. SUFFICES ASSUME B # {} PROVE FALSE
  OBVIOUS
<1>2. PICK T \in B : \A W \in B : W \subseteq T => W = T
  <2>1. B \in SUBSET (SUBSET S)
    OBVIOUS
  <2> HIDE DEF B
  <2> QED
    BY <1>1, <2>1, SmallestSet
<1>3. PICK x \in T : Sum(T) # f[x] + Sum(T \ {x})
  BY <1>2
<1> DEFINE c == Pick(T)
<1>4. /\ c \in T /\ c \in S /\ x \in S
      /\ T \in SUBSET S /\ T \ {c} \in SUBSET S /\ T \ {x} \in SUBSET S
  <2> HIDE DEF Sum
  <2> QED
    BY <1>2, <1>3, PickIn
<1>5. \A W \in SUBSET S : IsFiniteSet(W) /\ Sum(W) \in Int
  <2> SUFFICES ASSUME NEW W \in SUBSET S PROVE IsFiniteSet(W) /\ Sum(W) \in Int
    OBVIOUS
  <2>1. IsFiniteSet(W) /\ \A y \in W : f[y] \in Int
    BY FS_Subset
  <2> QED
    BY <2>1, SumInt
<1>6. Sum(T) = f[c] + Sum(T \ {c})
  BY <1>4, <1>5, SumStep
<1>7. x # c
  BY <1>3, <1>6
<1>8. T \ {c} \notin B /\ T \ {x} \notin B
  <2> HIDE DEF B, c
  <2> QED
    BY <1>2, <1>3, <1>4
<1>9. /\ Sum(T \ {c}) = f[x] + Sum((T \ {c}) \ {x})
      /\ Sum(T \ {x}) = f[c] + Sum((T \ {x}) \ {c})
  <2>1. x \in T \ {c} /\ c \in T \ {x}
    BY <1>3, <1>4, <1>7
  <2> HIDE DEF c, Sum
  <2> QED
    BY <1>4, <1>8, <2>1
<1>10. (T \ {c}) \ {x} = (T \ {x}) \ {c} /\ (T \ {c}) \ {x} \in SUBSET S
  BY <1>4
<1>11. PICK a, b, d : a = f[c] /\ b = f[x] /\ d = Sum((T \ {c}) \ {x})
  OBVIOUS
<1>12. a \in Int /\ b \in Int /\ d \in Int
  <2> HIDE DEF Sum, c
  <2> QED
    BY <1>4, <1>5, <1>10, <1>11
<1>13. Sum(T) = a + (b + d) /\ Sum(T \ {x}) = a + d
  <2> HIDE DEF Sum, c
  <2> QED
    BY <1>6, <1>9, <1>10, <1>11
<1>14. Sum(T) = b + Sum(T \ {x})
  BY <1>12, <1>13
<1> QED
  BY <1>3, <1>11, <1>14

(* A sum of natural numbers is one. *)
LEMMA SumNat ==
    ASSUME NEW f, NEW S, IsFiniteSet(S), \A x \in S : f[x] \in Nat
    PROVE  SumFunctionOnSet(f, S) \in Nat
<1> DEFINE B == {T \in SUBSET S : SumFunctionOnSet(f, T) \notin Nat}
<1>1. SUFFICES ASSUME B # {} PROVE FALSE
  OBVIOUS
<1>2. PICK T \in B : \A W \in B : W \subseteq T => W = T
  <2>1. B \in SUBSET (SUBSET S)
    OBVIOUS
  <2> HIDE DEF B
  <2> QED
    BY <1>1, <2>1, SmallestSet
<1>3. IsFiniteSet(T)
  BY <1>2, FS_Subset
<1>4. T # {}
  <2>1. SumFunctionOnSet(f, {}) \in Nat
    BY SumEmpty
  <2> QED
    BY <1>2, <2>1
<1>5. Pick(T) \in T /\ T \ {Pick(T)} \notin B
  BY <1>2, <1>4, PickIn
<1>6. SumFunctionOnSet(f, T \ {Pick(T)}) \in Nat /\ f[Pick(T)] \in Nat
  BY <1>2, <1>5
<1>7. SumFunctionOnSet(f, T) \in Nat
  BY <1>3, <1>4, <1>6, SumStep
<1> QED
  BY <1>2, <1>7

(* Two sets with nothing in common. *)
LEMMA SumUnion ==
    ASSUME NEW f, NEW S, NEW T, IsFiniteSet(S), IsFiniteSet(T), S \cap T = {},
           \A x \in S \cup T : f[x] \in Int
    PROVE  SumFunctionOnSet(f, S \cup T) = SumFunctionOnSet(f, S) + SumFunctionOnSet(f, T)
<1> DEFINE Sum(W) == SumFunctionOnSet(f, W)
           B == {W \in SUBSET S : Sum(W \cup T) # Sum(W) + Sum(T)}
<1>1. SUFFICES ASSUME B # {} PROVE FALSE
  OBVIOUS
<1>2. PICK W \in B : \A V \in B : V \subseteq W => V = W
  <2>1. B \in SUBSET (SUBSET S)
    OBVIOUS
  <2> HIDE DEF B
  <2> QED
    BY <1>1, <2>1, SmallestSet
<1>3. IsFiniteSet(W) /\ IsFiniteSet(W \cup T) /\ W \in SUBSET S
  <2>1. IsFiniteSet(W)
    BY <1>2, FS_Subset
  <2> QED
    BY <1>2, <2>1, FS_Union
<1>4. CASE W = {}
  <2>1. Sum({}) = 0 /\ {} \cup T = T
    BY SumEmpty
  <2>2. Sum(T) \in Int
    BY SumInt
  <2> QED
    BY <1>2, <1>4, <2>1, <2>2
<1>5. CASE W # {}
  <2>1. PICK x \in W : TRUE
    BY <1>5
  <2>2. W \ {x} \notin B /\ W \ {x} \in SUBSET S
    <3> HIDE DEF B
    <3> QED
      BY <1>2, <1>3, <2>1
  <2>3. Sum((W \ {x}) \cup T) = Sum(W \ {x}) + Sum(T)
    BY <2>2
  <2>4. (W \cup T) \ {x} = (W \ {x}) \cup T
    BY <1>3, <2>1
  <2>5. Sum(W \cup T) = f[x] + Sum((W \cup T) \ {x})
    <3>1. \A y \in W \cup T : f[y] \in Int
      BY <1>3
    <3> QED
      BY <1>3, <2>1, <3>1, SumRemove
  <2>6. Sum(W) = f[x] + Sum(W \ {x})
    <3>1. \A y \in W : f[y] \in Int
      BY <1>3
    <3> QED
      BY <1>3, <2>1, <3>1, SumRemove
  <2>7. f[x] \in Int /\ Sum(W \ {x}) \in Int /\ Sum(T) \in Int
    <3>1. IsFiniteSet(W \ {x}) /\ \A y \in W \ {x} : f[y] \in Int
      BY <1>3, FS_RemoveElement
    <3>2. Sum(W \ {x}) \in Int
      BY <3>1, SumInt
    <3>3. Sum(T) \in Int
      BY SumInt
    <3> QED
      BY <1>3, <2>1, <3>2, <3>3
  <2>8. PICK a, b, c : a = f[x] /\ b = Sum(W \ {x}) /\ c = Sum(T)
    OBVIOUS
  <2>9. Sum(W \cup T) = a + (b + c) /\ Sum(W) = a + b
    <3> HIDE DEF Sum
    <3> QED
      BY <2>3, <2>4, <2>5, <2>6, <2>8
  <2>10. Sum(W \cup T) = Sum(W) + Sum(T)
    <3> HIDE DEF Sum
    <3> QED
      BY <2>7, <2>8, <2>9
  <2> QED
    BY <1>2, <2>10
<1> QED
  BY <1>4, <1>5

-----------------------------------------------------------------------------
(* The same for the sum over all of a function, as the models write it. *)

LEMMA SumOfNone == ASSUME NEW f, DOMAIN f = {} PROVE SumFunction(f) = 0
BY SumEmpty DEF SumFunction

LEMMA SumOfInt ==
    ASSUME NEW S, IsFiniteSet(S), NEW f \in [S -> Int] PROVE SumFunction(f) \in Int
<1>1. DOMAIN f = S /\ \A x \in S : f[x] \in Int
  OBVIOUS
<1> QED
  BY <1>1, SumInt DEF SumFunction

LEMMA SumOfNat ==
    ASSUME NEW S, IsFiniteSet(S), NEW f \in [S -> Nat] PROVE SumFunction(f) \in Nat
<1>1. DOMAIN f = S /\ \A x \in S : f[x] \in Nat
  OBVIOUS
<1> QED
  BY <1>1, SumNat DEF SumFunction

(* One element more. *)
LEMMA SumAdd ==
    ASSUME NEW S, IsFiniteSet(S), NEW f \in [S -> Int], NEW x, x \notin S,
           NEW g \in [S \cup {x} -> Int], \A y \in S : g[y] = f[y]
    PROVE  SumFunction(g) = SumFunction(f) + g[x]
<1>1. /\ DOMAIN f = S /\ DOMAIN g = S \cup {x} /\ IsFiniteSet(S \cup {x})
      /\ (S \cup {x}) \ {x} = S /\ \A y \in S \cup {x} : g[y] \in Int
  BY FS_AddElement
<1>2. SumFunctionOnSet(g, S \cup {x}) = g[x] + SumFunctionOnSet(g, S)
  BY <1>1, SumRemove
<1>3. SumFunctionOnSet(g, S) = SumFunctionOnSet(f, S)
  BY SumSame
<1>4. SumFunctionOnSet(f, S) \in Int /\ g[x] \in Int
  <2>1. \A y \in S : f[y] \in Int
    OBVIOUS
  <2> QED
    BY <1>1, <2>1, SumInt
<1>5. SumFunction(f) = SumFunctionOnSet(f, S) /\ SumFunction(g) = SumFunctionOnSet(g, S \cup {x})
  BY <1>1 DEF SumFunction
<1> QED
  BY <1>2, <1>3, <1>4, <1>5

(* The same, in the form the provers use best. *)
LEMMA SumMore ==
    \A S, u, v, x : /\ IsFiniteSet(S) /\ u \in [S -> Int] /\ x \notin S
                    /\ v \in [S \cup {x} -> Int] /\ (\A i \in S : v[i] = u[i])
                    => SumFunction(v) = SumFunction(u) + v[x]
BY SumAdd

(* One summand another. *)
LEMMA SumChange ==
    ASSUME NEW S, IsFiniteSet(S), NEW f \in [S -> Int], NEW g \in [S -> Int],
           NEW x \in S, \A y \in S : y # x => g[y] = f[y]
    PROVE  SumFunction(g) = SumFunction(f) + (g[x] - f[x])
<1>1. /\ DOMAIN f = S /\ DOMAIN g = S /\ IsFiniteSet(S \ {x})
      /\ \A y \in S : f[y] \in Int /\ g[y] \in Int
  BY FS_RemoveElement
<1>2. /\ SumFunctionOnSet(f, S) = f[x] + SumFunctionOnSet(f, S \ {x})
      /\ SumFunctionOnSet(g, S) = g[x] + SumFunctionOnSet(g, S \ {x})
  BY <1>1, SumRemove
<1>3. SumFunctionOnSet(g, S \ {x}) = SumFunctionOnSet(f, S \ {x})
  <2>1. \A y \in S \ {x} : g[y] = f[y]
    OBVIOUS
  <2> QED
    BY <1>1, <2>1, SumSame
<1>4. SumFunctionOnSet(f, S \ {x}) \in Int
  <2>1. \A y \in S \ {x} : f[y] \in Int
    OBVIOUS
  <2> QED
    BY <1>1, <2>1, SumInt
<1>5. SumFunction(f) = SumFunctionOnSet(f, S) /\ SumFunction(g) = SumFunctionOnSet(g, S)
  BY <1>1 DEF SumFunction
<1> QED
  BY <1>1, <1>2, <1>3, <1>4, <1>5

=============================================================================
