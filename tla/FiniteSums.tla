------------------------------ MODULE FiniteSums ------------------------------
(***************************************************************************)
(* Sums of natural numbers over finite sets: what SumFunctionOnSet of the   *)
(* module Functions computes, for every finite set.                        *)
(*                                                                         *)
(* Two ideas carry the module.  Induction over a finite set is stated with  *)
(* a set of subsets in the place of a predicate (FiniteInduction), so that  *)
(* first-order provers can use it.  And the fold is shown to count a set of *)
(* single units (SumIsCardinality), after which facts about cardinalities   *)
(* are facts about sums.                                                   *)
(***************************************************************************)
EXTENDS Integers, FiniteSets, Functions, FiniteSetTheorems, WellFoundedInduction,
        TLAPS

(* Every finite set is in a set G of subsets that contains a set whenever   *)
(* it contains the set without any one of its elements.                    *)
LEMMA FiniteInduction ==
  ASSUME NEW S, IsFiniteSet(S), NEW G,
         \A T \in SUBSET S : (\A x \in T : T \ {x} \in G) => T \in G
  PROVE  S \in G
<1> DEFINE Bad == {T \in FiniteSubsetsOf(S) : T \notin G}
<1>1. FiniteSubsetsOf(S) = SUBSET S
  BY FS_FiniteSubsetsOfFinite
<1>2. CASE Bad = {}
  BY <1>1, <1>2
<1>3. CASE Bad # {}
  <2>1. IsWellFoundedOn(StrictSubsetOrdering(S), FiniteSubsetsOf(S))
    BY FS_StrictSubsetOrderingWellFounded
  <2>2. PICK T \in Bad : \A U \in Bad : ~ (<<U, T>> \in StrictSubsetOrdering(S))
    <3> HIDE DEF Bad
    <3>1. Bad \subseteq FiniteSubsetsOf(S)
      BY DEF Bad
    <3> QED
      BY <1>3, <2>1, <3>1, WFMin
  <2>3. ASSUME NEW x \in T PROVE T \ {x} \in G
    <3>1. <<T \ {x}, T>> \in StrictSubsetOrdering(S)
      BY <1>1, <2>2 DEF StrictSubsetOrdering
    <3>2. T \ {x} \in SUBSET S
      BY <1>1, <2>2
    <3> QED
      BY <1>1, <2>2, <3>1, <3>2
  <2> QED
    BY <1>1, <2>2, <2>3
<1> QED
  BY <1>2, <1>3

(* The units that f counts in S, one by one.                                *)
Units(f, S) == UNION {{x} \X (1 .. f[x]) : x \in S}

(* x brings its k units, ...                                               *)
LEMMA UnitsOfOne ==
  ASSUME NEW x, NEW k \in Nat
  PROVE  IsFiniteSet({x} \X (1 .. k)) /\ Cardinality({x} \X (1 .. k)) = k
<1> DEFINE P == {x}
           Q == 1 .. k
<1>1. IsFiniteSet(P) /\ Cardinality(P) = 1
  BY FS_Singleton
<1>2. IsFiniteSet(Q) /\ Cardinality(Q) = k
  BY FS_Interval
<1> HIDE DEF P, Q
<1>3. /\ IsFiniteSet(P \X Q)
      /\ Cardinality(P \X Q) = Cardinality(P) * Cardinality(Q)
  BY <1>1, <1>2, FS_Product
<1>4. Cardinality(P \X Q) = k
  BY <1>1, <1>2, <1>3
<1> QED
  BY <1>3, <1>4 DEF P, Q

(* ... every element brings its own, ...                                   *)
LEMMA UnitsStep ==
  ASSUME NEW S, NEW f, NEW x \in S, f[x] \in Nat, IsFiniteSet(Units(f, S \ {x}))
  PROVE  /\ IsFiniteSet(Units(f, S))
         /\ Cardinality(Units(f, S)) = f[x] + Cardinality(Units(f, S \ {x}))
<1> DEFINE A == {x} \X (1 .. f[x])
           B == Units(f, S \ {x})
<1>1. Units(f, S) = A \cup B
  BY DEF Units
<1>2. A \cap B = {}
  BY DEF Units
<1>3. IsFiniteSet(A) /\ Cardinality(A) = f[x]
  BY UnitsOfOne
<1>4. Cardinality(B) \in Nat /\ Cardinality({}) = 0
  BY FS_CardinalityType, FS_EmptySet
<1> HIDE DEF A, B
<1>5. /\ IsFiniteSet(A \cup B)
      /\ Cardinality(A \cup B) =
           Cardinality(A) + Cardinality(B) - Cardinality(A \cap B)
  BY <1>3, FS_Union DEF B
<1>6. Cardinality(A \cap B) = 0
  BY <1>2, <1>4
<1>7. Cardinality(A \cup B) = f[x] + Cardinality(B)
  BY <1>3, <1>4, <1>5, <1>6 DEF B
<1> QED
  BY <1>1, <1>5, <1>7 DEF B

(* ... and there are finitely many of them.                                *)
LEMMA UnitsFinite ==
  ASSUME NEW S, IsFiniteSet(S), NEW f, \A x \in S : f[x] \in Nat
  PROVE  \A T \in SUBSET S : IsFiniteSet(Units(f, T))
<1> DEFINE G == {T \in SUBSET S : IsFiniteSet(Units(f, T))}
<1> SUFFICES ASSUME NEW U \in SUBSET S PROVE U \in G
  OBVIOUS
<1>1. IsFiniteSet(U)
  BY FS_Subset
<1>2. Units(f, {}) = {}
  BY DEF Units
<1>3. {} \in G
  BY <1>2, FS_EmptySet
<1>4. ASSUME NEW T \in SUBSET U, \A x \in T : T \ {x} \in G PROVE T \in G
  BY <1>3, <1>4, UnitsStep
<1> HIDE DEF G
<1> QED
  BY <1>1, <1>4, FiniteInduction

(* What the fold computes is the number of units, in whatever order it takes *)
(* the elements: counting solves its recursion equation, and by induction   *)
(* nothing else does.                                                      *)
LEMMA SumIsCardinality ==
  ASSUME NEW S, IsFiniteSet(S), NEW f, \A x \in S : f[x] \in Nat
  PROVE  SumFunctionOnSet(f, S) = Cardinality(Units(f, S))
<1> DEFINE Solves(h) ==
      h = [s \in SUBSET S |->
             IF s = {} THEN 0
             ELSE f[CHOOSE x \in s : TRUE] + h[s \ {CHOOSE x \in s : TRUE}]]
    g == [s \in SUBSET S |-> Cardinality(Units(f, s))]
    iter == CHOOSE h : Solves(h)
<1>1. SumFunctionOnSet(f, S) = iter[S]
  BY DEF SumFunctionOnSet, FoldFunctionOnSet, MapThenFoldSet
<1>2. Solves(g)
  <2> SUFFICES ASSUME NEW s \in SUBSET S
      PROVE g[s] = IF s = {} THEN 0
             ELSE f[CHOOSE x \in s : TRUE] + g[s \ {CHOOSE x \in s : TRUE}]
    OBVIOUS
  <2>1. CASE s = {}
    <3>1. Units(f, s) = {}
      BY <2>1 DEF Units
    <3> QED
      BY <2>1, <3>1, FS_EmptySet
  <2>2. CASE s # {}
    <3> DEFINE x == CHOOSE x \in s : TRUE
    <3>1. x \in s
      BY <2>2
    <3> HIDE DEF x
    <3>2. Cardinality(Units(f, s)) = f[x] + Cardinality(Units(f, s \ {x}))
      BY <3>1, UnitsFinite, UnitsStep
    <3>3. g[s] = f[x] + g[s \ {x}]
      BY <3>2
    <3> QED
      BY <2>2, <3>3 DEF x
  <2> QED
    BY <2>1, <2>2
<1>3. Solves(iter)
  <2> HIDE DEF g, Solves
  <2> QED
    BY <1>2
<1> DEFINE G == {s \in SUBSET S : iter[s] = g[s]}
<1>4. ASSUME NEW T \in SUBSET S, \A x \in T : T \ {x} \in G PROVE T \in G
  <2> HIDE DEF iter
  <2>1. CASE T = {}
    BY <1>2, <1>3, <2>1
  <2>2. CASE T # {}
    <3> DEFINE x == CHOOSE x \in T : TRUE
    <3>1. x \in T
      BY <2>2
    <3>2. iter[T] = f[x] + iter[T \ {x}]
      BY <1>3, <2>2
    <3>3. g[T] = f[x] + g[T \ {x}]
      BY <1>2, <2>2
    <3> HIDE DEF x, g
    <3>4. T \ {x} \in G
      BY <1>4, <3>1
    <3> QED
      BY <3>2, <3>3, <3>4
  <2> QED
    BY <2>1, <2>2
<1>5. S \in G
  <2> HIDE DEF G
  <2> QED
    BY <1>4, FiniteInduction
<1> QED
  BY <1>1, <1>5

-----------------------------------------------------------------------------
(* A sum of naturals is a natural number.                                  *)
LEMMA SumType ==
  ASSUME NEW S, IsFiniteSet(S), NEW f, \A x \in S : f[x] \in Nat
  PROVE  SumFunctionOnSet(f, S) \in Nat
BY SumIsCardinality, UnitsFinite, FS_CardinalityType

(* The sum over no elements.                                               *)
LEMMA SumEmpty == \A f : SumFunctionOnSet(f, {}) = 0
<1> SUFFICES ASSUME NEW f PROVE SumFunctionOnSet(f, {}) = 0
  OBVIOUS
<1>1. Units(f, {}) = {}
  BY DEF Units
<1> QED
  BY <1>1, SumIsCardinality, FS_EmptySet

(* A sum is one of its terms and the rest.                                 *)
LEMMA SumSplit ==
  ASSUME NEW S, IsFiniteSet(S), NEW f, \A x \in S : f[x] \in Nat, NEW a \in S
  PROVE  SumFunctionOnSet(f, S) = f[a] + SumFunctionOnSet(f, S \ {a})
<1>1. IsFiniteSet(S \ {a})
  BY FS_RemoveElement
<1>2. /\ SumFunctionOnSet(f, S) = Cardinality(Units(f, S))
      /\ SumFunctionOnSet(f, S \ {a}) = Cardinality(Units(f, S \ {a}))
  BY <1>1, SumIsCardinality
<1>3. IsFiniteSet(Units(f, S \ {a}))
  BY UnitsFinite
<1> QED
  BY <1>2, <1>3, UnitsStep

(* A sum depends only on the values that it adds up.                        *)
LEMMA SumEqual ==
  ASSUME NEW S, IsFiniteSet(S), NEW f, NEW g,
         \A x \in S : f[x] \in Nat /\ f[x] = g[x]
  PROVE  SumFunctionOnSet(f, S) = SumFunctionOnSet(g, S)
<1>1. Units(f, S) = Units(g, S)
  BY DEF Units
<1> QED
  BY <1>1, SumIsCardinality

(* The sum of two functions, by induction over the set.                    *)
LEMMA SumPlus ==
  ASSUME NEW S, IsFiniteSet(S), NEW f, NEW g, NEW h,
         \A x \in S : f[x] \in Nat /\ g[x] \in Nat /\ h[x] = f[x] + g[x]
  PROVE  SumFunctionOnSet(h, S) =
           SumFunctionOnSet(f, S) + SumFunctionOnSet(g, S)
<1> DEFINE Adds(T) ==
             SumFunctionOnSet(h, T) = SumFunctionOnSet(f, T) + SumFunctionOnSet(g, T)
           G == {T \in SUBSET S : Adds(T)}
<1>1. ASSUME NEW T \in SUBSET S, \A x \in T : T \ {x} \in G PROVE Adds(T)
  <2>1. CASE T = {}
    <3>1. /\ SumFunctionOnSet(f, {}) = 0
          /\ SumFunctionOnSet(g, {}) = 0
          /\ SumFunctionOnSet(h, {}) = 0
      BY SumEmpty
    <3> QED
      BY <2>1, <3>1
  <2>2. ASSUME NEW a \in T PROVE Adds(T)
    <3> DEFINE R == T \ {a}
    <3>1. IsFiniteSet(T) /\ IsFiniteSet(R)
      BY FS_Subset
    <3>2. /\ f[a] \in Nat /\ g[a] \in Nat /\ h[a] = f[a] + g[a]
          /\ SumFunctionOnSet(f, R) \in Nat /\ SumFunctionOnSet(g, R) \in Nat
      BY <3>1, SumType
    <3>3. /\ SumFunctionOnSet(f, T) = f[a] + SumFunctionOnSet(f, R)
          /\ SumFunctionOnSet(g, T) = g[a] + SumFunctionOnSet(g, R)
          /\ SumFunctionOnSet(h, T) = h[a] + SumFunctionOnSet(h, R)
      BY <3>1, SumSplit
    <3>4. SumFunctionOnSet(h, R) = SumFunctionOnSet(f, R) + SumFunctionOnSet(g, R)
      BY <1>1
    <3> HIDE DEF R
    <3> QED
      BY <3>2, <3>3, <3>4
  <2> QED
    BY <2>1, <2>2
<1>2. \A T \in SUBSET S : (\A x \in T : T \ {x} \in G) => T \in G
  BY <1>1
<1>3. S \in G
  <2> HIDE DEF G
  <2> QED
    BY <1>2, FiniteInduction
<1> QED
  BY <1>3

(* A sum of larger terms is larger.                                        *)
LEMMA SumMonotone ==
  ASSUME NEW S, IsFiniteSet(S), NEW f, NEW g,
         \A x \in S : f[x] \in Nat /\ g[x] \in Nat /\ f[x] <= g[x]
  PROVE  SumFunctionOnSet(f, S) <= SumFunctionOnSet(g, S)
<1> DEFINE d == [x \in S |-> g[x] - f[x]]
<1>1. \A x \in S : d[x] \in Nat /\ g[x] = f[x] + d[x]
  OBVIOUS
<1> HIDE DEF d
<1>2. SumFunctionOnSet(g, S) = SumFunctionOnSet(f, S) + SumFunctionOnSet(d, S)
  BY <1>1, SumPlus
<1>3. SumFunctionOnSet(f, S) \in Nat /\ SumFunctionOnSet(d, S) \in Nat
  BY <1>1, SumType
<1> QED
  BY <1>2, <1>3

(* A sum of zeros.                                                         *)
LEMMA SumZero ==
  ASSUME NEW S, IsFiniteSet(S), NEW f, \A x \in S : f[x] = 0
  PROVE  SumFunctionOnSet(f, S) = 0
<1>1. Units(f, S) = {}
  BY DEF Units
<1> QED
  BY <1>1, SumIsCardinality, FS_EmptySet

(* Raising one value raises the sum by as much.                            *)
LEMMA SumRaise ==
  ASSUME NEW S, IsFiniteSet(S), NEW f, NEW g, NEW a \in S, NEW k \in Nat,
         \A x \in S : f[x] \in Nat,
         \A x \in S : g[x] = IF x = a THEN f[x] + k ELSE f[x]
  PROVE  SumFunctionOnSet(g, S) = SumFunctionOnSet(f, S) + k
<1> DEFINE R == S \ {a}
<1>1. IsFiniteSet(R)
  BY FS_Subset
<1>2. SumFunctionOnSet(f, R) = SumFunctionOnSet(g, R)
  BY <1>1, SumEqual
<1>3. /\ SumFunctionOnSet(f, S) = f[a] + SumFunctionOnSet(f, R)
      /\ SumFunctionOnSet(g, S) = g[a] + SumFunctionOnSet(g, R)
  BY SumSplit
<1>4. SumFunctionOnSet(f, R) \in Nat
  BY <1>1, SumType
<1> HIDE DEF R
<1> QED
  BY <1>2, <1>3, <1>4

(* The sum over two disjoint sets.                                          *)
LEMMA SumDisjoint ==
  ASSUME NEW S, IsFiniteSet(S), NEW T, IsFiniteSet(T), S \cap T = {},
         NEW f, \A x \in S \cup T : f[x] \in Nat
  PROVE  SumFunctionOnSet(f, S \cup T) =
           SumFunctionOnSet(f, S) + SumFunctionOnSet(f, T)
<1> DEFINE A == Units(f, S)
           B == Units(f, T)
           U == S \cup T
<1>1. IsFiniteSet(U)
  BY FS_Union
<1>2. Units(f, U) = A \cup B
  BY DEF Units
<1>3. A \cap B = {}
  BY DEF Units
<1>4. /\ SumFunctionOnSet(f, S) = Cardinality(A)
      /\ SumFunctionOnSet(f, T) = Cardinality(B)
      /\ SumFunctionOnSet(f, U) = Cardinality(Units(f, U))
  BY <1>1, SumIsCardinality
<1>5. IsFiniteSet(A) /\ IsFiniteSet(B)
  BY UnitsFinite
<1> HIDE DEF A, B, U
<1>6. Cardinality(A \cup B) = Cardinality(A) + Cardinality(B) - Cardinality(A \cap B)
  BY <1>5, FS_Union
<1>7. Cardinality(A) \in Nat /\ Cardinality(B) \in Nat
  BY <1>5, FS_CardinalityType
<1>8. Cardinality(A \cap B) = 0
  BY <1>3, FS_EmptySet
<1>9. Cardinality(A \cup B) = Cardinality(A) + Cardinality(B)
  BY <1>6, <1>7, <1>8
<1> QED
  BY <1>2, <1>4, <1>9 DEF U
=============================================================================
