------------------------------ MODULE Counting ------------------------------
(***************************************************************************)
(* Lemmas on the sizes of finite sets that several proofs need: induction   *)
(* in terms of sets, counting, and sums as numbers of units.               *)
(***************************************************************************)
EXTENDS FiniteSetTheorems, TLAPS

(* Induction, where the property to be shown is a set. *)

LEMMA Induction ==
    ASSUME NEW T, 0 \in T, \A n \in Nat : n \in T => n + 1 \in T
    PROVE  Nat \subseteq T
<1> DEFINE Gaps == Nat \ T
<1>1. ASSUME Gaps # {}
      PROVE  FALSE
  <2>1. PICK n \in Gaps : \A i \in Gaps : <<i, n>> \notin OpToRel(<, Nat)
    BY <1>1, NatLessThanWellFounded, WFMin
  <2>2. n \in Nat /\ n \notin T /\ n - 1 \in Nat /\ n - 1 < n
    OBVIOUS
  <2>3. \A i \in Gaps : ~(i < n)
    BY <2>1, <2>2 DEF OpToRel
  <2>4. n - 1 \in T
    BY <2>2, <2>3
  <2> QED
    BY <2>2, <2>4
<1> QED
  BY <1>1

\* Downwards from N.
LEMMA Descent ==
    ASSUME NEW N \in Nat, NEW T, N \in T, \A n \in 0..N - 1 : n + 1 \in T => n \in T
    PROVE  0..N \subseteq T
<1> DEFINE D == {d \in Nat : d <= N => N - d \in T}
<1>1. Nat \subseteq D
  <2>1. 0 \in D
    OBVIOUS
  <2>2. ASSUME NEW d \in Nat, d \in D
        PROVE  d + 1 \in D
    <3>1. CASE d + 1 <= N
      <4>1. N - (d + 1) \in 0..N - 1 /\ N - (d + 1) + 1 = N - d /\ N - d \in T
        BY <2>2, <3>1
      <4> QED
        BY <4>1
    <3> QED
      BY <3>1
  <2> HIDE DEF D
  <2> QED
    BY <2>1, <2>2, Induction
<1>2. ASSUME NEW n \in 0..N
      PROVE  n \in T
  <2>1. N - n \in D /\ N - n <= N /\ N - (N - n) = n
    BY <1>1
  <2> QED
    BY <2>1
<1> QED
  BY <1>2

\* Over the subsets of a finite set, by taking one element out of each.
LEMMA SubsetInduction ==
    ASSUME NEW S, IsFiniteSet(S), NEW T, {} \in T,
           \A s \in SUBSET S : s # {} => \E x \in s : s \ {x} \in T => s \in T
    PROVE  SUBSET S \subseteq T
<1> DEFINE D == {n \in Nat : \A s \in SUBSET S : Cardinality(s) = n => s \in T}
<1>1. Nat \subseteq D
  <2>1. 0 \in D
    <3>1. \A s \in SUBSET S : Cardinality(s) = 0 => s = {}
      BY FS_Subset, FS_EmptySet
    <3> QED
      BY <3>1
  <2>2. ASSUME NEW n \in Nat, n \in D
        PROVE  n + 1 \in D
    <3>1. ASSUME NEW s \in SUBSET S, Cardinality(s) = n + 1
          PROVE  s \in T
      <4>1. IsFiniteSet(s) /\ s # {}
        BY <3>1, FS_Subset, FS_EmptySet
      <4>2. PICK x \in s : s \ {x} \in T => s \in T
        BY <4>1
      <4>3. Cardinality(s \ {x}) = n
        <5>1. Cardinality(s \ {x}) = Cardinality(s) - 1
          BY <4>1, FS_RemoveElement
        <5> QED
          BY <3>1, <5>1
      <4> QED
        BY <2>2, <4>2, <4>3
    <3> QED
      BY <3>1
  <2> HIDE DEF D
  <2> QED
    BY <2>1, <2>2, Induction
<1>2. ASSUME NEW s \in SUBSET S
      PROVE  s \in T
  <2>1. Cardinality(s) \in Nat
    BY FS_Subset, FS_CardinalityType
  <2> QED
    BY <1>1, <2>1
<1> QED
  BY <1>2
-----------------------------------------------------------------------------
(* Counting. *)


LEMMA SizeOfSubset ==
    ASSUME NEW S, IsFiniteSet(S), NEW T \in SUBSET S
    PROVE  /\ IsFiniteSet(T) /\ Cardinality(T) \in Nat /\ Cardinality(S) \in Nat
           /\ Cardinality(T) <= Cardinality(S)
BY FS_Subset, FS_CardinalityType

LEMMA SizeOfDisjointUnion ==
    ASSUME NEW S, NEW T, IsFiniteSet(S), IsFiniteSet(T), S \cap T = {}
    PROVE  /\ IsFiniteSet(S \cup T)
           /\ Cardinality(S \cup T) = Cardinality(S) + Cardinality(T)
<1>1. /\ IsFiniteSet(S \cup T)
      /\ Cardinality(S \cup T) = Cardinality(S) + Cardinality(T) - Cardinality(S \cap T)
  BY FS_Union
<1>2. Cardinality(S \cap T) = 0
  BY FS_EmptySet
<1>3. Cardinality(S) \in Nat /\ Cardinality(T) \in Nat
  BY FS_CardinalityType
<1> QED
  BY <1>1, <1>2, <1>3

One(b) == IF b THEN 1 ELSE 0

\* A set that changes at u only.
LEMMA SizeOfChange ==
    ASSUME NEW S, IsFiniteSet(S), NEW T, NEW u, \A v : v # u => (v \in S <=> v \in T)
    PROVE  /\ IsFiniteSet(T)
           /\ Cardinality(T) = Cardinality(S) - One(u \in S) + One(u \in T)
<1>1. Cardinality(S) \in Nat
  BY FS_CardinalityType
<1>2. CASE u \in T
  <2>1. T = S \cup {u}
    BY <1>2
  <2>2. IsFiniteSet(T) /\ Cardinality(T) = IF u \in S THEN Cardinality(S)
                                           ELSE Cardinality(S) + 1
    BY <2>1, FS_AddElement
  <2> QED
    BY <1>1, <1>2, <2>2 DEF One
<1>3. CASE u \notin T
  <2>1. T = S \ {u}
    BY <1>3
  <2>2. IsFiniteSet(T) /\ Cardinality(T) = IF u \in S THEN Cardinality(S) - 1
                                           ELSE Cardinality(S)
    BY <2>1, FS_RemoveElement
  <2> QED
    BY <1>1, <1>3, <2>2 DEF One
<1> QED
  BY <1>2, <1>3

-----------------------------------------------------------------------------
(* The sum of a function to the naturals over a finite set, as the number   *)
(* of its units: no recursion, so the lemmas on finite sets apply.          *)

Units(S, f) == {p \in S \X (Nat \ {0}) : p[2] <= f[p[1]]}

Total(S, f) == Cardinality(Units(S, f))

LEMMA UnitsOfOne ==
    ASSUME NEW s, NEW n \in Nat
    PROVE  IsFiniteSet({s} \X (1..n)) /\ Cardinality({s} \X (1..n)) = n
<1>1. IsFiniteSet({s}) /\ Cardinality({s}) = 1
  BY FS_Singleton
<1>2. IsFiniteSet(1..n) /\ Cardinality(1..n) = n
  BY FS_Interval
<1>3. ASSUME NEW T, IsFiniteSet(T), Cardinality(T) = n
      PROVE  IsFiniteSet({s} \X T) /\ Cardinality({s} \X T) = 1 * n
  BY <1>1, <1>3, FS_Product, Zenon
<1>4. IsFiniteSet({s} \X (1..n)) /\ Cardinality({s} \X (1..n)) = 1 * n
  BY <1>2, <1>3, Zenon
<1> QED
  BY <1>4

LEMMA TotalOfNone ==
    ASSUME NEW S, NEW f, \A s \in S : f[s] = 0
    PROVE  Total(S, f) = 0
<1>1. Units(S, f) = {}
  BY DEF Units
<1> QED
  BY <1>1, FS_EmptySet DEF Total

\* The units of s and those of the others.
LEMMA UnitsSplit ==
    ASSUME NEW S, NEW f, NEW s \in S, f[s] \in Nat
    PROVE  /\ Units(S, f) = Units(S \ {s}, f) \cup ({s} \X (1..f[s]))
           /\ Units(S \ {s}, f) \cap ({s} \X (1..f[s])) = {}
BY DEF Units

LEMMA UnitsFinite ==
    ASSUME NEW S, IsFiniteSet(S), NEW f, \A s \in S : f[s] \in Nat
    PROVE  IsFiniteSet(Units(S, f)) /\ Total(S, f) \in Nat
<1> DEFINE T == {s \in SUBSET S : IsFiniteSet(Units(s, f))}
<1>1. SUBSET S \subseteq T
  <2>1. {} \in T
    <3>1. Units({}, f) = {}
      BY DEF Units
    <3> QED
      BY <3>1, FS_EmptySet
  <2>2. ASSUME NEW s \in SUBSET S, NEW x \in s, s \ {x} \in T
        PROVE  s \in T
    <3>1. Units(s, f) = Units(s \ {x}, f) \cup ({x} \X (1..f[x]))
      BY UnitsSplit
    <3>2. IsFiniteSet({x} \X (1..f[x]))
      BY UnitsOfOne
    <3>3. IsFiniteSet(Units(s \ {x}, f) \cup ({x} \X (1..f[x])))
      BY <2>2, <3>2, FS_Union
    <3> QED
      BY <3>1, <3>3
  <2> HIDE DEF T
  <2>3. \A s \in SUBSET S : s # {} => \E x \in s : s \ {x} \in T => s \in T
    BY <2>2
  <2> QED
    BY <2>1, <2>3, SubsetInduction
<1>2. IsFiniteSet(Units(S, f))
  BY <1>1
<1> QED
  BY <1>2, FS_CardinalityType DEF Total

LEMMA TotalSplit ==
    ASSUME NEW S, IsFiniteSet(S), NEW f, \A s \in S : f[s] \in Nat, NEW s \in S
    PROVE  /\ Total(S, f) = Total(S \ {s}, f) + f[s]
           /\ Total(S \ {s}, f) \in Nat
<1> DEFINE Own == {s} \X (1..f[s])
<1>1. IsFiniteSet(Own) /\ Cardinality(Own) = f[s]
  BY UnitsOfOne
<1>2. IsFiniteSet(S \ {s})
  BY FS_RemoveElement
<1>3. IsFiniteSet(Units(S \ {s}, f)) /\ Total(S \ {s}, f) \in Nat
  BY <1>2, UnitsFinite
<1>4. Units(S, f) = Units(S \ {s}, f) \cup Own /\ Units(S \ {s}, f) \cap Own = {}
  BY UnitsSplit
<1> HIDE DEF Own
<1> QED
  BY <1>1, <1>3, <1>4, SizeOfDisjointUnion DEF Total

\* Only the values on the set count.
LEMMA TotalOfSame ==
    ASSUME NEW S, NEW f, NEW g, \A s \in S : f[s] = g[s]
    PROVE  Total(S, f) = Total(S, g)
<1>1. Units(S, f) = Units(S, g)
  BY DEF Units
<1> QED
  BY <1>1 DEF Total

\* Functions that differ at s only.
LEMMA TotalOfChange ==
    ASSUME NEW S, IsFiniteSet(S), NEW s \in S, NEW f \in [S -> Nat], NEW g \in [S -> Nat],
           \A r \in S : r # s => g[r] = f[r]
    PROVE  Total(S, g) = Total(S, f) - f[s] + g[s]
<1>1. Total(S \ {s}, f) = Total(S \ {s}, g)
  BY TotalOfSame
<1>2. /\ Total(S, f) = Total(S \ {s}, f) + f[s]
      /\ Total(S \ {s}, f) \in Nat
  BY TotalSplit
<1>3. Total(S, g) = Total(S \ {s}, g) + g[s]
  BY TotalSplit
<1>4. f[s] \in Nat /\ g[s] \in Nat
  OBVIOUS
<1> QED
  BY <1>1, <1>2, <1>3, <1>4

\* One unit less of every element.
LEMMA TotalOfLess ==
    ASSUME NEW S, IsFiniteSet(S), NEW f \in [S -> Nat], NEW g \in [S -> Nat],
           \A s \in S : f[s] = g[s] + 1
    PROVE  Total(S, f) = Total(S, g) + Cardinality(S)
<1> DEFINE Top == {p \in Units(S, f) : p[2] = f[p[1]]}
           t   == [s \in S |-> <<s, f[s]>>]
<1>1. Units(S, f) = Units(S, g) \cup Top
  BY DEF Units
<1>2. Units(S, g) \cap Top = {}
  BY DEF Units
<1>3. t \in Bijection(S, Top)
  <2>1. \A s \in S : <<s, f[s]>> \in Top
    <3>1. \A s \in S : f[s] \in Nat \ {0}
      OBVIOUS
    <3> QED
      BY <3>1 DEF Units
  <2>2. \A p \in Top : p[1] \in S /\ p = <<p[1], f[p[1]]>>
    BY DEF Units
  <2>3. \A a, b \in S : t[a] = t[b] => a = b
    OBVIOUS
  <2> QED
    BY <2>1, <2>2, <2>3 DEF Bijection, Injection, Surjection, IsInjective
<1>4. IsFiniteSet(Top) /\ Cardinality(Top) = Cardinality(S)
  BY <1>3, FS_Bijection DEF ExistsBijection
<1>5. IsFiniteSet(Units(S, g))
  BY UnitsFinite
<1> HIDE DEF Top, t
<1> QED
  BY <1>1, <1>2, <1>4, <1>5, SizeOfDisjointUnion DEF Total

LEMMA TotalAtLeast ==
    ASSUME NEW S, IsFiniteSet(S), NEW s \in S, NEW f \in [S -> Nat]
    PROVE  f[s] <= Total(S, f)
<1>1. Total(S, f) = Total(S \ {s}, f) + f[s] /\ Total(S \ {s}, f) \in Nat
  BY TotalSplit
<1>2. f[s] \in Nat
  OBVIOUS
<1> QED
  BY <1>1, <1>2

=============================================================================
