----------------------------- MODULE FiniteSums -----------------------------
(***************************************************************************)
(* Greatest members, least members and sums over finite sets, as facts to  *)
(* cite. A sum of naturals is the number of its units, the pairs of a      *)
(* member and one of the numbers up to its value, so that what holds of    *)
(* cardinalities holds of sums.                                            *)
(***************************************************************************)
EXTENDS Integers, FiniteSets, FiniteSetsExt, FiniteSetTheorems, TLAPS

\* A finite set of naturals that has members has a greatest.
LEMMA GreatestExists ==
  ASSUME NEW S \in SUBSET Nat, IsFiniteSet(S), S # {}
  PROVE  \E m \in S : \A x \in S : x <= m
<1> DEFINE below(x) == 0..x
           B == UNION {below(x) : x \in S}
           n == Cardinality(B)
<1>1. IsFiniteSet(B)
  <2> DEFINE f == [x \in S |-> below(x)]
             T == {below(x) : x \in S}
  <2>1. f \in Surjection(S, T)
    BY DEF Surjection
  <2>2. IsFiniteSet(T)
    BY <2>1, FS_Surjection
  <2>3. \A U \in T : IsFiniteSet(U)
    BY FS_Interval
  <2> QED
    BY <2>2, <2>3, FS_UNION
<1>2. /\ B \subseteq Nat /\ n \in Nat /\ S \subseteq B
      /\ \A k \in B : \E x \in S : k <= x
      /\ \A k \in B, i \in Nat : i <= k => i \in B
  BY <1>1, FS_CardinalityType
<1> HIDE DEF B
<1>3. \A k \in B : k < n
  <2> TAKE k \in B
  <2>1. 0..k \in SUBSET B /\ k \in Nat
    BY <1>2
  <2>2. Cardinality(0..k) = k + 1
    BY <2>1, FS_Interval
  <2>3. Cardinality(0..k) <= n
    BY <1>1, <2>1, FS_Subset
  <2> QED
    BY <1>2, <2>1, <2>2, <2>3
<1>4. B = 0..(n-1)
  <2>1. B \in SUBSET (0..(n-1))
    BY <1>2, <1>3
  <2>2. IsFiniteSet(0..(n-1)) /\ Cardinality(0..(n-1)) = n
    BY <1>2, FS_Interval
  <2> QED
    BY <2>1, <2>2, FS_Subset
<1> HIDE DEF n
<1>5. n # 0
  <2>1. B # {}
    BY <1>2
  <2> QED
    BY <1>4, <2>1
<1>6. n - 1 \in B
  BY <1>2, <1>4, <1>5
<1> QED
  BY <1>2, <1>3, <1>6

\* A set of naturals that has members has a least.
LEMMA LeastExists ==
  ASSUME NEW S \in SUBSET Nat, S # {}
  PROVE  \E m \in S : \A x \in S : m <= x
<1>1. PICK n \in S : n \in Nat
  OBVIOUS
<1> DEFINE M == {n - x : x \in {y \in S : y <= n}}
<1>2. M \in SUBSET Nat /\ \A k \in M : k <= n
  BY <1>1
<1>3. IsFiniteSet(M)
  BY <1>1, <1>2, FS_BoundedSetOfNaturals
<1>4. n - n \in M
  BY <1>1
<1>5. PICK k \in M : \A i \in M : i <= k
  BY <1>2, <1>3, <1>4, GreatestExists
<1>6. PICK m \in S : m <= n /\ k = n - m
  BY <1>5
<1>7. ASSUME NEW x \in S PROVE m <= x
  <2>1. CASE x <= n
    <3>1. n - x \in M /\ x \in Nat /\ m \in Nat
      BY <1>6, <1>7, <2>1
    <3>2. n - x <= n - m
      BY <1>5, <1>6, <3>1
    <3> QED
      BY <1>1, <3>1, <3>2
  <2>2. CASE ~(x <= n)
    BY <1>1, <1>6, <1>7, <2>2
  <2> QED
    BY <2>1, <2>2
<1> QED
  BY <1>6, <1>7

\* Sets of finite sets have a member smallest in size.
LEMMA SmallestExists ==
  ASSUME NEW D, D # {}, \A s \in D : IsFiniteSet(s)
  PROVE  \E s \in D : \A t \in D : Cardinality(s) <= Cardinality(t)
<1> DEFINE C == {Cardinality(s) : s \in D}
<1>1. C \in SUBSET Nat /\ C # {}
  BY FS_CardinalityType
<1>2. PICK m \in C : \A x \in C : m <= x
  BY <1>1, LeastExists
<1> QED
  BY <1>2

Sum(f, S) == MapThenSumSet(LAMBDA x : f[x], S)

\* The pairs of a member of S and one of its units.
Units(f, S) == {p \in S \X Nat : 1 <= p[2] /\ p[2] <= f[p[1]]}

\* The units of one member.
LEMMA UnitsOfOne ==
  ASSUME NEW x, NEW n \in Nat
  PROVE  IsFiniteSet({x} \X (1..n)) /\ Cardinality({x} \X (1..n)) = n
<1>1. IsFiniteSet({x}) /\ Cardinality({x}) = 1
  BY FS_Singleton
<1>2. IsFiniteSet(1..n)
  BY FS_Interval
<1>3. Cardinality(1..n) = n
  BY FS_Interval
<1>4. IsFiniteSet({x} \X (1..n)) /\ Cardinality({x} \X (1..n)) = Cardinality({x}) * Cardinality(1..n)
  BY <1>1, <1>2, FS_Product
<1> QED
  BY <1>1, <1>3, <1>4

\* There are finitely many units.
LEMMA UnitsFinite ==
  ASSUME NEW S, IsFiniteSet(S), NEW f, \A x \in S : f[x] \in Nat
  PROVE  IsFiniteSet(Units(f, S)) /\ Cardinality(Units(f, S)) \in Nat
<1> DEFINE T == {{x} \X (1..f[x]) : x \in S}
           g == [x \in S |-> {x} \X (1..f[x])]
<1>1. g \in Surjection(S, T)
  BY DEF Surjection
<1>2. IsFiniteSet(T)
  BY <1>1, FS_Surjection
<1>3. \A U \in T : IsFiniteSet(U)
  <2> TAKE U \in T
  <2>1. PICK x \in S : U = {x} \X (1..f[x]) /\ f[x] \in Nat
    OBVIOUS
  <2> QED
    BY <2>1, UnitsOfOne
<1>4. IsFiniteSet(UNION T)
  BY <1>2, <1>3, FS_UNION
<1>5. Units(f, S) \in SUBSET UNION T
  BY DEF Units
<1> QED
  BY <1>4, <1>5, FS_Subset, FS_CardinalityType

\* No member has no units.
LEMMA UnitsEmpty == ASSUME NEW f PROVE Cardinality(Units(f, {})) = 0
  BY FS_EmptySet DEF Units

\* The units without those of one member.
LEMMA UnitsRemove ==
  ASSUME NEW S, IsFiniteSet(S), NEW f, \A x \in S : f[x] \in Nat, NEW y \in S
  PROVE  Cardinality(Units(f, S)) = f[y] + Cardinality(Units(f, S \ {y}))
<1> DEFINE A == {y} \X (1..f[y])
           B == Units(f, S \ {y})
<1>1. IsFiniteSet(B) /\ Cardinality(B) \in Nat
  BY FS_RemoveElement, UnitsFinite
<1>2. IsFiniteSet(A) /\ Cardinality(A) = f[y] /\ f[y] \in Nat
  <2>1. f[y] \in Nat
    OBVIOUS
  <2> QED
    BY <2>1, UnitsOfOne
<1>3. A \cap B = {} /\ A \cup B = Units(f, S)
  BY DEF Units
<1>4. Cardinality(A \cup B) = Cardinality(A) + Cardinality(B) - Cardinality(A \cap B)
  BY <1>1, <1>2, FS_Union
<1>5. Cardinality(A \cap B) = 0
  BY <1>3, FS_EmptySet
<1>6. Cardinality(Units(f, S)) = Cardinality(A \cup B)
  BY <1>3
<1> HIDE DEF A, B
<1>7. Cardinality(Units(f, S)) = f[y] + Cardinality(B)
  BY <1>1, <1>2, <1>4, <1>5, <1>6
<1> QED
  BY <1>7 DEF B

\* The sum is the number of units.
LEMMA SumIsUnits ==
  ASSUME NEW S, IsFiniteSet(S), NEW f, \A x \in S : f[x] \in Nat
  PROVE  Sum(f, S) = Cardinality(Units(f, S))
<1> DEFINE Eq(g) == g = [s \in SUBSET S |->
             IF s = {} THEN 0
             ELSE f[CHOOSE x \in s : TRUE] + g[s \ {CHOOSE x \in s : TRUE}]]
<1> DEFINE iter == CHOOSE g : Eq(g)
<1> DEFINE w == [s \in SUBSET S |-> Cardinality(Units(f, s))]
<1>1. Sum(f, S) = iter[S]
  BY DEF Sum, MapThenSumSet, MapThenFoldSet
<1>2. \A s \in SUBSET S : IsFiniteSet(s)
  BY FS_Subset
<1>3. \A s \in SUBSET S : s # {} => (CHOOSE x \in s : TRUE) \in s
  OBVIOUS
<1>4. Eq(w)
  <2>1. ASSUME NEW s \in SUBSET S
        PROVE  w[s] = IF s = {} THEN 0
             ELSE f[CHOOSE x \in s : TRUE] + w[s \ {CHOOSE x \in s : TRUE}]
    <3>1. CASE s = {}
      BY <3>1, UnitsEmpty
    <3>2. CASE s # {}
      <4> DEFINE c == CHOOSE x \in s : TRUE
      <4>1. c \in s /\ IsFiniteSet(s) /\ \A x \in s : f[x] \in Nat
        BY <1>2, <1>3, <3>2
      <4> HIDE DEF c
      <4>2. w[s] = f[c] + Cardinality(Units(f, s \ {c}))
        BY <4>1, UnitsRemove
      <4> QED
        BY <3>2, <4>2 DEF c
    <3> QED
      BY <3>1, <3>2
  <2> QED
    BY <2>1
<1>5. Eq(iter)
  <2> HIDE DEF w, Eq
  <2> QED
    BY <1>4
<1>6. \A s \in SUBSET S : iter[s] = w[s]
  <2> HIDE DEF iter
  <2> DEFINE D == {s \in SUBSET S : iter[s] # w[s]}
  <2> SUFFICES ASSUME D # {} PROVE FALSE
    OBVIOUS
  <2>1. PICK s \in D : \A t \in D : Cardinality(s) <= Cardinality(t)
    BY <1>2, SmallestExists
  <2>2. s # {}
    BY <1>4, <1>5, <2>1
  <2> DEFINE c == CHOOSE x \in s : TRUE
  <2>3. c \in s
    BY <2>2
  <2>4. iter[s] = f[c] + iter[s \ {c}] /\ w[s] = f[c] + w[s \ {c}]
    BY <1>4, <1>5, <2>1, <2>2
  <2>5. s \ {c} \in D
    <3> HIDE DEF w, c
    <3> QED
      BY <2>1, <2>3, <2>4
  <2>6. IsFiniteSet(s) /\ Cardinality(s) \in Nat /\ Cardinality(s \ {c}) = Cardinality(s) - 1
    BY <1>2, <2>1, <2>3, FS_RemoveElement, FS_CardinalityType
  <2>7. Cardinality(s) <= Cardinality(s \ {c})
    BY <2>1, <2>5
  <2> QED
    BY <2>6, <2>7
<1> QED
  BY <1>1, <1>6

\* Sums are natural.
LEMMA SumNat ==
  ASSUME NEW S, IsFiniteSet(S), NEW f, \A x \in S : f[x] \in Nat
  PROVE  Sum(f, S) \in Nat
BY SumIsUnits, UnitsFinite

\* Nothing adds up to nothing.
LEMMA SumEmpty == ASSUME NEW f PROVE Sum(f, {}) = 0
BY SumIsUnits, UnitsEmpty, FS_EmptySet

\* One member apart.
LEMMA SumRemove ==
  ASSUME NEW S, IsFiniteSet(S), NEW f, \A x \in S : f[x] \in Nat, NEW y \in S
  PROVE  Sum(f, S) = f[y] + Sum(f, S \ {y})
<1>1. IsFiniteSet(S \ {y})
  BY FS_RemoveElement
<1> QED
  BY <1>1, SumIsUnits, UnitsRemove

\* One member more.
LEMMA SumAdd ==
  ASSUME NEW S, IsFiniteSet(S), NEW y, y \notin S, NEW f, \A x \in S \cup {y} : f[x] \in Nat
  PROVE  Sum(f, S \cup {y}) = f[y] + Sum(f, S)
<1>1. IsFiniteSet(S \cup {y}) /\ (S \cup {y}) \ {y} = S /\ y \in S \cup {y}
  BY FS_AddElement
<1> QED
  BY <1>1, SumRemove

\* Functions that agree on a set have the same sum over it.
LEMMA SumSame ==
  ASSUME NEW S, IsFiniteSet(S), NEW f, NEW g, \A x \in S : f[x] \in Nat /\ f[x] = g[x]
  PROVE  Sum(f, S) = Sum(g, S)
<1>1. Units(f, S) = Units(g, S)
  BY DEF Units
<1> QED
  BY <1>1, SumIsUnits

\* A larger function has a larger sum.
LEMMA SumMonotonic ==
  ASSUME NEW S, IsFiniteSet(S), NEW f, NEW g,
         \A x \in S : f[x] \in Nat /\ g[x] \in Nat /\ f[x] <= g[x]
  PROVE  Sum(f, S) <= Sum(g, S)
<1>1. Units(f, S) \in SUBSET Units(g, S)
  BY DEF Units
<1>2. IsFiniteSet(Units(g, S))
  BY UnitsFinite
<1> QED
  BY <1>1, <1>2, FS_Subset, SumIsUnits

\* A part has a smaller sum.
LEMMA SumSubset ==
  ASSUME NEW S, IsFiniteSet(S), NEW T \in SUBSET S, NEW f, \A x \in S : f[x] \in Nat
  PROVE  Sum(f, T) <= Sum(f, S)
<1>1. Units(f, T) \in SUBSET Units(f, S)
  BY DEF Units
<1>2. IsFiniteSet(Units(f, S)) /\ IsFiniteSet(T)
  BY UnitsFinite, FS_Subset
<1> QED
  BY <1>1, <1>2, FS_Subset, SumIsUnits

\* Two parts add up.
LEMMA SumUnion ==
  ASSUME NEW S, NEW T, IsFiniteSet(S), IsFiniteSet(T), S \cap T = {},
         NEW f, \A x \in S \cup T : f[x] \in Nat
  PROVE  Sum(f, S \cup T) = Sum(f, S) + Sum(f, T)
<1>1. /\ IsFiniteSet(Units(f, S)) /\ Cardinality(Units(f, S)) \in Nat
      /\ IsFiniteSet(Units(f, T)) /\ Cardinality(Units(f, T)) \in Nat
  BY UnitsFinite
<1>2. Units(f, S \cup T) = Units(f, S) \cup Units(f, T) /\ Units(f, S) \cap Units(f, T) = {}
  BY DEF Units
<1> DEFINE A == Units(f, S)
           B == Units(f, T)
<1>3. Cardinality(Units(f, S \cup T)) = Cardinality(A) + Cardinality(B) - Cardinality({})
  <2> HIDE DEF A, B
  <2>1. Cardinality(A \cup B) = Cardinality(A) + Cardinality(B) - Cardinality(A \cap B)
    BY <1>1, FS_Union DEF A, B
  <2> QED
    BY <1>2, <2>1 DEF A, B
<1>4. IsFiniteSet(S \cup T)
  BY FS_Union
<1> QED
  BY <1>1, <1>3, <1>4, SumIsUnits, FS_EmptySet

\* One value changed.
LEMMA SumChanged ==
  ASSUME NEW S, IsFiniteSet(S), NEW f, NEW g, NEW y \in S,
         \A x \in S : f[x] \in Nat /\ g[x] \in Nat, \A x \in S \ {y} : g[x] = f[x]
  PROVE  Sum(g, S) = Sum(f, S) - f[y] + g[y]
<1>1. IsFiniteSet(S \ {y})
  BY FS_RemoveElement
<1>2. Sum(g, S \ {y}) = Sum(f, S \ {y}) /\ Sum(f, S \ {y}) \in Nat
  BY <1>1, SumSame, SumNat
<1>3. Sum(g, S) = g[y] + Sum(g, S \ {y}) /\ Sum(f, S) = f[y] + Sum(f, S \ {y})
  BY SumRemove
<1> QED
  BY <1>2, <1>3
=============================================================================
