------------------------------ MODULE DataLemmas ------------------------------
(* Facts about data that the proofs of several modules need: sets of numbers    *)
(* have first and last members, what holds of smaller sets holds of all, and    *)
(* the folds of the community modules are what their names say.                 *)
EXTENDS Integers, FiniteSets, Functions, FiniteSetsExt, FiniteSetTheorems,
        WellFoundedInduction, TLAPS

-----------------------------------------------------------------------------
(* Order *)

\* A set of natural numbers has a least element.
LEMMA LeastNat ==
  ASSUME NEW S, S \subseteq Nat, S # {}
  PROVE  \E m \in S : \A n \in S : m <= n
<1>1. PICK R : IsWellFoundedOn(R, Nat) /\ \A a, b \in Nat : a < b => <<a, b>> \in R
  <2>1. \A a, b \in Nat : a < b => <<a, b>> \in OpToRel(<, Nat)
    BY DEF OpToRel
  <2> QED BY <2>1, NatLessThanWellFounded
<1>2. PICK m \in S : \A n \in S : ~ (<<n, m>> \in R)
  <2>1. IsWellFoundedOn(R, Nat)
    BY <1>1
  <2>2. \E x \in S : \A y \in S : ~ (<<y, x>> \in R)
    BY ONLY <2>1, WFMin, S \subseteq Nat, S # {}, Zenon
  <2> QED BY <2>2
<1>3. \A n \in S : ~(n < m)
  BY <1>1, <1>2
<1> QED BY <1>3

\* A set of integers with an upper bound has a greatest element.
LEMMA GreatestInt ==
  ASSUME NEW S, S \subseteq Int, S # {}, NEW b \in Int, \A n \in S : n <= b
  PROVE  \E m \in S : \A n \in S : n <= m
<1> DEFINE D == {b - n : n \in S}
<1>0. \A n \in S : b - n \in Nat
  <2> SUFFICES ASSUME NEW n \in S PROVE b - n \in Nat
    OBVIOUS
  <2>1. n \in Int /\ n <= b
    OBVIOUS
  <2> QED BY <2>1
<1>1. D \subseteq Nat /\ D # {}
  BY <1>0
<1> HIDE DEF D
<1>2. PICK d \in D : \A e \in D : d <= e
  BY <1>1, LeastNat
<1>3. PICK m \in S : d = b - m
  BY DEF D
<1>4. \A n \in S : b - n \in D
  BY DEF D
<1>5. \A n \in S : b - m <= b - n
  BY <1>2, <1>3, <1>4
<1>6. m \in Int /\ \A n \in S : n \in Int
  OBVIOUS
<1> QED BY <1>3, <1>5, <1>6

-----------------------------------------------------------------------------
(* Induction and recursion over finite sets *)

\* What holds of a set if it holds of all that lack one of its members, holds of all
\* subsets of a finite set.
LEMMA SubsetInduction ==
  ASSUME NEW S, IsFiniteSet(S), NEW G,
         \A s \in SUBSET S : (\A x \in s : s \ {x} \in G) => s \in G
  PROVE  \A s \in SUBSET S : s \in G
<1> DEFINE Bad == {s \in SUBSET S : s \notin G}
           Sizes == {Cardinality(s) : s \in Bad}
<1> SUFFICES ASSUME Bad # {} PROVE FALSE
  OBVIOUS
<1>1. \A s \in SUBSET S : IsFiniteSet(s) /\ Cardinality(s) \in Nat
  BY FS_Subset, FS_CardinalityType
<1>2. Sizes \subseteq Nat /\ Sizes # {}
  BY <1>1
<1>3. PICK m \in Sizes : \A n \in Sizes : m <= n
  <2> HIDE DEF Sizes
  <2> QED BY <1>2, LeastNat
<1>4. PICK s \in Bad : Cardinality(s) = m
  BY <1>3
<1>5. PICK x \in s : s \ {x} \notin G
  BY <1>4
<1>6. IsFiniteSet(s) /\ Cardinality(s \ {x}) = Cardinality(s) - 1
  BY <1>1, <1>4, <1>5, FS_RemoveElement
<1>7. Cardinality(s \ {x}) \in Sizes
  BY <1>4, <1>5
<1>8. m <= Cardinality(s \ {x})
  BY <1>3, <1>7
<1>9. m \in Nat /\ Cardinality(s \ {x}) = m - 1
  BY <1>2, <1>4, <1>6
<1> QED BY <1>8, <1>9

\* h is the function on the subsets of S that takes one member after the other away.
TakesAway(S, pick, base, g, h) ==
  h = [s \in SUBSET S |-> IF s = {} THEN base ELSE g[<<pick[s], h[s \ {pick[s]}]>>]]

\* There is one for any finite set.
LEMMA SubsetRecursion ==
  ASSUME NEW S, IsFiniteSet(S), NEW pick, \A s \in SUBSET S : s # {} => pick[s] \in s,
         NEW base, NEW g
  PROVE  \E h : TakesAway(S, pick, base, g, h)
<1> DEFINE Below(n) == {s \in SUBSET S : Cardinality(s) <= n}
           Good == {n \in Nat : \E h : h = [s \in Below(n) |->
                       IF s = {} THEN base ELSE g[<<pick[s], h[s \ {pick[s]}]>>]]}
           Bad == Nat \ Good
<1>0. \A s \in SUBSET S : IsFiniteSet(s) /\ Cardinality(s) \in Nat
  BY FS_Subset, FS_CardinalityType
<1>1. 0 \in Good
  <2> DEFINE h == [s \in Below(0) |-> base]
  <2>1. \A s \in Below(0) : s = {}
    BY <1>0, FS_EmptySet
  <2>2. h = [s \in Below(0) |-> IF s = {} THEN base ELSE g[<<pick[s], h[s \ {pick[s]}]>>]]
    BY <2>1
  <2> HIDE DEF h
  <2> QED BY <2>2
<1>2. ASSUME NEW n \in Good PROVE n + 1 \in Good
  <2>1. PICK h : h = [s \in Below(n) |->
                        IF s = {} THEN base ELSE g[<<pick[s], h[s \ {pick[s]}]>>]]
    OBVIOUS
  <2> DEFINE k == [s \in Below(n + 1) |->
                     IF s = {} THEN base ELSE g[<<pick[s], h[s \ {pick[s]}]>>]]
  <2>2. Below(n) \subseteq Below(n + 1)
    BY <1>0
  <2>3. \A s \in Below(n) : k[s] = h[s]
    <3>1. \A s \in Below(n) : k[s] = IF s = {} THEN base ELSE g[<<pick[s], h[s \ {pick[s]}]>>]
      BY <2>2
    <3>2. \A s \in Below(n) : h[s] = IF s = {} THEN base ELSE g[<<pick[s], h[s \ {pick[s]}]>>]
      <4> HIDE DEF Below
      <4> QED BY <2>1
    <3> HIDE DEF k, Below
    <3> QED BY <3>1, <3>2
  <2>4. ASSUME NEW s \in Below(n + 1), s # {} PROVE s \ {pick[s]} \in Below(n)
    <3>1. Cardinality(s \ {pick[s]}) = Cardinality(s) - 1
      BY <1>0, <2>4, FS_RemoveElement
    <3>2. Cardinality(s) \in Nat /\ Cardinality(s) <= n + 1 /\ n \in Nat
      BY <1>0
    <3> QED BY <3>1, <3>2
  <2>5. \A s \in Below(n + 1) :
          k[s] = IF s = {} THEN base ELSE g[<<pick[s], k[s \ {pick[s]}]>>]
    <3>1. \A s \in Below(n + 1) :
            k[s] = IF s = {} THEN base ELSE g[<<pick[s], h[s \ {pick[s]}]>>]
      <4> HIDE DEF Below
      <4> QED OBVIOUS
    <3> HIDE DEF k, Below
    <3> QED BY <2>3, <2>4, <3>1
  <2>6. k = [s \in Below(n + 1) |-> k[s]]
    <3> HIDE DEF Below
    <3> QED OBVIOUS
  <2> HIDE DEF k
  <2>7. k = [s \in Below(n + 1) |-> IF s = {} THEN base ELSE g[<<pick[s], k[s \ {pick[s]}]>>]]
    <3> HIDE DEF Below
    <3> QED BY <2>5, <2>6
  <2>8. n + 1 \in Nat
    OBVIOUS
  <2> HIDE DEF Below
  <2> QED BY <2>7, <2>8
<1>3. Bad = {}
  <2> SUFFICES ASSUME Bad # {} PROVE FALSE
    OBVIOUS
  <2> HIDE DEF Good
  <2>1. PICK m \in Bad : \A n \in Bad : m <= n
    BY LeastNat
  <2>2. m \in Nat /\ m # 0
    BY <1>1
  <2>3. m - 1 \in Nat /\ m - 1 \notin Bad
    BY <2>1, <2>2
  <2>4. m - 1 \in Good /\ (m - 1) + 1 = m
    BY <2>2, <2>3
  <2>5. (m - 1) + 1 \in Good
    BY <1>2, <2>4
  <2> QED BY <2>4, <2>5
<1>4. Below(Cardinality(S)) = SUBSET S
  BY FS_Subset
<1>5. Cardinality(S) \in Good
  <2> HIDE DEF Good
  <2> QED BY <1>3, FS_CardinalityType
<1> HIDE DEF Below
<1> QED BY <1>4, <1>5 DEF TakesAway

\* A finite set that is ordered by R has a last member.
LEMMA LastExists ==
  ASSUME NEW S, IsFiniteSet(S), NEW R,
         \A x, y \in S : x = y \/ <<x, y>> \in R \/ <<y, x>> \in R,
         \A x, y, z \in S : <<x, y>> \in R /\ <<y, z>> \in R => <<x, z>> \in R
  PROVE  \A s \in SUBSET S : s # {} => \E x \in s : \A y \in s : y # x => <<y, x>> \in R
<1> DEFINE G == {s \in SUBSET S : s # {} => \E x \in s : \A y \in s : y # x => <<y, x>> \in R}
<1>1. ASSUME NEW s \in SUBSET S, \A x \in s : s \ {x} \in G PROVE s \in G
  <2> SUFFICES ASSUME NEW a \in s PROVE \E x \in s : \A y \in s : y # x => <<y, x>> \in R
    OBVIOUS
  <2>1. CASE s \ {a} = {}
    BY <2>1
  <2>2. CASE s \ {a} # {}
    <3>1. PICK b \in s \ {a} : \A y \in s \ {a} : y # b => <<y, b>> \in R
      BY <1>1, <2>2
    <3>2. CASE <<b, a>> \in R
      <4>1. \A y \in s : y # a => <<y, a>> \in R
        BY <3>1, <3>2
      <4> QED BY <4>1
    <3>3. CASE <<a, b>> \in R
      <4>1. \A y \in s : y # b => <<y, b>> \in R
        BY <3>1, <3>3
      <4> QED BY <4>1
    <3> QED BY <3>1, <3>2, <3>3
  <2> QED BY <2>1, <2>2
<1>2. \A s \in SUBSET S : s \in G
  <2> HIDE DEF G
  <2> QED BY <1>1, SubsetInduction
<1> QED BY <1>2

-----------------------------------------------------------------------------
(* Sums *)

\* A function that adds up values member by member, some member first.
AddsUp(f, S, h) ==
  h = [s \in SUBSET S |->
         IF s = {} THEN 0 ELSE f[CHOOSE x \in s : TRUE] + h[s \ {CHOOSE x \in s : TRUE}]]

\* There is one for any finite set of integers.
LEMMA SumsExist ==
  ASSUME NEW f, NEW S, IsFiniteSet(S), \A x \in S : f[x] \in Int
  PROVE  \E h : AddsUp(f, S, h)
<1> DEFINE Adds(pick, h) == h = [s \in SUBSET S |->
                               IF s = {} THEN 0 ELSE f[pick[s]] + h[s \ {pick[s]}]]
<1>1. ASSUME NEW pick, \A s \in SUBSET S : s # {} => pick[s] \in s,
             NEW g, \A x \in S, y \in Int : g[<<x, y>>] = f[x] + y
      PROVE  \E h : Adds(pick, h)
  <2> PICK base : base = 0
    OBVIOUS
  <2>1. PICK h : TakesAway(S, pick, base, g, h)
    BY <1>1, SubsetRecursion
  <2>2. \A s \in SUBSET S : h[s] = IF s = {} THEN 0 ELSE g[<<pick[s], h[s \ {pick[s]}]>>]
    BY <2>1 DEF TakesAway
  <2>3. \A s \in SUBSET S : h[s] \in Int
    <3> DEFINE G == {s \in SUBSET S : h[s] \in Int}
    <3>1. ASSUME NEW s \in SUBSET S, \A x \in s : s \ {x} \in G PROVE s \in G
      <4>1. CASE s = {}
        <5>1. h[s] = 0
          BY <2>2, <4>1
        <5> QED BY <5>1
      <4>2. CASE s # {}
        <5> PICK b \in s : b = pick[s]
          BY <1>1, <4>2
        <5> PICK r \in Int : r = h[s \ {b}]
          BY <3>1
        <5>1. h[s] = g[<<b, r>>]
          BY <2>2, <4>2
        <5>2. g[<<b, r>>] = f[b] + r /\ f[b] \in Int
          BY <1>1
        <5> QED BY <5>1, <5>2
      <4> QED BY <4>1, <4>2
    <3>2. \A s \in SUBSET S : s \in G
      <4> HIDE DEF G
      <4> QED BY <3>1, SubsetInduction
    <3> QED BY <3>2
  <2>4. ASSUME NEW s \in SUBSET S, s # {}
        PROVE  g[<<pick[s], h[s \ {pick[s]}]>>] = f[pick[s]] + h[s \ {pick[s]}]
    <3> PICK b \in s : b = pick[s]
      BY <1>1, <2>4
    <3> PICK r \in Int : r = h[s \ {b}]
      BY <2>3
    <3>1. g[<<b, r>>] = f[b] + r
      BY <1>1
    <3> QED BY <3>1
  <2>5. \A s \in SUBSET S : h[s] = IF s = {} THEN 0 ELSE f[pick[s]] + h[s \ {pick[s]}]
    BY <2>2, <2>4
  <2>6. h = [s \in SUBSET S |-> h[s]]
    BY <2>1 DEF TakesAway
  <2>7. h = [s \in SUBSET S |-> IF s = {} THEN 0 ELSE f[pick[s]] + h[s \ {pick[s]}]]
    BY <2>5, <2>6
  <2> QED BY <2>7
<1>2. \E g : \A x \in S, y \in Int : g[<<x, y>>] = f[x] + y
  <2> DEFINE g == [p \in S \X Int |-> f[p[1]] + p[2]]
  <2>1. \A x \in S, y \in Int : g[<<x, y>>] = f[x] + y
    OBVIOUS
  <2> HIDE DEF g
  <2> QED BY <2>1
<1>3. PICK pick : pick = [s \in SUBSET S |-> CHOOSE x \in s : TRUE]
  OBVIOUS
<1>4. \A s \in SUBSET S : pick[s] = CHOOSE x \in s : TRUE
  BY <1>3
<1>5. \A s \in SUBSET S : s # {} => pick[s] \in s
  BY <1>4
<1>6. PICK h : Adds(pick, h)
  <2> HIDE DEF Adds
  <2> HIDE <1>3
  <2>1. PICK g : \A x \in S, y \in Int : g[<<x, y>>] = f[x] + y
    BY <1>2
  <2> QED BY <1>1, <1>5, <2>1
<1>7. h = [s \in SUBSET S |->
             IF s = {} THEN 0
             ELSE f[CHOOSE x \in s : TRUE] + h[s \ {CHOOSE x \in s : TRUE}]]
  BY <1>4, <1>6
<1> QED BY <1>7 DEF AddsUp

\* The sum of the community modules is made by one of them.
LEMMA SumIsAddedUp ==
  ASSUME NEW f, NEW S, IsFiniteSet(S), \A x \in S : f[x] \in Int
  PROVE  \E h : AddsUp(f, S, h) /\ SumFunctionOnSet(f, S) = h[S]
<1>1. SumFunctionOnSet(f, S) =
        (CHOOSE h : h = [s \in SUBSET S |->
           IF s = {} THEN 0
           ELSE f[CHOOSE x \in s : TRUE] + h[s \ {CHOOSE x \in s : TRUE}]])[S]
  BY DEF SumFunctionOnSet, FoldFunctionOnSet, MapThenFoldSet
<1>2. SumFunctionOnSet(f, S) = (CHOOSE h : AddsUp(f, S, h))[S]
  BY <1>1 DEF AddsUp
<1> QED BY <1>2, SumsExist

\* It does not matter which member is added first.
LEMMA AddedInAnyOrder ==
  ASSUME NEW f, NEW S, IsFiniteSet(S), \A x \in S : f[x] \in Int, NEW h, AddsUp(f, S, h)
  PROVE  \A s \in SUBSET S : /\ h[s] \in Int
                             /\ s = {} => h[s] = 0
                             /\ \A x \in s : h[s] = f[x] + h[s \ {x}]
<1> DEFINE c(s) == CHOOSE x \in s : TRUE
           G == {s \in SUBSET S : \A x \in s : h[s] = f[x] + h[s \ {x}]}
<1>1. \A s \in SUBSET S : s # {} => c(s) \in s
  OBVIOUS
<1>2. \A s \in SUBSET S : h[s] = IF s = {} THEN 0 ELSE f[c(s)] + h[s \ {c(s)}]
  BY DEF AddsUp
<1> HIDE DEF c
<1>3. \A s \in SUBSET S : h[s] \in Int
  <2> DEFINE I == {s \in SUBSET S : h[s] \in Int}
  <2>1. ASSUME NEW s \in SUBSET S, \A x \in s : s \ {x} \in I PROVE s \in I
    <3>1. CASE s = {}
      BY <1>2, <3>1
    <3>2. CASE s # {}
      <4> PICK b \in s : b = c(s)
        BY <1>1, <3>2
      <4>1. h[s] = f[b] + h[s \ {b}]
        BY <1>2, <3>2
      <4>2. h[s \ {b}] \in Int /\ f[b] \in Int
        BY <2>1
      <4> QED BY <4>1, <4>2
    <3> QED BY <3>1, <3>2
  <2>2. \A s \in SUBSET S : s \in I
    <3> HIDE DEF I
    <3> QED BY <2>1, SubsetInduction
  <2> QED BY <2>2
<1>4. ASSUME NEW s \in SUBSET S, \A x \in s : s \ {x} \in G, NEW x \in s
      PROVE  h[s] = f[x] + h[s \ {x}]
  <2> PICK b \in s : b = c(s)
    BY <1>1
  <2>1. h[s] = f[b] + h[s \ {b}]
    BY <1>2
  <2>2. ASSUME x # b PROVE h[s] = f[x] + h[s \ {x}]
    <3>1. h[s \ {b}] = f[x] + h[(s \ {b}) \ {x}]
      BY <1>4, <2>2
    <3>2. h[s \ {x}] = f[b] + h[(s \ {x}) \ {b}]
      BY <1>4, <2>2
    <3>3. (s \ {b}) \ {x} = (s \ {x}) \ {b}
      OBVIOUS
    <3>4. PICK r \in Int : r = h[(s \ {x}) \ {b}]
      <4>1. (s \ {x}) \ {b} \in SUBSET S
        OBVIOUS
      <4> QED BY <1>3, <4>1
    <3>5. h[s \ {b}] = f[x] + r /\ h[s \ {x}] = f[b] + r
      BY <3>1, <3>2, <3>3, <3>4
    <3>6. f[x] \in Int /\ f[b] \in Int
      OBVIOUS
    <3> QED BY ONLY <2>1, <3>4, <3>5, <3>6
  <2> QED BY <2>1, <2>2
<1>5. \A s \in SUBSET S : s \in G
  <2>1. ASSUME NEW s \in SUBSET S, \A x \in s : s \ {x} \in G PROVE s \in G
    BY <1>4, <2>1
  <2> HIDE DEF G
  <2> QED BY <2>1, SubsetInduction
<1> QED BY <1>2, <1>3, <1>5

\* Two that add up the same values agree.
LEMMA SameSums ==
  ASSUME NEW S, IsFiniteSet(S), NEW U, S \subseteq U, NEW f, NEW g, \A x \in S : f[x] = g[x],
         NEW h, AddsUp(f, S, h), NEW k, AddsUp(g, U, k)
  PROVE  \A s \in SUBSET S : h[s] = k[s]
<1> DEFINE c(s) == CHOOSE x \in s : TRUE
           G == {s \in SUBSET S : h[s] = k[s]}
<1>1. \A s \in SUBSET S : s # {} => c(s) \in s
  OBVIOUS
<1>2. \A s \in SUBSET S : h[s] = IF s = {} THEN 0 ELSE f[c(s)] + h[s \ {c(s)}]
  BY DEF AddsUp
<1>3. \A s \in SUBSET U : k[s] = IF s = {} THEN 0 ELSE g[c(s)] + k[s \ {c(s)}]
  BY DEF AddsUp
<1> HIDE DEF c
<1>4. ASSUME NEW s \in SUBSET S, \A x \in s : s \ {x} \in G PROVE h[s] = k[s]
  <2>1. s \in SUBSET U
    OBVIOUS
  <2>2. CASE s = {}
    BY <1>2, <1>3, <2>1, <2>2
  <2>3. CASE s # {}
    <3> PICK b \in s : b = c(s)
      BY <1>1, <2>3
    <3>1. h[s] = f[b] + h[s \ {b}] /\ k[s] = g[b] + k[s \ {b}]
      BY <1>2, <1>3, <2>1, <2>3
    <3>2. h[s \ {b}] = k[s \ {b}] /\ f[b] = g[b]
      BY <1>4
    <3> QED BY <3>1, <3>2
  <2> QED BY <2>2, <2>3
<1>5. \A s \in SUBSET S : s \in G
  <2>1. ASSUME NEW s \in SUBSET S, \A x \in s : s \ {x} \in G PROVE s \in G
    BY <1>4, <2>1
  <2> HIDE DEF G
  <2> QED BY <2>1, SubsetInduction
<1> QED BY <1>5

\* A sum over a finite set of integers is one.
LEMMA SumIsInt ==
  ASSUME NEW f, NEW S, IsFiniteSet(S), \A x \in S : f[x] \in Int
  PROVE  SumFunctionOnSet(f, S) \in Int
<1>1. PICK h : AddsUp(f, S, h) /\ SumFunctionOnSet(f, S) = h[S]
  BY SumIsAddedUp
<1>2. S \in SUBSET S
  OBVIOUS
<1> QED BY <1>1, <1>2, AddedInAnyOrder

LEMMA SumOfNone == ASSUME NEW f PROVE SumFunctionOnSet(f, {}) = 0
<1> PICK S : S = {}
  OBVIOUS
<1>1. IsFiniteSet(S)
  BY FS_EmptySet
<1>2. PICK h : AddsUp(f, S, h) /\ SumFunctionOnSet(f, S) = h[S]
  BY <1>1, SumIsAddedUp
<1>3. S \in SUBSET S
  OBVIOUS
<1>4. h[S] = 0
  BY <1>1, <1>2, <1>3, AddedInAnyOrder
<1> QED BY <1>2, <1>4

\* It depends on the values that are added only.
LEMMA SumAgrees ==
  ASSUME NEW S, IsFiniteSet(S), NEW f, NEW g, \A x \in S : f[x] \in Int /\ f[x] = g[x]
  PROVE  SumFunctionOnSet(f, S) = SumFunctionOnSet(g, S)
<1>1. PICK h : AddsUp(f, S, h) /\ SumFunctionOnSet(f, S) = h[S]
  BY SumIsAddedUp
<1>2. PICK k : AddsUp(g, S, k) /\ SumFunctionOnSet(g, S) = k[S]
  BY SumIsAddedUp
<1>3. \A s \in SUBSET S : h[s] = k[s]
  BY <1>1, <1>2, SameSums
<1> QED BY <1>1, <1>2, <1>3

\* One more value is added to the sum of the others.
LEMMA SumOfOneMore ==
  ASSUME NEW S, IsFiniteSet(S), NEW x, x \notin S, NEW f, \A y \in S \cup {x} : f[y] \in Int
  PROVE  SumFunctionOnSet(f, S \cup {x}) = SumFunctionOnSet(f, S) + f[x]
<1> PICK U : U = S \cup {x}
  OBVIOUS
<1>0. IsFiniteSet(U) /\ S \subseteq U /\ \A y \in U : f[y] \in Int
  BY FS_AddElement
<1>1. PICK h : AddsUp(f, S, h) /\ SumFunctionOnSet(f, S) = h[S]
  BY SumIsAddedUp
<1>2. PICK k : AddsUp(f, U, k) /\ SumFunctionOnSet(f, U) = k[U]
  BY <1>0, SumIsAddedUp
<1>3. h[S] = k[S]
  <2>1. \A s \in SUBSET S : h[s] = k[s]
    <3>1. /\ IsFiniteSet(S) /\ S \subseteq U /\ AddsUp(f, S, h) /\ AddsUp(f, U, k)
          /\ \A y \in S : f[y] = f[y]
      BY <1>0, <1>1, <1>2
    <3> QED BY ONLY <3>1, SameSums
  <2> QED BY <2>1
<1>4. \A s \in SUBSET U : k[s] \in Int /\ \A y \in s : k[s] = f[y] + k[s \ {y}]
  <2>1. IsFiniteSet(U) /\ (\A y \in U : f[y] \in Int) /\ AddsUp(f, U, k)
    BY <1>0, <1>2
  <2> HIDE DEF AddsUp
  <2> QED BY ONLY <2>1, AddedInAnyOrder
<1>5. U \in SUBSET U /\ S \in SUBSET U /\ x \in U /\ U \ {x} = S
  OBVIOUS
<1>6. k[S] \in Int /\ f[x] \in Int /\ k[U] = f[x] + k[S]
  <2>1. k[U] = f[x] + k[U \ {x}]
    BY <1>4, <1>5
  <2> QED BY <1>0, <1>4, <1>5, <2>1
<1>7. k[U] = h[S] + f[x]
  BY ONLY <1>3, <1>6
<1> QED BY <1>1, <1>2, <1>7

\* A sum of natural numbers is one.
LEMMA SumIsNat ==
  ASSUME NEW f, NEW S, IsFiniteSet(S), \A x \in S : f[x] \in Nat
  PROVE  SumFunctionOnSet(f, S) \in Nat
<1>1. \A x \in S : f[x] \in Int
  OBVIOUS
<1>2. PICK h : AddsUp(f, S, h) /\ SumFunctionOnSet(f, S) = h[S]
  BY <1>1, SumIsAddedUp
<1>3. \A s \in SUBSET S : /\ s = {} => h[s] = 0
                          /\ \A x \in s : h[s] = f[x] + h[s \ {x}]
  BY <1>1, <1>2, AddedInAnyOrder
<1> DEFINE G == {s \in SUBSET S : h[s] \in Nat}
<1>4. ASSUME NEW s \in SUBSET S, \A x \in s : s \ {x} \in G PROVE s \in G
  <2>1. CASE s = {}
    BY <1>3, <2>1
  <2>2. CASE s # {}
    <3> PICK x \in s : TRUE
      BY <2>2
    <3> PICK r \in Nat : r = h[s \ {x}]
      BY <1>4
    <3>1. h[s] = f[x] + r /\ f[x] \in Nat
      BY <1>3
    <3> QED BY <3>1
  <2> QED BY <2>1, <2>2
<1>5. \A s \in SUBSET S : s \in G
  <2> HIDE DEF G
  <2> QED BY <1>4, SubsetInduction
<1> QED BY <1>2, <1>5

\* The sum of a function's values: of no value, of natural numbers, of integers, and with
\* one more.
LEMMA NothingAdded == ASSUME NEW f, DOMAIN f = {} PROVE SumFunction(f) = 0
BY SumOfNone DEF SumFunction

LEMMA NatsAdded ==
  ASSUME NEW f, IsFiniteSet(DOMAIN f), \A x \in DOMAIN f : f[x] \in Nat
  PROVE  SumFunction(f) \in Nat
BY SumIsNat DEF SumFunction

LEMMA OneMoreAdded ==
  ASSUME NEW f, IsFiniteSet(DOMAIN f), NEW g, NEW x, x \notin DOMAIN f,
         DOMAIN g = DOMAIN f \cup {x}, \A y \in DOMAIN f : g[y] = f[y],
         \A y \in DOMAIN g : g[y] \in Int
  PROVE  SumFunction(g) = SumFunction(f) + g[x] /\ SumFunction(f) \in Int
<1> PICK D : D = DOMAIN f
  OBVIOUS
<1>1. SumFunctionOnSet(g, D \cup {x}) = SumFunctionOnSet(g, D) + g[x]
  <2>1. IsFiniteSet(D) /\ x \notin D /\ \A y \in D \cup {x} : g[y] \in Int
    OBVIOUS
  <2> QED BY ONLY <2>1, SumOfOneMore
<1>2. SumFunctionOnSet(f, D) = SumFunctionOnSet(g, D)
  <2>1. IsFiniteSet(D) /\ \A y \in D : f[y] \in Int /\ f[y] = g[y]
    OBVIOUS
  <2> QED BY ONLY <2>1, SumAgrees
<1>3. SumFunctionOnSet(f, D) \in Int
  <2>1. IsFiniteSet(D) /\ \A y \in D : f[y] \in Int
    OBVIOUS
  <2> QED BY ONLY <2>1, SumIsInt
<1> QED BY <1>1, <1>2, <1>3 DEF SumFunction

-----------------------------------------------------------------------------
(* Folds over positions *)

\* The greatest of some numbers.
LEMMA MaxOfSome ==
  ASSUME NEW S, IsFiniteSet(S), S \subseteq Nat, S # {}
  PROVE  Max(S) \in S /\ \A n \in S : n <= Max(S)
<1>1. \E m \in S : \A n \in S : n <= m
  <2>0. \A x \in S : x \in Nat
    OBVIOUS
  <2>1. PICK R : R = {p \in S \X S : p[1] < p[2]}
    OBVIOUS
  <2>2. \A x, y \in S : <<x, y>> \in R <=> x < y
    BY <2>1
  <2>3. \A x, y \in S : x = y \/ <<x, y>> \in R \/ <<y, x>> \in R
    <3> SUFFICES ASSUME NEW x \in S, NEW y \in S PROVE x = y \/ <<x, y>> \in R \/ <<y, x>> \in R
      OBVIOUS
    <3>1. x < y \/ x = y \/ y < x
      BY ONLY <2>0, x \in S, y \in S
    <3> QED BY ONLY <2>2, <3>1, x \in S, y \in S
  <2>4. ASSUME NEW x \in S, NEW y \in S, NEW z \in S, <<x, y>> \in R, <<y, z>> \in R
        PROVE  <<x, z>> \in R
    <3>1. x < y /\ y < z
      BY ONLY <2>2, <2>4
    <3>2. x < z
      BY ONLY <2>0, <3>1, x \in S, y \in S, z \in S
    <3> QED BY ONLY <2>2, <3>2, x \in S, z \in S
  <2>5. \A x, y, z \in S : <<x, y>> \in R /\ <<y, z>> \in R => <<x, z>> \in R
    BY ONLY <2>4
  <2>6. S \in SUBSET S
    OBVIOUS
  <2>7. \E x \in S : \A y \in S : y # x => <<y, x>> \in R
    BY ONLY IsFiniteSet(S), S # {}, <2>3, <2>5, <2>6, LastExists
  <2>8. PICK x \in S : \A y \in S : y # x => <<y, x>> \in R
    BY <2>7
  <2>9. ASSUME NEW y \in S PROVE y <= x
    <3>1. y = x \/ y < x
      BY <2>2, <2>8
    <3> QED BY ONLY <2>0, <3>1, x \in S, y \in S
  <2> QED BY <2>9
<1>2. \E m \in S : \A n \in S : m >= n
  BY <1>1
<1>3. Max(S) \in S /\ \A n \in S : Max(S) >= n
  BY <1>2 DEF Max
<1> QED BY <1>3

\* A fold that takes the greatest away first stays where its steps stay, and exists.
LEMMA FoldStays ==
  ASSUME NEW S, IsFiniteSet(S), S \subseteq Nat, NEW Y, NEW h,
         \A s \in SUBSET S : (s # {} => h[s \ {Max(s)}] \in Y) => h[s] \in Y
  PROVE  \A s \in SUBSET S : h[s] \in Y
<1> DEFINE G == {s \in SUBSET S : h[s] \in Y}
<1>1. ASSUME NEW s \in SUBSET S, \A x \in s : s \ {x} \in G PROVE s \in G
  <2>1. IsFiniteSet(s) /\ s \subseteq Nat
    BY FS_Subset
  <2>2. s # {} => Max(s) \in s
    BY <2>1, MaxOfSome
  <2> QED BY <1>1, <2>2
<1>2. \A s \in SUBSET S : (\A x \in s : s \ {x} \in G) => s \in G
  BY <1>1
<1> HIDE DEF G
<1>3. \A s \in SUBSET S : s \in G
  BY <1>2, SubsetInduction
<1> QED BY <1>3 DEF G

\* h is the function on the subsets of S that takes the greatest away first.
TakesGreatest(S, base, g, h) ==
  h = [s \in SUBSET S |-> IF s = {} THEN base ELSE g[<<Max(s), h[s \ {Max(s)}]>>]]

LEMMA FoldExists ==
  ASSUME NEW S, IsFiniteSet(S), S \subseteq Nat, NEW Y, NEW base \in Y, NEW g,
         \A x \in S, y \in Y : g[<<x, y>>] \in Y
  PROVE  \E h : TakesGreatest(S, base, g, h) /\ \A s \in SUBSET S : h[s] \in Y
<1> PICK pick : pick = [s \in SUBSET S |-> Max(s)]
  OBVIOUS
<1>1. \A s \in SUBSET S : s # {} => pick[s] = Max(s) /\ pick[s] \in s
  <2> SUFFICES ASSUME NEW s \in SUBSET S, s # {} PROVE Max(s) \in s
    OBVIOUS
  <2> QED BY FS_Subset, MaxOfSome
<1>2. PICK h : TakesAway(S, pick, base, g, h)
  BY <1>1, SubsetRecursion
<1>3. h = [s \in SUBSET S |-> IF s = {} THEN base ELSE g[<<pick[s], h[s \ {pick[s]}]>>]]
  BY <1>2 DEF TakesAway
<1>4. h = [s \in SUBSET S |-> IF s = {} THEN base ELSE g[<<Max(s), h[s \ {Max(s)}]>>]]
  BY <1>1, <1>3
<1>5. \A s \in SUBSET S : (s # {} => h[s \ {Max(s)}] \in Y) => h[s] \in Y
  <2> SUFFICES ASSUME NEW s \in SUBSET S, s # {} => h[s \ {Max(s)}] \in Y PROVE h[s] \in Y
    OBVIOUS
  <2>1. s # {} => Max(s) \in S
    BY <1>1
  <2> QED BY <1>3, <1>1, <2>1
<1>6. \A s \in SUBSET S : h[s] \in Y
  BY <1>5, FoldStays
<1> QED BY <1>4, <1>6 DEF TakesGreatest
=============================================================================
