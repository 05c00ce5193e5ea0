------------------------------ MODULE FoldFacts ------------------------------
(***************************************************************************)
(* What the sums of the models come to, MapThenSumSet of a function of     *)
(* integers over a finite set, and what FoldLeft keeps.                    *)
(***************************************************************************)
EXTENDS Integers, FiniteSets, FiniteSetsExt, FiniteSetTheorems, WellFoundedInduction, TLAPS

Sum(f, S) == MapThenSumSet(LAMBDA x : f[x], S)

\* The element of a set that is summed first.
First(s) == CHOOSE x \in s : TRUE

\* g holds the sums of the subsets of S.
Sums(f, g, S) ==
    g = [s \in SUBSET S |-> IF s = {} THEN 0 ELSE f[First(s)] + g[s \ {First(s)}]]

----------------------------------------------------------------------------
\* A set of subsets that has every subset whose parts it has, has them all.
LEMMA SubsetInduction ==
    ASSUME NEW S, IsFiniteSet(S), NEW A,
           \A T \in SUBSET S : (\A U \in SUBSET T : U # T => U \in A) => T \in A
    PROVE  SUBSET S \subseteq A
<1> DEFINE Bad == (SUBSET S) \ A
<1> SUFFICES ASSUME Bad # {} PROVE FALSE
  OBVIOUS
<1>1. IsWellFoundedOn(StrictSubsetOrdering(S), SUBSET S)
  <2>1. IsWellFoundedOn(StrictSubsetOrdering(S), FiniteSubsetsOf(S))
    BY FS_StrictSubsetOrderingWellFounded, Zenon
  <2>2. FiniteSubsetsOf(S) = SUBSET S
    BY FS_FiniteSubsetsOfFinite, Zenon
  <2> QED BY <2>1, <2>2, Zenon
<1>2. Bad \subseteq SUBSET S
  OBVIOUS
<1> HIDE DEF Bad
<1>3. PICK T \in Bad : \A U \in Bad : ~(<<U, T>> \in StrictSubsetOrdering(S))
  BY <1>1, <1>2, WFMin
<1>4. \A U \in SUBSET T : U # T => U \in A
  <2> SUFFICES ASSUME NEW U \in SUBSET T, U # T, U \notin A PROVE FALSE
    OBVIOUS
  <2>1. U \in Bad
    BY <1>2, <1>3 DEF Bad
  <2>2. <<U, T>> \in StrictSubsetOrdering(S)
    BY <1>2, <1>3, <2>1 DEF StrictSubsetOrdering
  <2> QED BY <1>3, <2>1, <2>2
<1> QED BY <1>2, <1>3, <1>4 DEF Bad

LEMMA SumIsChosen == \A f, S : Sum(f, S) = (CHOOSE g : Sums(f, g, S))[S]
BY DEF Sum, MapThenSumSet, MapThenFoldSet, Sums, First

LEMMA SumsUnfold ==
    ASSUME NEW f, NEW g, NEW S, Sums(f, g, S), NEW s \in SUBSET S
    PROVE  /\ g[{}] = 0
           /\ s # {} => /\ First(s) \in s
                        /\ s \ {First(s)} \in SUBSET S
                        /\ g[s] = f[First(s)] + g[s \ {First(s)}]
<1>1. \A u \in SUBSET S : g[u] = IF u = {} THEN 0 ELSE f[First(u)] + g[u \ {First(u)}]
  BY Zenon DEF Sums
<1>2. s # {} => First(s) \in s
  BY DEF First
<1> QED BY <1>1, <1>2

\* Sums of subsets do not depend on the set they are taken in.
LEMMA SumsAgree ==
    ASSUME NEW f, NEW g, NEW h, NEW S, NEW T, IsFiniteSet(T), T \subseteq S,
           Sums(f, g, S), Sums(f, h, T)
    PROVE  \A s \in SUBSET T : g[s] = h[s]
<1> DEFINE A == {s \in SUBSET T : g[s] = h[s]}
<1>1. ASSUME NEW s \in SUBSET T, \A u \in SUBSET s : u # s => u \in A
      PROVE  s \in A
  <2>1. CASE s = {}
    BY <2>1, SumsUnfold, Zenon
  <2>2. CASE s # {}
    <3> DEFINE r == s \ {First(s)}
    <3>1. g[s] = f[First(s)] + g[r] /\ First(s) \in s
      BY <2>2, SumsUnfold, s \in SUBSET S
    <3>2. h[s] = f[First(s)] + h[r]
      BY <2>2, SumsUnfold
    <3>3. r \in A
      BY <1>1, <3>1
    <3> QED BY <3>1, <3>2, <3>3
  <2> QED BY <2>1, <2>2
<1> HIDE DEF A
<1>2. SUBSET T \subseteq A
  BY <1>1, SubsetInduction, Zenon
<1> QED BY <1>2 DEF A

\* There are sums of the subsets of every finite set.
LEMMA SumsExist ==
    ASSUME NEW f, NEW S, IsFiniteSet(S)
    PROVE  \E g : Sums(f, g, S)
<1> DEFINE A == {T \in SUBSET S : \E g : Sums(f, g, T)}
<1>1. ASSUME NEW T \in SUBSET S, \A u \in SUBSET T : u # T => u \in A
      PROVE  T \in A
  <2> DEFINE g == [s \in SUBSET T |-> IF s = {} THEN 0
                                      ELSE f[First(s)] + Sum(f, s \ {First(s)})]
  <2>1. ASSUME NEW s \in SUBSET T, s # T, s # {}
        PROVE  Sum(f, s) = f[First(s)] + Sum(f, s \ {First(s)})
    <3> DEFINE r == s \ {First(s)}
               a == CHOOSE a : Sums(f, a, s)
               b == CHOOSE b : Sums(f, b, r)
    <3>1. s \in A /\ r \in A /\ First(s) \in s /\ r \subseteq s
      BY <1>1, <2>1 DEF First
    <3>2. Sums(f, a, s) /\ Sums(f, b, r)
      BY <3>1, Zenon
    <3>3. IsFiniteSet(r)
      BY FS_Subset, <3>1
    <3> HIDE DEF a, b, r
    <3>4. a[r] = b[r]
      BY <3>1, <3>2, <3>3, SumsAgree
    <3>5. a[s] = f[First(s)] + a[r]
      BY <2>1, <3>2, SumsUnfold DEF r
    <3>6. Sum(f, s) = a[s] /\ Sum(f, r) = b[r]
      BY SumIsChosen, Zenon DEF a, b
    <3> QED BY <3>4, <3>5, <3>6 DEF r
  <2>2. Sum(f, {}) = 0
    <3> DEFINE a == [s \in SUBSET {} |-> 0]
    <3>1. \A s \in SUBSET {} : s = {}
      OBVIOUS
    <3>2. Sums(f, a, {})
      BY <3>1 DEF Sums
    <3>3. Sums(f, CHOOSE b : Sums(f, b, {}), {})
      BY <3>2, Zenon
    <3>4. (CHOOSE b : Sums(f, b, {}))[{}] = 0
      BY <3>3, SumsUnfold, Zenon
    <3> QED BY <3>4, SumIsChosen, Zenon
  <2>3. ASSUME NEW s \in SUBSET T, s # {}
        PROVE  g[s \ {First(s)}] = Sum(f, s \ {First(s)})
    <3> DEFINE r == s \ {First(s)}
    <3>1. r \in SUBSET T /\ r # T
      BY <2>3 DEF First
    <3>2. g[r] = IF r = {} THEN 0 ELSE f[First(r)] + Sum(f, r \ {First(r)})
      BY <3>1
    <3> HIDE DEF g, r
    <3>3. g[r] = Sum(f, r)
      BY <2>1, <2>2, <3>1, <3>2
    <3> QED BY <3>3 DEF r
  <2>4. Sums(f, g, T)
    BY <2>3, Zenon DEF Sums
  <2> QED BY <2>4
<1> HIDE DEF A
<1>2. SUBSET S \subseteq A
  BY <1>1, SubsetInduction, Zenon
<1> QED BY <1>2 DEF A

LEMMA SumUnfold ==
    ASSUME NEW f, NEW S, IsFiniteSet(S)
    PROVE  /\ Sum(f, {}) = 0
           /\ S # {} => First(S) \in S /\ Sum(f, S) = f[First(S)] + Sum(f, S \ {First(S)})
<1> DEFINE a == CHOOSE a : Sums(f, a, S)
           r == S \ {First(S)}
           b == CHOOSE b : Sums(f, b, r)
           e == CHOOSE e : Sums(f, e, {})
<1>1. r \subseteq S /\ IsFiniteSet(r)
  BY FS_Subset
<1>2. Sums(f, a, S) /\ Sums(f, b, r)
  BY <1>1, SumsExist, Zenon
<1>3. Sums(f, e, {})
  BY SumsExist, FS_EmptySet, Zenon
<1>4. Sum(f, S) = a[S] /\ Sum(f, r) = b[r] /\ Sum(f, {}) = e[{}]
  BY SumIsChosen, Zenon
<1> HIDE DEF a, b, e, r
<1>5. Sum(f, {}) = 0
  BY <1>3, <1>4, SumsUnfold
<1>6. CASE S # {}
  <2>1. First(S) \in S /\ a[S] = f[First(S)] + a[r]
    BY <1>2, <1>6, SumsUnfold DEF r
  <2>2. a[r] = b[r]
    BY <1>1, <1>2, SumsAgree
  <2> QED BY <1>4, <1>5, <2>1, <2>2 DEF r
<1> QED BY <1>5, <1>6

----------------------------------------------------------------------------
\* The sum of integers is one, and it takes any element out.
LEMMA SumPicks ==
    ASSUME NEW S, IsFiniteSet(S), NEW f, \A x \in S : f[x] \in Int
    PROVE  /\ Sum(f, S) \in Int
           /\ \A x \in S : Sum(f, S) = f[x] + Sum(f, S \ {x})
<1> DEFINE A == {T \in SUBSET S : /\ Sum(f, T) \in Int
                                  /\ \A x \in T : Sum(f, T) = f[x] + Sum(f, T \ {x})}
<1>1. ASSUME NEW T \in SUBSET S, \A u \in SUBSET T : u # T => u \in A
      PROVE  T \in A
  <2> DEFINE c == First(T)
             r == T \ {c}
  <2>1. CASE T = {}
    <3>1. Sum(f, {}) = 0
      BY SumUnfold, FS_EmptySet
    <3> QED BY <2>1, <3>1
  <2>2. CASE T # {}
    <3>1. IsFiniteSet(T)
      BY FS_Subset
    <3>2. c \in T /\ Sum(f, T) = f[c] + Sum(f, r)
      BY <2>2, <3>1, SumUnfold
    <3>3. r \in A /\ r \subseteq T /\ c \in S
      BY <1>1, <3>2
    <3> HIDE DEF c
    <3>4. Sum(f, T) \in Int /\ f[c] \in Int /\ Sum(f, r) \in Int
      BY <3>2, <3>3
    <3>5. ASSUME NEW x \in T, x # c
          PROVE  Sum(f, T) = f[x] + Sum(f, T \ {x})
      <4> DEFINE q == T \ {x}
                 p == T \ {c, x}
      <4>1. q \in A /\ q \subseteq T /\ c \in q /\ x \in r /\ f[x] \in Int
        BY <1>1, <3>2, <3>5
      <4>2. q \ {c} = p /\ r \ {x} = p /\ p \in A
        BY <1>1, <3>2, <3>5
      <4>3. Sum(f, q) = f[c] + Sum(f, p)
        BY <4>1, <4>2
      <4>4. Sum(f, r) = f[x] + Sum(f, p)
        BY <3>3, <4>1, <4>2
      <4>5. Sum(f, p) \in Int
        BY <4>2
      <4> HIDE DEF q, p, r, A
      <4>6. Sum(f, T) = f[x] + Sum(f, q)
        BY <3>2, <3>4, <4>1, <4>3, <4>4, <4>5
      <4> QED BY <4>6 DEF q
    <3> QED BY <3>2, <3>4, <3>5
  <2> QED BY <2>1, <2>2
<1> HIDE DEF A
<1>2. SUBSET S \subseteq A
  BY <1>1, SubsetInduction, Zenon
<1> QED BY <1>2 DEF A

LEMMA EmptySum == \A f : Sum(f, {}) = 0
BY SumUnfold, FS_EmptySet

\* Functions that agree on a set have the same sum over it.
LEMMA SumsEqual ==
    ASSUME NEW S, IsFiniteSet(S), NEW f, NEW g, \A x \in S : f[x] = g[x]
    PROVE  Sum(f, S) = Sum(g, S)
<1> DEFINE A == {T \in SUBSET S : Sum(f, T) = Sum(g, T)}
<1>1. ASSUME NEW T \in SUBSET S, \A u \in SUBSET T : u # T => u \in A
      PROVE  T \in A
  <2>1. CASE T = {}
    BY <2>1, EmptySum
  <2>2. CASE T # {}
    <3> DEFINE r == T \ {First(T)}
    <3>1. IsFiniteSet(T)
      BY FS_Subset
    <3>2. First(T) \in T /\ Sum(f, T) = f[First(T)] + Sum(f, r)
      BY <2>2, <3>1, SumUnfold
    <3>3. Sum(g, T) = g[First(T)] + Sum(g, r)
      BY <2>2, <3>1, SumUnfold
    <3>4. r \in A
      BY <1>1, <3>2
    <3> QED BY <3>2, <3>3, <3>4
  <2> QED BY <2>1, <2>2
<1> HIDE DEF A
<1>2. SUBSET S \subseteq A
  BY <1>1, SubsetInduction, Zenon
<1> QED BY <1>2 DEF A

\* A sum of sums.
LEMMA SumsAdd ==
    ASSUME NEW S, IsFiniteSet(S), NEW f, NEW g, NEW h,
           \A x \in S : f[x] \in Int /\ g[x] \in Int /\ h[x] = f[x] + g[x]
    PROVE  Sum(h, S) = Sum(f, S) + Sum(g, S)
<1> DEFINE A == {T \in SUBSET S : Sum(h, T) = Sum(f, T) + Sum(g, T)}
<1>1. ASSUME NEW T \in SUBSET S, \A u \in SUBSET T : u # T => u \in A
      PROVE  T \in A
  <2>1. CASE T = {}
    BY <2>1, EmptySum
  <2>2. CASE T # {}
    <3>1. PICK x \in T : TRUE
      BY <2>2
    <3> DEFINE r == T \ {x}
    <3>2. IsFiniteSet(T) /\ IsFiniteSet(r)
      BY FS_Subset
    <3>3. /\ \A y \in T : f[y] \in Int
          /\ \A y \in T : g[y] \in Int
          /\ \A y \in T : h[y] \in Int
          /\ \A y \in r : f[y] \in Int
          /\ \A y \in r : g[y] \in Int
      OBVIOUS
    <3>4. /\ Sum(f, T) = f[x] + Sum(f, r)
          /\ Sum(g, T) = g[x] + Sum(g, r)
          /\ Sum(h, T) = h[x] + Sum(h, r)
      BY <3>2, <3>3, SumPicks
    <3>5. Sum(f, r) \in Int /\ Sum(g, r) \in Int
      BY <3>2, <3>3, SumPicks
    <3>6. Sum(h, r) = Sum(f, r) + Sum(g, r)
      BY <1>1, r \in SUBSET T, r # T
    <3> QED BY <3>4, <3>5, <3>6, x \in S
  <2> QED BY <2>1, <2>2
<1> HIDE DEF A
<1>2. SUBSET S \subseteq A
  BY <1>1, SubsetInduction, Zenon
<1> QED BY <1>2 DEF A

\* Where no term is above its counterpart by more than k, the sum is not above
\* the other by more than k for each.
LEMMA SumsWithin ==
    ASSUME NEW S, IsFiniteSet(S), NEW f, NEW g, NEW k \in Int,
           \A x \in S : f[x] \in Int /\ g[x] \in Int /\ f[x] <= g[x] + k
    PROVE  Sum(f, S) <= Sum(g, S) + Cardinality(S) * k
<1> DEFINE A == {T \in SUBSET S : Sum(f, T) <= Sum(g, T) + Cardinality(T) * k}
<1>1. ASSUME NEW T \in SUBSET S, \A u \in SUBSET T : u # T => u \in A
      PROVE  T \in A
  <2>1. CASE T = {}
    <3>1. Sum(f, T) = 0 /\ Sum(g, T) = 0 /\ Cardinality(T) = 0
      BY <2>1, EmptySum, FS_EmptySet
    <3> QED BY <3>1
  <2>2. CASE T # {}
    <3>1. PICK x \in T : TRUE
      BY <2>2
    <3> DEFINE r == T \ {x}
    <3>2. /\ IsFiniteSet(T) /\ IsFiniteSet(r)
          /\ Cardinality(r) \in Nat
      BY FS_Subset, FS_CardinalityType
    <3>3. Cardinality(T) = Cardinality(r) + 1
      <4>1. r \cup {x} = T /\ x \notin r
        BY <3>1
      <4> QED BY <3>2, <4>1, FS_AddElement
    <3>4. /\ \A y \in T : f[y] \in Int
          /\ \A y \in T : g[y] \in Int
          /\ \A y \in r : f[y] \in Int
          /\ \A y \in r : g[y] \in Int
      OBVIOUS
    <3>5. /\ Sum(f, T) = f[x] + Sum(f, r)
          /\ Sum(g, T) = g[x] + Sum(g, r)
      BY <3>2, <3>4, SumPicks
    <3>6. Sum(f, r) \in Int /\ Sum(g, r) \in Int
      BY <3>2, <3>4, SumPicks
    <3>7. Sum(f, r) <= Sum(g, r) + Cardinality(r) * k
      BY <1>1, r \in SUBSET T, r # T
    <3>8. (Cardinality(r) + 1) * k = Cardinality(r) * k + k /\ Cardinality(r) * k \in Int
      BY <3>2
    <3>9. f[x] \in Int /\ g[x] \in Int /\ f[x] <= g[x] + k
      OBVIOUS
    <3> HIDE DEF r
    <3>10. Sum(f, T) <= Sum(g, T) + Cardinality(T) * k
      BY <3>3, <3>5, <3>6, <3>7, <3>8, <3>9
    <3> QED BY <3>10
  <2> QED BY <2>1, <2>2
<1> HIDE DEF A
<1>2. SUBSET S \subseteq A
  BY <1>1, SubsetInduction, Zenon
<1> QED BY <1>2 DEF A

\* A term that changes changes the sum by as much.
LEMMA SumChanges ==
    ASSUME NEW S, IsFiniteSet(S), NEW f, NEW g, NEW t \in S,
           \A x \in S : f[x] \in Int /\ g[x] \in Int,
           \A x \in S : x # t => g[x] = f[x]
    PROVE  Sum(g, S) = Sum(f, S) + (g[t] - f[t])
<1> DEFINE r == S \ {t}
<1>1. IsFiniteSet(r)
  BY FS_Subset
<1>2. /\ \A x \in S : f[x] \in Int
      /\ \A x \in S : g[x] \in Int
      /\ \A x \in r : f[x] \in Int
      /\ \A x \in r : g[x] = f[x]
  OBVIOUS
<1>3. Sum(g, S) = g[t] + Sum(g, r) /\ Sum(f, S) = f[t] + Sum(f, r) /\ Sum(f, r) \in Int
  BY <1>1, <1>2, SumPicks
<1>4. Sum(g, r) = Sum(f, r)
  BY <1>1, <1>2, SumsEqual
<1> QED BY <1>3, <1>4

\* No sum of naturals is negative, and none is less than one of its terms.
LEMMA SumOfNats ==
    ASSUME NEW S, IsFiniteSet(S), NEW f, \A x \in S : f[x] \in Nat
    PROVE  /\ Sum(f, S) \in Nat
           /\ \A x \in S : f[x] <= Sum(f, S)
<1> DEFINE A == {T \in SUBSET S : Sum(f, T) \in Nat}
<1>1. ASSUME NEW T \in SUBSET S, \A u \in SUBSET T : u # T => u \in A
      PROVE  T \in A
  <2>1. CASE T = {}
    BY <2>1, EmptySum
  <2>2. CASE T # {}
    <3>1. PICK x \in T : TRUE
      BY <2>2
    <3> DEFINE r == T \ {x}
    <3>2. IsFiniteSet(T)
      BY FS_Subset
    <3>3. Sum(f, T) = f[x] + Sum(f, r)
      BY <3>2, SumPicks
    <3>4. Sum(f, r) \in Nat
      BY <1>1, r \in SUBSET T, r # T
    <3> QED BY <3>3, <3>4, x \in S
  <2> QED BY <2>1, <2>2
<1> HIDE DEF A
<1>2. SUBSET S \subseteq A
  BY <1>1, SubsetInduction, Zenon
<1>3. \A x \in S : f[x] <= Sum(f, S)
  <2> SUFFICES ASSUME NEW x \in S PROVE f[x] <= Sum(f, S)
    OBVIOUS
  <2>1. Sum(f, S) = f[x] + Sum(f, S \ {x})
    BY SumPicks
  <2>2. Sum(f, S \ {x}) \in Nat /\ f[x] \in Nat
    BY <1>2 DEF A
  <2> QED BY <2>1, <2>2
<1> QED BY <1>2, <1>3 DEF A

\* A multiple of every term is the multiple of the sum.
LEMMA SumScales ==
    ASSUME NEW S, IsFiniteSet(S), NEW f, NEW h, NEW k \in Int,
           \A x \in S : f[x] \in Int /\ h[x] = k * f[x]
    PROVE  Sum(h, S) = k * Sum(f, S)
<1> DEFINE A == {T \in SUBSET S : Sum(h, T) = k * Sum(f, T)}
<1>1. ASSUME NEW T \in SUBSET S, \A u \in SUBSET T : u # T => u \in A
      PROVE  T \in A
  <2>1. CASE T = {}
    BY <2>1, EmptySum
  <2>2. CASE T # {}
    <3>1. PICK x \in T : TRUE
      BY <2>2
    <3> DEFINE r == T \ {x}
    <3>2. IsFiniteSet(T) /\ IsFiniteSet(r)
      BY FS_Subset
    <3>3. /\ \A y \in T : f[y] \in Int
          /\ \A y \in r : f[y] \in Int
          /\ \A y \in T : h[y] \in Int
      OBVIOUS
    <3>4. /\ Sum(f, T) = f[x] + Sum(f, r)
          /\ Sum(h, T) = h[x] + Sum(h, r)
          /\ Sum(f, r) \in Int
      BY <3>2, <3>3, SumPicks
    <3>5. Sum(h, r) = k * Sum(f, r)
      BY <1>1, r \in SUBSET T, r # T
    <3>6. f[x] \in Int /\ h[x] = k * f[x]
      OBVIOUS
    <3> HIDE DEF r
    <3>7. k * (f[x] + Sum(f, r)) = k * f[x] + k * Sum(f, r)
      BY <3>4, <3>6
    <3>8. Sum(h, T) = k * Sum(f, T)
      BY <3>4, <3>5, <3>6, <3>7
    <3> QED BY <3>8
  <2> QED BY <2>1, <2>2
<1> HIDE DEF A
<1>2. SUBSET S \subseteq A
  BY <1>1, SubsetInduction, Zenon
<1> QED BY <1>2 DEF A

\* Where no term is above its counterpart, neither is the sum.
LEMMA SumsOrdered ==
    ASSUME NEW S, IsFiniteSet(S), NEW f, NEW g,
           \A x \in S : f[x] \in Int /\ g[x] \in Int /\ f[x] <= g[x]
    PROVE  Sum(f, S) <= Sum(g, S)
<1>1. PICK k \in Int : k = 0
  OBVIOUS
<1>2. Sum(f, S) <= Sum(g, S) + Cardinality(S) * k
  <2>1. \A x \in S : f[x] \in Int /\ g[x] \in Int /\ f[x] <= g[x] + k
    BY <1>1
  <2> QED BY <2>1, SumsWithin
<1>3. Sum(g, S) \in Int /\ Cardinality(S) \in Nat
  BY SumPicks, FS_CardinalityType
<1> QED BY <1>1, <1>2, <1>3

----------------------------------------------------------------------------
(* Quotients and minima.                                                   *)

\* What is divided by a positive number comes to the quotient at most.
LEMMA Quotient ==
    ASSUME NEW n \in Nat, NEW d \in Nat \ {0}
    PROVE  /\ n \div d \in Nat
           /\ d * (n \div d) <= n
           /\ n < d * (n \div d) + d
OBVIOUS

\* A factor that multiplies both sides may go.
LEMMA Cancels ==
    ASSUME NEW d \in Nat \ {0}, NEW m \in Int, NEW n \in Int, d * m <= d * n
    PROVE  m <= n
<1>1. SUFFICES ASSUME m >= n + 1 PROVE FALSE
  OBVIOUS
<1>2. d * (m - n) >= d
  BY <1>1
<1>3. d * (m - n) = d * m - d * n
  OBVIOUS
<1> QED BY <1>2, <1>3

\* A larger part of a smaller whole is a larger quotient.
LEMMA QuotientsOrdered ==
    ASSUME NEW a \in Nat, NEW c \in Nat, NEW b \in Nat \ {0}, NEW d \in Nat \ {0},
           a * d <= c * b
    PROVE  a \div b <= c \div d
<1> DEFINE q == a \div b
           r == c \div d
<1>1. /\ q \in Nat /\ b * q <= a
      /\ r \in Nat /\ c < d * r + d
  BY Quotient
<1> HIDE DEF q, r
<1>2. SUFFICES ASSUME q >= r + 1 PROVE FALSE
  BY <1>1 DEF q, r
<1>3. d * q >= d * r + d
  <2>1. d * (q - r) >= d
    BY <1>1, <1>2
  <2> QED BY <1>1, <2>1
<1>4. d * q >= c + 1
  BY <1>1, <1>3
<1>5. b * (d * q) >= b * (c + 1)
  <2>1. b * (d * q - (c + 1)) >= 0
    BY <1>1, <1>4
  <2> QED BY <1>1, <2>1
<1>6. d * (b * q) <= d * a
  <2>1. d * (a - b * q) >= 0
    BY <1>1
  <2> QED BY <1>1, <2>1
<1>7. b * (d * q) = d * (b * q) /\ b * (c + 1) = c * b + b /\ d * a = a * d
  BY <1>1
<1>8. d * (b * q) \in Int /\ c * b \in Int /\ a * d \in Int
  BY <1>1
<1> QED BY <1>5, <1>6, <1>7, <1>8

\* The lesser of two numbers.
LEMMA LeastOfTwo ==
    ASSUME NEW m \in Int, NEW n \in Int
    PROVE  /\ Min({m, n}) \in {m, n}
           /\ Min({m, n}) <= m /\ Min({m, n}) <= n
BY DEF Min

\* A minimum follows each of its numbers.
LEMMA LeastOrdered ==
    ASSUME NEW k \in Int, NEW m \in Int, NEW n \in Int, m <= n
    PROVE  Min({k, m}) <= Min({k, n})
<1>1. /\ Min({k, m}) <= k /\ Min({k, m}) <= m
      /\ Min({k, m}) \in {k, m} /\ Min({k, n}) \in {k, n}
  BY LeastOfTwo
<1> QED BY <1>1

----------------------------------------------------------------------------
(***************************************************************************)
(* FoldLeft takes the largest index out of the domain of a sequence first. *)
(* A fold by an operator is one by functions where these are defined.      *)
(***************************************************************************)

\* The minimum and the maximum of a finite set of integers.
LEMMA MinOfFinite ==
    ASSUME NEW S, IsFiniteSet(S), S \subseteq Int, S # {}
    PROVE  Min(S) \in S /\ \A x \in S : Min(S) <= x
<1> DEFINE A == {T \in SUBSET S : T # {} => \E m \in T : \A x \in T : m <= x}
<1>1. ASSUME NEW T \in SUBSET S, \A U \in SUBSET T : U # T => U \in A
      PROVE  T \in A
  <2>1. CASE T = {}
    BY <2>1
  <2>2. CASE T # {}
    <3>1. PICK x \in T : TRUE
      BY <2>2
    <3> DEFINE r == T \ {x}
    <3>2. r \in A
      BY <1>1, <3>1
    <3>3. CASE r = {}
      BY <3>1, <3>3
    <3>4. CASE r # {}
      <4>1. PICK m \in r : \A y \in r : m <= y
        BY <3>2, <3>4
      <4>2. \E k \in T : \A y \in T : k <= y
        BY <3>1, <4>1
      <4> QED BY <4>2
    <3> QED BY <3>3, <3>4
  <2> QED BY <2>1, <2>2
<1> HIDE DEF A
<1>2. SUBSET S \subseteq A
  BY <1>1, SubsetInduction, Zenon
<1>3. \E m \in S : \A x \in S : m <= x
  BY <1>2 DEF A
<1> QED BY <1>3 DEF Min

LEMMA MaxOfFinite ==
    ASSUME NEW S, IsFiniteSet(S), S \subseteq Int, S # {}
    PROVE  Max(S) \in S /\ \A x \in S : x <= Max(S)
<1> DEFINE A == {T \in SUBSET S : T # {} => \E m \in T : \A x \in T : m >= x}
<1>1. ASSUME NEW T \in SUBSET S, \A U \in SUBSET T : U # T => U \in A
      PROVE  T \in A
  <2>1. CASE T = {}
    BY <2>1
  <2>2. CASE T # {}
    <3>1. PICK x \in T : TRUE
      BY <2>2
    <3> DEFINE r == T \ {x}
    <3>2. r \in A
      BY <1>1, <3>1
    <3>3. CASE r = {}
      BY <3>1, <3>3
    <3>4. CASE r # {}
      <4>1. PICK m \in r : \A y \in r : m >= y
        BY <3>2, <3>4
      <4>2. \E k \in T : \A y \in T : k >= y
        BY <3>1, <4>1
      <4> QED BY <4>2
    <3> QED BY <3>3, <3>4
  <2> QED BY <2>1, <2>2
<1> HIDE DEF A
<1>2. SUBSET S \subseteq A
  BY <1>1, SubsetInduction, Zenon
<1>3. \E m \in S : \A x \in S : m >= x
  BY <1>2 DEF A
<1> QED BY <1>3 DEF Max

\* A finite set of indices.
Indices(S) == IsFiniteSet(S) /\ S \subseteq Int

\* What a fold takes out of a set of indices is in it.
LEMMA SubIndices ==
    ASSUME NEW S, Indices(S), NEW s \in SUBSET S
    PROVE  Indices(s) /\ (s # {} => Max(s) \in s)
<1>1. IsFiniteSet(S) /\ S \subseteq Int
  BY Zenon DEF Indices
<1>2. IsFiniteSet(s) /\ s \subseteq Int
  BY <1>1, FS_Subset
<1>3. s # {} => Max(s) \in s
  BY <1>2, MaxOfFinite
<1> QED BY <1>2, <1>3 DEF Indices

\* g folds the subsets of S, each index i by the function step[i].
Folds(step, base, g, S) ==
    g = [s \in SUBSET S |-> IF s = {} THEN base ELSE step[Max(s)][g[s \ {Max(s)}]]]

FoldOf(step, base, S) == (CHOOSE g : Folds(step, base, g, S))[S]

\* Folds of a subset do not depend on the set they are taken in.
LEMMA FoldsAgree ==
    ASSUME NEW step, NEW base, NEW g, NEW h, NEW S, NEW T, Indices(S),
           T \subseteq S, Folds(step, base, g, S), Folds(step, base, h, T)
    PROVE  g[T] = h[T]
<1> DEFINE A == {s \in SUBSET T : g[s] = h[s]}
<1>0. Indices(T) /\ IsFiniteSet(T)
  <2>1. T \in SUBSET S
    OBVIOUS
  <2>2. Indices(T)
    BY <2>1, SubIndices, Zenon
  <2> QED BY <2>2 DEF Indices
<1>1. ASSUME NEW s \in SUBSET T, \A u \in SUBSET s : u # s => u \in A
      PROVE  s \in A
  <2>0. s \in SUBSET S
    OBVIOUS
  <2>1. g[s] = IF s = {} THEN base ELSE step[Max(s)][g[s \ {Max(s)}]]
    BY <2>0, Zenon DEF Folds
  <2>2. h[s] = IF s = {} THEN base ELSE step[Max(s)][h[s \ {Max(s)}]]
    BY Zenon DEF Folds
  <2>3. s # {} => Max(s) \in s
    BY <2>0, SubIndices, Zenon
  <2>4. s # {} => s \ {Max(s)} \in A
    BY <1>1, <2>3
  <2> QED BY <2>1, <2>2, <2>4
<1> HIDE DEF A
<1>2. SUBSET T \subseteq A
  BY <1>0, <1>1, SubsetInduction, Zenon
<1> QED BY <1>2 DEF A

\* There are folds of the subsets of every set of indices.
LEMMA FoldsExist ==
    ASSUME NEW step, NEW base, NEW S, Indices(S)
    PROVE  \E g : Folds(step, base, g, S)
<1> DEFINE A == {T \in SUBSET S : \E g : Folds(step, base, g, T)}
<1>0. IsFiniteSet(S)
  BY DEF Indices
<1>1. ASSUME NEW T \in SUBSET S, \A u \in SUBSET T : u # T => u \in A
      PROVE  T \in A
  <2> DEFINE g == [s \in SUBSET T |-> IF s = {} THEN base
                                      ELSE step[Max(s)][FoldOf(step, base, s \ {Max(s)})]]
  <2>0. \A s \in SUBSET T : Indices(s) /\ (s # {} => Max(s) \in s)
    <3>1. \A s \in SUBSET T : s \in SUBSET S
      OBVIOUS
    <3> QED BY <3>1, SubIndices, Zenon
  <2>1. ASSUME NEW s \in SUBSET T, s # T
        PROVE  FoldOf(step, base, s) = IF s = {} THEN base
                  ELSE step[Max(s)][FoldOf(step, base, s \ {Max(s)})]
    <3> DEFINE r == s \ {Max(s)}
               a == CHOOSE a : Folds(step, base, a, s)
               b == CHOOSE b : Folds(step, base, b, r)
    <3>1. s \in A /\ r \in A /\ r \subseteq s
      BY <1>1, <2>0, <2>1
    <3>2. Folds(step, base, a, s) /\ Folds(step, base, b, r)
      BY <3>1, Zenon
    <3>3. Indices(s)
      BY <2>0, Zenon
    <3>4. s \in SUBSET s
      BY Zenon
    <3>5. FoldOf(step, base, s) = a[s] /\ FoldOf(step, base, r) = b[r]
      BY Zenon DEF FoldOf
    <3> HIDE DEF a, b
    <3>6. a[s] = IF s = {} THEN base ELSE step[Max(s)][a[r]]
      BY <3>2, <3>4, Zenon DEF Folds
    <3> HIDE DEF r
    <3>7. a[r] = b[r]
      BY <3>1, <3>2, <3>3, FoldsAgree
    <3> QED BY <3>5, <3>6, <3>7 DEF r
  <2>3. ASSUME NEW s \in SUBSET T, s # {}
        PROVE  g[s \ {Max(s)}] = FoldOf(step, base, s \ {Max(s)})
    <3> DEFINE r == s \ {Max(s)}
    <3>1. r \in SUBSET T /\ r # T
      BY <2>0, <2>3
    <3>2. g[r] = IF r = {} THEN base ELSE step[Max(r)][FoldOf(step, base, r \ {Max(r)})]
      BY <3>1
    <3> HIDE DEF g, r
    <3>3. g[r] = FoldOf(step, base, r)
      BY <2>1, <3>1, <3>2
    <3> QED BY <3>3 DEF r
  <2>4. Folds(step, base, g, T)
    <3>1. ASSUME NEW s \in SUBSET T
          PROVE  (IF s = {} THEN base ELSE step[Max(s)][FoldOf(step, base, s \ {Max(s)})])
                 = (IF s = {} THEN base ELSE step[Max(s)][g[s \ {Max(s)}]])
      BY <2>3, Zenon
    <3>2. g = [s \in SUBSET T |-> IF s = {} THEN base ELSE step[Max(s)][g[s \ {Max(s)}]]]
      BY <3>1, Zenon
    <3> QED BY <3>2, Zenon DEF Folds
  <2> QED BY <2>4, Zenon
<1> HIDE DEF A
<1>2. SUBSET S \subseteq A
  BY <1>0, <1>1, SubsetInduction, Zenon
<1> QED BY <1>2 DEF A

\* The steps are defined on Y and stay in it.
StepsIn(step, S, Y) == \A i \in S : step[i] \in [Y -> Y]

\* What takes each step from within Y by the functions step.
StepsAgree(h, step, base, S, Y) ==
    /\ h[{}] = base
    /\ \A s \in SUBSET S : s # {} /\ h[s \ {Max(s)}] \in Y
                           => h[s] = step[Max(s)][h[s \ {Max(s)}]]

LEMMA FoldsWithin ==
    ASSUME NEW step, NEW base, NEW h, NEW S, Indices(S),
           NEW Y, base \in Y, StepsIn(step, S, Y), StepsAgree(h, step, base, S, Y)
    PROVE  S \in SUBSET S /\ \A s \in SUBSET S : h[s] \in Y
<1> DEFINE A == {s \in SUBSET S : h[s] \in Y}
<1>1. IsFiniteSet(S)
  BY DEF Indices
<1>2. ASSUME NEW s \in SUBSET S, \A u \in SUBSET s : u # s => u \in A
      PROVE  s \in A
  <2>1. CASE s = {}
    BY <2>1 DEF StepsAgree
  <2>2. CASE s # {}
    <3>1. Max(s) \in s
      BY <2>2, SubIndices, Zenon
    <3>2. s \ {Max(s)} \in A
      BY <1>2, <3>1
    <3>3. h[s] = step[Max(s)][h[s \ {Max(s)}]]
      BY <2>2, <3>2, Zenon DEF StepsAgree
    <3>4. step[Max(s)] \in [Y -> Y]
      BY <3>1 DEF StepsIn
    <3> QED BY <3>2, <3>3, <3>4
  <2> QED BY <2>1, <2>2
<1> HIDE DEF A
<1>3. SUBSET S \subseteq A
  BY <1>1, <1>2, SubsetInduction, Zenon
<1> QED BY <1>3 DEF A

\* There are folds whose values stay where their steps are defined.
LEMMA FoldsStay ==
    ASSUME NEW step, NEW base, NEW S, Indices(S),
           NEW Y, base \in Y, StepsIn(step, S, Y)
    PROVE  \E g : Folds(step, base, g, S) /\ \A s \in SUBSET S : g[s] \in Y
<1>1. PICK g : Folds(step, base, g, S)
  BY FoldsExist, Zenon
<1>2. \A s \in SUBSET S :
         g[s] = IF s = {} THEN base ELSE step[Max(s)][g[s \ {Max(s)}]]
  BY <1>1, Zenon DEF Folds
<1>3. g[{}] = base
  BY <1>2
<1>4. \A s \in SUBSET S : s # {} => g[s] = step[Max(s)][g[s \ {Max(s)}]]
  BY <1>2, Zenon
<1>5. StepsAgree(g, step, base, S, Y)
  BY <1>3, <1>4, Zenon DEF StepsAgree
<1>6. \A s \in SUBSET S : g[s] \in Y
  BY <1>5, FoldsWithin, Zenon
<1> QED BY <1>1, <1>6, Zenon

=============================================================================
