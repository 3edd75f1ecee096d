---------------------------- MODULE FiniteInduction ----------------------------
(***************************************************************************)
(* Induction over numbers and finite sets without a predicate parameter:   *)
(* the set of counterexamples, were it not empty, would have a least       *)
(* member.  And what it says of SumFunctionOnSet, whose recursive function *)
(* is shown to exist: how a sum follows one changed value, and its sign.   *)
(***************************************************************************)
EXTENDS Integers, FiniteSets, Functions, FiniteSetTheorems, WellFoundedInduction, TLAPS

\* The element that Folds removes next.
Pick(s) == CHOOSE x \in s : TRUE

\* The sums of f over the subsets of D, by removing one element after the other.
IsSum(g, f, D) == g = [s \in D |-> IF s = {} THEN 0 ELSE f[Pick(s)] + g[s \ {Pick(s)}]]

\* SumFunctionOnSet without the operators it passes on.
LEMMA SumIsPartialSum ==
  ASSUME NEW f, NEW S
  PROVE  SumFunctionOnSet(f, S) = (CHOOSE g : IsSum(g, f, SUBSET S))[S]
BY DEF SumFunctionOnSet, FoldFunctionOnSet, MapThenFoldSet, IsSum, Pick

\* A set of natural numbers has a least one.
LEMMA LeastNatural ==
  ASSUME NEW T, T \subseteq Nat, T # {}
  PROVE  \E n \in T : \A m \in T : n <= m
<1>1. PICK n \in T : \A m \in T : ~(<<m, n>> \in OpToRel(<, Nat))
  BY NatLessThanWellFounded, WFMin
<1>2. \A m \in T : m \in Nat /\ n \in Nat
  OBVIOUS
<1>3. \A m \in T : ~(m < n)
  BY <1>1, <1>2 DEF OpToRel
<1> QED
  BY <1>2, <1>3

\* The recursive function of a sum exists: were there a least number of elements for which
\* it does not, the function for one element less could be extended.
LEMMA SumsExist ==
  ASSUME NEW f, NEW S, IsFiniteSet(S)
  PROVE  \E g : IsSum(g, f, SUBSET S)
<1> DEFINE Small(n) == {s \in SUBSET S : Cardinality(s) <= n}
           Bad == {n \in Nat : ~\E g : IsSum(g, f, Small(n))}
<1>1. \A s \in SUBSET S : /\ IsFiniteSet(s) /\ Cardinality(s) \in Nat
                          /\ Cardinality(s) <= Cardinality(S) /\ Cardinality(S) \in Nat
                          /\ s # {} => Cardinality(s) # 0
  BY FS_Subset, FS_CardinalityType, FS_EmptySet
<1>2. Bad = {}
  <2> SUFFICES ASSUME Bad # {} PROVE FALSE
    OBVIOUS
  <2>1. PICK n \in Bad : \A m \in Bad : n <= m
    BY LeastNatural
  <2>2. n # 0
    <3>1. Small(0) = {{}}
      BY <1>1, FS_EmptySet
    <3>2. IsSum([s \in {{}} |-> 0], f, {{}})
      BY DEF IsSum
    <3> QED
      BY <3>1, <3>2
  <2>3. n - 1 \in Nat /\ n - 1 \notin Bad
    <3>1. n \in Nat /\ \A m \in Bad : n <= m
      BY <2>1
    <3> HIDE DEF Bad
    <3> QED
      BY <2>2, <3>1
  <2>4. PICK g : IsSum(g, f, Small(n - 1))
    BY <2>3
  <2> DEFINE h == [s \in Small(n) |-> IF s = {} THEN 0 ELSE f[Pick(s)] + g[s \ {Pick(s)}]]
  <2>5. ASSUME NEW s \in Small(n - 1) PROVE s \in Small(n) /\ g[s] = h[s]
    <3>1. s \in Small(n)
      BY <1>1, <2>1
    <3>2. g[s] = IF s = {} THEN 0 ELSE f[Pick(s)] + g[s \ {Pick(s)}]
      BY <2>4 DEF IsSum
    <3> QED
      BY <3>1, <3>2
  <2>6. ASSUME NEW s \in Small(n), s # {} PROVE s \ {Pick(s)} \in Small(n - 1)
    <3>1. Pick(s) \in s
      BY <2>6 DEF Pick
    <3>2. Cardinality(s \ {Pick(s)}) = Cardinality(s) - 1
      BY <1>1, <3>1, FS_RemoveElement
    <3>3. Cardinality(s) \in Nat /\ Cardinality(s) <= n /\ n \in Nat /\ s \ {Pick(s)} \in SUBSET S
      BY <1>1, <2>1
    <3>4. Cardinality(s \ {Pick(s)}) <= n - 1
      BY <3>2, <3>3
    <3> QED
      BY <3>3, <3>4
  <2>7. IsSum(h, f, Small(n))
    <3>1. ASSUME NEW s \in Small(n), s # {}
          PROVE  g[s \ {Pick(s)}] = h[s \ {Pick(s)}]
      BY <2>5, <2>6, <3>1
    <3> HIDE DEF Small
    <3>2. h = [s \in Small(n) |-> IF s = {} THEN 0 ELSE f[Pick(s)] + h[s \ {Pick(s)}]]
      BY <3>1
    <3> HIDE DEF h
    <3> QED
      BY <3>2 DEF IsSum
  <2> QED
    BY <2>1, <2>7
<1>3. SUBSET S = Small(Cardinality(S)) /\ Cardinality(S) \in Nat
  BY <1>1
<1> QED
  BY <1>2, <1>3

\* SumFunctionOnSet adds up the values, in the order of the CHOOSE of Folds.
LEMMA SumUnfolds ==
  ASSUME NEW f, NEW S, IsFiniteSet(S)
  PROVE  \E g : IsSum(g, f, SUBSET S) /\ SumFunctionOnSet(f, S) = g[S]
BY SumsExist, SumIsPartialSum

\* A family of subsets of a finite set has a member none of whose elements can be taken away.
LEMMA LeastSubset ==
  ASSUME NEW S, IsFiniteSet(S), NEW T, T \subseteq SUBSET S, T # {}
  PROVE  \E s \in T : \A x \in s : s \ {x} \notin T
<1>1. T \subseteq FiniteSubsetsOf(S)
  BY FS_FiniteSubsetsOfFinite
<1>2. PICK s \in T : \A t \in T : ~(<<t, s>> \in StrictSubsetOrdering(S))
  BY <1>1, FS_StrictSubsetOrderingWellFounded, WFMin
<1>3. ASSUME NEW x \in s, s \ {x} \in T PROVE FALSE
  <2>1. s \in SUBSET S /\ s \ {x} \in SUBSET S /\ s \ {x} \subseteq s /\ s \ {x} # s
    BY <1>3
  <2> QED
    BY <1>2, <1>3, <2>1 DEF StrictSubsetOrdering
<1> QED
  BY <1>3

\* What one changed value does to the sum.
LEMMA SumOfChange ==
  ASSUME NEW S, IsFiniteSet(S), NEW f \in [S -> Int], NEW g \in [S -> Int],
         NEW u \in S, \A v \in S \ {u} : g[v] = f[v]
  PROVE  /\ SumFunctionOnSet(f, S) \in Int
         /\ SumFunctionOnSet(g, S) = SumFunctionOnSet(f, S) + (g[u] - f[u])
<1>1. PICK F : IsSum(F, f, SUBSET S) /\ SumFunctionOnSet(f, S) = F[S]
  BY SumUnfolds
<1>2. PICK G : IsSum(G, g, SUBSET S) /\ SumFunctionOnSet(g, S) = G[S]
  BY SumUnfolds
<1> DEFINE Good(s) == F[s] \in Int /\ G[s] = F[s] + (IF u \in s THEN g[u] - f[u] ELSE 0)
           Bad == {s \in SUBSET S : ~Good(s)}
<1>3. ASSUME NEW s \in Bad, \A x \in s : s \ {x} \notin Bad
      PROVE  FALSE
  <2>1. s \in SUBSET S /\ ~Good(s) /\ \A x \in s : Good(s \ {x})
    BY <1>3
  <2>2. CASE s = {}
    <3>1. F[s] = 0 /\ G[s] = 0
      BY <1>1, <1>2, <2>2 DEF IsSum
    <3> QED
      BY <2>1, <2>2, <3>1
  <2>3. CASE s # {}
    <3>1. PICK x \in s : x = Pick(s)
      BY <2>3 DEF Pick
    <3>2. F[s] = f[x] + F[s \ {x}] /\ G[s] = g[x] + G[s \ {x}]
      BY <1>1, <1>2, <2>1, <2>3, <3>1 DEF IsSum
    <3>3. /\ F[s \ {x}] \in Int
          /\ G[s \ {x}] = F[s \ {x}] + (IF u \in s \ {x} THEN g[u] - f[u] ELSE 0)
      BY <2>1
    <3>4. f[x] \in Int /\ g[x] \in Int /\ f[u] \in Int /\ g[u] \in Int /\ (x # u => g[x] = f[x])
      BY <2>1
    <3> DEFINE p == F[s \ {x}]
               q == G[s \ {x}]
    <3>5. p \in Int /\ (q = p + (IF u \in s \ {x} THEN g[u] - f[u] ELSE 0))
      BY <3>3
    <3>6. F[s] = f[x] + p /\ G[s] = g[x] + q
      BY <3>2
    <3> HIDE DEF p, q
    <3>7. CASE x = u
      BY <2>1, <3>4, <3>5, <3>6, <3>7
    <3>8. CASE x # u
      BY <2>1, <3>4, <3>5, <3>6, <3>8
    <3> QED
      BY <3>7, <3>8
  <2> QED
    BY <2>2, <2>3
<1>4. Bad = {}
  BY <1>3, LeastSubset
<1>5. Good(S)
  BY <1>4
<1> QED
  BY <1>1, <1>2, <1>5

\* The sum of zeros.
LEMMA SumOfZeros ==
  ASSUME NEW S, IsFiniteSet(S), NEW f \in [S -> {0}]
  PROVE  SumFunctionOnSet(f, S) = 0
<1>1. PICK F : IsSum(F, f, SUBSET S) /\ SumFunctionOnSet(f, S) = F[S]
  BY SumUnfolds
<1> DEFINE Bad == {s \in SUBSET S : F[s] # 0}
<1>2. ASSUME NEW s \in Bad, \A x \in s : s \ {x} \notin Bad
      PROVE  FALSE
  <2>1. s \in SUBSET S /\ F[s] # 0 /\ \A x \in s : F[s \ {x}] = 0
    BY <1>2
  <2>2. s # {}
    BY <1>1, <2>1 DEF IsSum
  <2>3. PICK x \in s : x = Pick(s)
    BY <2>2 DEF Pick
  <2>4. F[s] = f[x] + F[s \ {x}] /\ f[x] = 0
    BY <1>1, <2>1, <2>2, <2>3 DEF IsSum
  <2> QED
    BY <2>1, <2>4
<1> QED
  BY <1>1, <1>2, LeastSubset

\* The sum of positive numbers.
LEMMA SumOfPositives ==
  ASSUME NEW S, IsFiniteSet(S), S # {}, NEW f, \A x \in S : f[x] \in Nat \ {0}
  PROVE  SumFunctionOnSet(f, S) \in Nat \ {0}
<1>1. PICK F : IsSum(F, f, SUBSET S) /\ SumFunctionOnSet(f, S) = F[S]
  BY SumUnfolds
<1> DEFINE Bad == {s \in SUBSET S : ~(F[s] \in Nat /\ (s # {} => F[s] # 0))}
<1>2. ASSUME NEW s \in Bad, \A x \in s : s \ {x} \notin Bad
      PROVE  FALSE
  <2>1. s \in SUBSET S /\ \A x \in s : F[s \ {x}] \in Nat
    BY <1>2
  <2>2. s # {}
    BY <1>1, <1>2 DEF IsSum
  <2>3. PICK x \in s : x = Pick(s)
    BY <2>2 DEF Pick
  <2>4. F[s] = f[x] + F[s \ {x}] /\ f[x] \in Nat \ {0}
    BY <1>1, <2>1, <2>2, <2>3 DEF IsSum
  <2>5. F[s] \in Nat \ {0}
    BY <2>1, <2>4
  <2> QED
    BY <1>2, <2>5
<1> QED
  BY <1>1, <1>2, LeastSubset

\* A finite family of numbers has a greatest member.
LEMMA GreatestValue ==
  ASSUME NEW S, IsFiniteSet(S), S # {}, NEW f, \A x \in S : f[x] \in Int
  PROVE  \E x \in S : \A y \in S : f[y] <= f[x]
<1> DEFINE Top(s) == \E x \in s : \A y \in s : f[y] <= f[x]
           Bad == {s \in SUBSET S : s # {} /\ ~Top(s)}
<1>1. ASSUME NEW s \in Bad, \A x \in s : s \ {x} \notin Bad
      PROVE  FALSE
  <2>1. PICK x \in s : s \in SUBSET S /\ x \in S
    BY <1>1
  <2>2. CASE s \ {x} = {}
    BY <1>1, <2>1, <2>2
  <2>3. CASE s \ {x} # {}
    <3>1. Top(s \ {x})
      BY <1>1, <2>1, <2>3
    <3>2. PICK m \in s \ {x} : \A y \in s \ {x} : f[y] <= f[m]
      BY <3>1
    <3>3. \A y \in s : f[y] \in Int
      BY <2>1
    <3>4. CASE f[x] <= f[m]
      BY <1>1, <3>2, <3>4
    <3>5. CASE ~(f[x] <= f[m])
      BY <1>1, <3>2, <3>3, <3>5
    <3> QED
      BY <3>4, <3>5
  <2> QED
    BY <2>2, <2>3
<1>2. Bad = {}
  BY <1>1, LeastSubset
<1> QED
  BY <1>2
==============================================================================
