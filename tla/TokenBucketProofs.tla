-------------------------- MODULE TokenBucketProofs --------------------------
(***************************************************************************)
(* The rate limit and the answers of the token bucket, for any number of   *)
(* keys, bucket size, refill rate, interval and length of behaviour.       *)
(***************************************************************************)
EXTENDS TokenBucket, FiniteSetTheorems, WellFoundedInduction, TLAPS

Step == [Next]_vars

-----------------------------------------------------------------------------
(* Sums over sets of instants.                                             *)

Total(f, S) == MapThenSumSet(LAMBDA i : f[i], S)

\* The element that MapThenSumSet takes out of a set.
Pick(s) == CHOOSE x \in s : TRUE

\* h is the function that MapThenSumSet defines recursively over the subsets of S.
Sums(h, f, S) ==
    h = [s \in SUBSET S |-> IF s = {} THEN 0 ELSE f[Pick(s)] + h[s \ {Pick(s)}]]

\* MapThenSumSet takes the value of that function at S.
LEMMA TotalUnfolds ==
    ASSUME NEW f, NEW S
    PROVE  Total(f, S) = (CHOOSE h : Sums(h, f, S))[S]
BY Zenon DEF Total, MapThenSumSet, MapThenFoldSet, Sums, Pick

\* The element taken out of a nonempty set is in it.
LEMMA PickIn ==
    ASSUME NEW s, s # {}
    PROVE  Pick(s) \in s
BY Zenon DEF Pick

\* A nonempty set of natural numbers has a smallest one.
LEMMA LeastNumber ==
    ASSUME NEW T \in SUBSET Nat, T # {}
    PROVE  \E x \in T : \A y \in T : ~(y < x)
<1> DEFINE R == {ss \in Nat \X Nat : ss[1] < ss[2]}
<1>1. IsWellFoundedOn(R, Nat)
  BY NatLessThanWellFounded, Zenon DEF OpToRel
<1>2. PICK x \in T : \A y \in T : ~(<<y, x>> \in R)
  <2> HIDE DEF R
  <2> QED
    BY <1>1, WFMin
<1>3. ASSUME NEW y \in T PROVE ~(y < x)
  <2>1. <<y, x>> \notin R /\ <<y, x>> \in Nat \X Nat
    BY <1>2
  <2> QED
    BY <2>1
<1> QED
  BY <1>3

\* Induction over the numbers up to n, for a set of numbers.
LEMMA CountInduction ==
    ASSUME NEW n \in Nat, NEW T, 0 \in T,
           \A i \in 1..n : i - 1 \in T => i \in T
    PROVE  n \in T
<1> DEFINE U == {i \in 0..n : i \notin T}
<1>1. SUFFICES ASSUME n \notin T PROVE FALSE
  OBVIOUS
<1>2. U \in SUBSET Nat /\ n \in U
  BY <1>1
<1>3. PICK x \in U : \A y \in U : ~(y < x)
  <2> HIDE DEF U
  <2> QED
    BY <1>2, LeastNumber
<1>4. x \in 1..n /\ x \notin T
  <2>1. x \in 0..n /\ x # 0 /\ x \notin T
    OBVIOUS
  <2> QED
    BY <2>1
<1>5. x - 1 \in U
  BY <1>4
<1> QED
  BY <1>3, <1>4, <1>5

\* Sets without their picked element are smaller.
LEMMA PickSmaller ==
    ASSUME NEW s, IsFiniteSet(s), s # {}
    PROVE  /\ IsFiniteSet(s \ {Pick(s)})
           /\ Cardinality(s) \in Nat /\ Cardinality(s) > 0
           /\ Cardinality(s \ {Pick(s)}) = Cardinality(s) - 1
<1> DEFINE x == Pick(s)
<1>1. x \in s
  BY PickIn
<1>2. IsFiniteSet(s \ {x}) /\ Cardinality(s \ {x}) = Cardinality(s) - 1
  <2> HIDE DEF x
  <2> QED
    BY <1>1, FS_RemoveElement
<1>3. Cardinality(s) \in Nat /\ Cardinality(s) # 0
  BY FS_CardinalityType, FS_EmptySet
<1> QED
  BY <1>2, <1>3

\* Induction over the subsets of a finite set, along the elements picked.
LEMMA PickInduction ==
    ASSUME NEW U, IsFiniteSet(U), NEW P, {} \in P,
           \A s \in SUBSET U : (s # {} /\ s \ {Pick(s)} \in P) => s \in P
    PROVE  \A s \in SUBSET U : s \in P
<1> DEFINE Bad == {s \in SUBSET U : s \notin P}
           T == {Cardinality(s) : s \in Bad}
<1>1. SUFFICES ASSUME Bad # {} PROVE FALSE
  OBVIOUS
<1>2. \A s \in SUBSET U : IsFiniteSet(s) /\ Cardinality(s) \in Nat
  BY FS_Subset, FS_CardinalityType
<1>3. T \in SUBSET Nat /\ T # {}
  BY <1>1, <1>2
<1>4. PICK x \in T : \A y \in T : ~(y < x)
  <2> HIDE DEF T
  <2> QED
    BY <1>3, LeastNumber
<1>5. PICK s \in Bad : x = Cardinality(s)
  OBVIOUS
<1>6. s \in SUBSET U /\ s # {} /\ s \ {Pick(s)} \in SUBSET U /\ s \ {Pick(s)} \notin P
  OBVIOUS
<1>7. Cardinality(s \ {Pick(s)}) = x - 1 /\ x \in Nat
  BY <1>2, <1>5, <1>6, PickSmaller
<1>8. x - 1 \in T
  BY <1>6, <1>7
<1> QED
  BY <1>4, <1>7, <1>8

\* The recursive function of MapThenSumSet exists on the subsets of a finite set.
LEMMA SumsExist ==
    ASSUME NEW U, IsFiniteSet(U), NEW f \in [U -> Nat]
    PROVE  \E g \in [SUBSET U -> Nat] : Sums(g, f, U)
<1> DEFINE n == Cardinality(U)
           Value(g, s) == IF s = {} THEN 0 ELSE f[Pick(s)] + g[s \ {Pick(s)}]
           Good(g, k) == /\ g \in [SUBSET U -> Nat]
                         /\ \A s \in SUBSET U : Cardinality(s) <= k => g[s] = Value(g, s)
           T == {k \in Nat : \E g : Good(g, k)}
<1>1. \A s \in SUBSET U : IsFiniteSet(s) /\ Cardinality(s) \in Nat /\ Cardinality(s) <= n
  BY FS_Subset, FS_CardinalityType
<1>2. n \in Nat
  BY FS_CardinalityType
<1>3. 0 \in T
  <2> DEFINE g == [s \in SUBSET U |-> 0]
  <2>1. ASSUME NEW s \in SUBSET U, Cardinality(s) <= 0 PROVE g[s] = Value(g, s)
    <3>1. Cardinality(s) = 0
      BY <1>1, <2>1
    <3>2. s = {}
      BY <1>1, <3>1, FS_EmptySet
    <3> QED
      BY <3>2
  <2>2. Good(g, 0)
    BY <2>1
  <2> HIDE DEF g, Good
  <2> QED
    BY <2>2
<1>4. ASSUME NEW k \in 1..n, k - 1 \in T PROVE k \in T
  <2>1. PICK e : Good(e, k - 1)
    BY <1>4
  <2> DEFINE g == [s \in SUBSET U |-> IF Cardinality(s) = k THEN Value(e, s) ELSE e[s]]
  <2>2. k \in Nat /\ k > 0
    BY <1>2
  <2>3. ASSUME NEW s \in SUBSET U, s # {}
        PROVE  /\ s \ {Pick(s)} \in SUBSET U /\ Pick(s) \in U
               /\ Cardinality(s \ {Pick(s)}) = Cardinality(s) - 1
    BY <1>1, <2>3, PickSmaller, PickIn
  <2>4. ASSUME NEW s \in SUBSET U PROVE Value(e, s) \in Nat
    BY <2>1, <2>3
  <2>5. g \in [SUBSET U -> Nat]
    <3> HIDE DEF Value
    <3> QED
      BY <2>1, <2>4
  <2>6. ASSUME NEW s \in SUBSET U, Cardinality(s) <= k PROVE g[s] = Value(g, s)
    <3>1. g[s] = Value(e, s)
      <4>1. CASE Cardinality(s) = k
        BY <4>1
      <4>2. CASE Cardinality(s) # k
        <5>1. Cardinality(s) <= k - 1
          BY <1>1, <2>2, <2>6, <4>2
        <5>2. e[s] = Value(e, s)
          BY <2>1, <5>1
        <5> HIDE DEF Value
        <5> QED
          BY <4>2, <5>2
      <4> QED
        BY <4>1, <4>2
    <3>2. Value(e, s) = Value(g, s)
      <4>1. CASE s = {}
        BY <4>1
      <4>2. CASE s # {}
        <5>1. s \ {Pick(s)} \in SUBSET U
          BY <2>3, <4>2
        <5>2. Cardinality(s \ {Pick(s)}) # k
          BY <1>1, <2>2, <2>3, <2>6, <4>2
        <5>3. g[s \ {Pick(s)}] = e[s \ {Pick(s)}]
          BY <5>1, <5>2
        <5> HIDE DEF g
        <5> QED
          BY <4>2, <5>3
      <4> QED
        BY <4>1, <4>2
    <3> HIDE DEF g, Value
    <3> QED
      BY <3>1, <3>2
  <2>7. Good(g, k)
    <3> HIDE DEF g, Value
    <3> QED
      BY <2>5, <2>6
  <2> HIDE DEF g, Good
  <2> QED
    BY <2>2, <2>7
<1>5. n \in T
  <2> HIDE DEF T, n
  <2> QED
    BY <1>2, <1>3, <1>4, CountInduction
<1>6. PICK g : Good(g, n)
  BY <1>5
<1>7. \A s \in SUBSET U : g[s] = Value(g, s)
  BY <1>1, <1>6
<1>8. g = [s \in SUBSET U |-> g[s]]
  BY <1>6
<1>9. Sums(g, f, U)
  BY <1>7, <1>8 DEF Sums
<1> QED
  BY <1>6, <1>9

\* The sum over a set of instants: zero if it is empty, and otherwise the value
\* at the element picked and the sum over the others.
LEMMA TotalRecursion ==
    ASSUME NEW U, IsFiniteSet(U), NEW f \in [U -> Nat], NEW S \in SUBSET U
    PROVE  /\ Total(f, S) \in Nat
           /\ S = {} => Total(f, S) = 0
           /\ S # {} => Total(f, S) = f[Pick(S)] + Total(f, S \ {Pick(S)})
<1>1. PICK g \in [SUBSET U -> Nat] : Sums(g, f, U)
  BY SumsExist
<1>2. ASSUME NEW s \in SUBSET U
      PROVE  g[s] = IF s = {} THEN 0 ELSE f[Pick(s)] + g[s \ {Pick(s)}]
  BY <1>1 DEF Sums
<1>3. ASSUME NEW R \in SUBSET U
      PROVE  Total(f, R) = g[R]
  <2> DEFINE h == CHOOSE e : Sums(e, f, R)
             k == [s \in SUBSET R |-> g[s]]
  <2>1. Sums(k, f, R)
    <3>1. ASSUME NEW s \in SUBSET R
          PROVE  k[s] = IF s = {} THEN 0 ELSE f[Pick(s)] + k[s \ {Pick(s)}]
      <4>1. s \in SUBSET U /\ s \ {Pick(s)} \in SUBSET R
        BY <1>3
      <4>2. k[s] = g[s] /\ k[s \ {Pick(s)}] = g[s \ {Pick(s)}]
        BY <4>1
      <4> HIDE DEF k
      <4> QED
        BY <1>2, <4>1, <4>2
    <3>2. k = [s \in SUBSET R |-> k[s]]
      OBVIOUS
    <3> HIDE DEF k
    <3> QED
      BY <3>1, <3>2 DEF Sums
  <2>2. Sums(h, f, R)
    <3> HIDE DEF k
    <3> QED
      BY <2>1
  <2>3. ASSUME NEW s \in SUBSET R
        PROVE  h[s] = IF s = {} THEN 0 ELSE f[Pick(s)] + h[s \ {Pick(s)}]
    <3> HIDE DEF h
    <3> QED
      BY <2>2 DEF Sums
  <2> DEFINE P == {s \in SUBSET R : h[s] = g[s]}
  <2>4. {} \in P
    BY <1>2, <2>3
  <2>5. ASSUME NEW s \in SUBSET R, s # {}, s \ {Pick(s)} \in P PROVE s \in P
    <3>1. h[s] = f[Pick(s)] + h[s \ {Pick(s)}] /\ g[s] = f[Pick(s)] + g[s \ {Pick(s)}]
      BY <1>2, <1>3, <2>3, <2>5
    <3> HIDE DEF h
    <3> QED
      BY <2>5, <3>1
  <2>6. IsFiniteSet(R)
    BY FS_Subset
  <2>7. R \in P
    <3> HIDE DEF P
    <3>1. \A s \in SUBSET R : s \in P
      BY <2>4, <2>5, <2>6, PickInduction
    <3> QED
      BY <3>1
  <2>8. Total(f, R) = h[R]
    BY TotalUnfolds
  <2> HIDE DEF h
  <2> QED
    BY <2>7, <2>8
<1>4. S \ {Pick(S)} \in SUBSET U
  OBVIOUS
<1> QED
  BY <1>1, <1>2, <1>3, <1>4

\* The sum of nothing but zeros is zero.
LEMMA TotalZero ==
    ASSUME NEW U, IsFiniteSet(U), NEW f \in [U -> Nat], NEW S \in SUBSET U,
           \A i \in S : f[i] = 0
    PROVE  Total(f, S) = 0
<1> DEFINE P == {s \in SUBSET S : Total(f, s) = 0}
<1>1. {} \in P
  BY TotalRecursion
<1>2. ASSUME NEW s \in SUBSET S, s # {}, s \ {Pick(s)} \in P PROVE s \in P
  <2>1. s \in SUBSET U /\ Pick(s) \in S
    BY <1>2, PickIn
  <2>2. Total(f, s) = f[Pick(s)] + Total(f, s \ {Pick(s)})
    BY <1>2, <2>1, TotalRecursion
  <2> QED
    BY <1>2, <2>1, <2>2
<1>3. IsFiniteSet(S)
  BY FS_Subset
<1> HIDE DEF P
<1>4. \A s \in SUBSET S : s \in P
  BY <1>1, <1>2, <1>3, PickInduction
<1> QED
  BY <1>4 DEF P

\* Two functions that agree on a set have the same sum over it.
LEMMA TotalEqual ==
    ASSUME NEW U, IsFiniteSet(U), NEW f \in [U -> Nat], NEW g \in [U -> Nat],
           NEW S \in SUBSET U, \A i \in S : f[i] = g[i]
    PROVE  Total(f, S) = Total(g, S)
<1> DEFINE P == {s \in SUBSET S : Total(f, s) = Total(g, s)}
<1>1. {} \in P
  BY TotalRecursion
<1>2. ASSUME NEW s \in SUBSET S, s # {}, s \ {Pick(s)} \in P PROVE s \in P
  <2>1. s \in SUBSET U /\ Pick(s) \in S
    BY <1>2, PickIn
  <2>2. /\ Total(f, s) = f[Pick(s)] + Total(f, s \ {Pick(s)})
        /\ Total(g, s) = g[Pick(s)] + Total(g, s \ {Pick(s)})
    BY <1>2, <2>1, TotalRecursion
  <2> QED
    BY <1>2, <2>1, <2>2
<1>3. IsFiniteSet(S)
  BY FS_Subset
<1> HIDE DEF P
<1>4. \A s \in SUBSET S : s \in P
  BY <1>1, <1>2, <1>3, PickInduction
<1> QED
  BY <1>4 DEF P

\* One more at an instant of a set is one more in its sum.
LEMMA TotalPlusOne ==
    ASSUME NEW U, IsFiniteSet(U), NEW f \in [U -> Nat], NEW g \in [U -> Nat],
           NEW S \in SUBSET U, NEW x \in S, g[x] = f[x] + 1,
           \A i \in U : i # x => g[i] = f[i]
    PROVE  Total(g, S) = Total(f, S) + 1
<1> DEFINE P == {s \in SUBSET S : x \in s => Total(g, s) = Total(f, s) + 1}
<1>1. {} \in P
  OBVIOUS
<1>2. ASSUME NEW s \in SUBSET S, s # {}, s \ {Pick(s)} \in P PROVE s \in P
  <2> DEFINE y == Pick(s)
  <2>1. s \in SUBSET U /\ y \in s /\ y \in U /\ s \ {y} \in SUBSET U
    BY <1>2, PickIn
  <2>2. /\ Total(f, s) = f[y] + Total(f, s \ {y})
        /\ Total(g, s) = g[y] + Total(g, s \ {y})
    BY <1>2, <2>1, TotalRecursion
  <2>3. Total(f, s \ {y}) \in Nat /\ Total(g, s \ {y}) \in Nat
    BY <2>1, TotalRecursion
  <2>4. s \ {y} \in P
    BY <1>2
  <2> HIDE DEF y
  <2>5. ASSUME x \in s PROVE Total(g, s) = Total(f, s) + 1
    <3>1. CASE y = x
      <4>1. \A i \in s \ {y} : f[i] = g[i]
        BY <2>1, <3>1
      <4>2. Total(f, s \ {y}) = Total(g, s \ {y})
        BY <2>1, <4>1, TotalEqual
      <4>3. f[y] \in Nat /\ g[y] = f[y] + 1
        BY <2>1, <3>1
      <4> QED
        BY <2>2, <2>3, <4>2, <4>3
    <3>2. CASE y # x
      <4>1. Total(g, s \ {y}) = Total(f, s \ {y}) + 1
        BY <2>4, <2>5, <3>2
      <4>2. g[y] = f[y] /\ f[y] \in Nat
        BY <2>1, <3>2
      <4> QED
        BY <2>2, <2>3, <4>1, <4>2
    <3> QED
      BY <3>1, <3>2
  <2> QED
    BY <2>5
<1>3. IsFiniteSet(S)
  BY FS_Subset
<1>5. S \in P
  <2> HIDE DEF P
  <2>1. \A s \in SUBSET S : s \in P
    BY <1>1, <1>2, <1>3, PickInduction
  <2> QED
    BY <2>1
<1> QED
  BY <1>5

\* The sum over one instant is the value there.
LEMMA TotalOne ==
    ASSUME NEW U, IsFiniteSet(U), NEW f \in [U -> Nat], NEW x \in U
    PROVE  Total(f, {x}) = f[x]
<1>1. {x} \in SUBSET U /\ {x} # {} /\ {} \in SUBSET U
  OBVIOUS
<1>2. Pick({x}) = x
  <2>1. Pick({x}) \in {x}
    BY <1>1, PickIn
  <2> QED
    BY <2>1
<1> DEFINE s == {x}
<1>3. s \ {Pick(s)} = {} /\ s \in SUBSET U /\ s # {}
  BY <1>1, <1>2
<1>4. Total(f, s) = f[Pick(s)] + Total(f, s \ {Pick(s)})
  <2> HIDE DEF s
  <2> QED
    BY <1>3, TotalRecursion
<1>5. Total(f, {}) = 0 /\ f[x] \in Nat
  BY <1>1, TotalRecursion
<1> QED
  BY <1>2, <1>3, <1>4, <1>5

\* The order of summation does not matter: any element can be taken out first.
LEMMA TotalRemove ==
    ASSUME NEW U, IsFiniteSet(U), NEW f \in [U -> Nat], NEW S \in SUBSET U, NEW x \in S
    PROVE  Total(f, S) = f[x] + Total(f, S \ {x})
<1> DEFINE n == Cardinality(U)
           Removes(s) == \A y \in s : Total(f, s) = f[y] + Total(f, s \ {y})
           T == {k \in Nat : \A s \in SUBSET U : Cardinality(s) <= k => Removes(s)}
<1>1. \A s \in SUBSET U : IsFiniteSet(s) /\ Cardinality(s) \in Nat /\ Cardinality(s) <= n
  BY FS_Subset, FS_CardinalityType
<1>2. n \in Nat
  BY FS_CardinalityType
<1>3. 0 \in T
  <2>1. ASSUME NEW s \in SUBSET U, Cardinality(s) <= 0 PROVE Removes(s)
    <3>1. Cardinality(s) = 0
      BY <1>1, <2>1
    <3>2. s = {}
      BY <1>1, <3>1, FS_EmptySet
    <3> QED
      BY <3>2
  <2> HIDE DEF Removes
  <2> QED
    BY <2>1
<1>4. ASSUME NEW k \in 1..n, k - 1 \in T PROVE k \in T
  <2>1. k \in Nat /\ k > 0
    BY <1>2
  <2>2. ASSUME NEW s \in SUBSET U, Cardinality(s) <= k, NEW y \in s
        PROVE  Total(f, s) = f[y] + Total(f, s \ {y})
    <3> DEFINE c == Pick(s)
    <3>1. c \in s /\ s # {} /\ c \in U /\ y \in U
      BY PickIn
    <3>2. Total(f, s) = f[c] + Total(f, s \ {c})
      BY <3>1, TotalRecursion
    <3> HIDE DEF c
    <3>3. CASE y = c
      BY <3>2, <3>3
    <3>4. CASE y # c
      <4>1. /\ s \ {c} \in SUBSET U /\ s \ {y} \in SUBSET U
            /\ Cardinality(s \ {c}) <= k - 1 /\ Cardinality(s \ {y}) <= k - 1
        <5>1. IsFiniteSet(s) /\ Cardinality(s) \in Nat
          BY <1>1
        <5>2. Cardinality(s \ {c}) = Cardinality(s) - 1 /\ Cardinality(s \ {y}) = Cardinality(s) - 1
          BY <3>1, <5>1, FS_RemoveElement
        <5> QED
          BY <2>1, <2>2, <5>1, <5>2
      <4>2. Removes(s \ {c}) /\ Removes(s \ {y})
        <5> HIDE DEF Removes
        <5> QED
          BY <1>4, <4>1
      <4>3. y \in s \ {c} /\ c \in s \ {y}
        BY <3>1, <3>4
      <4>4. /\ Total(f, s \ {c}) = f[y] + Total(f, (s \ {c}) \ {y})
            /\ Total(f, s \ {y}) = f[c] + Total(f, (s \ {y}) \ {c})
        BY <4>2, <4>3
      <4>5. (s \ {c}) \ {y} = (s \ {y}) \ {c}
        OBVIOUS
      <4>6. (s \ {y}) \ {c} \in SUBSET U
        OBVIOUS
      <4> DEFINE d == Total(f, (s \ {y}) \ {c})
                 v == Total(f, s \ {c})
                 w == Total(f, s \ {y})
      <4>7. d \in Nat
        BY <4>6, TotalRecursion
      <4>8. f[y] \in Nat /\ f[c] \in Nat
        BY <3>1
      <4>9. v = f[y] + d /\ w = f[c] + d /\ Total(f, s) = f[c] + v
        BY <3>2, <4>4, <4>5, Zenon
      <4> HIDE DEF d, v
      <4> QED
        BY <4>7, <4>8, <4>9
    <3> QED
      BY <3>3, <3>4
  <2> QED
    BY <2>1, <2>2
<1>5. n \in T
  <2> HIDE DEF T, n
  <2> QED
    BY <1>2, <1>3, <1>4, CountInduction
<1> QED
  BY <1>1, <1>5

\* An element whose value is zero can be left out.
LEMMA TotalDrop ==
    ASSUME NEW U, IsFiniteSet(U), NEW f \in [U -> Nat], NEW S \in SUBSET U, NEW R \in SUBSET U,
           NEW x \in S, x \notin R, \A y \in U : y # x => (y \in R <=> y \in S), f[x] = 0
    PROVE  Total(f, S) = Total(f, R)
<1>0. R = S \ {x}
  OBVIOUS
<1>1. Total(f, S) = f[x] + Total(f, S \ {x})
  BY TotalRemove
<1>2. Total(f, S) = f[x] + Total(f, R)
  BY <1>0, <1>1, Zenon
<1>3. Total(f, R) \in Nat
  BY TotalRecursion
<1> QED
  BY <1>2, <1>3

Instants == 0..MaxNow

\* There are finitely many instants.
LEMMA InstantsFinite == IsFiniteSet(Instants)
BY TokenBucketAssumption, FS_Interval DEF Instants

\* An instant without a grant can be left out of a window.
LEMMA TotalExtend ==
    ASSUME NEW f \in [Instants -> Nat], NEW a \in Nat, NEW n \in Nat,
           a <= n + 1, n + 1 <= MaxNow, f[n + 1] = 0
    PROVE  Total(f, a..(n+1)) = Total(f, a..n)
<1>1. PICK m \in Instants, S \in SUBSET Instants, R \in SUBSET Instants :
         m = n + 1 /\ S = a..(n+1) /\ R = a..n
  BY TokenBucketAssumption DEF Instants
<1>2. m \in S /\ f[m] = 0 /\ m \notin R
  BY <1>1
<1>3. \A y \in Instants : y # m => (y \in R <=> y \in S)
  BY <1>1, TokenBucketAssumption DEF Instants
<1>4. Total(f, S) = Total(f, R)
  BY <1>2, <1>3, InstantsFinite, TotalDrop
<1> QED
  BY <1>1, <1>4, Zenon

-----------------------------------------------------------------------------
(* Arithmetic of refills.                                                  *)

\* How many whole intervals are in a time.
LEMMA DivProperties ==
    ASSUME NEW a \in Nat, NEW d \in Nat, d > 0
    PROVE  a \div d \in Nat /\ (a \div d) * d <= a /\ a < (a \div d) * d + d
OBVIOUS

\* Rounded up, the intervals bring at least what is missing, and some if any is.
LEMMA CeilDivProperties ==
    ASSUME NEW a \in Nat, NEW d \in Nat, d > 0
    PROVE  CeilDiv(a, d) \in Nat /\ CeilDiv(a, d) * d >= a /\ (a > 0 => CeilDiv(a, d) >= 1)
<1> DEFINE q == (a + d - 1) \div d
<1>1. a + d - 1 \in Nat
  OBVIOUS
<1>2. q \in Nat /\ q * d <= a + d - 1 /\ a + d - 1 < q * d + d
  <2> DEFINE e == a + d - 1
  <2>1. e \in Nat
    BY <1>1
  <2> HIDE DEF e
  <2>2. e \div d \in Nat /\ (e \div d) * d <= e /\ e < (e \div d) * d + d
    BY <2>1, DivProperties
  <2> QED
    BY <2>2 DEF e
<1> HIDE DEF q
<1>3. q * d >= a
  BY <1>2
<1>4. ASSUME a > 0 PROVE q >= 1
  <2>1. q = 0 => q * d = 0
    OBVIOUS
  <2> QED
    BY <1>2, <1>3, <1>4, <2>1
<1>5. CeilDiv(a, d) = q
  BY DEF CeilDiv, q
<1> QED
  BY <1>2, <1>3, <1>4, <1>5

\* math.min of two numbers.
LEMMA MinOfTwo ==
    ASSUME NEW a \in Nat, NEW b \in Nat
    PROVE  Min({a, b}) \in Nat /\ Min({a, b}) <= a /\ Min({a, b}) <= b
           /\ (Min({a, b}) = a \/ Min({a, b}) = b)
<1>1. \E x \in {a, b} : \A y \in {a, b} : x <= y
  BY SMT
<1>2. Min({a, b}) \in {a, b} /\ \A y \in {a, b} : Min({a, b}) <= y
  BY <1>1, Zenon DEF Min
<1> QED
  BY <1>2

\* A bucket refilled n times since r: what was granted since a and what it then
\* holds stay within the refills that fit between a and the last of them.
LEMMA RefillBound ==
    ASSUME NEW r \in Nat, NEW a \in Nat, NEW m \in Nat, NEW n \in Nat, NEW i \in Nat, i > 0,
           NEW rate \in Nat, NEW g \in Nat, NEW t \in Nat, NEW max \in Nat, NEW c \in Nat,
           r + n * i <= a + m * i, c <= max, c <= t + n * rate,
           (m >= n /\ r <= a + (m - n) * i) => g + t <= max + rate * (m - n),
           r + i <= a => g = 0
    PROVE  g + c <= max + rate * m
<1>1. CASE m >= n
  <2>1. PICK d \in Nat : m = n + d
    BY <1>1
  <2>2. m * i = n * i + d * i /\ rate * m = n * rate + rate * d
    BY <2>1
  <2>3. d * i \in Nat /\ n * i \in Nat /\ rate * d \in Nat /\ n * rate \in Nat
    BY <2>1
  <2>4. r <= a + d * i
    BY <2>2, <2>3
  <2>5. g + t <= max + rate * d
    BY <1>1, <2>1, <2>4
  <2> QED
    BY <2>2, <2>3, <2>5
<1>2. CASE m < n
  <2>1. PICK d \in Nat : n = m + 1 + d
    BY <1>2
  <2>2. n * i = m * i + i + d * i
    BY <2>1
  <2>3. d * i \in Nat /\ m * i \in Nat /\ rate * m \in Nat
    BY <2>1
  <2>4. g = 0
    BY <2>2, <2>3
  <2> QED
    BY <2>3, <2>4
<1> QED
  BY <1>1, <1>2

\* A bucket that expired at e or later, when q refills since r had made it full:
\* what was granted since a is within the refills that fit between a and now.
LEMMA ExpiryBound ==
    ASSUME NEW r \in Nat, NEW a \in Nat, NEW m \in Nat, NEW q \in Nat, NEW i \in Nat, i > 0,
           NEW rate \in Nat, NEW g \in Nat, NEW t \in Nat, NEW max \in Nat, NEW n \in Nat,
           r + q * i <= n, n <= a + m * i, q * rate >= max - t,
           (m >= q /\ r <= a + (m - q) * i) => g + t <= max + rate * (m - q),
           r + i <= a => g = 0
    PROVE  g <= rate * m
<1>1. CASE m >= q
  <2>1. PICK d \in Nat : m = q + d
    BY <1>1
  <2>2. m * i = q * i + d * i /\ rate * m = q * rate + rate * d
    BY <2>1
  <2>3. d * i \in Nat /\ q * i \in Nat /\ rate * d \in Nat /\ q * rate \in Nat
    BY <2>1
  <2>4. r <= a + d * i
    BY <2>2, <2>3
  <2>5. g + t <= max + rate * d
    BY <1>1, <2>1, <2>4
  <2> QED
    BY <2>2, <2>3, <2>5
<1>2. CASE m < q
  <2>1. PICK d \in Nat : q = m + 1 + d
    BY <1>2
  <2>2. q * i = m * i + i + d * i
    BY <2>1
  <2>3. d * i \in Nat /\ m * i \in Nat /\ rate * m \in Nat
    BY <2>1
  <2>4. g = 0
    BY <2>2, <2>3
  <2> QED
    BY <2>3, <2>4
<1> QED
  BY <1>1, <1>2

\* A bucket that is empty after n refills was empty and has had none.
LEMMA EmptyNotRefilled ==
    ASSUME NEW t \in Nat, NEW n \in Nat, NEW rate \in Nat, rate > 0, NEW i \in Nat, NEW r \in Nat,
           t + n * rate = 0
    PROVE  t = 0 /\ r + n * i = r
<1>1. n * rate \in Nat
  OBVIOUS
<1>2. t = 0 /\ n * rate = 0
  BY <1>1
<1>3. n = 0
  BY <1>2
<1>4. n * i = 0
  BY <1>3
<1> QED
  BY <1>2, <1>4

-----------------------------------------------------------------------------
(* What the script finds, writes and answers.                              *)

\* The types of one key.
LEMMA KeyTypes ==
    ASSUME TypeOK, NEW k \in Keys
    PROVE  /\ now \in Nat /\ now <= MaxNow /\ now \in Instants
           /\ hash[k] = [refilledAt |-> hash[k].refilledAt, tokens |-> hash[k].tokens,
                         expiresAt |-> hash[k].expiresAt]
           /\ hash[k].refilledAt \in Nat /\ hash[k].expiresAt \in Nat
           /\ hash[k].tokens \in Nat /\ hash[k].tokens <= MaxTokens
           /\ answer[k].remaining \in Int /\ answer[k].reset \in Nat
           /\ grants[k] \in [Instants -> 0..MaxTokens] /\ grants[k] \in [Instants -> Nat]
           /\ MaxTokens \in Nat /\ MaxTokens > 0 /\ Interval \in Nat /\ Interval > 0
           /\ RefillRate \in Nat /\ RefillRate > 0 /\ MaxNow \in Nat
<1>1. /\ MaxTokens \in Nat /\ MaxTokens > 0 /\ Interval \in Nat /\ Interval > 0
      /\ RefillRate \in Nat /\ RefillRate > 0 /\ MaxNow \in Nat
  BY TokenBucketAssumption
<1>2. now \in Nat /\ now <= MaxNow /\ now \in Instants
  BY <1>1 DEF TypeOK, Instants
<1>3. hash[k] \in [refilledAt : Nat, tokens : 0..MaxTokens, expiresAt : Nat]
  BY DEF TypeOK
<1>4. answer[k] \in [remaining : -1..MaxTokens-1, reset : Nat]
  BY DEF TypeOK
<1>5. grants[k] \in [Instants -> 0..MaxTokens]
  BY DEF TypeOK, Instants
<1>6. grants[k] \in [Instants -> Nat]
  BY <1>1, <1>5
<1> QED
  BY <1>1, <1>2, <1>3, <1>4, <1>5, <1>6

\* The bucket the script works on: full and fresh if the key has expired, and
\* otherwise refilled once for every interval passed, up to a full bucket.
LEMMA CurrentCases ==
    ASSUME TypeOK, BucketInv, NEW k \in Keys
    PROVE  /\ Current(k).tokens \in Nat /\ Current(k).tokens <= MaxTokens
           /\ Current(k).refilledAt \in Nat /\ Current(k).refilledAt <= now
           /\ \/ Expired(k) /\ Current(k).tokens = MaxTokens /\ Current(k).refilledAt = now
              \/ /\ ~Expired(k) /\ answer[k].reset # 0
                 /\ \E n \in Nat :
                      /\ n * Interval <= now - hash[k].refilledAt
                      /\ now - hash[k].refilledAt < n * Interval + Interval
                      /\ Current(k).refilledAt = hash[k].refilledAt + n * Interval
                      /\ \/ Current(k).tokens = MaxTokens /\ MaxTokens <= hash[k].tokens + n * RefillRate
                         \/ Current(k).tokens = hash[k].tokens + n * RefillRate
<1>1. /\ now \in Nat /\ hash[k].refilledAt \in Nat /\ hash[k].expiresAt \in Nat
      /\ hash[k].tokens \in Nat /\ hash[k].tokens <= MaxTokens
      /\ MaxTokens \in Nat /\ Interval \in Nat /\ Interval > 0 /\ RefillRate \in Nat
  BY KeyTypes
<1>2. hash[k].refilledAt <= now
  BY DEF BucketInv
<1>3. CASE Expired(k)
  <2> DEFINE b == [refilledAt |-> now, tokens |-> MaxTokens]
  <2>1. Current(k) = Refilled(b)
    BY <1>3 DEF Current
  <2>2. Refilled(b) = b
    BY <1>1 DEF Refilled
  <2> QED
    BY <1>1, <1>3, <2>1, <2>2
<1>4. CASE ~Expired(k)
  <2> DEFINE r == hash[k].refilledAt
             t == hash[k].tokens
             b == [refilledAt |-> r, tokens |-> t]
             n == (now - r) \div Interval
  <2>1. Current(k) = Refilled(b) /\ b.refilledAt = r /\ b.tokens = t
    BY <1>4 DEF Current
  <2>2. answer[k].reset # 0
    <3>1. hash[k].expiresAt # 0
      BY <1>1, <1>4 DEF Expired
    <3> QED
      BY <3>1 DEF BucketInv
  <2>3. n \in Nat /\ n * Interval <= now - r /\ now - r < n * Interval + Interval
    <3> DEFINE e == now - r
    <3>1. e \in Nat
      BY <1>1, <1>2
    <3> HIDE DEF e
    <3>2. e \div Interval \in Nat /\ (e \div Interval) * Interval <= e
          /\ e < (e \div Interval) * Interval + Interval
      BY <1>1, <3>1, DivProperties
    <3> QED
      BY <3>2 DEF e
  <2>4. n * RefillRate \in Nat /\ n * Interval \in Nat
    BY <1>1, <2>3
  <2>5. CASE now >= r + Interval
    <3> DEFINE c == Min({MaxTokens, t + n * RefillRate})
    <3>1. Current(k) = [refilledAt |-> r + n * Interval, tokens |-> c]
      BY <2>1, <2>5 DEF Refilled
    <3>2. /\ c \in Nat /\ c <= MaxTokens /\ c <= t + n * RefillRate
          /\ (c = MaxTokens \/ c = t + n * RefillRate)
      <4> DEFINE d == t + n * RefillRate
      <4>1. d \in Nat
        BY <1>1, <2>4
      <4> HIDE DEF d
      <4>2. /\ Min({MaxTokens, d}) \in Nat /\ Min({MaxTokens, d}) <= MaxTokens
            /\ Min({MaxTokens, d}) <= d
            /\ (Min({MaxTokens, d}) = MaxTokens \/ Min({MaxTokens, d}) = d)
        BY <1>1, <4>1, MinOfTwo
      <4> QED
        BY <4>2 DEF d
    <3> HIDE DEF c
    <3>3. Current(k).refilledAt = r + n * Interval /\ Current(k).tokens = c
      BY <3>1
    <3> HIDE DEF n
    <3>4. r + n * Interval \in Nat /\ r + n * Interval <= now
      BY <1>1, <2>3, <2>4
    <3> QED
      BY <1>4, <2>2, <2>3, <3>2, <3>3, <3>4
  <2>6. CASE ~(now >= r + Interval)
    <3>1. Current(k).refilledAt = r /\ Current(k).tokens = t
      BY <2>1, <2>6 DEF Refilled
    <3>2. 0 * Interval = 0 /\ 0 * RefillRate = 0
      BY <1>1
    <3>3. /\ 0 * Interval <= now - r /\ now - r < 0 * Interval + Interval
          /\ r = r + 0 * Interval /\ t = t + 0 * RefillRate
      BY <1>1, <1>2, <2>6, <3>2
    <3> QED
      BY <1>1, <1>2, <1>4, <2>2, <3>1, <3>3
  <2> QED
    BY <2>5, <2>6
<1> QED
  BY <1>3, <1>4

\* The script did not name k.
Untouched(k) ==
    hash'[k] = hash[k] /\ answer'[k] = answer[k] /\ grants'[k] = grants[k]

\* The script answered k with a rate limit, and wrote nothing.
Limited(k) ==
    /\ hash'[k] = hash[k] /\ grants'[k] = grants[k]
    /\ answer'[k] = [remaining |-> -1, reset |-> hash[k].refilledAt + Interval]
    /\ hash[k].tokens = 0 /\ answer[k].reset # 0

\* The script took a token from k.
TokenTaken(k) ==
    /\ Current(k).tokens > 0
    /\ hash'[k] = [refilledAt |-> Current(k).refilledAt, tokens |-> Current(k).tokens - 1,
                   expiresAt |-> now + ExpireAfter(Current(k).tokens - 1)]
    /\ answer'[k] = [remaining |-> Current(k).tokens - 1, reset |-> Current(k).refilledAt + Interval]
    /\ grants'[k] = [grants[k] EXCEPT ![now] = @ + 1]

\* One run of the script does one of these to every key.
LEMMA KeyCases ==
    ASSUME TypeOK, BucketInv, NEW K \in SUBSET Keys, TokenBucketMany(K), NEW k \in Keys
    PROVE  Untouched(k) \/ Limited(k) \/ TokenTaken(k)
<1>1. /\ hash'[k] = IF k \in K THEN Taken(k) ELSE hash[k]
      /\ answer'[k] = IF k \in K THEN Result(k) ELSE answer[k]
      /\ grants'[k] = IF k \in K /\ Granted(k) THEN [grants[k] EXCEPT ![now] = @ + 1] ELSE grants[k]
  BY DEF TokenBucketMany
<1>2. CASE k \notin K
  BY <1>1, <1>2 DEF Untouched
<1> DEFINE c == Current(k)
<1>3. Result(k) = [remaining |-> c.tokens - 1, reset |-> c.refilledAt + Interval]
  BY DEF Result
<1>4. c.tokens \in Nat /\ c.refilledAt \in Nat
  BY CurrentCases
<1>5. CASE k \in K /\ c.tokens = 0
  <2>1. Taken(k) = hash[k]
    BY <1>5 DEF Taken
  <2>2. Result(k).remaining = -1 /\ ~Granted(k)
    BY <1>3, <1>5 DEF Granted
  <2>3. hash[k].tokens = 0 /\ answer[k].reset # 0 /\ c.refilledAt = hash[k].refilledAt
    <3>1. /\ MaxTokens \in Nat /\ MaxTokens > 0 /\ Interval \in Nat /\ hash[k].tokens \in Nat
          /\ hash[k].refilledAt \in Nat /\ RefillRate \in Nat /\ RefillRate > 0
      BY KeyTypes
    <3>2. c.tokens # MaxTokens
      BY <1>5, <3>1
    <3>3. answer[k].reset # 0 /\ \E n \in Nat :
            /\ c.refilledAt = hash[k].refilledAt + n * Interval
            /\ c.tokens = hash[k].tokens + n * RefillRate
      BY <3>2, CurrentCases
    <3>4. PICK n \in Nat : /\ c.refilledAt = hash[k].refilledAt + n * Interval
                           /\ c.tokens = hash[k].tokens + n * RefillRate
      BY <3>3
    <3> HIDE DEF c
    <3> DEFINE r == hash[k].refilledAt
               t == hash[k].tokens
    <3>5. t + n * RefillRate = 0 /\ t \in Nat /\ r \in Nat
      BY <1>5, <3>1, <3>4
    <3> HIDE DEF r, t
    <3>6. t = 0 /\ r + n * Interval = r
      BY <3>1, <3>5, EmptyNotRefilled
    <3> QED
      BY <3>3, <3>4, <3>6 DEF r, t
  <2> QED
    BY <1>1, <1>3, <1>5, <2>1, <2>2, <2>3 DEF Limited
<1>6. CASE k \in K /\ c.tokens # 0
  <2>1. c.tokens > 0
    BY <1>4, <1>6
  <2>2. Granted(k)
    <3>1. Result(k).remaining = c.tokens - 1
      BY <1>3
    <3> HIDE DEF c
    <3> QED
      BY <1>4, <2>1, <3>1 DEF Granted
  <2>3. Taken(k) = [refilledAt |-> c.refilledAt, tokens |-> c.tokens - 1,
                    expiresAt |-> now + ExpireAfter(c.tokens - 1)]
    BY <1>6 DEF Taken
  <2> QED
    BY <1>1, <1>3, <1>6, <2>1, <2>2, <2>3 DEF TokenTaken
<1> QED
  BY <1>2, <1>5, <1>6

\* What is left in a bucket, and for how long it is kept.
LEMMA TakenFacts ==
    ASSUME TypeOK, BucketInv, NEW k \in Keys, TokenTaken(k)
    PROVE  /\ hash'[k].refilledAt = Current(k).refilledAt /\ hash'[k].refilledAt \in Nat
           /\ hash'[k].refilledAt <= now
           /\ hash'[k].tokens = Current(k).tokens - 1 /\ hash'[k].tokens \in Nat
           /\ hash'[k].tokens < MaxTokens
           /\ ExpireAfter(hash'[k].tokens) \in Nat
           /\ hash'[k].expiresAt = now + ExpireAfter(hash'[k].tokens)
           /\ answer'[k].remaining = hash'[k].tokens
           /\ answer'[k].reset = hash'[k].refilledAt + Interval
<1> DEFINE c == Current(k)
<1>1. /\ c.tokens \in Nat /\ c.tokens <= MaxTokens /\ c.tokens > 0
      /\ c.refilledAt \in Nat /\ c.refilledAt <= now
  BY CurrentCases DEF TokenTaken
<1>2. /\ MaxTokens \in Nat /\ Interval \in Nat /\ RefillRate \in Nat /\ RefillRate > 0 /\ now \in Nat
  BY KeyTypes
<1>3. /\ hash'[k].refilledAt = c.refilledAt /\ hash'[k].tokens = c.tokens - 1
      /\ hash'[k].expiresAt = now + ExpireAfter(c.tokens - 1)
      /\ answer'[k].remaining = c.tokens - 1 /\ answer'[k].reset = c.refilledAt + Interval
  BY DEF TokenTaken
<1> HIDE DEF c
<1>4. c.tokens - 1 \in Nat /\ c.tokens - 1 < MaxTokens /\ MaxTokens - (c.tokens - 1) \in Nat
  BY <1>1, <1>2
<1>5. ExpireAfter(c.tokens - 1) \in Nat
  <2> DEFINE d == MaxTokens - (c.tokens - 1)
  <2>1. d \in Nat
    BY <1>4
  <2> HIDE DEF d
  <2>2. CeilDiv(d, RefillRate) \in Nat
    BY <1>2, <2>1, CeilDivProperties
  <2>3. CeilDiv(d, RefillRate) * Interval \in Nat
    BY <1>2, <2>2
  <2> QED
    BY <2>3 DEF ExpireAfter, d
<1> QED
  BY <1>1, <1>3, <1>4, <1>5 DEF c

\* A grant is one more in every window up to now, and none in earlier windows.
LEMMA TakenTotals ==
    ASSUME TypeOK, NEW k \in Keys, grants'[k] = [grants[k] EXCEPT ![now] = @ + 1]
    PROVE  /\ grants'[k] \in [Instants -> Nat]
           /\ \A i \in Instants : i # now => grants'[k][i] = grants[k][i]
           /\ grants'[k][now] = grants[k][now] + 1
           /\ \A a \in 0..now : Total(grants'[k], a..now) = Total(grants[k], a..now) + 1
           /\ \A a \in Nat : \A b \in Nat :
                b < now => Total(grants'[k], a..b) = Total(grants[k], a..b)
<1>1. grants[k] \in [Instants -> Nat] /\ now \in Instants /\ now \in Nat /\ now <= MaxNow
      /\ MaxNow \in Nat
  BY KeyTypes
<1> DEFINE f == grants[k]
           g == grants'[k]
<1>2. f \in [Instants -> Nat]
  BY <1>1
<1>3. /\ g \in [Instants -> Nat] /\ g[now] = f[now] + 1
      /\ \A i \in Instants : i # now => g[i] = f[i]
  <2>1. f[now] + 1 \in Nat
    BY <1>1
  <2> HIDE DEF f
  <2>2. g = [f EXCEPT ![now] = @ + 1]
    BY DEF f
  <2> HIDE DEF g
  <2> QED
    BY <1>1, <1>2, <2>1, <2>2
<1> HIDE DEF f, g
<1>4. ASSUME NEW a \in 0..now PROVE Total(g, a..now) = Total(f, a..now) + 1
  <2>1. PICK S \in SUBSET Instants, x \in Instants : S = a..now /\ x = now
    <3>1. a..now \in SUBSET Instants /\ now \in a..now
      BY <1>1 DEF Instants
    <3> QED
      BY <1>1, <3>1
  <2>2. x \in S /\ g[x] = f[x] + 1 /\ \A i \in Instants : i # x => g[i] = f[i]
    BY <1>1, <1>3, <2>1
  <2>3. Total(g, S) = Total(f, S) + 1
    BY <1>2, <1>3, <2>2, InstantsFinite, TotalPlusOne
  <2> QED
    BY <2>1, <2>3
<1>5. ASSUME NEW a \in Nat, NEW b \in Nat, b < now PROVE Total(g, a..b) = Total(f, a..b)
  <2>1. PICK S \in SUBSET Instants : S = a..b
    <3>1. a..b \in SUBSET Instants
      BY <1>1, <1>5 DEF Instants
    <3> QED
      BY <3>1
  <2>2. \A i \in S : f[i] = g[i]
    <3>1. \A i \in S : i # now
      BY <1>1, <1>5, <2>1
    <3> QED
      BY <1>3, <3>1
  <2>3. Total(f, S) = Total(g, S)
    BY <1>2, <1>3, <2>2, InstantsFinite, TotalEqual
  <2> QED
    BY <2>1, <2>3
<1> QED
  BY <1>3, <1>4, <1>5 DEF f, g

\* The sum of a window is a number, and is zero if it begins after the bucket's
\* next refill or if nothing was granted.
LEMMA WindowTotals ==
    ASSUME TypeOK, BucketInv, NEW k \in Keys, NEW a \in 0..now
    PROVE  /\ Total(grants[k], a..now) \in Nat
           /\ hash[k].refilledAt + Interval <= a => Total(grants[k], a..now) = 0
           /\ answer[k].reset = 0 => Total(grants[k], a..now) = 0
<1>1. /\ grants[k] \in [Instants -> Nat] /\ now \in Nat /\ now <= MaxNow /\ MaxNow \in Nat
      /\ hash[k].refilledAt \in Nat /\ Interval \in Nat
  BY KeyTypes
<1>2. PICK S \in SUBSET Instants : S = a..now
  <2>1. a..now \in SUBSET Instants
    BY <1>1 DEF Instants
  <2> QED
    BY <2>1
<1>3. Total(grants[k], S) \in Nat
  BY <1>1, InstantsFinite, TotalRecursion
<1>4. (\A i \in S : grants[k][i] = 0) => Total(grants[k], S) = 0
  BY <1>1, InstantsFinite, TotalZero
<1>5. ASSUME hash[k].refilledAt + Interval <= a PROVE \A i \in S : grants[k][i] = 0
  <2>1. ASSUME NEW i \in S PROVE ~(i < hash[k].refilledAt + Interval)
    BY <1>1, <1>2, <1>5
  <2> QED
    BY <2>1 DEF BucketInv, Instants
<1>6. ASSUME answer[k].reset = 0 PROVE \A i \in S : grants[k][i] = 0
  BY <1>6 DEF BucketInv, Instants
<1> QED
  BY <1>2, <1>3, <1>4, <1>5, <1>6

\* A token taken keeps what was granted and what is left within the refills.
LEMMA TakenSpent ==
    ASSUME TypeOK, BucketInv, SpentInv, NEW k \in Keys, TokenTaken(k),
           NEW a \in 0..now, NEW m \in 0..MaxNow+1,
           hash'[k].refilledAt <= a + m * Interval
    PROVE  Total(grants'[k], a..now) + hash'[k].tokens <= MaxTokens + RefillRate * m
<1> DEFINE g == Total(grants[k], a..now)
           r == hash[k].refilledAt
           t == hash[k].tokens
           c == Current(k).tokens
<1>1. /\ r \in Nat /\ t \in Nat /\ t <= MaxTokens /\ now \in Nat /\ now <= MaxNow /\ MaxNow \in Nat
      /\ MaxTokens \in Nat /\ Interval \in Nat /\ Interval > 0 /\ RefillRate \in Nat /\ RefillRate > 0
      /\ hash[k].expiresAt \in Nat
  BY KeyTypes
<1>2. a \in Nat /\ m \in Nat
  BY <1>1
<1>3. /\ g \in Nat /\ (r + Interval <= a => g = 0) /\ (answer[k].reset = 0 => g = 0)
  BY WindowTotals
<1>4. ASSUME NEW j \in 0..MaxNow+1, r <= a + j * Interval
      PROVE  g + t <= MaxTokens + RefillRate * j
  <2>1. GrantedFrom(k, a, now) + hash[k].tokens <= MaxTokens + RefillRate * j
    BY <1>4 DEF SpentInv
  <2>2. GrantedFrom(k, a, now) = g
    BY Zenon DEF GrantedFrom, Total
  <2> QED
    BY <2>1, <2>2
<1>5. /\ Total(grants'[k], a..now) = g + 1 /\ hash'[k].tokens = c - 1
      /\ c \in Nat /\ c <= MaxTokens /\ Current(k).refilledAt <= a + m * Interval
  <2>1. grants'[k] = [grants[k] EXCEPT ![now] = @ + 1]
    BY DEF TokenTaken
  <2>2. Total(grants'[k], a..now) = g + 1
    BY <2>1, TakenTotals
  <2>3. hash'[k].tokens = c - 1 /\ hash'[k].refilledAt = Current(k).refilledAt
    BY TakenFacts
  <2>4. c \in Nat /\ c <= MaxTokens
    BY CurrentCases
  <2> QED
    BY <2>2, <2>3, <2>4
<1>6. CASE Expired(k) /\ c = MaxTokens /\ Current(k).refilledAt = now
  <2>1. g <= RefillRate * m
    <3>1. CASE answer[k].reset = 0
      <4>1. RefillRate * m \in Nat
        BY <1>1, <1>2
      <4> QED
        BY <1>3, <3>1, <4>1
    <3>2. CASE answer[k].reset # 0
      <4> DEFINE d == MaxTokens - t
                 q == CeilDiv(d, RefillRate)
      <4>1. d \in Nat
        BY <1>1
      <4>2. q \in Nat /\ q * RefillRate >= MaxTokens - t
        <5> HIDE DEF d
        <5>1. CeilDiv(d, RefillRate) \in Nat /\ CeilDiv(d, RefillRate) * RefillRate >= d
          BY <1>1, <4>1, CeilDivProperties
        <5> QED
          BY <5>1 DEF d
      <4>3. hash[k].expiresAt >= r + q * Interval
        BY <3>2 DEF BucketInv, ExpireAfter
      <4>4. hash[k].expiresAt <= now
        BY <1>1, <1>6 DEF Expired
      <4> HIDE DEF q
      <4>5. q * Interval \in Nat
        BY <1>1, <4>2
      <4>6. r + q * Interval <= now /\ now <= a + m * Interval
        BY <1>1, <1>5, <1>6, <4>3, <4>4, <4>5
      <4>7. ASSUME m >= q, r <= a + (m - q) * Interval
            PROVE  g + t <= MaxTokens + RefillRate * (m - q)
        <5>1. m - q \in 0..MaxNow+1
          BY <1>1, <1>2, <4>2, <4>7
        <5> QED
          BY <1>4, <4>7, <5>1
      <4> HIDE DEF g, r, t, d
      <4> QED
        BY <1>1, <1>2, <1>3, <4>2, <4>6, <4>7, ExpiryBound
    <3> QED
      BY <3>1, <3>2
  <2>2. RefillRate * m \in Nat
    BY <1>1, <1>2
  <2> HIDE DEF g, c
  <2> QED
    BY <1>1, <1>3, <1>5, <1>6, <2>1, <2>2
<1>7. ASSUME NEW n \in Nat,
             Current(k).refilledAt = r + n * Interval, c <= t + n * RefillRate
      PROVE  g + c <= MaxTokens + RefillRate * m
  <2>1. r + n * Interval <= a + m * Interval
    BY <1>5, <1>7
  <2>2. ASSUME m >= n, r <= a + (m - n) * Interval
        PROVE  g + t <= MaxTokens + RefillRate * (m - n)
    <3>1. m - n \in 0..MaxNow+1
      BY <1>1, <1>2, <2>2
    <3> QED
      BY <1>4, <2>2, <3>1
  <2>3. c \in Nat /\ c <= MaxTokens
    BY <1>5
  <2> HIDE DEF g, r, t, c
  <2> QED
    BY <1>1, <1>2, <1>3, <1>7, <2>1, <2>2, <2>3, RefillBound
<1>8. CASE \E n \in Nat :
             /\ Current(k).refilledAt = r + n * Interval
             /\ \/ c = MaxTokens /\ MaxTokens <= t + n * RefillRate
                \/ c = t + n * RefillRate
  <2>1. PICK n \in Nat :
             /\ Current(k).refilledAt = r + n * Interval
             /\ \/ c = MaxTokens /\ MaxTokens <= t + n * RefillRate
                \/ c = t + n * RefillRate
    BY <1>8
  <2> HIDE DEF r, t, c, g
  <2>2. n * RefillRate \in Nat
    BY <1>1
  <2>3. c <= t + n * RefillRate
    BY <1>1, <1>5, <2>1, <2>2
  <2>4. g + c <= MaxTokens + RefillRate * m
    BY <1>7, <2>1, <2>3
  <2>5. RefillRate * m \in Nat
    BY <1>1, <1>2
  <2> QED
    BY <1>1, <1>3, <1>5, <2>4, <2>5
<1> QED
  BY <1>6, <1>8, CurrentCases

-----------------------------------------------------------------------------
(* The inductive invariant.                                                *)

\* The script leaves BucketInv true.
LEMMA ManyBucket ==
    ASSUME TypeOK, BucketInv, NEW K \in SUBSET Keys, TokenBucketMany(K)
    PROVE  BucketInv'
<1>1. now' = now
  BY DEF TokenBucketMany
<1> SUFFICES ASSUME NEW k \in Keys
             PROVE
        /\ hash'[k].refilledAt <= now
        /\ answer'[k].reset = 0 =>
              hash'[k].expiresAt = 0 /\ \A i \in 0..MaxNow : grants'[k][i] = 0
        /\ answer'[k].reset # 0 =>
              /\ answer'[k].reset = hash'[k].refilledAt + Interval
              /\ hash'[k].tokens = Left(k)' /\ hash'[k].tokens < MaxTokens
              /\ hash'[k].expiresAt >= hash'[k].refilledAt + ExpireAfter(hash'[k].tokens)
        /\ \A i \in 0..MaxNow : grants'[k][i] # 0 => i <= now /\ i < hash'[k].refilledAt + Interval
  BY <1>1 DEF BucketInv, ExpireAfter, CeilDiv
<1>2. /\ now \in Nat /\ MaxTokens \in Nat /\ MaxTokens > 0 /\ Interval \in Nat /\ Interval > 0
      /\ hash[k].refilledAt \in Nat /\ answer[k].reset \in Nat
  BY KeyTypes
<1>3. /\ hash[k].refilledAt <= now
      /\ answer[k].reset = 0 =>
            hash[k].expiresAt = 0 /\ \A i \in 0..MaxNow : grants[k][i] = 0
      /\ answer[k].reset # 0 =>
            /\ answer[k].reset = hash[k].refilledAt + Interval
            /\ hash[k].tokens = Left(k) /\ hash[k].tokens < MaxTokens
            /\ hash[k].expiresAt >= hash[k].refilledAt + ExpireAfter(hash[k].tokens)
      /\ \A i \in 0..MaxNow : grants[k][i] # 0 => i <= now /\ i < hash[k].refilledAt + Interval
  BY DEF BucketInv
<1>4. CASE Untouched(k)
  BY <1>3, <1>4 DEF Untouched, Left
<1>5. CASE Limited(k)
  <2>1. answer'[k].remaining = -1 /\ answer'[k].reset = hash[k].refilledAt + Interval
    BY <1>5 DEF Limited
  <2>2. answer'[k].reset # 0 /\ Left(k)' = 0
    BY <1>2, <2>1 DEF Left
  <2> QED
    BY <1>3, <1>5, <2>1, <2>2 DEF Limited
<1>6. CASE TokenTaken(k)
  <2> DEFINE h == hash'[k]
             x == ExpireAfter(h.tokens)
  <2>1. /\ h.refilledAt = Current(k).refilledAt /\ h.refilledAt \in Nat /\ h.refilledAt <= now
        /\ h.tokens \in Nat /\ h.tokens < MaxTokens
        /\ x \in Nat /\ h.expiresAt = now + x
        /\ answer'[k].remaining = h.tokens /\ answer'[k].reset = h.refilledAt + Interval
    BY <1>6, TakenFacts
  <2> HIDE DEF x
  <2>2. answer'[k].reset # 0 /\ Left(k)' = h.tokens
    <3>1. ~(answer'[k].remaining < 0)
      BY <2>1
    <3> QED
      BY <1>2, <2>1, <3>1 DEF Left
  <2>3. h.expiresAt >= h.refilledAt + x
    BY <1>2, <2>1
  <2>4. ASSUME NEW i \in 0..MaxNow, grants'[k][i] # 0
        PROVE  i <= now /\ i < h.refilledAt + Interval
    <3>1. /\ \A j \in Instants : j # now => grants'[k][j] = grants[k][j]
      BY <1>6, TakenTotals DEF TokenTaken
    <3>2. now < h.refilledAt + Interval /\ h.refilledAt >= hash[k].refilledAt
      <4>1. CASE Current(k).refilledAt = now
        BY <1>2, <1>3, <2>1, <4>1
      <4>2. CASE \E n \in Nat :
              /\ now - hash[k].refilledAt < n * Interval + Interval
              /\ Current(k).refilledAt = hash[k].refilledAt + n * Interval
        <5>1. PICK n \in Nat :
              /\ now - hash[k].refilledAt < n * Interval + Interval
              /\ Current(k).refilledAt = hash[k].refilledAt + n * Interval
          BY <4>2
        <5>2. n * Interval \in Nat
          BY <1>2
        <5> HIDE DEF h
        <5> QED
          BY <1>2, <2>1, <5>1, <5>2
      <4> QED
        BY <4>1, <4>2, CurrentCases
    <3>3. CASE i = now
      BY <1>2, <3>2, <3>3
    <3>4. CASE i # now
      <4>1. grants[k][i] # 0
        BY <2>4, <3>1, <3>4 DEF Instants
      <4>2. i <= now /\ i < hash[k].refilledAt + Interval
        BY <1>3, <4>1
      <4>3. i \in Int
        OBVIOUS
      <4> HIDE DEF h
      <4> QED
        BY <1>2, <2>1, <3>2, <4>2, <4>3
    <3> QED
      BY <3>3, <3>4
  <2> QED
    BY <2>1, <2>2, <2>3, <2>4 DEF x
<1> QED
  BY <1>4, <1>5, <1>6, KeyCases

\* The script leaves SpentInv true.
LEMMA ManySpent ==
    ASSUME TypeOK, BucketInv, SpentInv, NEW K \in SUBSET Keys, TokenBucketMany(K)
    PROVE  SpentInv'
<1>1. now' = now
  BY DEF TokenBucketMany
<1> SUFFICES ASSUME NEW k \in Keys, NEW a \in 0..now, NEW m \in 0..MaxNow+1,
                    hash'[k].refilledAt <= a + m * Interval
             PROVE  Total(grants'[k], a..now) + hash'[k].tokens <= MaxTokens + RefillRate * m
  <2>1. \A k, a : GrantedFrom(k, a, now)' = Total(grants'[k], a..now')
    BY Zenon DEF GrantedFrom, Total, MapThenSumSet, MapThenFoldSet
  <2> QED
    BY <1>1, <2>1 DEF SpentInv
<1>2. CASE hash'[k] = hash[k] /\ grants'[k] = grants[k]
  <2>1. GrantedFrom(k, a, now) + hash[k].tokens <= MaxTokens + RefillRate * m
    BY <1>2 DEF SpentInv
  <2>2. GrantedFrom(k, a, now) = Total(grants[k], a..now)
    BY Zenon DEF GrantedFrom, Total
  <2> QED
    BY <1>2, <2>1, <2>2
<1>3. CASE TokenTaken(k)
  BY <1>3, TakenSpent
<1> QED
  BY <1>2, <1>3, KeyCases DEF Untouched, Limited

\* The script leaves TypeOK true; as many grants at one instant as a full bucket
\* allows follow from SpentInv.
LEMMA ManyTypes ==
    ASSUME TypeOK, BucketInv, SpentInv, NEW K \in SUBSET Keys, TokenBucketMany(K)
    PROVE  TypeOK'
<1>1. ASSUME NEW k \in Keys
      PROVE  /\ hash'[k] \in [refilledAt : Nat, tokens : 0..MaxTokens, expiresAt : Nat]
             /\ answer'[k] \in [remaining : -1..MaxTokens-1, reset : Nat]
             /\ grants'[k] \in [0..MaxNow -> 0..MaxTokens]
  <2>1. /\ now \in Nat /\ now \in Instants /\ MaxTokens \in Nat /\ MaxTokens > 0
        /\ Interval \in Nat /\ Interval > 0 /\ RefillRate \in Nat /\ MaxNow \in Nat
        /\ hash[k].refilledAt \in Nat /\ grants[k] \in [Instants -> 0..MaxTokens]
        /\ grants[k] \in [Instants -> Nat]
    BY KeyTypes
  <2>2. /\ hash[k] \in [refilledAt : Nat, tokens : 0..MaxTokens, expiresAt : Nat]
        /\ answer[k] \in [remaining : -1..MaxTokens-1, reset : Nat]
        /\ grants[k] \in [0..MaxNow -> 0..MaxTokens]
    BY DEF TypeOK
  <2>3. CASE Untouched(k)
    BY <2>2, <2>3 DEF Untouched
  <2>4. CASE Limited(k)
    <3>1. -1 \in -1..MaxTokens-1 /\ hash[k].refilledAt + Interval \in Nat
      BY <2>1
    <3> QED
      BY <2>2, <2>4, <3>1 DEF Limited
  <2>5. CASE TokenTaken(k)
    <3> DEFINE c == Current(k)
    <3>1. /\ hash'[k].refilledAt = c.refilledAt /\ hash'[k].refilledAt \in Nat
          /\ hash'[k].refilledAt <= now
          /\ hash'[k].tokens = c.tokens - 1 /\ hash'[k].tokens \in Nat /\ hash'[k].tokens < MaxTokens
          /\ ExpireAfter(hash'[k].tokens) \in Nat
      BY <2>5, TakenFacts
    <3>2. /\ c.refilledAt \in Nat /\ c.tokens - 1 \in 0..MaxTokens /\ c.tokens - 1 \in -1..MaxTokens-1
          /\ c.refilledAt + Interval \in Nat /\ now + ExpireAfter(c.tokens - 1) \in Nat
      <4>1. ExpireAfter(c.tokens - 1) \in Nat
        BY <3>1
      <4>2. c.refilledAt \in Nat /\ c.tokens - 1 \in Nat /\ c.tokens - 1 < MaxTokens
        BY <3>1
      <4> DEFINE d == c.tokens - 1
                 r == c.refilledAt
                 x == ExpireAfter(d)
      <4> HIDE DEF d, r, x
      <4>3. r \in Nat /\ d \in Nat /\ d < MaxTokens /\ x \in Nat
        BY <4>1, <4>2 DEF d, r, x
      <4>4. d \in 0..MaxTokens /\ d \in -1..MaxTokens-1 /\ r + Interval \in Nat /\ now + x \in Nat
        BY <2>1, <4>3
      <4> QED
        BY <4>3, <4>4 DEF d, r, x
    <3>3. /\ hash'[k] \in [refilledAt : Nat, tokens : 0..MaxTokens, expiresAt : Nat]
          /\ answer'[k] \in [remaining : -1..MaxTokens-1, reset : Nat]
      BY <2>5, <3>2 DEF TokenTaken
    <3>4. /\ grants'[k] \in [Instants -> Nat]
          /\ \A i \in Instants : i # now => grants'[k][i] = grants[k][i]
      BY <2>5, TakenTotals DEF TokenTaken
    <3>5. grants'[k][now] <= MaxTokens
      <4>1. 0 \in 0..MaxNow+1 /\ now \in 0..now
        BY <2>1
      <4>2. 0 * Interval = 0 /\ RefillRate * 0 = 0
        BY <2>1
      <4>3. hash'[k].refilledAt <= now + 0 * Interval
        BY <2>1, <3>1, <4>2
      <4>4. Total(grants'[k], now..now) + hash'[k].tokens <= MaxTokens + RefillRate * 0
        BY <2>5, <4>1, <4>3, TakenSpent
      <4>5. now..now = {now}
        BY <2>1
      <4>6. Total(grants'[k], {now}) = grants'[k][now]
        BY <2>1, <3>4, InstantsFinite, TotalOne
      <4>7. Total(grants'[k], now..now) = grants'[k][now]
        BY <4>5, <4>6, Zenon
      <4>8. grants'[k][now] \in Nat
        BY <2>1, <3>4
      <4> QED
        BY <2>1, <3>1, <4>2, <4>4, <4>7, <4>8
    <3>6. ASSUME NEW i \in Instants PROVE grants'[k][i] \in 0..MaxTokens
      <4>1. CASE i = now
        <5>1. grants'[k][i] \in Nat /\ grants'[k][i] <= MaxTokens
          BY <3>4, <3>5, <4>1
        <5> QED
          BY <2>1, <5>1
      <4>2. CASE i # now
        BY <2>1, <3>4, <4>2
      <4> QED
        BY <4>1, <4>2
    <3>7. grants'[k] \in [Instants -> 0..MaxTokens]
      BY <3>4, <3>6
    <3> QED
      BY <3>3, <3>7 DEF Instants
  <2> QED
    BY <2>3, <2>4, <2>5, KeyCases
<1>2. now' = now
  BY DEF TokenBucketMany
<1>3. /\ hash' = [k \in Keys |-> hash'[k]] /\ answer' = [k \in Keys |-> answer'[k]]
      /\ grants' = [k \in Keys |-> grants'[k]]
  BY DEF TokenBucketMany
<1>4. hash' \in [Keys -> [refilledAt : Nat, tokens : 0..MaxTokens, expiresAt : Nat]]
  BY <1>1, <1>3
<1>5. answer' \in [Keys -> [remaining : -1..MaxTokens-1, reset : Nat]]
  BY <1>1, <1>3
<1>6. grants' \in [Keys -> [0..MaxNow -> 0..MaxTokens]]
  BY <1>1, <1>3
<1> QED
  BY <1>2, <1>4, <1>5, <1>6 DEF TypeOK

\* A window of q whole intervals begun holds at most one refill more.
LEMMA WindowBound ==
    ASSUME NEW a \in Nat, NEW b \in Nat, a <= b, NEW i \in Nat, i > 0
    PROVE  /\ (b - a) \div i + 1 \in Nat /\ (b - a) \div i <= b
           /\ b <= a + ((b - a) \div i + 1) * i
<1> DEFINE d == b - a
           q == d \div i
<1>1. d \in Nat
  OBVIOUS
<1>2. q \in Nat /\ q * i <= d /\ d < q * i + i
  <2> HIDE DEF d
  <2> QED
    BY <1>1, DivProperties
<1> HIDE DEF q
<1>3. (q + 1) * i = q * i + i /\ q * i >= q /\ q * i \in Nat
  BY <1>2
<1>4. q + 1 \in Nat /\ q <= b /\ b <= a + (q + 1) * i
  BY <1>2, <1>3
<1> QED
  BY <1>4 DEF q

\* The rate limit holds in the windows up to now if what is left is within the
\* refills.
LEMMA SpentWithinRate ==
    ASSUME TypeOK, BucketInv, SpentInv, NEW k \in Keys, NEW a \in 0..now
    PROVE  Total(grants[k], a..now) <= MaxTokens + RefillRate * ((now - a) \div Interval + 1)
<1>1. /\ now \in Nat /\ now <= MaxNow /\ MaxNow \in Nat /\ hash[k].refilledAt \in Nat
      /\ hash[k].tokens \in Nat /\ MaxTokens \in Nat /\ RefillRate \in Nat
      /\ Interval \in Nat /\ Interval > 0
  BY KeyTypes
<1>2. a \in Nat /\ a <= now
  BY <1>1
<1> DEFINE m == (now - a) \div Interval + 1
           g == Total(grants[k], a..now)
<1>3. m \in Nat /\ (now - a) \div Interval <= now /\ now <= a + m * Interval
  BY <1>1, <1>2, WindowBound
<1>4. m \in 0..MaxNow+1
  BY <1>1, <1>3
<1> HIDE DEF m
<1>5. hash[k].refilledAt <= a + m * Interval
  <2>1. hash[k].refilledAt <= now
    BY DEF BucketInv
  <2>2. m * Interval \in Nat
    BY <1>1, <1>3
  <2> QED
    BY <1>1, <1>2, <1>3, <2>1, <2>2
<1>6. GrantedFrom(k, a, now) + hash[k].tokens <= MaxTokens + RefillRate * m
  BY <1>4, <1>5 DEF SpentInv
<1>7. GrantedFrom(k, a, now) = g
  BY Zenon DEF GrantedFrom, Total
<1>8. g \in Nat
  BY WindowTotals
<1>9. RefillRate * m \in Nat
  BY <1>1, <1>3
<1> HIDE DEF g
<1>10. g <= MaxTokens + RefillRate * m
  BY <1>1, <1>6, <1>7, <1>8, <1>9
<1> QED
  BY <1>10 DEF g, m

\* The rate limit in the windows up to now.
RateUpToNow ==
    \A k \in Keys : \A a \in 0..now :
        GrantedFrom(k, a, now) <= MaxTokens + RefillRate * ((now - a) \div Interval + 1)

\* What is left bounds what was granted in every window up to now.
LEMMA SpentBoundsRate == TypeOK /\ BucketInv /\ SpentInv => RateUpToNow
<1>1. ASSUME TypeOK, BucketInv, SpentInv, NEW k \in Keys, NEW a \in 0..now
      PROVE  GrantedFrom(k, a, now) <= MaxTokens + RefillRate * ((now - a) \div Interval + 1)
  <2>1. GrantedFrom(k, a, now) = Total(grants[k], a..now)
    BY Zenon DEF GrantedFrom, Total
  <2> QED
    BY <1>1, <2>1, SpentWithinRate
<1> QED
  BY <1>1 DEF RateUpToNow

\* The script leaves WithinRate true: it adds to windows up to now only.
LEMMA ManyRate ==
    ASSUME TypeOK, BucketInv, WithinRate, TypeOK', BucketInv', SpentInv',
           NEW K \in SUBSET Keys, TokenBucketMany(K)
    PROVE  WithinRate'
<1>1. now' = now
  BY DEF TokenBucketMany
<1> SUFFICES ASSUME NEW k \in Keys, NEW a \in 0..now, NEW b \in 0..now, a <= b
             PROVE  Total(grants'[k], a..b) <= MaxTokens + RefillRate * ((b - a) \div Interval + 1)
  <2>1. \A k, a, b : GrantedFrom(k, a, b)' = Total(grants'[k], a..b)
    BY Zenon DEF GrantedFrom, Total, MapThenSumSet, MapThenFoldSet
  <2> QED
    BY <1>1, <2>1 DEF WithinRate
<1>2. now \in Nat /\ a \in Nat /\ b \in Nat
  <2>1. now \in Nat
    BY KeyTypes
  <2> QED
    BY <2>1
<1>3. CASE b = now
  <2>1. RateUpToNow'
    BY SpentBoundsRate, PTL
  <2>2. GrantedFrom(k, a, now)' <= MaxTokens + RefillRate * ((now - a) \div Interval + 1)
    BY <1>1, <2>1 DEF RateUpToNow
  <2>3. GrantedFrom(k, a, now)' = Total(grants'[k], a..now')
    BY Zenon DEF GrantedFrom, Total, MapThenSumSet, MapThenFoldSet
  <2> QED
    BY <1>1, <1>3, <2>2, <2>3
<1>4. CASE b < now
  <2>1. GrantedFrom(k, a, b) <= MaxTokens + RefillRate * ((b - a) \div Interval + 1)
    BY DEF WithinRate
  <2>2. GrantedFrom(k, a, b) = Total(grants[k], a..b)
    BY Zenon DEF GrantedFrom, Total
  <2>3. Total(grants'[k], a..b) = Total(grants[k], a..b)
    <3>1. CASE grants'[k] = grants[k]
      BY <3>1
    <3>2. CASE TokenTaken(k)
      BY <1>2, <1>4, <3>2, TakenTotals DEF TokenTaken
    <3> QED
      BY <3>1, <3>2, KeyCases DEF Untouched, Limited
  <2> QED
    BY <2>1, <2>2, <2>3
<1> QED
  BY <1>2, <1>3, <1>4

\* Time passing leaves types and buckets as they are.
LEMMA TickBucket ==
    ASSUME TypeOK, BucketInv, Tick
    PROVE  TypeOK' /\ BucketInv'
<1>1. MaxNow \in Nat /\ now \in Nat /\ now < MaxNow /\ now' = now + 1
      /\ hash' = hash /\ answer' = answer /\ grants' = grants
  BY TokenBucketAssumption DEF Tick, TypeOK
<1>2. TypeOK'
  BY <1>1 DEF TypeOK
<1>3. BucketInv'
  <2> SUFFICES ASSUME NEW k \in Keys
               PROVE  /\ hash[k].refilledAt <= now + 1
                      /\ \A i \in 0..MaxNow : grants[k][i] # 0 => i <= now + 1
    BY <1>1 DEF BucketInv, Left, ExpireAfter, CeilDiv
  <2>1. hash[k].refilledAt \in Nat
    BY KeyTypes
  <2>2. hash[k].refilledAt <= now
    BY DEF BucketInv
  <2>3. ASSUME NEW i \in 0..MaxNow, grants[k][i] # 0 PROVE i <= now + 1
    <3>1. i <= now
      BY <2>3 DEF BucketInv
    <3> QED
      BY <1>1, <3>1
  <2> QED
    BY <1>1, <2>1, <2>2, <2>3
<1> QED
  BY <1>2, <1>3

\* Time passing grants nothing.
LEMMA TickTotals ==
    ASSUME TypeOK, BucketInv, Tick, NEW k \in Keys, NEW a \in 0..(now+1)
    PROVE  /\ Total(grants[k], a..(now+1)) = Total(grants[k], a..now)
           /\ a = now + 1 => Total(grants[k], a..now) = 0
<1>1. /\ grants[k] \in [Instants -> Nat] /\ now \in Nat /\ MaxNow \in Nat /\ now < MaxNow
  BY KeyTypes DEF Tick
<1>2. a \in Nat /\ a <= now + 1 /\ now + 1 <= MaxNow /\ now + 1 \in 0..MaxNow
  BY <1>1
<1>3. grants[k][now + 1] = 0
  <2>1. ~(now + 1 <= now)
    BY <1>1
  <2> QED
    BY <1>2, <2>1 DEF BucketInv
<1>4. Total(grants[k], a..(now+1)) = Total(grants[k], a..now)
  BY <1>1, <1>2, <1>3, TotalExtend
<1>5. ASSUME a = now + 1 PROVE Total(grants[k], a..now) = 0
  <2>1. PICK S \in SUBSET Instants : S = a..now /\ S = {}
    <3>1. a..now = {}
      BY <1>1, <1>5
    <3> QED
      BY <3>1
  <2>2. Total(grants[k], S) = 0
    BY <1>1, <2>1, InstantsFinite, TotalRecursion
  <2> QED
    BY <2>1, <2>2
<1> QED
  BY <1>4, <1>5

\* Time passing leaves SpentInv true.
LEMMA TickSpent ==
    ASSUME TypeOK, BucketInv, SpentInv, Tick
    PROVE  SpentInv'
<1>1. MaxNow \in Nat /\ now \in Nat /\ now < MaxNow /\ now' = now + 1
      /\ hash' = hash /\ answer' = answer /\ grants' = grants
  BY TokenBucketAssumption DEF Tick, TypeOK
<1> SUFFICES ASSUME NEW k \in Keys, NEW a \in 0..(now+1), NEW m \in 0..MaxNow+1,
                    hash[k].refilledAt <= a + m * Interval
             PROVE  Total(grants[k], a..(now+1)) + hash[k].tokens <= MaxTokens + RefillRate * m
  <2>1. \A k, a : GrantedFrom(k, a, now)' = Total(grants'[k], a..now')
    BY Zenon DEF GrantedFrom, Total, MapThenSumSet, MapThenFoldSet
  <2> QED
    BY <1>1, <2>1 DEF SpentInv
<1>2. /\ Total(grants[k], a..(now+1)) = Total(grants[k], a..now)
      /\ a = now + 1 => Total(grants[k], a..now) = 0
  BY TickTotals
<1>3. CASE a = now + 1
  <2>1. /\ hash[k].tokens \in Nat /\ hash[k].tokens <= MaxTokens /\ MaxTokens \in Nat /\ RefillRate \in Nat
    BY KeyTypes
  <2>2. RefillRate * m \in Nat
    BY <1>1, <2>1
  <2> QED
    BY <1>2, <1>3, <2>1, <2>2
<1>4. CASE a # now + 1
  <2>1. a \in 0..now
    BY <1>1, <1>4
  <2>2. GrantedFrom(k, a, now) + hash[k].tokens <= MaxTokens + RefillRate * m
    BY <2>1 DEF SpentInv
  <2>3. GrantedFrom(k, a, now) = Total(grants[k], a..now)
    BY Zenon DEF GrantedFrom, Total
  <2> QED
    BY <1>2, <2>2, <2>3
<1> QED
  BY <1>3, <1>4

\* Time passing leaves WithinRate true.
LEMMA TickRate ==
    ASSUME TypeOK, BucketInv, WithinRate, Tick, TypeOK', BucketInv', SpentInv'
    PROVE  WithinRate'
<1>1. now \in Nat /\ now' = now + 1 /\ grants' = grants
  BY TokenBucketAssumption DEF Tick, TypeOK
<1>2. \A k, a, b : GrantedFrom(k, a, b)' = GrantedFrom(k, a, b)
  BY <1>1, Zenon DEF GrantedFrom, MapThenSumSet, MapThenFoldSet
<1> SUFFICES ASSUME NEW k \in Keys, NEW a \in 0..(now+1), NEW b \in 0..(now+1), a <= b
             PROVE  GrantedFrom(k, a, b)' <= MaxTokens + RefillRate * ((b - a) \div Interval + 1)
  BY <1>1 DEF WithinRate
<1>3. CASE b = now + 1
  <2>1. RateUpToNow'
    BY SpentBoundsRate, PTL
  <2>2. GrantedFrom(k, a, now)' <= MaxTokens + RefillRate * ((now' - a) \div Interval + 1)
    BY <1>1, <2>1 DEF RateUpToNow
  <2>3. GrantedFrom(k, a, now)' = Total(grants'[k], a..now')
    BY Zenon DEF GrantedFrom, Total, MapThenSumSet, MapThenFoldSet
  <2>4. GrantedFrom(k, a, b)' = Total(grants'[k], a..b)
    BY Zenon DEF GrantedFrom, Total, MapThenSumSet, MapThenFoldSet
  <2>5. b = now'
    BY <1>1, <1>3
  <2> QED
    BY <2>2, <2>3, <2>4, <2>5
<1>4. CASE b # now + 1
  <2>1. a \in 0..now /\ b \in 0..now
    BY <1>1, <1>4
  <2> QED
    BY <1>2, <2>1 DEF WithinRate
<1> QED
  BY <1>3, <1>4

\* RateLimitInv holds initially.
LEMMA RateLimitInit == Init => RateLimitInv
<1> SUFFICES ASSUME Init PROVE RateLimitInv
  OBVIOUS
<1>1. /\ MaxTokens \in Nat /\ MaxTokens > 0 /\ Interval \in Nat /\ Interval > 0
      /\ RefillRate \in Nat /\ RefillRate > 0 /\ MaxNow \in Nat
  BY TokenBucketAssumption
<1>2. TypeOK
  <2>1. 0 \in 0..MaxNow /\ 0 \in 0..MaxTokens /\ MaxTokens - 1 \in -1..MaxTokens-1
    BY <1>1
  <2> QED
    BY <2>1 DEF Init, TypeOK
<1>3. BucketInv
  BY <1>1 DEF Init, BucketInv
<1>4. SpentInv
  <2> SUFFICES ASSUME NEW k \in Keys, NEW a \in 0..now, NEW m \in 0..MaxNow+1
               PROVE  GrantedFrom(k, a, now) + hash[k].tokens <= MaxTokens + RefillRate * m
    BY DEF SpentInv
  <2>1. answer[k].reset = 0 /\ hash[k].tokens = 0
    BY DEF Init
  <2>2. Total(grants[k], a..now) = 0
    BY <1>2, <1>3, <2>1, WindowTotals
  <2>3. GrantedFrom(k, a, now) = Total(grants[k], a..now)
    BY Zenon DEF GrantedFrom, Total
  <2>4. RefillRate * m \in Nat
    BY <1>1
  <2> QED
    BY <1>1, <2>1, <2>2, <2>3, <2>4
<1>5. WithinRate
  <2> SUFFICES ASSUME NEW k \in Keys, NEW a \in 0..now, NEW b \in 0..now
               PROVE  GrantedFrom(k, a, b) <= MaxTokens + RefillRate * ((b - a) \div Interval + 1)
    BY DEF WithinRate
  <2>1. now = 0 /\ a \in 0..now /\ b = now
    BY DEF Init
  <2>2. RateUpToNow
    BY <1>2, <1>3, <1>4, SpentBoundsRate
  <2> QED
    BY <2>1, <2>2 DEF RateUpToNow
<1> QED
  BY <1>2, <1>3, <1>4, <1>5 DEF RateLimitInv

\* RateLimitInv is inductive.
LEMMA RateLimitStep == RateLimitInv /\ Step => RateLimitInv'
<1> SUFFICES ASSUME RateLimitInv, Step PROVE RateLimitInv'
  OBVIOUS
<1>1. TypeOK /\ BucketInv /\ SpentInv /\ WithinRate
  BY DEF RateLimitInv
<1>2. CASE Tick
  <2>1. TypeOK' /\ BucketInv'
    BY <1>1, <1>2, TickBucket
  <2>2. SpentInv'
    BY <1>1, <1>2, TickSpent
  <2>3. WithinRate'
    BY <1>1, <1>2, <2>1, <2>2, TickRate
  <2> QED
    BY <2>1, <2>2, <2>3 DEF RateLimitInv
<1>3. ASSUME NEW K \in SUBSET Keys, TokenBucketMany(K) PROVE RateLimitInv'
  <2>1. TypeOK' /\ BucketInv' /\ SpentInv'
    BY <1>1, <1>3, ManyTypes, ManyBucket, ManySpent
  <2>2. WithinRate'
    BY <1>1, <1>3, <2>1, ManyRate
  <2> QED
    BY <2>1, <2>2 DEF RateLimitInv
<1>4. CASE UNCHANGED vars
  <2>1. now' = now /\ hash' = hash /\ answer' = answer /\ grants' = grants
    BY <1>4 DEF vars
  <2>2. TypeOK' /\ BucketInv'
    BY <1>1, <2>1 DEF TypeOK, BucketInv, Left, ExpireAfter, CeilDiv
  <2>3. \A k, a, b : GrantedFrom(k, a, b)' = GrantedFrom(k, a, b)
    BY <2>1, Zenon DEF GrantedFrom, MapThenSumSet, MapThenFoldSet
  <2>4. \A k, a : GrantedFrom(k, a, now)' = GrantedFrom(k, a, now)
    BY <2>1, Zenon DEF GrantedFrom, MapThenSumSet, MapThenFoldSet
  <2>5. SpentInv' /\ WithinRate'
    BY <1>1, <2>1, <2>3, <2>4 DEF SpentInv, WithinRate
  <2> QED
    BY <2>2, <2>5 DEF RateLimitInv
<1> QED
  BY <1>2, <1>3, <1>4 DEF Step, Next

\* The answer tells what is in the bucket now.
LEMMA AnswerExact == TypeOK /\ BucketInv => ResetIsExact
<1> SUFFICES ASSUME TypeOK, BucketInv, NEW k \in Keys, answer[k].reset # 0
             PROVE  IF now < answer[k].reset THEN Current(k).tokens = Left(k)
                                             ELSE Current(k).tokens >= Left(k) + 1
  BY DEF ResetIsExact
<1> DEFINE r == hash[k].refilledAt
           t == hash[k].tokens
           c == Current(k).tokens
           d == MaxTokens - t
           q == CeilDiv(d, RefillRate)
<1>1. /\ now \in Nat /\ r \in Nat /\ t \in Nat /\ hash[k].expiresAt \in Nat
      /\ MaxTokens \in Nat /\ Interval \in Nat /\ Interval > 0 /\ RefillRate \in Nat /\ RefillRate > 0
  BY KeyTypes
<1>2. /\ answer[k].reset = r + Interval /\ t = Left(k) /\ t < MaxTokens /\ r <= now
      /\ hash[k].expiresAt >= r + q * Interval
  BY DEF BucketInv, ExpireAfter
<1>3. q \in Nat /\ q >= 1
  <2>1. d \in Nat /\ d > 0
    BY <1>1, <1>2
  <2> HIDE DEF d
  <2> QED
    BY <1>1, <2>1, CeilDivProperties
<1> HIDE DEF q
<1>4. q * Interval >= Interval /\ q * Interval \in Nat
  BY <1>1, <1>3
<1>5. CASE Expired(k) /\ c = MaxTokens
  <2>1. hash[k].expiresAt <= now
    BY <1>1, <1>5 DEF Expired
  <2>2. ~(now < answer[k].reset)
    BY <1>1, <1>2, <1>4, <2>1
  <2>3. c >= Left(k) + 1
    BY <1>1, <1>2, <1>5
  <2> QED
    BY <2>2, <2>3
<1>6. ASSUME NEW n \in Nat, c \in Nat, c <= MaxTokens,
             n * Interval <= now - r, now - r < n * Interval + Interval,
             \/ c = MaxTokens /\ MaxTokens <= t + n * RefillRate
             \/ c = t + n * RefillRate
      PROVE  IF now < answer[k].reset THEN c = Left(k) ELSE c >= Left(k) + 1
  <2> HIDE DEF r, t, c
  <2>1. CASE n = 0
    <3>1. n * Interval = 0 /\ n * RefillRate = 0
      BY <1>1, <2>1
    <3>2. now < answer[k].reset
      BY <1>1, <1>2, <1>6, <3>1
    <3>3. c = t
      BY <1>1, <1>2, <1>6, <3>1
    <3> QED
      BY <1>2, <3>2, <3>3
  <2>2. CASE n # 0
    <3>1. n * Interval >= Interval /\ n * RefillRate >= 1 /\ n * Interval \in Nat /\ n * RefillRate \in Nat
      <4>1. n >= 1
        BY <2>2
      <4> QED
        BY <1>1, <4>1
    <3>2. ~(now < answer[k].reset)
      BY <1>1, <1>2, <1>6, <3>1
    <3>3. c >= t + 1
      BY <1>1, <1>2, <1>6, <3>1
    <3> QED
      BY <1>2, <3>2, <3>3
  <2> QED
    BY <2>1, <2>2
<1> QED
  BY <1>5, <1>6, CurrentCases

-----------------------------------------------------------------------------
(* The theorems.                                                           *)

\* RateLimitInv holds in every state of the token buckets.
THEOREM RateLimitInvariance == Spec => []RateLimitInv
<1>1. RateLimitInv /\ [Next]_vars => RateLimitInv'
  BY RateLimitStep DEF Step
<1> QED
  BY <1>1, RateLimitInit, PTL DEF Spec

\* Every variable keeps its type: at no instant does token_bucket_many grant more
\* requests for a key than a full bucket holds.
THEOREM RateLimitTypes == Spec => []TypeOK
<1>1. RateLimitInv => TypeOK
  BY DEF RateLimitInv
<1> QED
  BY <1>1, RateLimitInvariance, PTL

\* The rate limit of token_bucket.lua: in any window at most a full bucket and one
\* refill per interval begun are granted, whatever the constants and however often
\* the key expires and comes back full in between.
THEOREM RateLimited == Spec => []WithinRate
<1>1. RateLimitInv => WithinRate
  BY DEF RateLimitInv
<1> QED
  BY <1>1, RateLimitInvariance, PTL

\* The pair (remaining, reset) of token_bucket_many stays true until the next
\* request for the key, through refills and the expiry of the key.
THEOREM AnswersExact == Spec => []ResetIsExact
<1>1. RateLimitInv => ResetIsExact
  BY AnswerExact DEF RateLimitInv
<1> QED
  BY <1>1, RateLimitInvariance, PTL
=============================================================================
