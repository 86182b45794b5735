---------------------------- MODULE FiniteOrders ----------------------------
(***************************************************************************)
(* What the proofs of the planners, the search and the evaluation need to  *)
(* know of finite sets: they have extreme elements in any strict order,    *)
(* recursion over them has a solution, sorting them puts every element in  *)
(* one place, sums over them compare term by term, and what holds of each  *)
(* number if of the one before holds of all.  And whole division.          *)
(***************************************************************************)
EXTENDS FiniteSetsExt, FiniteSetTheorems, TLAPS

(* A set of numbers has a least element: the numbers up to n that are not  *)
(* below all of T would else be closed under predecessor, and so be too    *)
(* many for themselves without n.                                          *)
LEMMA LeastElement ==
  ASSUME NEW T \in SUBSET Nat, T # {}
  PROVE  \E x \in T : \A y \in T : x <= y
<1> SUFFICES ASSUME \A x \in T : \E y \in T : y < x PROVE FALSE
  OBVIOUS
<1>1. PICK n \in T : TRUE
  OBVIOUS
<1> DEFINE D == {k \in 0..n : \E x \in T : x <= k}
           f == [k \in D |-> k - 1]
<1>2. n \in Nat /\ n \in D /\ D \in SUBSET (0..n)
  BY <1>1
<1>3. ASSUME NEW k \in D PROVE k - 1 \in D \ {n}
  <2>1. PICK x \in T : x <= k
    BY <1>3
  <2>2. PICK y \in T : y < x
    BY <2>1
  <2>3. x \in Nat /\ y \in Nat /\ k \in 0..n
    BY <1>2, <1>3
  <2>4. y <= k - 1 /\ k - 1 \in 0..n /\ k - 1 # n
    BY <2>1, <2>2, <2>3, <1>2
  <2> QED BY <2>4
<1>4. f \in [D -> D \ {n}]
  BY <1>3
<1>5. \A j, k \in D : j # k => f[j] # f[k]
  BY <1>2
<1>6. IsFiniteSet(D)
  <2> HIDE DEF D
  <2>1. IsFiniteSet(0..n)
    BY <1>2, FS_Interval
  <2> QED BY <2>1, <1>2, FS_Subset
<1>7. IsFiniteSet(D \ {n}) /\ Cardinality(D \ {n}) < Cardinality(D)
  <2> HIDE DEF D, f
  <2>1. Cardinality(D) \in Nat
    BY <1>6, FS_CardinalityType
  <2>2. IsFiniteSet(D \ {n}) /\ Cardinality(D \ {n}) = Cardinality(D) - 1
    BY <1>2, <1>6, FS_RemoveElement
  <2> QED BY <2>1, <2>2
<1> HIDE DEF D, f
<1> QED BY <1>4, <1>5, <1>6, <1>7, FS_PigeonHole

(* In a finite set something is below nothing: take what has the fewest    *)
(* above it; what is above it has fewer.                                   *)
LEMMA MaximalElement ==
  ASSUME NEW S, IsFiniteSet(S), S # {}, NEW R,
         \A x \in S : <<x, x>> \notin R,
         \A x, y, z \in S : <<x, y>> \in R /\ <<y, z>> \in R => <<x, z>> \in R
  PROVE  \E m \in S : \A x \in S : <<m, x>> \notin R
<1> DEFINE Over(x) == {y \in S : <<x, y>> \in R}
           N == {Cardinality(Over(x)) : x \in S}
<1>1. \A x \in S : IsFiniteSet(Over(x)) /\ Cardinality(Over(x)) \in Nat
  <2> SUFFICES ASSUME NEW x \in S
               PROVE  IsFiniteSet(Over(x)) /\ Cardinality(Over(x)) \in Nat
    OBVIOUS
  <2>1. Over(x) \in SUBSET S
    OBVIOUS
  <2> HIDE DEF Over
  <2>2. IsFiniteSet(Over(x))
    BY <2>1, FS_Subset
  <2> QED BY <2>2, FS_CardinalityType
<1>2. PICK m \in S : \A x \in S : Cardinality(Over(m)) <= Cardinality(Over(x))
  <2> HIDE DEF Over
  <2>1. N \in SUBSET Nat /\ N # {}
    BY <1>1
  <2>2. PICK n \in N : \A k \in N : n <= k
    <3> HIDE DEF N
    <3> QED BY <2>1, LeastElement
  <2> QED BY <2>2
<1>3. ASSUME NEW y \in S, <<m, y>> \in R PROVE FALSE
  <2>1. y \in Over(m) /\ Over(y) \in SUBSET (Over(m) \ {y})
    BY <1>3
  <2> HIDE DEF Over
  <2>2. /\ IsFiniteSet(Over(m) \ {y})
        /\ Cardinality(Over(m) \ {y}) = Cardinality(Over(m)) - 1
    BY <1>1, <2>1, FS_RemoveElement
  <2>3. Cardinality(Over(y)) <= Cardinality(Over(m) \ {y})
    BY <2>1, <2>2, FS_Subset
  <2>4. Cardinality(Over(m)) <= Cardinality(Over(y))
    BY <1>2, <1>3
  <2>5. Cardinality(Over(m)) \in Nat /\ Cardinality(Over(y)) \in Nat
    BY <1>1, <1>3
  <2> QED BY <2>2, <2>3, <2>4, <2>5
<1> QED BY <1>3

(* ... and, if it has an upper bound, a greatest one. *)
LEMMA GreatestElement ==
  ASSUME NEW T \in SUBSET Nat, T # {}, NEW n \in Nat, \A x \in T : x <= n
  PROVE  Max(T) \in T /\ \A y \in T : y <= Max(T)
<1> DEFINE U == {k \in Nat : \A x \in T : x <= k}
<1>1. U # {}
  OBVIOUS
<1>2. PICK m \in U : \A k \in U : m <= k
  BY <1>1, LeastElement
<1>3. m \in T
  <2> SUFFICES ASSUME m \notin T PROVE FALSE
    OBVIOUS
  <2>1. PICK x \in T : TRUE
    OBVIOUS
  <2>2. x \in Nat /\ x <= m /\ x # m
    BY <1>2, <2>1
  <2>3. m - 1 \in Nat
    BY <1>2, <2>2
  <2>4. \A y \in T : y <= m - 1
    BY <1>2
  <2>5. m - 1 \in U
    BY <2>3, <2>4
  <2> QED BY <1>2, <2>5
<1>4. \E x \in T : \A y \in T : x >= y
  BY <1>2, <1>3
<1> QED BY <1>4 DEF Max

(* ... and Min is the least. *)
LEMMA LeastIsMin ==
  ASSUME NEW T \in SUBSET Nat, T # {}
  PROVE  Min(T) \in T /\ \A y \in T : Min(T) <= y
BY LeastElement DEF Min

(* A finite set of integers has a greatest and a least element. *)
LEMMA ExtremesOf ==
  ASSUME NEW T \in SUBSET Int, IsFiniteSet(T), T # {}
  PROVE  /\ Max(T) \in T /\ \A y \in T : y <= Max(T)
         /\ Min(T) \in T /\ \A y \in T : Min(T) <= y
<1> DEFINE Up == {p \in T \X T : p[1] < p[2]}
           Down == {p \in T \X T : p[2] < p[1]}
<1>1. \A x, y \in T : (<<x, y>> \in Up <=> x < y) /\ (<<x, y>> \in Down <=> y < x)
  OBVIOUS
<1> HIDE DEF Up, Down
<1>2. \E m \in T : \A x \in T : x <= m
  <2>1. /\ \A x \in T : <<x, x>> \notin Up
        /\ \A x, y, z \in T : <<x, y>> \in Up /\ <<y, z>> \in Up => <<x, z>> \in Up
    BY <1>1
  <2>2. PICK m \in T : \A x \in T : <<m, x>> \notin Up
    BY <2>1, MaximalElement
  <2>3. \A x \in T : ~ (m < x)
    BY <1>1, <2>2
  <2>4. \A x \in T : x \in Int /\ m \in Int
    OBVIOUS
  <2> QED BY <2>3, <2>4
<1>3. \E m \in T : \A x \in T : m <= x
  <2>1. /\ \A x \in T : <<x, x>> \notin Down
        /\ \A x, y, z \in T : <<x, y>> \in Down /\ <<y, z>> \in Down => <<x, z>> \in Down
    BY <1>1
  <2>2. PICK m \in T : \A x \in T : <<m, x>> \notin Down
    BY <2>1, MaximalElement
  <2>3. \A x \in T : ~ (x < m)
    BY <1>1, <2>2
  <2>4. \A x \in T : x \in Int /\ m \in Int
    OBVIOUS
  <2> QED BY <2>3, <2>4
<1>4. \E m \in T : \A x \in T : m >= x
  BY <1>2
<1>5. Max(T) \in T /\ \A y \in T : Max(T) >= y
  BY <1>4 DEF Max
<1>6. Min(T) \in T /\ \A y \in T : Min(T) <= y
  BY <1>3 DEF Min
<1> QED BY <1>5, <1>6

LEMMA MaxUpto ==
  ASSUME NEW n \in Nat, n # 0
  PROVE  Max(1..n) = n
<1>1. 1..n \in SUBSET Nat /\ 1..n # {} /\ \A x \in 1..n : x <= n
  OBVIOUS
<1>2. Max(1..n) \in 1..n /\ \A y \in 1..n : y <= Max(1..n)
  BY <1>1, GreatestElement
<1> QED BY <1>2

(* The indices up to i, and those before. *)
LEMMA IndicesUpto ==
  ASSUME NEW n \in Nat, NEW i \in 1..n
  PROVE  /\ 1..i \in SUBSET (1..n) /\ 1..i # {} /\ Max(1..i) = i
         /\ (1..i) \ {i} = 1..(i - 1) /\ i - 1 \in 0..n /\ i \in 0..n
<1>1. Max(1..i) = i
  BY MaxUpto
<1>2. i \in Nat /\ 1 <= i /\ i <= n
  OBVIOUS
<1>3. (1..i) \ {i} = 1..(i - 1)
  BY <1>2
<1> QED BY <1>1, <1>2, <1>3

(* What holds of 0, and of a number if of the one before, holds up to n. *)
LEMMA StepByStep ==
  ASSUME NEW n \in Nat, NEW Good, 0 \in Good,
         \A i \in 1..n : i - 1 \in Good => i \in Good
  PROVE  \A i \in 0..n : i \in Good
<1> DEFINE Odd == {i \in 0..n : i \notin Good}
<1> SUFFICES ASSUME Odd # {} PROVE FALSE
  OBVIOUS
<1>1. Odd \in SUBSET Nat
  OBVIOUS
<1>2. PICK k \in Odd : \A j \in Odd : k <= j
  <2> HIDE DEF Odd
  <2> QED BY <1>1, LeastElement
<1>3. k \in 1..n /\ k \notin Good
  BY <1>2
<1>4. k - 1 \in 0..n /\ k - 1 \notin Odd
  BY <1>2, <1>3
<1> QED BY <1>3, <1>4

-----------------------------------------------------------------------------
(* g gives every part of S its value: that of the rest without the element  *)
(* c chooses, and one step more.                                            *)
Recurses(g, S, c, b, st) ==
  \A s \in SUBSET S : g[s] = IF s = {} THEN b ELSE st[c[s], g[s \ {c[s]}]]

(* Recursion over the subsets of a finite set has a solution: one that is   *)
(* right for the sets of up to k elements gives one for k + 1.              *)
LEMMA SetRecursion ==
  ASSUME NEW S, IsFiniteSet(S), NEW c, \A s \in SUBSET S : s # {} => c[s] \in s,
         NEW V, NEW b \in V, NEW st \in [S \X V -> V]
  PROVE  \E g \in [SUBSET S -> V] : Recurses(g, S, c, b, st)
<1> DEFINE Next(g, s) == IF s = {} THEN b ELSE st[c[s], g[s \ {c[s]}]]
           Right(g, k) == \A s \in SUBSET S : Cardinality(s) <= k => g[s] = Next(g, s)
           Bad == {k \in Nat : ~ \E g \in [SUBSET S -> V] : Right(g, k)}
<1>1. \A s \in SUBSET S : IsFiniteSet(s) /\ Cardinality(s) \in Nat
  BY FS_Subset, FS_CardinalityType
<1>2. \A g \in [SUBSET S -> V], s \in SUBSET S : Next(g, s) \in V
  OBVIOUS
<1>3. 0 \notin Bad
  <2>1. [s \in SUBSET S |-> b] \in [SUBSET S -> V]
    OBVIOUS
  <2>2. \A s \in SUBSET S : Cardinality(s) <= 0 => s = {}
    BY <1>1, FS_EmptySet
  <2>3. Right([s \in SUBSET S |-> b], 0)
    BY <2>2
  <2> HIDE DEF Right
  <2> QED BY <2>1, <2>3
<1>4. ASSUME NEW k \in Nat, k \notin Bad PROVE k + 1 \notin Bad
  <2>1. PICK g \in [SUBSET S -> V] : Right(g, k)
    BY <1>4
  <2> DEFINE h == [s \in SUBSET S |-> Next(g, s)]
  <2>2. h \in [SUBSET S -> V]
    BY <1>2
  <2>3. ASSUME NEW s \in SUBSET S, Cardinality(s) <= k + 1 PROVE h[s] = Next(h, s)
    <3>1. CASE s = {}
      BY <3>1
    <3>2. CASE s # {}
      <4> DEFINE r == s \ {c[s]}
      <4>1. r \in SUBSET S /\ c[s] \in s
        BY <3>2
      <4>2. Cardinality(r) = Cardinality(s) - 1
        BY <1>1, <4>1, FS_RemoveElement
      <4>3. Cardinality(r) <= k
        BY <1>1, <2>3, <4>2
      <4>4. h[r] = g[r]
        BY <2>1, <4>1, <4>3
      <4> QED BY <3>2, <4>4
    <3> QED BY <3>1, <3>2
  <2>4. Right(h, k + 1)
    BY <2>3
  <2> HIDE DEF Right, h
  <2> QED BY <2>2, <2>4
<1>5. Bad = {}
  <2> SUFFICES ASSUME Bad # {} PROVE FALSE
    OBVIOUS
  <2> HIDE DEF Right
  <2>0. Bad \in SUBSET Nat
    OBVIOUS
  <2>1. PICK k \in Bad : \A j \in Bad : k <= j
    <3> HIDE DEF Bad
    <3> QED BY <2>0, LeastElement
  <2>2. k \in Nat /\ k # 0
    BY <1>3, <2>1
  <2>3. k - 1 \in Nat /\ k - 1 \notin Bad /\ (k - 1) + 1 = k
    <3> HIDE DEF Bad
    <3> QED BY <2>1, <2>2
  <2> HIDE DEF Bad
  <2> QED BY <1>4, <2>1, <2>3
<1>6. Cardinality(S) \in Nat
  BY FS_CardinalityType
<1>7. PICK g \in [SUBSET S -> V] : Right(g, Cardinality(S))
  <2> HIDE DEF Right
  <2> QED BY <1>5, <1>6
<1>8. \A s \in SUBSET S : Cardinality(s) <= Cardinality(S)
  BY FS_Subset
<1> QED BY <1>7, <1>8 DEF Recurses

(* A fold from the left has a value: it takes the greatest index last. *)
LEMMA FoldExists ==
  ASSUME NEW n \in Nat, NEW V, NEW b \in V, NEW st \in [(1..n) \X V -> V]
  PROVE  \E g \in [SUBSET (1..n) -> V] :
           Recurses(g, 1..n, [s \in SUBSET (1..n) |-> Max(s)], b, st)
<1> DEFINE I == 1..n
           c == [s \in SUBSET I |-> Max(s)]
<1>1. IsFiniteSet(I)
  BY FS_Interval
<1>2. ASSUME NEW s \in SUBSET I, s # {} PROVE c[s] \in s
  <2>1. s \in SUBSET Nat /\ \A x \in s : x <= n
    OBVIOUS
  <2> QED BY <1>2, <2>1, GreatestElement
<1>3. st \in [I \X V -> V]
  OBVIOUS
<1> HIDE DEF c, I
<1>4. \E g \in [SUBSET I -> V] : Recurses(g, I, c, b, st)
  BY <1>1, <1>2, <1>3, SetRecursion
<1> QED BY <1>4 DEF c, I

(* The value f a fold is defined to have on the sets of indices, followed   *)
(* index by index.                                                          *)
Steps(f, n, V, b, st) ==
  /\ f[{}] = b
  /\ \A d \in SUBSET (1..n) :
       d # {} /\ f[d \ {Max(d)}] \in V => f[d] = st[Max(d), f[d \ {Max(d)}]]

Trace(h, f, n, V, b, st) ==
  /\ h \in [0..n -> V] /\ h[0] = b /\ h[n] = f[1..n]
  /\ \A i \in 1..n : h[i] = st[i, h[i - 1]]

LEMMA FoldFollows ==
  ASSUME NEW n \in Nat, NEW V, NEW b \in V, NEW st \in [(1..n) \X V -> V],
         NEW f, Steps(f, n, V, b, st)
  PROVE  \E h : Trace(h, f, n, V, b, st)
<1> DEFINE h == [i \in 0..n |-> f[1..i]]
           Good == {i \in 0..n : h[i] \in V}
<1>1. h[0] = b
  <2>1. 1..0 = {} /\ 0 \in 0..n
    OBVIOUS
  <2> QED BY <2>1 DEF Steps
<1>2. ASSUME NEW i \in 1..n, h[i - 1] \in V PROVE h[i] = st[i, h[i - 1]] /\ h[i] \in V
  <2>1. /\ 1..i \in SUBSET (1..n) /\ 1..i # {} /\ Max(1..i) = i
        /\ (1..i) \ {i} = 1..(i - 1) /\ i - 1 \in 0..n /\ i \in 0..n
    BY IndicesUpto
  <2>2. f[1..(i - 1)] \in V
    BY <1>2, <2>1
  <2>3. f[1..i] = st[i, f[1..(i - 1)]]
    BY <2>1, <2>2 DEF Steps
  <2> QED BY <2>1, <2>2, <2>3
<1>3. \A i \in 0..n : i \in Good
  <2>1. 0 \in Good
    BY <1>1
  <2>2. ASSUME NEW i \in 1..n, i - 1 \in Good PROVE i \in Good
    <3>1. h[i - 1] \in V /\ i \in 0..n
      BY <2>2
    <3> HIDE DEF h
    <3>2. h[i] \in V
      BY <1>2, <3>1
    <3> QED BY <3>1, <3>2
  <2> HIDE DEF Good
  <2> QED BY <2>1, <2>2, StepByStep
<1>4. \A i \in 0..n : h[i] \in V
  BY <1>3
<1>5. h \in [0..n -> V]
  BY <1>4
<1>6. \A i \in 1..n : h[i] = st[i, h[i - 1]]
  <2>1. \A i \in 1..n : i - 1 \in 0..n
    OBVIOUS
  <2> HIDE DEF h, Good
  <2> QED BY <1>2, <1>4, <2>1
<1>7. f[1..n] = h[n]
  OBVIOUS
<1> HIDE DEF h
<1> QED BY <1>1, <1>5, <1>6, <1>7 DEF Trace

-----------------------------------------------------------------------------
(* R is a strict order of S that leaves nothing undecided. *)
Decides(R, S) ==
  /\ \A x \in S : <<x, x>> \notin R
  /\ \A x, y, z \in S : <<x, y>> \in R /\ <<y, z>> \in R => <<x, z>> \in R
  /\ \A x, y \in S : x # y => <<x, y>> \in R \/ <<y, x>> \in R

Ahead(R, S, x) == Cardinality({y \in S : <<y, x>> \in R})

(* The places of the elements are the numbers below the size of the set:    *)
(* all differ, so none is left over.                                        *)
LEMMA PlacesAreTaken ==
  ASSUME NEW S, IsFiniteSet(S), NEW R, Decides(R, S)
  PROVE  /\ \A x \in S : Ahead(R, S, x) \in 0..(Cardinality(S) - 1)
         /\ \A x, y \in S : <<x, y>> \in R <=> Ahead(R, S, x) < Ahead(R, S, y)
         /\ \A i \in 1..Cardinality(S) : \E x \in S : Ahead(R, S, x) = i - 1
<1> DEFINE n == Cardinality(S)
           Over(x) == {y \in S : <<y, x>> \in R}
<1>1. n \in Nat
  BY FS_CardinalityType
<1>2. \A x \in S : /\ IsFiniteSet(Over(x)) /\ Ahead(R, S, x) = Cardinality(Over(x))
                   /\ Ahead(R, S, x) \in Nat
  BY FS_Subset, FS_CardinalityType DEF Ahead
<1>3. ASSUME NEW x \in S PROVE Ahead(R, S, x) \in 0..(n - 1)
  <2>1. Over(x) \in SUBSET S /\ Over(x) # S
    BY DEF Decides
  <2> HIDE DEF Over
  <2>2. Cardinality(Over(x)) <= n /\ Cardinality(Over(x)) # n
    BY <2>1, FS_Subset
  <2> QED BY <1>1, <1>2, <2>2
<1>4. ASSUME NEW x \in S, NEW y \in S, <<x, y>> \in R
      PROVE  Ahead(R, S, x) < Ahead(R, S, y)
  <2>1. Over(x) \in SUBSET Over(y) /\ x \in Over(y) /\ x \notin Over(x)
    BY <1>4 DEF Decides
  <2> HIDE DEF Over
  <2>2. Cardinality(Over(x)) <= Cardinality(Over(y)) /\ Cardinality(Over(x)) # Cardinality(Over(y))
    BY <1>2, <2>1, FS_Subset
  <2> QED BY <1>2, <2>2
<1>5. ASSUME NEW x \in S, NEW y \in S, Ahead(R, S, x) < Ahead(R, S, y) PROVE <<x, y>> \in R
  <2> DEFINE a == Ahead(R, S, x)
             b == Ahead(R, S, y)
  <2>1. a \in Nat /\ b \in Nat /\ a < b
    <3> HIDE DEF Over
    <3> QED BY <1>2, <1>5
  <2>2. <<y, x>> \in R => b < a
    BY <1>4
  <2>3. x = y => a = b
    OBVIOUS
  <2> HIDE DEF a, b
  <2>4. x # y /\ <<y, x>> \notin R
    BY <2>1, <2>2, <2>3
  <2> QED BY <2>4 DEF Decides
<1>6. ASSUME NEW i \in 1..n, \A x \in S : Ahead(R, S, x) # i - 1 PROVE FALSE
  <2> DEFINE T == (0..(n - 1)) \ {i - 1}
             f == [x \in S |-> Ahead(R, S, x)]
  <2>1. IsFiniteSet(T) /\ Cardinality(T) < n
    <3> DEFINE m == n - 1
    <3>1. m \in Int /\ (0 > m => n = 0) /\ m - 0 + 1 = n
      BY <1>1
    <3>2. i - 1 \in 0..m
      BY <1>1
    <3> HIDE DEF m, n
    <3>3. IsFiniteSet(0..m) /\ Cardinality(0..m) = n
      BY <3>1, FS_Interval
    <3>4. /\ IsFiniteSet((0..m) \ {i - 1})
          /\ Cardinality((0..m) \ {i - 1}) = n - 1
      BY <3>2, <3>3, FS_RemoveElement
    <3>5. n - 1 < n
      BY <1>1
    <3> QED BY <3>4, <3>5 DEF m
  <2>2. f \in [S -> T]
    BY <1>3, <1>6
  <2>3. \A x, y \in S : x # y => f[x] # f[y]
    <3>1. \A x, y \in S : x # y => <<x, y>> \in R \/ <<y, x>> \in R
      BY DEF Decides
    <3>2. \A x, y \in S : <<x, y>> \in R => f[x] # f[y] /\ f[y] # f[x]
      <4> HIDE DEF Over
      <4> SUFFICES ASSUME NEW x \in S, NEW y \in S, <<x, y>> \in R
                   PROVE  Ahead(R, S, x) # Ahead(R, S, y)
        OBVIOUS
      <4>1. Ahead(R, S, x) \in Nat /\ Ahead(R, S, y) \in Nat
        BY <1>2
      <4> QED BY <1>4, <4>1
    <3> HIDE DEF f
    <3> QED BY <3>1, <3>2
  <2> HIDE DEF f, T
  <2> QED BY <2>1, <2>2, <2>3, FS_PigeonHole
<1> QED BY <1>3, <1>4, <1>5, <1>6

(* What sorted() returns: every element at one place, in order. *)
Places(S, R) == {[x |-> x, ahead |-> Ahead(R, S, x)] : x \in S}

Sorted(S, R) ==
  [i \in 1..Cardinality(S) |-> (CHOOSE p \in Places(S, R) : p.ahead = i - 1).x]

InOrder(q, S, R) ==
  /\ Cardinality(S) \in Nat /\ q \in [1..Cardinality(S) -> S]
  /\ \A x \in S : \E i \in 1..Cardinality(S) : q[i] = x
  /\ \A i, j \in 1..Cardinality(S) : i < j <=> <<q[i], q[j]>> \in R

LEMMA SortedInPlace ==
  ASSUME NEW S, IsFiniteSet(S), NEW R, Decides(R, S)
  PROVE  InOrder(Sorted(S, R), S, R)
<1> DEFINE P == Places(S, R)
           q == Sorted(S, R)
<1>0. /\ P = {[x |-> x, ahead |-> Ahead(R, S, x)] : x \in S}
      /\ q = [i \in 1..Cardinality(S) |-> (CHOOSE p \in P : p.ahead = i - 1).x]
  BY DEF Places, Sorted
<1> HIDE DEF P, q
<1>1. Cardinality(S) \in Nat
  BY FS_CardinalityType
<1>2. ASSUME NEW i \in 1..Cardinality(S)
      PROVE  q[i] \in S /\ Ahead(R, S, q[i]) = i - 1
  <2>1. PICK x \in S : Ahead(R, S, x) = i - 1
    BY PlacesAreTaken
  <2>2. [x |-> x, ahead |-> Ahead(R, S, x)] \in P
    BY <1>0
  <2>3. \E p \in P : p.ahead = i - 1
    BY <2>1, <2>2
  <2>4. PICK p \in P : p = (CHOOSE r \in P : r.ahead = i - 1) /\ p.ahead = i - 1
    BY <2>3
  <2>5. q[i] = p.x
    BY <1>0, <2>4
  <2>6. PICK y \in S : p = [x |-> y, ahead |-> Ahead(R, S, y)]
    BY <1>0, <2>4
  <2>7. p.x = y /\ p.ahead = Ahead(R, S, y)
    BY <2>6
  <2>8. q[i] = y /\ Ahead(R, S, y) = i - 1
    BY <2>4, <2>5, <2>7
  <2> QED BY <2>8
<1>3. ASSUME NEW x \in S PROVE \E i \in 1..Cardinality(S) : q[i] = x
  <2> DEFINE i == Ahead(R, S, x) + 1
  <2>1. Ahead(R, S, x) \in 0..(Cardinality(S) - 1)
    BY PlacesAreTaken
  <2>2. i \in 1..Cardinality(S) /\ i - 1 = Ahead(R, S, x)
    BY <1>1, <2>1
  <2>3. q[i] \in S /\ Ahead(R, S, q[i]) = Ahead(R, S, x)
    BY <1>2, <2>2
  <2>4. ~ (Ahead(R, S, x) < Ahead(R, S, x))
    BY <2>1
  <2>5. <<x, q[i]>> \notin R /\ <<q[i], x>> \notin R
    BY <2>3, <2>4, PlacesAreTaken
  <2>6. q[i] = x
    BY <2>3, <2>5 DEF Decides
  <2> QED BY <2>2, <2>6
<1>4. q \in [1..Cardinality(S) -> S]
  BY <1>0, <1>2
<1>5. ASSUME NEW i \in 1..Cardinality(S), NEW j \in 1..Cardinality(S)
      PROVE  i < j <=> <<q[i], q[j]>> \in R
  <2>1. <<q[i], q[j]>> \in R <=> Ahead(R, S, q[i]) < Ahead(R, S, q[j])
    BY <1>2, PlacesAreTaken
  <2> QED BY <1>1, <1>2, <2>1
<1> QED BY <1>1, <1>3, <1>4, <1>5 DEF InOrder, q

-----------------------------------------------------------------------------
(* g holds the sums of f over the parts of S, an element at a time: the     *)
(* recursion of MapThenSumSet.                                              *)
Sums(g, f, S) ==
  g = [s \in SUBSET S |-> IF s = {} THEN 0
                          ELSE f[CHOOSE x \in s : TRUE] + g[s \ {CHOOSE x \in s : TRUE}]]

LEMMA SumExists ==
  ASSUME NEW S, IsFiniteSet(S), NEW f \in [S -> Int]
  PROVE  \E g : Sums(g, f, S)
<1> DEFINE c == [s \in SUBSET S |-> CHOOSE x \in s : TRUE]
           st == [p \in S \X Int |-> f[p[1]] + p[2]]
<1>1. \A s \in SUBSET S : s # {} => c[s] \in s
  OBVIOUS
<1>2. st \in [S \X Int -> Int] /\ 0 \in Int
  OBVIOUS
<1>3. PICK g \in [SUBSET S -> Int] : Recurses(g, S, c, 0, st)
  <2> HIDE DEF c, st
  <2> QED BY <1>1, <1>2, SetRecursion
<1>4. ASSUME NEW s \in SUBSET S, s # {}
      PROVE  g[s] = f[CHOOSE x \in s : TRUE] + g[s \ {CHOOSE x \in s : TRUE}]
  <2>1. g[s] = st[c[s], g[s \ {c[s]}]]
    <3> HIDE DEF c, st
    <3> QED BY <1>3, <1>4 DEF Recurses
  <2>2. c[s] \in S /\ g[s \ {c[s]}] \in Int
    <3> HIDE DEF c
    <3> QED BY <1>1, <1>3, <1>4
  <2>3. st[c[s], g[s \ {c[s]}]] = f[c[s]] + g[s \ {c[s]}]
    <3> HIDE DEF c
    <3> QED BY <2>2
  <2>4. c[s] = CHOOSE x \in s : TRUE
    OBVIOUS
  <2> HIDE DEF c, st
  <2> QED BY <2>1, <2>3, <2>4
<1>5. g[{}] = 0
  BY <1>3 DEF Recurses
<1> DEFINE h == [s \in SUBSET S |-> IF s = {} THEN 0
                   ELSE f[CHOOSE x \in s : TRUE] + g[s \ {CHOOSE x \in s : TRUE}]]
<1>6. \A s \in SUBSET S : g[s] = h[s]
  BY <1>4, <1>5
<1>7. g = h
  <2> HIDE DEF c, st
  <2>1. h = [s \in SUBSET S |-> h[s]] /\ g = [s \in SUBSET S |-> g[s]]
    BY <1>3
  <2> HIDE DEF h
  <2> QED BY <1>6, <2>1
<1> HIDE DEF c, st
<1> QED BY <1>7 DEF Sums

(* A sum is any one term and the sum of the rest. *)
Adds(g, f, S) ==
  /\ g \in [SUBSET S -> Int] /\ g[{}] = 0
  /\ \A s \in SUBSET S : \A x \in s : g[s] = f[x] + g[s \ {x}]

LEMMA SumTakesAny ==
  ASSUME NEW S, IsFiniteSet(S), NEW f \in [S -> Int], NEW g, Sums(g, f, S)
  PROVE  Adds(g, f, S)
<1> DEFINE Any(s) == /\ g[s] \in Int
                     /\ \A x \in s : g[s] = f[x] + g[s \ {x}]
           Odd == {s \in SUBSET S : ~ Any(s)}
           Sizes == {Cardinality(s) : s \in Odd}
<1>1. \A s \in SUBSET S : IsFiniteSet(s) /\ Cardinality(s) \in Nat
  BY FS_Subset, FS_CardinalityType
<1>2. /\ g[{}] = 0
      /\ \A s \in SUBSET S : s # {} => \E y \in s : g[s] = f[y] + g[s \ {y}]
  <2>1. /\ DOMAIN g = SUBSET S
        /\ \A s \in SUBSET S : g[s] = IF s = {} THEN 0
             ELSE f[CHOOSE x \in s : TRUE] + g[s \ {CHOOSE x \in s : TRUE}]
    BY DEF Sums
  <2>2. ASSUME NEW s \in SUBSET S, s # {} PROVE \E y \in s : g[s] = f[y] + g[s \ {y}]
    <3>1. (CHOOSE x \in s : TRUE) \in s
      BY <2>2
    <3> QED BY <2>1, <2>2, <3>1
  <2> QED BY <2>1, <2>2
<1>3. Odd = {}
  <2> SUFFICES ASSUME Odd # {} PROVE FALSE
    OBVIOUS
  <2>1. Sizes \in SUBSET Nat /\ Sizes # {}
    <3> HIDE DEF Any
    <3> QED BY <1>1
  <2>2. PICK k \in Sizes : \A j \in Sizes : k <= j
    <3> HIDE DEF Sizes
    <3> QED BY <2>1, LeastElement
  <2>3. PICK s \in Odd : k = Cardinality(s)
    BY <2>2
  <2>4. \A r \in SUBSET S : Cardinality(r) < Cardinality(s) => Any(r)
    <3> SUFFICES ASSUME NEW r \in SUBSET S, Cardinality(r) < Cardinality(s), ~ Any(r) PROVE FALSE
      OBVIOUS
    <3>1. Cardinality(r) \in Sizes
      OBVIOUS
    <3>2. Cardinality(r) \in Nat /\ Cardinality(s) \in Nat
      BY <1>1, <2>3
    <3> HIDE DEF Sizes
    <3> QED BY <2>2, <2>3, <3>1, <3>2
  <2>5. s \in SUBSET S /\ ~ Any(s)
    BY <2>3
  <2>6. \A x \in s : Any(s \ {x})
    <3> SUFFICES ASSUME NEW x \in s PROVE Any(s \ {x})
      OBVIOUS
    <3>1. Cardinality(s \ {x}) = Cardinality(s) - 1
      BY <1>1, <2>5, FS_RemoveElement
    <3>2. Cardinality(s \ {x}) < Cardinality(s) /\ s \ {x} \in SUBSET S
      BY <1>1, <2>5, <3>1
    <3> HIDE DEF Any
    <3> QED BY <2>4, <3>2
  <2>7. CASE s = {}
    BY <1>2, <2>5, <2>7
  <2>8. CASE s # {}
    <3>1. PICK y \in s : g[s] = f[y] + g[s \ {y}]
      BY <1>2, <2>5, <2>8
    <3>2. f[y] \in Int /\ g[s \ {y}] \in Int
      BY <2>5, <2>6
    <3>3. ASSUME NEW x \in s PROVE g[s] = f[x] + g[s \ {x}]
      <4>1. CASE x = y
        BY <3>1, <4>1
      <4>2. CASE x # y
        <5>1. x \in s \ {y} /\ y \in s \ {x}
          BY <4>2
        <5>2. g[s \ {y}] = f[x] + g[(s \ {y}) \ {x}] /\ g[s \ {x}] = f[y] + g[(s \ {x}) \ {y}]
          BY <2>6, <5>1
        <5>3. (s \ {y}) \ {x} = (s \ {x}) \ {y}
          OBVIOUS
        <5>4. Cardinality((s \ {y}) \ {x}) < Cardinality(s) /\ (s \ {y}) \ {x} \in SUBSET S
          <6>1. /\ IsFiniteSet(s \ {y}) /\ Cardinality(s \ {y}) = Cardinality(s) - 1
            BY <1>1, <2>5, FS_RemoveElement
          <6>2. Cardinality((s \ {y}) \ {x}) = Cardinality(s \ {y}) - 1
            BY <5>1, <6>1, FS_RemoveElement
          <6> QED BY <1>1, <2>5, <6>1, <6>2
        <5>5. g[(s \ {y}) \ {x}] \in Int
          BY <2>4, <5>4
        <5>6. f[x] \in Int
          BY <2>5
        <5> HIDE DEF Odd, Sizes, Any
        <5>7. f[y] + (f[x] + g[(s \ {y}) \ {x}]) = f[x] + (f[y] + g[(s \ {y}) \ {x}])
          BY <3>2, <5>5, <5>6
        <5> QED BY <3>1, <5>2, <5>3, <5>7
      <4> QED BY <4>1, <4>2
    <3>4. g[s] \in Int
      <4> HIDE DEF Odd, Sizes, Any
      <4> QED BY <3>1, <3>2
    <3> QED BY <2>5, <3>3, <3>4
  <2> QED BY <2>7, <2>8
<1>4. \A s \in SUBSET S : Any(s)
  BY <1>3
<1>5. g = [s \in SUBSET S |-> g[s]]
  BY DEF Sums
<1> QED BY <1>2, <1>4, <1>5 DEF Adds

(* What holds of no element, and of a set when it holds of the set without  *)
(* any one of them, holds of all.                                           *)
LEMMA OneByOne ==
  ASSUME NEW S, IsFiniteSet(S), NEW Good, {} \in Good,
         \A s \in SUBSET S : s # {} /\ (\A x \in s : s \ {x} \in Good) => s \in Good
  PROVE  \A s \in SUBSET S : s \in Good
<1> DEFINE Odd == {s \in SUBSET S : s \notin Good}
           Sizes == {Cardinality(s) : s \in Odd}
<1>1. \A s \in SUBSET S : IsFiniteSet(s) /\ Cardinality(s) \in Nat
  BY FS_Subset, FS_CardinalityType
<1> SUFFICES ASSUME Odd # {} PROVE FALSE
  OBVIOUS
<1>2. Sizes \in SUBSET Nat /\ Sizes # {}
  BY <1>1
<1>3. PICK k \in Sizes : \A j \in Sizes : k <= j
  <2> HIDE DEF Sizes
  <2> QED BY <1>2, LeastElement
<1>4. PICK s \in Odd : k = Cardinality(s)
  BY <1>3
<1>5. ASSUME NEW x \in s PROVE s \ {x} \in Good
  <2> SUFFICES ASSUME s \ {x} \in Odd PROVE FALSE
    OBVIOUS
  <2>1. Cardinality(s \ {x}) \in Sizes
    OBVIOUS
  <2>2. Cardinality(s \ {x}) = Cardinality(s) - 1 /\ Cardinality(s) \in Nat
    BY <1>1, FS_RemoveElement
  <2> HIDE DEF Sizes, Odd
  <2> QED BY <1>3, <1>4, <2>1, <2>2
<1> QED BY <1>4, <1>5

(* A part of a sum without negative terms is at most the sum. *)
LEMMA SumOfPart ==
  ASSUME NEW T, IsFiniteSet(T), NEW e \in [T -> Nat], NEW h, Sums(h, e, T),
         NEW r \in SUBSET T
  PROVE  h[r] <= h[T]
<1>1. e \in [T -> Int]
  OBVIOUS
<1>2. Adds(h, e, T)
  BY <1>1, SumTakesAny
<1>3. /\ h \in [SUBSET T -> Int] /\ h[{}] = 0
      /\ \A s \in SUBSET T : \A x \in s : h[s] = e[x] + h[s \ {x}]
  BY <1>2 DEF Adds
<1> DEFINE Good == {s \in SUBSET T : h[r \cap s] <= h[s]}
<1>4. {} \in Good
  <2>1. r \cap {} = {}
    OBVIOUS
  <2> QED BY <1>3, <2>1
<1>5. ASSUME NEW s \in SUBSET T, s # {}, \A x \in s : s \ {x} \in Good PROVE s \in Good
  <2>1. PICK x \in s : TRUE
    BY <1>5
  <2>2. h[r \cap (s \ {x})] <= h[s \ {x}] /\ e[x] \in Nat
    BY <1>5
  <2>3. h[s] = e[x] + h[s \ {x}]
    BY <1>3
  <2>4. h[s] \in Int /\ h[s \ {x}] \in Int /\ h[r \cap (s \ {x})] \in Int
    BY <1>3
  <2>5. CASE x \in r
    <3>1. x \in r \cap s /\ (r \cap s) \ {x} = r \cap (s \ {x}) /\ r \cap s \in SUBSET T
      BY <2>5
    <3>2. h[r \cap s] = e[x] + h[r \cap (s \ {x})]
      BY <1>3, <3>1
    <3>3. h[r \cap s] <= h[s]
      BY <2>2, <2>3, <2>4, <3>2
    <3> QED BY <3>3
  <2>6. CASE x \notin r
    <3>1. r \cap s = r \cap (s \ {x})
      BY <2>6
    <3>2. h[r \cap (s \ {x})] <= h[s]
      BY <2>2, <2>3, <2>4
    <3>3. h[r \cap s] = h[r \cap (s \ {x})]
      BY <3>1
    <3>4. h[r \cap s] <= h[s]
      BY <3>2, <3>3
    <3> QED BY <3>4
  <2> QED BY <2>5, <2>6
<1>6. T \in Good
  <2> HIDE DEF Good
  <2> QED BY <1>4, <1>5, OneByOne
<1>7. r \cap T = r
  OBVIOUS
<1> QED BY <1>6, <1>7

(* If every term has a larger one of its own in another sum, that is the    *)
(* larger sum.                                                              *)
LEMMA SumInjects ==
  ASSUME NEW S, IsFiniteSet(S), NEW f \in [S -> Int], NEW g, Sums(g, f, S),
         NEW T, IsFiniteSet(T), NEW e \in [T -> Nat], NEW h, Sums(h, e, T),
         NEW j \in [S -> T], \A x, y \in S : x # y => j[x] # j[y],
         \A x \in S : f[x] <= e[j[x]]
  PROVE  g[S] <= h[T]
<1> DEFINE Image(s) == {j[x] : x \in s}
           Good == {s \in SUBSET S : g[s] <= h[Image(s)]}
<1>1. e \in [T -> Int]
  OBVIOUS
<1>2. Adds(g, f, S) /\ Adds(h, e, T)
  BY <1>1, SumTakesAny
<1>3. /\ g \in [SUBSET S -> Int] /\ g[{}] = 0 /\ h \in [SUBSET T -> Int] /\ h[{}] = 0
      /\ \A s \in SUBSET S : \A x \in s : g[s] = f[x] + g[s \ {x}]
      /\ \A s \in SUBSET T : \A x \in s : h[s] = e[x] + h[s \ {x}]
  BY <1>2 DEF Adds
<1>4. \A s \in SUBSET S : Image(s) \in SUBSET T
  OBVIOUS
<1>5. {} \in Good
  <2>1. Image({}) = {}
    OBVIOUS
  <2>2. g[{}] <= h[{}]
    BY <1>3
  <2>3. g[{}] <= h[Image({})]
    <3> HIDE DEF Image
    <3> QED BY <2>1, <2>2
  <2> QED BY <2>3
<1>6. ASSUME NEW s \in SUBSET S, s # {}, \A x \in s : s \ {x} \in Good PROVE s \in Good
  <2>1. PICK x \in s : TRUE
    BY <1>6
  <2>2. j[x] \in Image(s) /\ Image(s) \ {j[x]} = Image(s \ {x})
    OBVIOUS
  <2>3. g[s \ {x}] <= h[Image(s \ {x})]
    BY <1>6
  <2> HIDE DEF Image
  <2>4. g[s] = f[x] + g[s \ {x}]
    BY <1>3
  <2> DEFINE t == Image(s)
  <2>7. t \in SUBSET T /\ j[x] \in t
    BY <1>4, <2>2
  <2>8. h[t] = e[j[x]] + h[t \ {j[x]}]
    <3> HIDE DEF t
    <3> QED BY <1>3, <2>7
  <2>9. h[Image(s)] = e[j[x]] + h[Image(s \ {x})]
    BY <2>2, <2>8
  <2>5. /\ g[s \ {x}] \in Int /\ h[Image(s \ {x})] \in Int
        /\ f[x] \in Int /\ e[j[x]] \in Int /\ f[x] <= e[j[x]]
    BY <1>1, <1>3, <1>4
  <2>6. g[s] <= h[Image(s)]
    BY <2>3, <2>4, <2>5, <2>9
  <2> QED BY <2>6
<1>7. S \in Good
  <2> HIDE DEF Good, Image
  <2>1. \A s \in SUBSET S : s # {} /\ (\A x \in s : s \ {x} \in Good) => s \in Good
    BY <1>6
  <2>2. \A s \in SUBSET S : s \in Good
    BY <1>5, <2>1, OneByOne
  <2> QED BY <2>2
<1>8. g[S] <= h[Image(S)]
  BY <1>7
<1>9. h[Image(S)] <= h[T]
  <2> HIDE DEF Image
  <2> QED BY <1>4, SumOfPart
<1>10. g[S] \in Int /\ h[Image(S)] \in Int /\ h[T] \in Int
  <2> HIDE DEF Image, Good
  <2> QED BY <1>3, <1>4
<1> HIDE DEF Image, Good
<1> QED BY <1>8, <1>9, <1>10

(* A sum lies between its bounds times its size. *)
LEMMA SumBounds ==
  ASSUME NEW S, IsFiniteSet(S), NEW f \in [S -> Int], NEW g, Sums(g, f, S),
         NEW lo \in Int, NEW hi \in Int, \A x \in S : lo <= f[x] /\ f[x] <= hi
  PROVE  /\ g[S] \in Int
         /\ lo * Cardinality(S) <= g[S] /\ g[S] <= hi * Cardinality(S)
<1> DEFINE Good == {s \in SUBSET S : lo * Cardinality(s) <= g[s] /\ g[s] <= hi * Cardinality(s)}
<1>1. Adds(g, f, S)
  BY SumTakesAny
<1>2. /\ g \in [SUBSET S -> Int] /\ g[{}] = 0
      /\ \A s \in SUBSET S : \A x \in s : g[s] = f[x] + g[s \ {x}]
  BY <1>1 DEF Adds
<1>3. {} \in Good
  <2>1. Cardinality({}) = 0
    BY FS_EmptySet
  <2> QED BY <1>2, <2>1
<1>4. ASSUME NEW s \in SUBSET S, s # {}, \A x \in s : s \ {x} \in Good PROVE s \in Good
  <2>1. PICK x \in s : TRUE
    BY <1>4
  <2> DEFINE r == s \ {x}
             n == Cardinality(r)
  <2>2. Cardinality(s) = n + 1 /\ n \in Nat
    <3>1. IsFiniteSet(s)
      BY FS_Subset
    <3>2. Cardinality(s) \in Nat /\ IsFiniteSet(r) /\ n = Cardinality(s) - 1
      BY <3>1, FS_RemoveElement, FS_CardinalityType
    <3>3. n \in Nat
      BY <3>2, FS_CardinalityType
    <3> HIDE DEF n, r
    <3> QED BY <3>2, <3>3
  <2>3. lo * n <= g[r] /\ g[r] <= hi * n
    BY <1>4
  <2>4. g[s] = f[x] + g[r] /\ g[r] \in Int /\ f[x] \in Int /\ lo <= f[x] /\ f[x] <= hi
    BY <1>2
  <2> HIDE DEF n, r, Good
  <2>5. lo * (n + 1) = lo * n + lo /\ hi * (n + 1) = hi * n + hi /\ lo * n \in Int /\ hi * n \in Int
    BY <2>2
  <2>6. lo * Cardinality(s) <= g[s] /\ g[s] <= hi * Cardinality(s)
    BY <2>2, <2>3, <2>4, <2>5
  <2> QED BY <2>6 DEF Good
<1>5. S \in Good
  <2> HIDE DEF Good
  <2> QED BY <1>3, <1>4, OneByOne
<1>6. g[S] \in Int
  BY <1>2
<1> QED BY <1>5, <1>6

-----------------------------------------------------------------------------
(* Whole division: a quotient grows with what is divided ... *)
LEMMA Divided ==
  ASSUME NEW x \in Nat, NEW d \in Nat \ {0}
  PROVE  /\ x \div d \in Nat /\ x % d \in 0..(d - 1)
         /\ x = d * (x \div d) + (x % d)
  OBVIOUS

LEMMA QuotientGrows ==
  ASSUME NEW d \in Nat \ {0}, NEW p \in Nat, NEW q \in Nat,
         NEW r \in 0..(d - 1), NEW u \in 0..(d - 1), d * p + r <= d * q + u
  PROVE  p <= q
<1> SUFFICES ASSUME q < p PROVE FALSE
  OBVIOUS
<1>1. q + 1 <= p
  OBVIOUS
<1>2. d * (q + 1) <= d * p
  BY <1>1
<1>3. d * (q + 1) = d * q + d
  OBVIOUS
<1>4. d * q \in Nat /\ d * p \in Nat
  OBVIOUS
<1> QED BY <1>2, <1>3, <1>4

LEMMA DividedGrows ==
  ASSUME NEW x \in Nat, NEW y \in Nat, x <= y, NEW d \in Nat \ {0}
  PROVE  x \div d \in Nat /\ y \div d \in Nat /\ x \div d <= y \div d
<1> DEFINE p == x \div d
           q == y \div d
           r == x % d
           u == y % d
<1>1. /\ p \in Nat /\ q \in Nat /\ r \in 0..(d - 1) /\ u \in 0..(d - 1)
      /\ x = d * p + r /\ y = d * q + u
  BY Divided
<1> HIDE DEF p, q, r, u
<1>2. p <= q
  BY <1>1, QuotientGrows
<1> QED BY <1>1, <1>2 DEF p, q

LEMMA ProductGrows ==
  ASSUME NEW m \in Nat, NEW x \in Nat, NEW y \in Nat, x <= y
  PROVE  m * x \in Nat /\ m * y \in Nat /\ m * x <= m * y /\ x * m = m * x /\ y * m = m * y
  OBVIOUS

(* A larger divisor does not make the quotient larger. *)
LEMMA QuotientFalls ==
  ASSUME NEW x \in Nat, NEW d \in Nat \ {0}, NEW e \in Nat, d <= e
  PROVE  x \div d \in Nat /\ x \div e \in Nat /\ x \div e <= x \div d
<1> DEFINE p == x \div d
           q == x \div e
           r == x % d
           u == x % e
<1>1. e \in Nat \ {0}
  OBVIOUS
<1>2. /\ p \in Nat /\ r \in 0..(d - 1) /\ x = d * p + r
  BY Divided
<1>3. /\ q \in Nat /\ u \in 0..(e - 1) /\ x = e * q + u
  BY <1>1, Divided
<1> HIDE DEF p, q, r, u
<1>4. ASSUME p < q PROVE FALSE
  <2>1. p + 1 <= q /\ p + 1 \in Nat
    BY <1>2, <1>3, <1>4
  <2>2. e * (p + 1) <= e * q /\ e * q \in Nat
    BY <1>1, <1>3, <2>1, ProductGrows
  <2>3. (p + 1) * d <= (p + 1) * e
    BY <1>1, <2>1, ProductGrows
  <2>4. (p + 1) * d = d * p + d /\ (p + 1) * e = e * (p + 1) /\ d * p \in Nat /\ e * (p + 1) \in Nat
    BY <1>1, <1>2, <2>1
  <2>5. d * p + d <= e * q
    BY <2>2, <2>3, <2>4
  <2>6. r < d /\ u >= 0 /\ r \in Nat /\ u \in Nat
    BY <1>2, <1>3
  <2> QED BY <1>2, <1>3, <2>2, <2>4, <2>5, <2>6
<1>5. q <= p
  BY <1>2, <1>3, <1>4
<1> QED BY <1>2, <1>3, <1>5 DEF p, q
=============================================================================
