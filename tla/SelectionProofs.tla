--------------------------- MODULE SelectionProofs ---------------------------
(* Facts about parts of lists, for lists of any length. *)
EXTENDS Selection, FiniteSetTheorems, WellFoundedInduction, TLAPS

(* A set of natural numbers has a smallest one. *)
LEMMA Smallest ==
    ASSUME NEW S \in SUBSET Nat, S # {}
    PROVE  \E x \in S : \A y \in S : x <= y
<1>1. PICK x \in S : \A y \in S : ~(<<y, x>> \in OpToRel(<, Nat))
  BY NatLessThanWellFounded, WFMin
<1>2. \A y \in S : ~(y < x)
  BY <1>1 DEF OpToRel
<1> QED
  BY <1>2

(* f gives the states of a loop of n rounds that begins with x0. *)
LoopStates(n, X, x0, step, f) ==
    f \in [0 .. n -> X] /\ f[0] = x0 /\ \A i \in 1 .. n : f[i] = step[i][f[i - 1]]

(* A loop of n rounds that keeps its state in X has a state after each round. *)
LEMMA LoopRuns ==
    ASSUME NEW n \in Nat, NEW X, NEW x0 \in X, NEW step \in [1 .. n -> [X -> X]]
    PROVE  \E f : LoopStates(n, X, x0, step, f)
<1> DEFINE Runs(k) == \E f \in [0 .. k -> X] :
                         f[0] = x0 /\ \A i \in 1 .. k : f[i] = step[i][f[i - 1]]
           S == {k \in 0 .. n : ~Runs(k)}
<1>1. Runs(0)
  <2> DEFINE f == [i \in 0 .. 0 |-> x0]
  <2>1. f \in [0 .. 0 -> X] /\ f[0] = x0
    OBVIOUS
  <2>2. \A i \in 1 .. 0 : f[i] = step[i][f[i - 1]]
    OBVIOUS
  <2> HIDE DEF f
  <2> QED
    BY <2>1, <2>2
<1>2. ASSUME NEW k \in 1 .. n, Runs(k - 1) PROVE Runs(k)
  <2>1. PICK g \in [0 .. k - 1 -> X] :
           g[0] = x0 /\ \A i \in 1 .. k - 1 : g[i] = step[i][g[i - 1]]
    BY <1>2
  <2> DEFINE f == [i \in 0 .. k |-> IF i = k THEN step[k][g[k - 1]] ELSE g[i]]
  <2>2. f \in [0 .. k -> X]
    <3>1. g[k - 1] \in X /\ k \in 1 .. n
      OBVIOUS
    <3>2. step[k][g[k - 1]] \in X
      BY <3>1
    <3> QED
      BY <3>2
  <2>3. f[0] = x0
    BY <2>1
  <2>4. \A i \in 1 .. k : f[i] = step[i][f[i - 1]]
    BY <2>1
  <2> QED
    BY <2>2, <2>3, <2>4
<1> HIDE DEF Runs
<1>3. S = {}
  <2> SUFFICES ASSUME S # {} PROVE FALSE
    OBVIOUS
  <2>1. S \in SUBSET Nat
    OBVIOUS
  <2>2. PICK k \in S : \A j \in S : k <= j
    BY <2>1, Smallest
  <2>3. k \in 0 .. n /\ ~Runs(k)
    OBVIOUS
  <2>4. k # 0
    BY <1>1, <2>3
  <2>5. k \in 1 .. n /\ k - 1 \in 0 .. n /\ ~(k <= k - 1)
    BY <2>3, <2>4
  <2>6. Runs(k - 1)
    BY <2>2, <2>5
  <2> QED
    BY <1>2, <2>3, <2>5, <2>6
<1> QED
  BY <1>3 DEF Runs, LoopStates

(* Later positions have later places. *)
LEMMA PlacesGrow ==
    ASSUME NEW n \in Nat, NEW K \in SUBSET (1 .. n), NEW i \in K, NEW j \in K, i < j
    PROVE  Place(K, i) < Place(K, j)
<1> DEFINE L == {k \in K : k <= i}
           M == {k \in K : k <= j}
<1>0. i \in Int /\ j \in Int /\ \A k \in K : k \in Int
  OBVIOUS
<1>1. IsFiniteSet(M)
  <2>1. IsFiniteSet(1 .. n)
    BY FS_Interval
  <2>2. M \in SUBSET (1 .. n)
    OBVIOUS
  <2> QED
    BY <2>1, <2>2, FS_Subset
<1>2. L \in SUBSET M /\ L # M
  <2>1. L \in SUBSET M
    <3> SUFFICES ASSUME NEW k \in K, k <= i PROVE k <= j
      OBVIOUS
    <3> QED
      BY <1>0
  <2>2. j \in M
    BY <1>0
  <2>3. j \notin L
    BY <1>0
  <2> HIDE DEF L, M
  <2> QED
    BY <2>1, <2>2, <2>3, Zenon
<1>3. Cardinality(L) <= Cardinality(M) /\ Cardinality(L) # Cardinality(M)
  BY <1>1, <1>2, FS_Subset
<1>4. IsFiniteSet(L) /\ Cardinality(L) \in Nat /\ Cardinality(M) \in Nat
  BY <1>1, <1>2, FS_Subset, FS_CardinalityType
<1> QED
  BY <1>3, <1>4 DEF Place

(* Every place is that of one position. *)
LEMMA PlacesMeet ==
    ASSUME NEW n \in Nat, NEW K \in SUBSET (1 .. n)
    PROVE  /\ Cardinality(K) \in Nat
           /\ \A i \in K : Place(K, i) \in 1 .. Cardinality(K)
           /\ \A k \in 1 .. Cardinality(K) : \E i \in K : Place(K, i) = k
<1>1. IsFiniteSet(K) /\ Cardinality(K) \in Nat
  <2>1. IsFiniteSet(1 .. n)
    BY FS_Interval
  <2> QED
    BY <2>1, FS_Subset, FS_CardinalityType
<1>2. ASSUME NEW i \in K PROVE Place(K, i) \in 1 .. Cardinality(K)
  <2> DEFINE L == {k \in K : k <= i}
  <2>1. L \in SUBSET K /\ i \in L
    OBVIOUS
  <2>2. IsFiniteSet(L) /\ Cardinality(L) <= Cardinality(K) /\ Cardinality(L) \in Nat
    BY <1>1, <2>1, FS_Subset, FS_CardinalityType
  <2>3. Cardinality(L) # 0
    BY <2>1, <2>2, FS_EmptySet
  <2> QED
    BY <1>1, <2>2, <2>3 DEF Place
<1> DEFINE T == 1 .. Cardinality(K)
           f == [i \in K |-> Place(K, i)]
<1>3. f \in [K -> T]
  BY <1>2
<1>4. \A i, j \in K : f[i] = f[j] => i = j
  <2> SUFFICES ASSUME NEW i \in K, NEW j \in K, i # j PROVE f[i] # f[j]
    OBVIOUS
  <2>1. i < j \/ j < i
    OBVIOUS
  <2>2. Place(K, i) < Place(K, j) \/ Place(K, j) < Place(K, i)
    BY <2>1, PlacesGrow
  <2>3. Place(K, i) \in Int /\ Place(K, j) \in Int
    BY <1>2
  <2> QED
    BY <2>2, <2>3
<1> HIDE DEF f, T
<1>5. f \in Injection(K, T)
  BY <1>3, <1>4 DEF Injection, IsInjective
<1>6. IsFiniteSet(T) /\ Cardinality(T) = Cardinality(K)
  BY <1>1, FS_Interval DEF T
<1>7. f \in Surjection(K, T)
  BY <1>5, <1>6, FS_Injection
<1>8. \A k \in T : \E i \in K : f[i] = k
  BY <1>7 DEF Surjection
<1> QED
  BY <1>1, <1>2, <1>8 DEF f, T

(* The elements that At leaves are those at K, and in the same order. *)
LEMMA AtKeeps ==
    ASSUME NEW S, NEW s \in Seq(S), NEW K \in SUBSET (1 .. Len(s))
    PROVE  /\ At(s, K) \in Seq(S) /\ Len(At(s, K)) = Cardinality(K) /\ Cardinality(K) \in Nat
           /\ \A k \in 1 .. Cardinality(K) : Origin(K)[k] \in K /\ At(s, K)[k] = s[Origin(K)[k]]
           /\ \A k, l \in 1 .. Cardinality(K) : k < l => Origin(K)[k] < Origin(K)[l]
           /\ \A i \in K : \E k \in 1 .. Cardinality(K) : Origin(K)[k] = i
<1> DEFINE c == Cardinality(K)
           f == Origin(K)
<1>0. Len(s) \in Nat
  OBVIOUS
<1>1. /\ c \in Nat
      /\ \A i \in K : Place(K, i) \in 1 .. c
      /\ \A k \in 1 .. c : \E i \in K : Place(K, i) = k
  BY <1>0, PlacesMeet
<1>2. \A k \in 1 .. c : f[k] \in K /\ Place(K, f[k]) = k
  BY <1>1 DEF Origin
<1>4. \A k \in 1 .. c : At(s, K)[k] = s[f[k]]
  BY DEF At
<1>9. \A i \in K : i \in Int
  BY <1>0
<1>10. \A i, j \in K : Place(K, i) = Place(K, j) => i = j
  <2> SUFFICES ASSUME NEW i \in K, NEW j \in K, i # j PROVE Place(K, i) # Place(K, j)
    OBVIOUS
  <2>1. i < j \/ j < i
    BY <1>9
  <2>2. Place(K, i) < Place(K, j) \/ Place(K, j) < Place(K, i)
    BY <1>0, <2>1, PlacesGrow
  <2>3. Place(K, i) \in Int /\ Place(K, j) \in Int
    BY <1>1
  <2> QED
    BY <2>2, <2>3
<1>7. At(s, K) \in Seq(S) /\ Len(At(s, K)) = c
  <2>0. \A i \in K : s[i] \in S
    OBVIOUS
  <2>1. ASSUME NEW k \in 1 .. c PROVE s[f[k]] \in S
    <3>1. f[k] \in K
      BY <1>2
    <3> HIDE DEF f, c
    <3> QED
      BY <2>0, <3>1
  <2>2. At(s, K) = [k \in 1 .. c |-> s[f[k]]]
    BY DEF At
  <2> DEFINE g == [k \in 1 .. c |-> s[f[k]]]
  <2>3. g \in [1 .. c -> S]
    BY <2>1
  <2> HIDE DEF f, c, g
  <2>4. g \in Seq(S) /\ Len(g) = c
    BY <1>1, <2>3
  <2> QED
    BY <2>2, <2>4 DEF g
<1> HIDE DEF f, c
<1>5. ASSUME NEW k \in 1 .. c, NEW l \in 1 .. c, k < l PROVE f[k] < f[l]
  <2>1. f[k] \in K /\ f[l] \in K /\ Place(K, f[k]) = k /\ Place(K, f[l]) = l
    BY <1>2
  <2>2. f[k] \in Int /\ f[l] \in Int
    BY <1>9, <2>1
  <2>3. f[l] < f[k] => Place(K, f[l]) < Place(K, f[k])
    BY <1>0, <2>1, PlacesGrow
  <2>4. ~(f[l] < f[k])
    BY <1>1, <1>5, <2>1, <2>3
  <2>5. f[k] # f[l]
    BY <1>1, <1>5, <2>1
  <2> QED
    BY <2>2, <2>4, <2>5
<1>6. ASSUME NEW i \in K PROVE \E k \in 1 .. c : f[k] = i
  <2>1. PICK k \in 1 .. c : k = Place(K, i)
    BY <1>1
  <2>2. f[k] = i
    BY <1>2, <1>10, <2>1
  <2> QED
    BY <2>2
<1> QED
  BY <1>1, <1>2, <1>4, <1>5, <1>6, <1>7 DEF c, f
=============================================================================
