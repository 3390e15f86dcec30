-------------------------- MODULE ThreadCallProofs --------------------------
(***************************************************************************)
(* Proofs about ThreadCall, for any number of entries, threads and         *)
(* processors: the queues hold each entry once, where its queue field says *)
(* so; the counters that decide who is woken are right; no pending call is *)
(* without a thread that will come to it; and the timer misses no delayed  *)
(* call.                                                                   *)
(***************************************************************************)
EXTENDS ThreadCall, FiniteSetTheorems, FunctionTheorems, NaturalsInduction,
        SequenceTheorems, WellFoundedInduction, TLAPS

(***************************************************************************)
(* Queues.                                                                 *)
(***************************************************************************)
\* A sequence of entries with no entry twice
IsQueue(q) ==
    /\ q \in Seq(Entries)
    /\ \A i, j \in DOMAIN q : q[i] = q[j] => i = j

\* Earlier deadlines, as dl has them, come first.
Sorted(q, dl) == \A i, j \in DOMAIN q : i < j => dl[q[i]] <= dl[q[j]]

\* The relation whose least elements LeastNatural picks.
Below == {p \in Nat \X Nat : p[1] < p[2]}

\* A set of natural numbers that is not empty has a least element.
LEMMA LeastNatural ==
    ASSUME NEW A \in SUBSET Nat, A # {}
    PROVE  \E m \in A : \A n \in A : m <= n
  <1>1. IsWellFoundedOn(Below, Nat)
    BY NatLessThanWellFounded DEF OpToRel, Below
  <1>2. PICK m \in A : \A n \in A : <<n, m>> \notin Below
    BY <1>1, WFMin
  <1>3. ASSUME NEW n \in A PROVE m <= n
    <2>1. <<n, m>> \notin Below
      BY <1>2
    <2> QED
      BY <2>1 DEF Below
  <1> QED
    BY <1>3

\* How many numbers of K are i or less
Rank(K, i) == Cardinality({j \in K : j <= i})

\* The ranks in a finite set of natural numbers rise, and none is skipped.
LEMMA RanksRise ==
    ASSUME NEW K \in SUBSET Nat, IsFiniteSet(K)
    PROVE  /\ \A i \in K : Rank(K, i) \in 1..Cardinality(K)
           /\ \A i, j \in K : i < j => Rank(K, i) < Rank(K, j)
  <1> DEFINE UpToPlace(i) == {j \in K : j <= i}
  <1>0. Cardinality(K) \in Nat
    BY FS_CardinalityType
  <1>1. ASSUME NEW i \in K
        PROVE  IsFiniteSet(UpToPlace(i)) /\ Rank(K, i) \in Nat /\ Rank(K, i) \in 1..Cardinality(K)
    <2>1. UpToPlace(i) \subseteq K /\ i \in UpToPlace(i)
      OBVIOUS
    <2>2. Rank(K, i) = Cardinality(UpToPlace(i))
      BY DEF Rank
    <2> HIDE DEF UpToPlace
    <2>3. IsFiniteSet(UpToPlace(i)) /\ Cardinality(UpToPlace(i)) <= Cardinality(K)
      BY <2>1, FS_Subset
    <2>4. Cardinality(UpToPlace(i)) \in Nat /\ Cardinality(UpToPlace(i)) # 0
      BY <2>1, <2>3, FS_CardinalityType, FS_EmptySet
    <2> QED
      BY <1>0, <2>2, <2>3, <2>4
  <1>2. ASSUME NEW i \in K, NEW j \in K, i < j
        PROVE  Rank(K, i) < Rank(K, j)
    <2>1. UpToPlace(i) \subseteq UpToPlace(j)
      <3> SUFFICES ASSUME NEW x \in K, x <= i PROVE x <= j
        OBVIOUS
      <3>1. x \in Nat /\ i \in Nat /\ j \in Nat
        OBVIOUS
      <3> QED
        BY <1>2, <3>1
    <2>2. j \in UpToPlace(j) /\ j \notin UpToPlace(i)
      BY <1>2
    <2>3. Rank(K, i) = Cardinality(UpToPlace(i)) /\ Rank(K, j) = Cardinality(UpToPlace(j))
      BY DEF Rank
    <2> HIDE DEF UpToPlace
    <2>4. Rank(K, i) <= Rank(K, j) /\ Rank(K, j) # Rank(K, i)
      BY <1>1, <2>1, <2>2, <2>3, FS_Subset
    <2>5. Rank(K, i) \in Nat /\ Rank(K, j) \in Nat
      BY <1>1
    <2> QED
      BY <2>4, <2>5
  <1> HIDE DEF UpToPlace
  <1> QED
    BY <1>1, <1>2

\* Every number up to the size of a finite set of natural numbers is a rank in it.
LEMMA RanksFill ==
    ASSUME NEW K \in SUBSET Nat, IsFiniteSet(K), NEW k \in 1..Cardinality(K)
    PROVE  \E i \in K : Rank(K, i) = k
  <1> DEFINE n == Cardinality(K)
             rank == [i \in K |-> Rank(K, i)]
  <1>0. n \in Nat
    BY FS_CardinalityType
  <1>1. rank \in [K -> 1..n]
    BY RanksRise
  <1>2. ASSUME NEW i \in K, NEW j \in K, rank[i] = rank[j] PROVE i = j
    <2>1. Rank(K, i) = Rank(K, j)
      BY <1>2
    <2>2. Rank(K, i) \in 1..n /\ ~(i < j) /\ ~(j < i)
      BY <2>1, RanksRise
    <2> QED
      BY <2>2
  <1> HIDE DEF rank
  <1>3. rank \in Injection(K, 1..n)
    BY <1>1, <1>2, Fun_IsInj
  <1>4. IsFiniteSet(1..n) /\ Cardinality(1..n) = n
    BY <1>0, FS_Interval
  <1>5. rank \in Surjection(K, 1..n)
    BY <1>3, <1>4, FS_Injection
  <1>6. \A l \in 1..n : \E i \in K : rank[i] = l
    <2> HIDE DEF n
    <2> QED
      BY <1>5, Fun_SurjectionProperties, Zenon
  <1>7. \E i \in K : rank[i] = k
    BY <1>6
  <1> QED
    BY <1>7 DEF rank

\* The places of a queue that are kept are finitely many numbers.
LEMMA KeptIsFinite ==
    ASSUME NEW q \in Seq(Entries), NEW C
    PROVE  /\ Kept(q, C) \in SUBSET Nat /\ Kept(q, C) \subseteq DOMAIN q
           /\ IsFiniteSet(Kept(q, C)) /\ Cardinality(Kept(q, C)) \in Nat
  <1>1. Kept(q, C) \in SUBSET (1..Len(q)) /\ Kept(q, C) \in SUBSET Nat
    BY DEF Kept
  <1>2. IsFiniteSet(Kept(q, C))
    BY <1>1, FS_Interval, FS_Subset
  <1> QED
    BY <1>1, <1>2, FS_CardinalityType DEF Kept

\* The places of the shorter queue are the kept ones in their order.
LEMMA KeptPlaces ==
    ASSUME NEW q \in Seq(Entries), NEW C
    PROVE  \E p \in [1..Cardinality(Kept(q, C)) -> Kept(q, C)] :
             /\ Without(q, C) = [k \in 1..Cardinality(Kept(q, C)) |-> q[p[k]]]
             /\ \A k, l \in 1..Cardinality(Kept(q, C)) : k < l => p[k] < p[l]
             /\ \A i \in Kept(q, C) : \E k \in 1..Cardinality(Kept(q, C)) : p[k] = i
  <1> DEFINE K == Kept(q, C)
             n == Cardinality(K)
             p == [k \in 1..n |-> CHOOSE i \in K : Rank(K, i) = k]
  <1>1. K \in SUBSET Nat /\ IsFiniteSet(K) /\ n \in Nat
    BY KeptIsFinite
  <1>2. Without(q, C) = [k \in 1..n |-> q[p[k]]]
    BY DEF Without, Rank
  <1> HIDE DEF K
  <1>3. ASSUME NEW k \in 1..n PROVE p[k] \in K /\ p[k] \in Nat /\ Rank(K, p[k]) = k
    <2>1. \E i \in K : Rank(K, i) = k
      BY <1>1, RanksFill
    <2> QED
      BY <1>1, <2>1
  <1>4. p \in [1..n -> K]
    BY <1>3
  <1> HIDE DEF p
  <1>5. ASSUME NEW k \in 1..n, NEW l \in 1..n, k < l PROVE p[k] < p[l]
    <2>1. p[l] < p[k] => l < k
      BY <1>1, <1>3, RanksRise
    <2>2. p[k] # p[l]
      BY <1>3, <1>5
    <2>3. p[k] \in Nat /\ p[l] \in Nat
      BY <1>3
    <2> QED
      BY <1>5, <2>1, <2>2, <2>3
  <1>6. ASSUME NEW i \in K PROVE \E k \in 1..n : p[k] = i
    <2>1. Rank(K, i) \in 1..n
      BY <1>1, RanksRise
    <2>2. p[Rank(K, i)] \in Nat /\ p[Rank(K, i)] \in K
      BY <1>3, <2>1
    <2>3. Rank(K, p[Rank(K, i)]) = Rank(K, i)
      BY <1>3, <2>1
    <2>4. ~(p[Rank(K, i)] < i) /\ ~(i < p[Rank(K, i)])
      BY <1>1, <2>1, <2>2, <2>3, RanksRise
    <2>5. p[Rank(K, i)] = i
      BY <1>1, <2>2, <2>4
    <2> QED
      BY <2>1, <2>5
  <1> QED
    BY <1>2, <1>4, <1>5, <1>6 DEF K

\* A queue without some entries is a queue of the others, in their order.
LEMMA WithoutIs ==
    ASSUME NEW q, IsQueue(q), NEW C
    PROVE  /\ IsQueue(Without(q, C))
           /\ Len(Without(q, C)) = Cardinality(Kept(q, C))
           /\ \A c \in Entries : In(Without(q, C), c) <=> In(q, c) /\ c \notin C
           /\ \A k, l \in DOMAIN Without(q, C) : k < l =>
                \E i, j \in DOMAIN q :
                    i < j /\ Without(q, C)[k] = q[i] /\ Without(q, C)[l] = q[j]
           /\ \A k \in DOMAIN Without(q, C) : \E i \in DOMAIN q : Without(q, C)[k] = q[i]
  <1> DEFINE K == Kept(q, C)
             n == Cardinality(K)
             w == Without(q, C)
  <1>1. q \in Seq(Entries) /\ \A i, j \in DOMAIN q : q[i] = q[j] => i = j
    BY DEF IsQueue
  <1>2. K \in SUBSET Nat /\ K \subseteq DOMAIN q /\ n \in Nat
    BY <1>1, KeptIsFinite
  <1>3. PICK p \in [1..n -> K] :
             /\ w = [k \in 1..n |-> q[p[k]]]
             /\ \A k, l \in 1..n : k < l => p[k] < p[l]
             /\ \A i \in K : \E k \in 1..n : p[k] = i
    BY <1>1, KeptPlaces
  <1>4. \A i \in DOMAIN q : i \in K <=> q[i] \notin C
    BY DEF Kept
  <1> HIDE DEF K, n, w
  <1>5. \A k \in 1..n : p[k] \in K /\ p[k] \in DOMAIN q /\ p[k] \in Nat /\ w[k] = q[p[k]]
    BY <1>2, <1>3
  <1>6. w \in Seq(Entries) /\ Len(w) = n /\ DOMAIN w = 1..n
    <2>1. \A k \in 1..n : q[p[k]] \in Entries
      BY <1>1, <1>5
    <2> QED
      BY <1>2, <1>3, <2>1
  <1>7. ASSUME NEW k \in 1..n, NEW l \in 1..n, w[k] = w[l] PROVE k = l
    <2>1. p[k] = p[l]
      BY <1>1, <1>5, <1>7
    <2>2. ~(p[k] < p[l]) /\ ~(p[l] < p[k])
      BY <1>5, <2>1
    <2> QED
      BY <1>2, <1>3, <2>2
  <1>8. ASSUME NEW c \in Entries PROVE In(w, c) <=> In(q, c) /\ c \notin C
    <2>1. ASSUME In(w, c) PROVE In(q, c) /\ c \notin C
      BY <1>4, <1>5, <1>6, <2>1 DEF In
    <2>2. ASSUME In(q, c), c \notin C PROVE In(w, c)
      <3>1. PICK i \in DOMAIN q : q[i] = c
        BY <2>2 DEF In
      <3>2. PICK k \in 1..n : p[k] = i
        BY <1>3, <1>4, <2>2, <3>1
      <3> QED
        BY <1>5, <1>6, <3>1, <3>2 DEF In
    <2> QED
      BY <2>1, <2>2
  <1>9. ASSUME NEW k \in 1..n, NEW l \in 1..n, k < l
        PROVE  \E i, j \in DOMAIN q : i < j /\ w[k] = q[i] /\ w[l] = q[j]
    <2>1. p[k] < p[l]
      BY <1>3, <1>9
    <2> QED
      BY <1>5, <2>1
  <1>10. IsQueue(w)
    BY <1>6, <1>7 DEF IsQueue
  <1> QED
    BY <1>5, <1>6, <1>8, <1>9, <1>10 DEF w, n, K

\* The first n places are n.
LEMMA PlacesCount ==
    ASSUME NEW n \in Nat
    PROVE  IsFiniteSet(1..n) /\ Cardinality(1..n) = n
  <1>1. 1 \in Int /\ n \in Int
    OBVIOUS
  <1>2. IsFiniteSet(1..n) /\ Cardinality(1..n) = IF 1 > n THEN 0 ELSE n - 1 + 1
    BY <1>1, FS_Interval
  <1> QED
    BY <1>2

\* What leaves a queue makes it as much shorter.
LEMMA KeptCount ==
    ASSUME NEW q, IsQueue(q), NEW C
    PROVE  /\ IsFiniteSet({c \in C : In(q, c)})
           /\ Cardinality(Kept(q, C)) = Len(q) - Cardinality({c \in C : In(q, c)})
  <1> DEFINE Taken == {i \in DOMAIN q : q[i] \in C}
             T == {c \in C : In(q, c)}
             f == [i \in Taken |-> q[i]]
  <1>1. q \in Seq(Entries) /\ \A i, j \in DOMAIN q : q[i] = q[j] => i = j
    BY DEF IsQueue
  <1>2. DOMAIN q = 1..Len(q) /\ Len(q) \in Nat
    BY <1>1
  <1>3. IsFiniteSet(DOMAIN q) /\ Cardinality(DOMAIN q) = Len(q)
    <2>0. Len(q) \in Nat
      BY <1>2
    <2>1. IsFiniteSet(1..Len(q)) /\ Cardinality(1..Len(q)) = Len(q)
      BY <2>0, PlacesCount
    <2> QED
      BY <1>2, <2>1
  <1>4. Taken \in SUBSET DOMAIN q /\ Kept(q, C) = DOMAIN q \ Taken
    BY DEF Kept
  <1>5. IsFiniteSet(Taken)
    BY <1>3, <1>4, FS_Subset
  <1>6. ExistsBijection(Taken, T)
    <2>1. f \in [Taken -> T]
      BY DEF In
    <2>2. \A i, j \in Taken : f[i] = f[j] => i = j
      BY <1>1
    <2>3. \A c \in T : \E i \in Taken : f[i] = c
      BY DEF In
    <2> HIDE DEF f, Taken, T
    <2>4. f \in Bijection(Taken, T)
      BY <2>1, <2>2, <2>3, Fun_IsBij
    <2> QED
      BY <2>4 DEF ExistsBijection
  <1> HIDE DEF Taken, T
  <1>7. IsFiniteSet(T) /\ Cardinality(T) = Cardinality(Taken)
    BY <1>5, <1>6, FS_Bijection
  <1>8. DOMAIN q \cap Taken = Taken
    BY <1>4
  <1>9. Cardinality(Kept(q, C)) = Len(q) - Cardinality(Taken)
    <2>1. Cardinality(DOMAIN q \ Taken) = Cardinality(DOMAIN q) - Cardinality(DOMAIN q \cap Taken)
      BY <1>3, FS_Difference
    <2> QED
      BY <1>3, <1>4, <1>8, <2>1
  <1> QED
    BY <1>7, <1>9 DEF T

\* One walk along the queue finds where the deadlines pass d.
LEMMA UpToIs ==
    ASSUME NEW q \in Seq(Entries), deadline \in [Entries -> Times], NEW d \in Times
    PROVE  /\ UpTo(q, d) \in 0..Len(q)
           /\ \A i \in 1..UpTo(q, d) : deadline[q[i]] <= d
           /\ UpTo(q, d) < Len(q) => deadline[q[UpTo(q, d) + 1]] > d
  <1> DEFINE Good(k) == /\ \A i \in 1..k : deadline[q[i]] <= d
                        /\ k < Len(q) => deadline[q[k + 1]] > d
             A == {k \in 0..Len(q) : k < Len(q) => deadline[q[k + 1]] > d}
  <1>0. Len(q) \in Nat /\ DOMAIN q = 1..Len(q)
    OBVIOUS
  <1>1. Len(q) \in A /\ A \in SUBSET Nat
    BY <1>0
  <1>2. PICK m \in A : \A k \in A : m <= k
    <2> HIDE DEF A
    <2> QED
      BY <1>1, LeastNatural
  <1>3. ASSUME NEW i \in 1..m PROVE deadline[q[i]] <= d
    <2>1. m \in 0..Len(q) /\ i - 1 \in 0..Len(q) /\ i - 1 < Len(q) /\ ~(m <= i - 1)
      BY <1>0, <1>2
    <2>2. i - 1 \notin A
      BY <1>2, <2>1
    <2>3. ~(deadline[q[i]] > d)
      BY <2>1, <2>2
    <2>4. q[i] \in Entries
      BY <1>0, <2>1
    <2>5. deadline[q[i]] \in Nat /\ d \in Nat
      BY <2>4, CallsAssumption DEF Times
    <2> QED
      BY <2>3, <2>5
  <1>4. m \in 0..Len(q) /\ Good(m)
    BY <1>2, <1>3
  <1>5. UpTo(q, d) = CHOOSE k \in 0..Len(q) : Good(k)
    BY DEF UpTo
  <1> HIDE DEF Good
  <1>6. UpTo(q, d) \in 0..Len(q) /\ Good(UpTo(q, d))
    BY <1>4, <1>5
  <1> QED
    BY <1>6 DEF Good

\* a is the first k entries of the queue q, and b are the others.
IsCut(q, k, a, b) ==
    /\ a \in Seq(Entries) /\ Len(a) = k /\ \A i \in 1..k : a[i] = q[i]
    /\ b \in Seq(Entries) /\ Len(b) = Len(q) - k
    /\ \A i \in 1..(Len(q) - k) : b[i] = q[i + k]

\* Where SubSeq cuts
LEMMA SubSeqCuts ==
    ASSUME NEW q \in Seq(Entries), NEW k \in 0..Len(q)
    PROVE  IsCut(q, k, SubSeq(q, 1, k), SubSeq(q, k + 1, Len(q)))
  <1>1. Len(q) \in Nat /\ k \in Nat /\ k <= Len(q)
    BY LenProperties
  <1>2. \A i \in 1..Len(q) : q[i] \in Entries
    BY ElementOfSeq
  <1>3. /\ SubSeq(q, 1, k) \in Seq(Entries) /\ Len(SubSeq(q, 1, k)) = k
        /\ \A i \in 1..k : SubSeq(q, 1, k)[i] = q[i]
    BY <1>1, <1>2, SubSeqProperties
  <1>4. /\ SubSeq(q, k + 1, Len(q)) \in Seq(Entries)
        /\ Len(SubSeq(q, k + 1, Len(q))) = Len(q) - k
        /\ \A i \in 1..(Len(q) - k) : SubSeq(q, k + 1, Len(q))[i] = q[i + k]
    BY <1>1, <1>2, SubSeqProperties
  <1> QED
    BY <1>3, <1>4 DEF IsCut

\* A queue cut in two is two queues that share no entry.
LEMMA SplitIs ==
    ASSUME NEW q, IsQueue(q), NEW k \in 0..Len(q), NEW a, NEW b, IsCut(q, k, a, b)
    PROVE  /\ IsQueue(a) /\ IsQueue(b)
           /\ \A c \in Entries : In(q, c) <=> In(a, c) \/ In(b, c)
           /\ \A c \in Entries : ~(In(a, c) /\ In(b, c))
  <1>1. q \in Seq(Entries) /\ (\A i, j \in DOMAIN q : q[i] = q[j] => i = j)
    BY DEF IsQueue
  <1>2. Len(q) \in Nat /\ DOMAIN q = 1..Len(q) /\ k \in Nat /\ k <= Len(q)
    BY <1>1
  <1>3. a \in Seq(Entries) /\ Len(a) = k /\ DOMAIN a = 1..k /\ \A i \in 1..k : a[i] = q[i]
    BY <1>2 DEF IsCut
  <1>4. /\ b \in Seq(Entries) /\ Len(b) = Len(q) - k /\ DOMAIN b = 1..(Len(q) - k)
        /\ \A i \in 1..(Len(q) - k) : b[i] = q[i + k]
    BY <1>2 DEF IsCut
  <1>5. IsQueue(a)
    BY <1>1, <1>2, <1>3 DEF IsQueue
  <1>6. IsQueue(b)
    <2>1. ASSUME NEW i \in 1..(Len(q) - k), NEW j \in 1..(Len(q) - k), b[i] = b[j] PROVE i = j
      BY <1>1, <1>2, <1>4, <2>1
    <2> QED
      BY <1>4, <2>1 DEF IsQueue
  <1>7. ASSUME NEW c \in Entries
        PROVE  (In(q, c) <=> In(a, c) \/ In(b, c)) /\ ~(In(a, c) /\ In(b, c))
    <2>1. In(a, c) \/ In(b, c) => In(q, c)
      <3>1. In(a, c) => In(q, c)
        BY <1>2, <1>3 DEF In
      <3>2. ASSUME NEW i \in 1..(Len(q) - k), b[i] = c PROVE In(q, c)
        <4>1. i + k \in 1..Len(q) /\ q[i + k] = c
          BY <1>2, <1>4, <3>2
        <4> QED
          BY <1>2, <4>1 DEF In
      <3> QED
        BY <1>4, <3>1, <3>2 DEF In
    <2>2. ASSUME In(q, c) PROVE In(a, c) \/ In(b, c)
      <3>1. PICK i \in 1..Len(q) : q[i] = c
        BY <1>2, <2>2 DEF In
      <3>2. CASE i <= k
        BY <1>3, <3>1, <3>2 DEF In
      <3>3. CASE i > k
        <4>1. i - k \in 1..(Len(q) - k) /\ b[i - k] = c
          BY <1>2, <1>4, <3>1, <3>3
        <4> QED
          BY <1>4, <4>1 DEF In
      <3> QED
        BY <3>2, <3>3
    <2>3. ~(In(a, c) /\ In(b, c))
      <3>1. ASSUME NEW i \in 1..k, NEW j \in 1..(Len(q) - k), a[i] = c, b[j] = c PROVE FALSE
        <4>1. i \in DOMAIN q /\ j + k \in DOMAIN q /\ q[i] = q[j + k] /\ i # j + k
          BY <1>2, <1>3, <1>4, <3>1
        <4> QED
          BY <1>1, <4>1
      <3> QED
        BY <1>3, <1>4, <3>1 DEF In
    <2> QED
      BY <2>1, <2>2, <2>3
  <1> QED
    BY <1>3, <1>4, <1>5, <1>6, <1>7

\* Two queues that share no entry make one queue.
LEMMA JoinIs ==
    ASSUME NEW a, IsQueue(a), NEW b, IsQueue(b),
           \A c \in Entries : ~(In(a, c) /\ In(b, c))
    PROVE  /\ IsQueue(a \o b) /\ Len(a \o b) = Len(a) + Len(b)
           /\ \A c \in Entries : In(a \o b, c) <=> In(a, c) \/ In(b, c)
  <1> DEFINE q == a \o b
  <1>1. /\ a \in Seq(Entries) /\ (\A i, j \in DOMAIN a : a[i] = a[j] => i = j)
        /\ b \in Seq(Entries) /\ (\A i, j \in DOMAIN b : b[i] = b[j] => i = j)
    BY DEF IsQueue
  <1>2. /\ Len(a) \in Nat /\ DOMAIN a = 1..Len(a)
        /\ Len(b) \in Nat /\ DOMAIN b = 1..Len(b)
    BY <1>1
  <1>3. /\ q \in Seq(Entries) /\ Len(q) = Len(a) + Len(b) /\ DOMAIN q = 1..(Len(a) + Len(b))
        /\ \A i \in 1..Len(a) : q[i] = a[i]
        /\ \A i \in 1..(Len(a) + Len(b)) : i > Len(a) => q[i] = b[i - Len(a)]
    BY <1>1
  <1> HIDE DEF q
  <1>4. ASSUME NEW i \in 1..Len(a), NEW j \in 1..Len(b) PROVE a[i] # b[j]
    <2>1. a[i] \in Entries /\ In(a, a[i])
      BY <1>1, <1>2 DEF In
    <2>2. a[i] = b[j] => In(b, a[i])
      BY <1>2 DEF In
    <2> QED
      BY <2>1, <2>2
  <1>5. ASSUME NEW i \in DOMAIN q, NEW j \in DOMAIN q, q[i] = q[j] PROVE i = j
    <2>1. CASE i <= Len(a) /\ j <= Len(a)
      BY <1>1, <1>2, <1>3, <1>5, <2>1
    <2>2. CASE i > Len(a) /\ j > Len(a)
      <3>1. i - Len(a) \in DOMAIN b /\ j - Len(a) \in DOMAIN b
        BY <1>2, <1>3, <2>2
      <3>2. b[i - Len(a)] = b[j - Len(a)]
        BY <1>3, <1>5, <2>2
      <3>3. i - Len(a) = j - Len(a)
        BY <1>1, <3>1, <3>2
      <3> QED
        BY <1>2, <1>3, <3>3
    <2>3. CASE i <= Len(a) /\ j > Len(a)
      <3>1. i \in 1..Len(a) /\ j - Len(a) \in 1..Len(b) /\ a[i] = b[j - Len(a)]
        BY <1>2, <1>3, <1>5, <2>3
      <3> QED
        BY <1>4, <3>1
    <2>4. CASE i > Len(a) /\ j <= Len(a)
      <3>1. j \in 1..Len(a) /\ i - Len(a) \in 1..Len(b) /\ a[j] = b[i - Len(a)]
        BY <1>2, <1>3, <1>5, <2>4
      <3> QED
        BY <1>4, <3>1
    <2> QED
      BY <1>2, <1>3, <2>1, <2>2, <2>3, <2>4
  <1>6. ASSUME NEW c \in Entries PROVE In(q, c) <=> In(a, c) \/ In(b, c)
    <2>1. In(q, c) => In(a, c) \/ In(b, c)
      BY <1>2, <1>3 DEF In
    <2>2. In(a, c) => In(q, c)
      BY <1>2, <1>3 DEF In
    <2>3. ASSUME In(b, c) PROVE In(q, c)
      <3>1. PICK i \in 1..Len(b) : b[i] = c
        BY <1>2, <2>3 DEF In
      <3>2. i + Len(a) \in DOMAIN q /\ q[i + Len(a)] = c
        BY <1>2, <1>3, <3>1
      <3> QED
        BY <3>2 DEF In
    <2> QED
      BY <2>1, <2>2, <2>3
  <1> QED
    BY <1>3, <1>5, <1>6 DEF IsQueue, q

\* A queue of one entry
LEMMA SingleIs ==
    ASSUME NEW c \in Entries
    PROVE  IsQueue(<<c>>) /\ Len(<<c>>) = 1 /\ \A e \in Entries : In(<<c>>, e) <=> e = c
  BY DEF IsQueue, In

\* call_entry_enqueue_deadline keeps the queue in the order of deadlines.  The entry
\* that is first afterwards is the new one, or one that is not due before the old first.
LEMMA EnqueueDeadlineIs ==
    ASSUME NEW q, IsQueue(q), Sorted(q, deadline), deadline \in [Entries -> Times],
           NEW c \in Entries, queue[c] = "delayed" <=> In(q, c), NEW d \in Times
    PROVE  LET r == EnqueueDeadline(q, c, d)
           IN  /\ IsQueue(r) /\ r # <<>>
               /\ \A e \in Entries : In(r, e) <=> In(q, e) \/ e = c
               /\ Sorted(r, [deadline EXCEPT ![c] = d])
               /\ r[1] # c => q # <<>> /\ deadline[q[1]] <= deadline[r[1]]
  <1> DEFINE r == EnqueueDeadline(q, c, d)
  <1> HIDE DEF r
  <1> SUFFICES /\ IsQueue(r) /\ r # <<>>
               /\ \A e \in Entries : In(r, e) <=> In(q, e) \/ e = c
               /\ Sorted(r, [deadline EXCEPT ![c] = d])
               /\ r[1] # c => q # <<>> /\ deadline[q[1]] <= deadline[r[1]]
    BY DEF r
  <1> DEFINE dl == [deadline EXCEPT ![c] = d]
  <1>0. /\ q \in Seq(Entries) /\ Len(q) \in Nat /\ DOMAIN q = 1..Len(q)
        /\ q # <<>> <=> Len(q) > 0
    BY DEF IsQueue
  <1>1. ASSUME NEW e \in Entries
        PROVE  /\ deadline[e] \in Int /\ d \in Int
               /\ dl[e] = IF e = c THEN d ELSE deadline[e]
    BY CallsAssumption DEF Times
  <1> HIDE DEF dl
  <1>2. CASE queue[c] = "delayed" /\ deadline[c] = d
    <2>1. r = q
      BY <1>2 DEF EnqueueDeadline, r
    <2>2. In(q, c) /\ Len(q) > 0
      BY <1>0, <1>2 DEF In
    <2>3. \A i \in DOMAIN q : q[i] \in Entries /\ dl[q[i]] = deadline[q[i]]
      BY <1>0, <1>1, <1>2
    <2>4. Sorted(q, dl)
      BY <2>3 DEF Sorted
    <2>5. deadline[q[1]] <= deadline[q[1]]
      BY <1>0, <1>1, <2>2
    <2> QED
      BY <1>0, <2>1, <2>2, <2>4, <2>5 DEF dl
  <1>3. CASE ~(queue[c] = "delayed" /\ deadline[c] = d)
    <2> DEFINE rest == Without(q, {c})
               k == UpTo(rest, d)
               a == SubSeq(rest, 1, k)
               b == SubSeq(rest, k + 1, Len(rest))
    <2>1. r = a \o <<c>> \o b
      BY <1>3 DEF EnqueueDeadline, r
    <2>2. /\ IsQueue(rest)
          /\ \A e \in Entries : In(rest, e) <=> In(q, e) /\ e # c
          /\ \A i, j \in DOMAIN rest : i < j =>
                \E m, n \in DOMAIN q : m < n /\ rest[i] = q[m] /\ rest[j] = q[n]
          /\ \A i \in DOMAIN rest : \E m \in DOMAIN q : rest[i] = q[m]
      BY WithoutIs
    <2> HIDE DEF rest
    <2>3. rest \in Seq(Entries) /\ Len(rest) \in Nat /\ DOMAIN rest = 1..Len(rest)
      BY <2>2 DEF IsQueue
    <2>4. /\ k \in 0..Len(rest) /\ \A i \in 1..k : deadline[rest[i]] <= d
          /\ k < Len(rest) => deadline[rest[k + 1]] > d
      BY <2>3, UpToIs
    <2> HIDE DEF k
    <2>5. IsCut(rest, k, a, b)
      BY <2>3, <2>4, SubSeqCuts
    <2> HIDE DEF a, b
    <2>6. /\ IsQueue(a) /\ IsQueue(b)
          /\ \A e \in Entries : In(rest, e) <=> In(a, e) \/ In(b, e)
          /\ \A e \in Entries : ~(In(a, e) /\ In(b, e))
      BY <2>2, <2>4, <2>5, SplitIs
    <2>7. /\ IsQueue(<<c>>) /\ Len(<<c>>) = 1
          /\ \A e \in Entries : In(<<c>>, e) <=> e = c
      BY SingleIs
    <2>8. /\ IsQueue(a \o <<c>>)
          /\ \A e \in Entries : In(a \o <<c>>, e) <=> In(a, e) \/ e = c
      BY <2>2, <2>6, <2>7, JoinIs
    <2>9. IsQueue(r) /\ \A e \in Entries : In(r, e) <=> In(a, e) \/ e = c \/ In(b, e)
      BY <2>1, <2>2, <2>6, <2>8, JoinIs
    <2>10. \A e \in Entries : In(r, e) <=> In(q, e) \/ e = c
      BY <2>2, <2>6, <2>9
    <2>11. /\ Len(r) = Len(rest) + 1
           /\ \A i \in 1..k : r[i] = rest[i]
           /\ r[k + 1] = c
           /\ \A i \in (k + 2)..(Len(rest) + 1) : r[i] = rest[i - 1]
      <3>1. /\ a \in Seq(Entries) /\ Len(a) = k /\ \A i \in 1..k : a[i] = rest[i]
            /\ b \in Seq(Entries) /\ Len(b) = Len(rest) - k
            /\ \A i \in 1..(Len(rest) - k) : b[i] = rest[i + k]
        BY <2>5 DEF IsCut
      <3>2. /\ a \o <<c>> \in Seq(Entries) /\ Len(a \o <<c>>) = k + 1
            /\ \A i \in 1..k : (a \o <<c>>)[i] = rest[i]
            /\ (a \o <<c>>)[k + 1] = c
        BY <2>4, <3>1
      <3> DEFINE ac == a \o <<c>>
      <3>3. /\ ac \in Seq(Entries) /\ Len(ac) = k + 1
            /\ \A i \in 1..k : ac[i] = rest[i]
            /\ ac[k + 1] = c
            /\ r = ac \o b
        BY <2>1, <3>2
      <3> HIDE DEF ac
      <3>4. /\ Len(r) = k + 1 + (Len(rest) - k)
            /\ \A i \in 1..(k + 1 + (Len(rest) - k)) :
                  r[i] = IF i <= k + 1 THEN ac[i] ELSE b[i - (k + 1)]
        <4>0. ac \in Seq(Entries) /\ b \in Seq(Entries)
          BY <3>1, <3>3
        <4>1. /\ Len(ac \o b) = Len(ac) + Len(b)
              /\ \A i \in 1..(Len(ac) + Len(b)) :
                    (ac \o b)[i] = IF i <= Len(ac) THEN ac[i] ELSE b[i - Len(ac)]
          BY <4>0
        <4>2. Len(ac) = k + 1 /\ Len(b) = Len(rest) - k /\ r = ac \o b
          BY <3>1, <3>3
        <4> QED
          BY <4>1, <4>2
      <3>5. ASSUME NEW i \in (k + 2)..(Len(rest) + 1) PROVE r[i] = rest[i - 1]
        <4>1. r[i] = b[i - (k + 1)]
          BY <2>3, <2>4, <3>4
        <4>2. i - (k + 1) \in 1..(Len(rest) - k) /\ i - (k + 1) + k = i - 1
          BY <2>3, <2>4
        <4> QED
          BY <3>1, <4>1, <4>2
      <3> QED
        BY <2>3, <2>4, <3>3, <3>4, <3>5
    <2>12. \A i \in 1..Len(rest) : rest[i] \in Entries /\ rest[i] # c
      <3> SUFFICES ASSUME NEW i \in 1..Len(rest) PROVE rest[i] \in Entries /\ rest[i] # c
        OBVIOUS
      <3>1. rest[i] \in Entries /\ In(rest, rest[i])
        BY <2>3 DEF In
      <3> QED
        BY <2>2, <3>1
    <2>13. \A i, j \in 1..Len(rest) : i <= j => deadline[rest[i]] <= deadline[rest[j]]
      <3> SUFFICES ASSUME NEW i \in 1..Len(rest), NEW j \in 1..Len(rest), i <= j
                   PROVE  deadline[rest[i]] <= deadline[rest[j]]
        OBVIOUS
      <3>1. CASE i < j
        BY <2>2, <2>3, <3>1 DEF Sorted
      <3>2. CASE i = j
        BY <1>1, <2>12, <3>2
      <3> QED
        BY <3>1, <3>2
    <2>14. Sorted(r, dl)
      <3>1. DOMAIN r = 1..(Len(rest) + 1)
        BY <2>9, <2>11 DEF IsQueue
      <3>2. ASSUME NEW i \in 1..Len(rest) PROVE i <= k => deadline[rest[i]] <= d
        BY <2>4
      <3>3. ASSUME NEW i \in 1..Len(rest), i > k PROVE deadline[rest[i]] >= d
        <4>1. deadline[rest[k + 1]] > d /\ k + 1 \in 1..Len(rest) /\ k + 1 <= i
          BY <2>3, <2>4, <3>3
        <4>2. deadline[rest[k + 1]] <= deadline[rest[i]]
          BY <2>13, <4>1
        <4>3. deadline[rest[k + 1]] \in Int /\ deadline[rest[i]] \in Int /\ d \in Int
          BY <1>1, <2>12, <4>1
        <4> QED
          BY <4>1, <4>2, <4>3
      <3>4. ASSUME NEW i \in 1..(Len(rest) + 1)
            PROVE  \/ i = k + 1 /\ dl[r[i]] = d
                   \/ /\ i <= k /\ i \in 1..Len(rest)
                      /\ dl[r[i]] = deadline[rest[i]]
                   \/ /\ i > k + 1 /\ i - 1 \in 1..Len(rest) /\ i - 1 > k
                      /\ dl[r[i]] = deadline[rest[i - 1]]
        <4>1. CASE i = k + 1
          BY <1>1, <2>11, <4>1
        <4>2. CASE i <= k
          BY <1>1, <2>3, <2>4, <2>11, <2>12, <4>2
        <4>3. CASE i > k + 1
          <5>1. r[i] = rest[i - 1] /\ i - 1 \in 1..Len(rest) /\ i - 1 > k
            BY <2>3, <2>4, <2>11, <4>3
          <5> QED
            BY <1>1, <2>12, <4>3, <5>1
        <4> QED
          BY <2>4, <4>1, <4>2, <4>3
      <3>5. ASSUME NEW i \in 1..(Len(rest) + 1), NEW j \in 1..(Len(rest) + 1), i < j
            PROVE  dl[r[i]] <= dl[r[j]]
        <4>0. \A m \in 1..Len(rest) : deadline[rest[m]] \in Int /\ d \in Int
          BY <1>1, <2>12
        <4>1. CASE i = k + 1
          BY <2>4, <3>3, <3>4, <3>5, <4>0, <4>1
        <4>2. CASE i <= k
          <5>1. dl[r[i]] = deadline[rest[i]] /\ i \in 1..Len(rest) /\ deadline[rest[i]] <= d
            BY <2>4, <3>2, <3>4, <4>2
          <5>2. CASE j = k + 1
            BY <2>4, <3>4, <5>1, <5>2
          <5>3. CASE j <= k
            BY <2>4, <2>13, <3>4, <3>5, <5>1, <5>3
          <5>4. CASE j > k + 1
            <6>1. /\ dl[r[j]] = deadline[rest[j - 1]] /\ j - 1 \in 1..Len(rest)
                  /\ i <= j - 1
              BY <2>4, <3>4, <3>5, <5>4
            <6> QED
              BY <2>13, <5>1, <6>1
          <5> QED
            BY <2>4, <5>2, <5>3, <5>4
        <4>3. CASE i > k + 1
          <5>1. /\ dl[r[i]] = deadline[rest[i - 1]] /\ i - 1 \in 1..Len(rest)
                /\ dl[r[j]] = deadline[rest[j - 1]] /\ j - 1 \in 1..Len(rest)
                /\ i - 1 <= j - 1
            BY <2>4, <3>4, <3>5, <4>3
          <5> QED
            BY <2>13, <5>1
        <4> QED
          BY <2>4, <4>1, <4>2, <4>3
      <3> QED
        BY <3>1, <3>5 DEF Sorted
    <2>15. ASSUME r[1] # c PROVE q # <<>> /\ deadline[q[1]] <= deadline[r[1]]
      <3>1. k >= 1 /\ r[1] = rest[1] /\ 1 \in DOMAIN rest
        BY <2>3, <2>4, <2>11, <2>15
      <3>2. PICK m \in DOMAIN q : rest[1] = q[m]
        BY <2>2, <3>1
      <3>3. Len(q) > 0 /\ 1 \in DOMAIN q /\ (m = 1 \/ 1 < m)
        BY <1>0, <3>2
      <3>4. deadline[q[1]] <= deadline[q[m]]
        BY <1>0, <1>1, <3>3 DEF Sorted
      <3> QED
        BY <1>0, <3>1, <3>2, <3>3, <3>4
    <2>16. r # <<>>
      BY <2>3, <2>9, <2>11 DEF IsQueue
    <2> QED
      BY <2>9, <2>10, <2>14, <2>15, <2>16 DEF dl
  <1> QED
    BY <1>2, <1>3

(***************************************************************************)
(* The invariant.                                                          *)
(***************************************************************************)
States == {"none", "ready", "run", "blocked", "idle"}
Idle(th) == {t \in Threads : th[t] = "idle"}
Active(th) == {t \in Threads : th[t] \in {"ready", "run"}}
Creating(d) == IF d = "creating" THEN 1 ELSE 0

\* The entries know where they are, and who may use them.
EntriesInv ==
    /\ queue \in [Entries -> {"none", "pending", "delayed"}]
    /\ func \in [Entries -> Funcs] /\ deadline \in [Entries -> Times]
    /\ free \subseteq Internal /\ allocated \subseteq External
    /\ \A c \in Internal : c \in free <=> queue[c] = "none"
    /\ \A c \in External \ allocated : queue[c] = "none"

\* The queues have the entries that say so, once.
QueuesInv ==
    /\ IsQueue(pending) /\ IsQueue(delayed) /\ pending_count = Len(pending)
    /\ \A c \in Entries : /\ In(pending, c) <=> queue[c] = "pending"
                          /\ In(delayed, c) <=> queue[c] = "delayed"

\* The timer is set for the first delayed entry or earlier, or has expired.
ClockInv ==
    /\ timer \in Times \cup {NoTimer} /\ firing \in 0..Cpus /\ now \in Times
    /\ Sorted(delayed, deadline)
    /\ delayed # <<>> => firing > 0 \/ timer <= deadline[delayed[1]]

\* The threads are counted.
WorkersInv ==
    /\ thread \in [Threads -> States]
    /\ daemon \in {"awake", "creating", "asleep"} /\ daemon_awake = (daemon # "asleep")
    /\ idle_count = Cardinality(Idle(thread)) /\ idle_count <= ThreadMin
    /\ active_count = Cardinality(Active(thread)) + Creating(daemon)

IndInv == EntriesInv /\ QueuesInv /\ ClockInv /\ WorkersInv /\ PendingIsServed

(***************************************************************************)
(* Threads.                                                                *)
(***************************************************************************)
\* A set of threads that one thread enters, or leaves
LEMMA OneMoves ==
    ASSUME NEW A \in SUBSET Threads, NEW t \in Threads
    PROVE  /\ Cardinality(A) \in Nat
           /\ t \in A => Cardinality(A) > 0
           /\ Cardinality(A \cup {t}) = IF t \in A THEN Cardinality(A) ELSE Cardinality(A) + 1
           /\ Cardinality(A \ {t}) = IF t \in A THEN Cardinality(A) - 1 ELSE Cardinality(A)
  <1>1. IsFiniteSet(A)
    BY CallsAssumption, FS_Subset
  <1>2. Cardinality(A) \in Nat
    BY <1>1, FS_CardinalityType
  <1>3. Cardinality(A \cup {t}) = IF t \in A THEN Cardinality(A) ELSE Cardinality(A) + 1
    BY <1>1, FS_AddElement
  <1>4. Cardinality(A \ {t}) = IF t \in A THEN Cardinality(A) - 1 ELSE Cardinality(A)
    BY <1>1, FS_RemoveElement
  <1>5. t \in A => Cardinality(A) # 0
    BY <1>1, FS_EmptySet
  <1> QED
    BY <1>2, <1>3, <1>4, <1>5

\* The states th of the threads after thread t goes to state s
Move(th, t, s) == [th EXCEPT ![t] = s]

\* What a thread that changes its state does to the two counts
LEMMA ThreadMoves ==
    ASSUME NEW th \in [Threads -> States], NEW t \in Threads, NEW s \in States
    PROVE  /\ Move(th, t, s) \in [Threads -> States]
           /\ Cardinality(Idle(th)) \in Nat /\ Cardinality(Active(th)) \in Nat
           /\ th[t] = "idle" => Cardinality(Idle(th)) > 0
           /\ th[t] \in {"ready", "run"} => Cardinality(Active(th)) > 0
           /\ th[t] = "idle" /\ s # "idle" =>
                Cardinality(Idle(Move(th, t, s))) = Cardinality(Idle(th)) - 1
           /\ th[t] # "idle" /\ s = "idle" =>
                Cardinality(Idle(Move(th, t, s))) = Cardinality(Idle(th)) + 1
           /\ th[t] # "idle" /\ s # "idle" =>
                Cardinality(Idle(Move(th, t, s))) = Cardinality(Idle(th))
           /\ th[t] \in {"ready", "run"} /\ s \notin {"ready", "run"} =>
                Cardinality(Active(Move(th, t, s))) = Cardinality(Active(th)) - 1
           /\ th[t] \notin {"ready", "run"} /\ s \in {"ready", "run"} =>
                Cardinality(Active(Move(th, t, s))) = Cardinality(Active(th)) + 1
           /\ th[t] \in {"ready", "run"} /\ s \in {"ready", "run"} =>
                Cardinality(Active(Move(th, t, s))) = Cardinality(Active(th))
           /\ th[t] \notin {"ready", "run"} /\ s \notin {"ready", "run"} =>
                Cardinality(Active(Move(th, t, s))) = Cardinality(Active(th))
  <1> DEFINE m == Move(th, t, s)
  <1>1. m \in [Threads -> States]
    BY DEF Move
  <1>2. Idle(th) \in SUBSET Threads /\ Active(th) \in SUBSET Threads
    BY DEF Idle, Active
  <1>3. /\ t \in Idle(th) <=> th[t] = "idle"
        /\ t \in Active(th) <=> th[t] \in {"ready", "run"}
    BY DEF Idle, Active
  <1>4. /\ s = "idle" => Idle(m) = Idle(th) \cup {t}
        /\ s # "idle" => Idle(m) = Idle(th) \ {t}
    BY DEF Idle, Move
  <1>5. /\ s \in {"ready", "run"} => Active(m) = Active(th) \cup {t}
        /\ s \notin {"ready", "run"} => Active(m) = Active(th) \ {t}
    BY DEF Active, Move
  <1> HIDE DEF m
  <1>6. /\ Cardinality(Idle(th)) \in Nat
        /\ t \in Idle(th) => Cardinality(Idle(th)) > 0
        /\ t \in Idle(th) => Cardinality(Idle(th) \ {t}) = Cardinality(Idle(th)) - 1
        /\ t \notin Idle(th) => Cardinality(Idle(th) \cup {t}) = Cardinality(Idle(th)) + 1
        /\ t \notin Idle(th) => Cardinality(Idle(th) \ {t}) = Cardinality(Idle(th))
    BY <1>2, OneMoves
  <1>7. /\ Cardinality(Active(th)) \in Nat
        /\ t \in Active(th) => Cardinality(Active(th)) > 0
        /\ t \in Active(th) => Cardinality(Active(th) \ {t}) = Cardinality(Active(th)) - 1
        /\ t \in Active(th) => Cardinality(Active(th) \cup {t}) = Cardinality(Active(th))
        /\ t \notin Active(th) => Cardinality(Active(th) \cup {t}) = Cardinality(Active(th)) + 1
        /\ t \notin Active(th) => Cardinality(Active(th) \ {t}) = Cardinality(Active(th))
    BY <1>2, OneMoves
  <1> QED
    BY <1>1, <1>3, <1>4, <1>5, <1>6, <1>7 DEF m

\* thread_call_wake leaves the counts right and somebody to serve the queue.
LEMMA WakeServes ==
    ASSUME NEW th \in [Threads -> States], NEW active,
           daemon \in {"awake", "creating", "asleep"}, daemon_awake = (daemon # "asleep"),
           idle_count = Cardinality(Idle(th)), idle_count <= ThreadMin,
           active = Cardinality(Active(th)) + Creating(daemon),
           ThreadCallWake(th, active)
    PROVE  WorkersInv' /\ (active_count' > 0 \/ daemon' # "asleep")
  <1>0. ThreadMin \in Nat /\ Creating(daemon) \in {0, 1}
    BY CallsAssumption DEF Creating
  <1>1. CASE idle_count > 0 /\ \E t \in Threads : th[t] = "idle"
    <2>1. PICK t \in Threads : th[t] = "idle" /\ thread' = [th EXCEPT ![t] = "ready"]
      BY <1>1 DEF ThreadCallWake
    <2>2. /\ idle_count' = idle_count - 1 /\ active_count' = active + 1
          /\ daemon_awake' = daemon_awake /\ daemon' = daemon
      BY <1>1 DEF ThreadCallWake
    <2>3. /\ thread' \in [Threads -> States]
          /\ Cardinality(Idle(th)) \in Nat /\ Cardinality(Active(th)) \in Nat
          /\ Cardinality(Idle(thread')) = Cardinality(Idle(th)) - 1
          /\ Cardinality(Active(thread')) = Cardinality(Active(th)) + 1
      <3>1. "ready" \in States
        BY DEF States
      <3>2. thread' = Move(th, t, "ready")
        BY <2>1 DEF Move
      <3>3. th[t] = "idle"
        BY <2>1
      <3> QED
        BY <3>1, <3>2, <3>3, ThreadMoves
    <2>4. /\ idle_count' = Cardinality(Idle(thread')) /\ idle_count' <= ThreadMin
          /\ active_count' = Cardinality(Active(thread')) + Creating(daemon')
          /\ active_count' > 0
      BY <1>0, <2>2, <2>3
    <2>5. Idle(thread)' = Idle(thread') /\ Active(thread)' = Active(thread')
      BY DEF Idle, Active
    <2> QED
      BY <2>2, <2>3, <2>4, <2>5 DEF WorkersInv
  <1>2. CASE ~(idle_count > 0 /\ \E t \in Threads : th[t] = "idle")
    <2>1. /\ daemon_awake' = TRUE /\ daemon' = IF daemon_awake THEN daemon ELSE "awake"
          /\ thread' = th /\ active_count' = active /\ idle_count' = idle_count
      BY <1>2 DEF ThreadCallWake
    <2>2. daemon' \in {"awake", "creating"} /\ Creating(daemon') = Creating(daemon)
      BY <2>1 DEF Creating
    <2>3. daemon_awake' = (daemon' # "asleep")
      BY <2>1, <2>2
    <2> QED
      BY <2>1, <2>2, <2>3 DEF WorkersInv, Idle, Active, Creating
  <1> QED
    BY <1>1, <1>2

\* A call that was queued finds an active thread or wakes somebody.
LEMMA QueuedIsServed ==
    ASSUME WorkersInv, WakeIfNoneActive
    PROVE  WorkersInv' /\ PendingIsServed'
  <1>1. CASE active_count = 0
    <2>1. ThreadCallWake(thread, active_count)
      BY <1>1 DEF WakeIfNoneActive
    <2>2. WorkersInv' /\ (active_count' > 0 \/ daemon' # "asleep")
      BY <2>1, WakeServes DEF WorkersInv
    <2> QED
      BY <2>2 DEF PendingIsServed
  <1>2. CASE active_count # 0
    <2>1. UNCHANGED workers
      BY <1>2 DEF WakeIfNoneActive
    <2>2. Active(thread) \in SUBSET Threads
      BY DEF Active
    <2>3. Cardinality(Active(thread)) \in Nat
      BY <2>2, CallsAssumption, FS_Subset, FS_CardinalityType
    <2>4. active_count > 0
      BY <1>2, <2>3 DEF WorkersInv, Creating
    <2> QED
      BY <2>1, <2>4 DEF WorkersInv, workers, Idle, Active, PendingIsServed
  <1> QED
    BY <1>1, <1>2

(***************************************************************************)
(* Queues.                                                                 *)
(***************************************************************************)
\* Entries are taken off the delayed queue: the timer stays early enough.
LEMMA DequeueKeepsClock ==
    ASSUME EntriesInv, QueuesInv, ClockInv, NEW C, delayed' = Without(delayed, C),
           UNCHANGED deadline, UNCHANGED clock
    PROVE  ClockInv'
  <1> DEFINE w == Without(delayed, C)
  <1>1. IsQueue(delayed) /\ delayed \in Seq(Entries)
    BY DEF QueuesInv, IsQueue
  <1>2. /\ IsQueue(w)
        /\ \A k, l \in DOMAIN w : k < l =>
                \E i, j \in DOMAIN delayed : i < j /\ w[k] = delayed[i] /\ w[l] = delayed[j]
        /\ \A k \in DOMAIN w : \E i \in DOMAIN delayed : w[k] = delayed[i]
    BY <1>1, WithoutIs
  <1> HIDE DEF w
  <1>3. Sorted(w, deadline)
    BY <1>2 DEF Sorted, ClockInv
  <1>4. ASSUME w # <<>> PROVE firing > 0 \/ timer <= deadline[w[1]]
    <2>1. 1 \in DOMAIN w
      BY <1>2, <1>4 DEF IsQueue
    <2>2. PICK i \in DOMAIN delayed : w[1] = delayed[i]
      BY <1>2, <2>1
    <2>3. delayed # <<>> /\ 1 \in DOMAIN delayed /\ (i = 1 \/ 1 < i)
      BY <1>1, <2>2
    <2>4. delayed[1] \in Entries /\ delayed[i] \in Entries
      BY <1>1, <2>2, <2>3
    <2>5. deadline[delayed[1]] \in Int /\ deadline[delayed[i]] \in Int /\ timer \in Int
      BY <2>4, CallsAssumption DEF EntriesInv, ClockInv, Times, NoTimer
    <2>6. deadline[delayed[1]] <= deadline[delayed[i]]
      BY <2>2, <2>3, <2>5 DEF Sorted, ClockInv
    <2>7. firing > 0 \/ timer <= deadline[delayed[1]]
      BY <2>3 DEF ClockInv
    <2> QED
      BY <2>2, <2>5, <2>6, <2>7
  <1>5. delayed' = w
    BY DEF w
  <1>6. Sorted(delayed, deadline)' <=> Sorted(w, deadline)
    BY <1>5 DEF Sorted
  <1>7. timer' = timer /\ firing' = firing /\ now' = now /\ deadline' = deadline
    BY DEF clock
  <1> QED
    BY <1>3, <1>4, <1>5, <1>6, <1>7 DEF ClockInv

\* _pending_call_enqueue
LEMMA PendingEnqueued ==
    ASSUME EntriesInv, QueuesInv, NEW c \in Entries, queue[c] # "pending",
           PendingCallEnqueue(c)
    PROVE  QueuesInv'
  <1> DEFINE p == Without(pending, {c})
             w == Without(delayed, {c})
  <1>1. IsQueue(pending) /\ IsQueue(delayed) /\ ~In(pending, c)
    BY DEF QueuesInv
  <1>2. /\ IsQueue(p) /\ Len(p) = Cardinality(Kept(pending, {c}))
        /\ \A e \in Entries : In(p, e) <=> In(pending, e) /\ e \notin {c}
    BY <1>1, WithoutIs
  <1>3. Cardinality(Kept(pending, {c})) = Len(pending)
    <2>1. {e \in {c} : In(pending, e)} = {}
      BY <1>1
    <2>2. Cardinality(Kept(pending, {c})) = Len(pending) - 0
      BY <1>1, <2>1, KeptCount, FS_EmptySet
    <2>3. Len(pending) \in Nat
      BY <1>1 DEF IsQueue
    <2> QED
      BY <2>2, <2>3
  <1>4. /\ IsQueue(w)
        /\ \A e \in Entries : In(w, e) <=> In(delayed, e) /\ e \notin {c}
    BY <1>1, WithoutIs
  <1>5. /\ pending' = Append(p, c) /\ delayed' = w
        /\ pending_count' = pending_count + 1
        /\ queue' = [queue EXCEPT ![c] = "pending"]
    BY DEF PendingCallEnqueue
  <1> HIDE DEF p, w
  <1>6. /\ IsQueue(<<c>>) /\ Len(<<c>>) = 1
        /\ \A e \in Entries : In(<<c>>, e) <=> e = c
    BY SingleIs
  <1>7. /\ IsQueue(p \o <<c>>) /\ Len(p \o <<c>>) = Len(p) + Len(<<c>>)
        /\ \A e \in Entries : In(p \o <<c>>, e) <=> In(p, e) \/ In(<<c>>, e)
    BY <1>2, <1>6, JoinIs
  <1>8. pending' = p \o <<c>>
    BY <1>2, <1>5 DEF IsQueue
  <1>9. pending_count' = Len(pending')
    BY <1>2, <1>3, <1>5, <1>6, <1>7, <1>8 DEF QueuesInv
  <1>10. ASSUME NEW e \in Entries
         PROVE  /\ In(pending', e) <=> queue'[e] = "pending"
                /\ In(delayed', e) <=> queue'[e] = "delayed"
    <2>1. queue'[e] = IF e = c THEN "pending" ELSE queue[e]
      BY <1>5 DEF EntriesInv
    <2>2. In(pending', e) <=> In(pending, e) \/ e = c
      BY <1>1, <1>2, <1>6, <1>7, <1>8
    <2>3. In(delayed', e) <=> In(delayed, e) /\ e # c
      BY <1>4, <1>5
    <2> QED
      BY <2>1, <2>2, <2>3 DEF QueuesInv
  <1>11. /\ IsQueue(pending)' <=> IsQueue(pending')
         /\ IsQueue(delayed)' <=> IsQueue(delayed')
         /\ \A e \in Entries : /\ In(pending, e)' <=> In(pending', e)
                               /\ In(delayed, e)' <=> In(delayed', e)
    BY DEF IsQueue, In
  <1> QED
    BY <1>4, <1>5, <1>7, <1>8, <1>9, <1>10, <1>11 DEF QueuesInv

\* _call_dequeue of the entries C
LEMMA CallsDequeued ==
    ASSUME EntriesInv, QueuesInv, NEW C \in SUBSET Entries, CallDequeue(C)
    PROVE  QueuesInv' /\ (pending' # <<>> => pending # <<>>)
  <1> DEFINE p == Without(pending, C)
             w == Without(delayed, C)
  <1>1. IsQueue(pending) /\ IsQueue(delayed)
    BY DEF QueuesInv
  <1>2. /\ IsQueue(p) /\ Len(p) = Cardinality(Kept(pending, C))
        /\ \A e \in Entries : In(p, e) <=> In(pending, e) /\ e \notin C
        /\ \A k \in DOMAIN p : \E i \in DOMAIN pending : p[k] = pending[i]
    BY <1>1, WithoutIs
  <1>3. Cardinality(Kept(pending, C))
            = Len(pending) - Cardinality({c \in C : queue[c] = "pending"})
    <2>1. {c \in C : queue[c] = "pending"} = {c \in C : In(pending, c)}
      BY DEF QueuesInv
    <2> QED
      BY <1>1, <2>1, KeptCount
  <1>4. /\ IsQueue(w)
        /\ \A e \in Entries : In(w, e) <=> In(delayed, e) /\ e \notin C
    BY <1>1, WithoutIs
  <1>5. /\ pending' = p /\ delayed' = w
        /\ pending_count' = pending_count - Cardinality({c \in C : queue[c] = "pending"})
        /\ queue' = [c \in Entries |-> IF c \in C THEN "none" ELSE queue[c]]
    BY DEF CallDequeue
  <1> HIDE DEF p, w
  <1>6. pending_count' = Len(pending')
    BY <1>2, <1>3, <1>5 DEF QueuesInv
  <1>7. ASSUME NEW e \in Entries
        PROVE  /\ In(pending', e) <=> queue'[e] = "pending"
               /\ In(delayed', e) <=> queue'[e] = "delayed"
    BY <1>2, <1>4, <1>5 DEF QueuesInv
  <1>8. /\ IsQueue(pending)' <=> IsQueue(pending')
        /\ IsQueue(delayed)' <=> IsQueue(delayed')
        /\ \A e \in Entries : /\ In(pending, e)' <=> In(pending', e)
                              /\ In(delayed, e)' <=> In(delayed', e)
    BY DEF IsQueue, In
  <1>9. p # <<>> => pending # <<>>
    <2>1. p # <<>> => 1 \in DOMAIN p
      BY <1>2 DEF IsQueue
    <2>2. p # <<>> => DOMAIN pending # {}
      BY <1>2, <2>1
    <2> QED
      BY <2>2
  <1> QED
    BY <1>2, <1>4, <1>5, <1>6, <1>7, <1>8, <1>9 DEF QueuesInv

\* _delayed_call_enqueue: the entry comes to its place, and the timer with it if the
\* place is the first.
LEMMA DelayedEnqueued ==
    ASSUME EntriesInv, QueuesInv, ClockInv, NEW c \in Entries, NEW d \in Times,
           DelayedCallEnqueue(c, d), UNCHANGED <<firing, now>>
    PROVE  QueuesInv' /\ ClockInv' /\ (pending' # <<>> => pending # <<>>)
  <1> DEFINE p == Without(pending, {c})
             r == EnqueueDeadline(delayed, c, d)
  <1>1. /\ IsQueue(pending) /\ IsQueue(delayed)
        /\ \A e \in Entries : /\ In(pending, e) <=> queue[e] = "pending"
                              /\ In(delayed, e) <=> queue[e] = "delayed"
    BY DEF QueuesInv
  <1>2. /\ IsQueue(p) /\ Len(p) = Cardinality(Kept(pending, {c}))
        /\ \A e \in Entries : In(p, e) <=> In(pending, e) /\ e \notin {c}
        /\ \A k \in DOMAIN p : \E i \in DOMAIN pending : p[k] = pending[i]
    <2>1. IsQueue(pending)
      BY <1>1
    <2> QED
      BY <2>1, WithoutIs
  <1>3. Cardinality(Kept(pending, {c}))
            = Len(pending) - (IF queue[c] = "pending" THEN 1 ELSE 0)
    <2>1. CASE queue[c] = "pending"
      <3>1. {e \in {c} : In(pending, e)} = {c}
        BY <1>1, <2>1
      <3> QED
        <4>1. Cardinality({e \in {c} : In(pending, e)}) = 1
          BY <3>1, FS_Singleton
        <4> QED
          BY <1>1, <2>1, <4>1, KeptCount
    <2>2. CASE queue[c] # "pending"
      <3>1. {e \in {c} : In(pending, e)} = {}
        BY <1>1, <2>2
      <3> QED
        BY <1>1, <2>2, <3>1, KeptCount, FS_EmptySet
    <2> QED
      BY <2>1, <2>2
  <1>4. /\ IsQueue(r) /\ r # <<>>
        /\ \A e \in Entries : In(r, e) <=> In(delayed, e) \/ e = c
        /\ Sorted(r, [deadline EXCEPT ![c] = d])
        /\ r[1] # c => delayed # <<>> /\ deadline[delayed[1]] <= deadline[r[1]]
    <2>2. /\ Sorted(delayed, deadline) /\ deadline \in [Entries -> Times]
          /\ queue[c] = "delayed" <=> In(delayed, c)
      BY <1>1 DEF ClockInv, EntriesInv
    <2> QED
      BY <1>1, <2>2, EnqueueDeadlineIs
  <1>5. /\ pending' = p /\ delayed' = r
        /\ pending_count' = pending_count - (IF queue[c] = "pending" THEN 1 ELSE 0)
        /\ queue' = [queue EXCEPT ![c] = "delayed"]
        /\ deadline' = [deadline EXCEPT ![c] = d]
        /\ timer' = IF Head(r) = c THEN d ELSE timer
    BY DEF DelayedCallEnqueue
  <1> HIDE DEF p, r
  <1>6. pending_count' = Len(pending')
    BY <1>2, <1>3, <1>5 DEF QueuesInv
  <1>7. ASSUME NEW e \in Entries
        PROVE  /\ In(pending', e) <=> queue'[e] = "pending"
               /\ In(delayed', e) <=> queue'[e] = "delayed"
    <2>1. queue'[e] = IF e = c THEN "delayed" ELSE queue[e]
      BY <1>5 DEF EntriesInv
    <2> QED
      BY <1>1, <1>2, <1>4, <1>5, <2>1
  <1>8. /\ IsQueue(pending)' <=> IsQueue(pending')
        /\ IsQueue(delayed)' <=> IsQueue(delayed')
        /\ \A e \in Entries : /\ In(pending, e)' <=> In(pending', e)
                              /\ In(delayed, e)' <=> In(delayed', e)
    BY DEF IsQueue, In
  <1>9. p # <<>> => pending # <<>>
    <2>1. p # <<>> => 1 \in DOMAIN p
      BY <1>2 DEF IsQueue
    <2>2. p # <<>> => DOMAIN pending # {}
      BY <1>2, <2>1
    <2> QED
      BY <2>2
  <1>10. QueuesInv'
    BY <1>2, <1>4, <1>5, <1>6, <1>7, <1>8 DEF QueuesInv
  <1>11. Head(r) = r[1] /\ r[1] \in Entries
    BY <1>4 DEF IsQueue
  <1>12. firing' > 0 \/ timer' <= deadline'[r[1]]
    <2>1. CASE r[1] = c
      <3>1. timer' = d /\ deadline'[r[1]] = d
        BY <1>5, <1>11, <2>1 DEF EntriesInv
      <3>2. d \in Int
        BY CallsAssumption DEF Times
      <3> QED
        BY <3>1, <3>2
    <2>2. CASE r[1] # c
      <3>1. timer' = timer /\ deadline'[r[1]] = deadline[r[1]]
        BY <1>5, <1>11, <2>2 DEF EntriesInv
      <3>2. delayed # <<>> /\ deadline[delayed[1]] <= deadline[r[1]]
        BY <1>4, <2>2
      <3>3. firing > 0 \/ timer <= deadline[delayed[1]]
        BY <3>2 DEF ClockInv
      <3>4. delayed[1] \in Entries
        BY <1>1, <3>2 DEF IsQueue
      <3>5. deadline[delayed[1]] \in Int /\ deadline[r[1]] \in Int /\ timer \in Int
        BY <1>11, <3>4, CallsAssumption DEF EntriesInv, ClockInv, Times, NoTimer
      <3> QED
        BY <3>1, <3>2, <3>3, <3>5
    <2> QED
      BY <2>1, <2>2
  <1>13. timer' \in Times \cup {NoTimer}
    BY <1>5 DEF ClockInv
  <1>14. Sorted(delayed, deadline)' <=> Sorted(r, [deadline EXCEPT ![c] = d])
    BY <1>5 DEF Sorted
  <1>15. ClockInv'
    BY <1>4, <1>5, <1>12, <1>13, <1>14 DEF ClockInv
  <1> QED
    BY <1>5, <1>9, <1>10, <1>15

\* thread_call_delayed_timer moves what is due and sets the timer for the rest.
LEMMA DueIsMoved ==
    ASSUME EntriesInv, QueuesInv, ClockInv, DelayedTimer
    PROVE  QueuesInv' /\ ClockInv'
  <1> DEFINE k == DueCount
             due == SubSeq(delayed, 1, k)
             rest == SubSeq(delayed, k + 1, Len(delayed))
  <1>1. /\ IsQueue(pending) /\ IsQueue(delayed) /\ pending_count = Len(pending)
        /\ \A e \in Entries : /\ In(pending, e) <=> queue[e] = "pending"
                              /\ In(delayed, e) <=> queue[e] = "delayed"
    BY DEF QueuesInv
  <1>2. delayed \in Seq(Entries) /\ Len(delayed) \in Nat /\ DOMAIN delayed = 1..Len(delayed)
    BY <1>1 DEF IsQueue
  <1>3. k \in 0..Len(delayed)
    <2>1. deadline \in [Entries -> Times] /\ now \in Times
      BY DEF EntriesInv, ClockInv
    <2> QED
      BY <1>2, <2>1, UpToIs DEF DueCount
  <1>4. /\ pending' = pending \o due /\ pending_count' = pending_count + k
        /\ delayed' = rest
        /\ queue' = [c \in Entries |-> IF In(due, c) THEN "pending" ELSE queue[c]]
        /\ timer' = IF rest = <<>> THEN timer ELSE deadline[Head(rest)]
        /\ firing > 0 /\ firing' = firing - 1 /\ deadline' = deadline /\ now' = now
    BY DEF DelayedTimer
  <1> HIDE DEF k
  <1>5. IsCut(delayed, k, due, rest)
    BY <1>2, <1>3, SubSeqCuts
  <1> HIDE DEF due, rest
  <1>6. /\ IsQueue(due) /\ IsQueue(rest)
        /\ \A c \in Entries : In(delayed, c) <=> In(due, c) \/ In(rest, c)
        /\ \A c \in Entries : ~(In(due, c) /\ In(rest, c))
    BY <1>1, <1>3, <1>5, SplitIs
  <1>7. \A c \in Entries : ~(In(pending, c) /\ In(due, c))
    BY <1>1, <1>6
  <1>8. /\ IsQueue(pending \o due) /\ Len(pending \o due) = Len(pending) + Len(due)
        /\ \A c \in Entries : In(pending \o due, c) <=> In(pending, c) \/ In(due, c)
    BY <1>1, <1>6, <1>7, JoinIs
  <1>9. Len(due) = k
    BY <1>5 DEF IsCut
  <1>10. pending_count' = Len(pending')
    BY <1>1, <1>4, <1>8, <1>9
  <1>11. ASSUME NEW e \in Entries
         PROVE  /\ In(pending', e) <=> queue'[e] = "pending"
                /\ In(delayed', e) <=> queue'[e] = "delayed"
    <2>1. queue'[e] = IF In(due, e) THEN "pending" ELSE queue[e]
      BY <1>4
    <2> QED
      BY <1>1, <1>4, <1>6, <1>8, <2>1
  <1>12. /\ IsQueue(pending)' <=> IsQueue(pending')
         /\ IsQueue(delayed)' <=> IsQueue(delayed')
         /\ \A e \in Entries : /\ In(pending, e)' <=> In(pending', e)
                               /\ In(delayed, e)' <=> In(delayed', e)
    BY DEF IsQueue, In
  <1>13. QueuesInv'
    BY <1>4, <1>6, <1>8, <1>10, <1>11, <1>12 DEF QueuesInv
  <1>14. Sorted(rest, deadline)
    <2>1. /\ DOMAIN rest = 1..(Len(delayed) - k)
          /\ \A i \in 1..(Len(delayed) - k) : rest[i] = delayed[i + k]
      BY <1>5 DEF IsCut
    <2>2. \A i \in 1..(Len(delayed) - k) : i + k \in DOMAIN delayed
      BY <1>2, <1>3
    <2>3. ASSUME NEW i \in 1..(Len(delayed) - k), NEW j \in 1..(Len(delayed) - k), i < j
          PROVE  deadline[rest[i]] <= deadline[rest[j]]
      <3>1. i + k < j + k /\ i + k \in DOMAIN delayed /\ j + k \in DOMAIN delayed
        BY <1>3, <2>2, <2>3
      <3>2. deadline[delayed[i + k]] <= deadline[delayed[j + k]]
        BY <3>1 DEF ClockInv, Sorted
      <3> QED
        BY <2>1, <3>2
    <2> QED
      BY <2>1, <2>3 DEF Sorted
  <1>15. ASSUME rest # <<>> PROVE timer' \in Times /\ timer' = deadline[rest[1]]
    <2>1. Head(rest) = rest[1] /\ rest[1] \in Entries
      BY <1>6, <1>15 DEF IsQueue
    <2> QED
      BY <1>4, <1>15, <2>1 DEF EntriesInv
  <1>16. timer' \in Times \cup {NoTimer}
    BY <1>4, <1>15 DEF ClockInv
  <1>17. rest # <<>> => timer' <= deadline[rest[1]]
    <2> SUFFICES ASSUME rest # <<>> PROVE timer' <= deadline[rest[1]]
      OBVIOUS
    <2>1. timer' \in Int /\ timer' = deadline[rest[1]]
      BY <1>15, CallsAssumption DEF Times
    <2> QED
      BY <2>1
  <1>18. firing' \in 0..Cpus
    BY <1>4, CallsAssumption DEF ClockInv
  <1>19. Sorted(delayed, deadline)' <=> Sorted(rest, deadline)
    BY <1>4 DEF Sorted
  <1>20. ClockInv'
    BY <1>4, <1>14, <1>16, <1>17, <1>18, <1>19 DEF ClockInv
  <1> QED
    BY <1>13, <1>20

\* The loop of thread_call_thread takes the first entry.
LEMMA FirstIsTaken ==
    ASSUME EntriesInv, QueuesInv, NEW t \in Threads, ThreadTakesCall(t)
    PROVE  EntriesInv' /\ QueuesInv' /\ pending # <<>>
  <1> DEFINE call == Head(pending)
             rest == Tail(pending)
  <1>1. /\ IsQueue(pending) /\ IsQueue(delayed) /\ pending_count = Len(pending)
        /\ \A e \in Entries : /\ In(pending, e) <=> queue[e] = "pending"
                              /\ In(delayed, e) <=> queue[e] = "delayed"
    BY DEF QueuesInv
  <1>2. /\ pending_count > 0 /\ pending' = rest /\ pending_count' = pending_count - 1
        /\ queue' = [queue EXCEPT ![call] = "none"]
        /\ free' = free \cup ({call} \cap Internal)
        /\ UNCHANGED <<delayed, func, deadline, allocated>>
    BY DEF ThreadTakesCall
  <1>3. /\ pending \in Seq(Entries) /\ \A i, j \in DOMAIN pending : pending[i] = pending[j] => i = j
        /\ Len(pending) \in Nat /\ DOMAIN pending = 1..Len(pending)
    BY <1>1 DEF IsQueue
  <1>4. pending # <<>> /\ Len(pending) > 0
    BY <1>1, <1>2, <1>3
  <1>5. /\ rest \in Seq(Entries) /\ Len(rest) = Len(pending) - 1
        /\ DOMAIN rest = 1..(Len(pending) - 1)
        /\ \A i \in 1..(Len(pending) - 1) : rest[i] = pending[i + 1]
        /\ call = pending[1] /\ call \in Entries
    BY <1>3, <1>4
  <1> HIDE DEF call, rest
  <1>6. IsQueue(rest)
    <2>1. ASSUME NEW i \in DOMAIN rest, NEW j \in DOMAIN rest, rest[i] = rest[j] PROVE i = j
      <3>1. /\ i \in 1..(Len(pending) - 1) /\ j \in 1..(Len(pending) - 1)
            /\ i + 1 \in DOMAIN pending /\ j + 1 \in DOMAIN pending
        BY <1>3, <1>5
      <3>2. pending[i + 1] = pending[j + 1]
        BY <1>5, <2>1, <3>1
      <3>3. i + 1 = j + 1
        BY <1>3, <3>1, <3>2
      <3> QED
        BY <3>1, <3>3
    <2> QED
      BY <1>5, <2>1 DEF IsQueue
  <1>7. ASSUME NEW e \in Entries PROVE In(rest, e) <=> In(pending, e) /\ e # call
    <2>1. ASSUME NEW i \in 1..(Len(pending) - 1), rest[i] = e
          PROVE  In(pending, e) /\ e # call
      <3>1. i + 1 \in DOMAIN pending /\ pending[i + 1] = e /\ 1 \in DOMAIN pending
        BY <1>3, <1>5, <2>1
      <3> QED
        BY <1>3, <1>5, <3>1 DEF In
    <2>2. ASSUME NEW i \in DOMAIN pending, pending[i] = e, e # call PROVE In(rest, e)
      <3>1. i # 1 /\ i - 1 \in DOMAIN rest /\ rest[i - 1] = e
        BY <1>3, <1>5, <2>2
      <3> QED
        BY <3>1 DEF In
    <2> QED
      BY <1>5, <2>1, <2>2 DEF In
  <1>8. ASSUME NEW e \in Entries
        PROVE  /\ In(pending', e) <=> queue'[e] = "pending"
               /\ In(delayed', e) <=> queue'[e] = "delayed"
    <2>1. queue'[e] = IF e = call THEN "none" ELSE queue[e]
      BY <1>2, <1>5 DEF EntriesInv
    <2>2. In(pending, call)
      BY <1>3, <1>4, <1>5 DEF In
    <2> QED
      BY <1>1, <1>2, <1>5, <1>7, <2>1, <2>2
  <1>9. /\ IsQueue(pending)' <=> IsQueue(pending')
        /\ IsQueue(delayed)' <=> IsQueue(delayed')
        /\ \A e \in Entries : /\ In(pending, e)' <=> In(pending', e)
                              /\ In(delayed, e)' <=> In(delayed', e)
    BY DEF IsQueue, In
  <1>10. QueuesInv'
    BY <1>1, <1>2, <1>5, <1>6, <1>8, <1>9 DEF QueuesInv
  <1>11. EntriesInv'
    BY <1>2, <1>5 DEF EntriesInv, Entries
  <1> QED
    BY <1>4, <1>10, <1>11

(***************************************************************************)
(* The steps.                                                              *)
(***************************************************************************)
\* thread_call_initialize establishes the invariant.
LEMMA InitInv == Init => IndInv
  <1> SUFFICES ASSUME Init PROVE IndInv
    OBVIOUS
  <1>1. EntriesInv
    <2>1. func \in [Entries -> Funcs]
      <3> DEFINE any == CHOOSE f \in Funcs : TRUE
      <3>1. any \in Funcs
        BY CallsAssumption
      <3>2. func = [c \in Entries |-> IF c \in External THEN FuncOf[c] ELSE any]
        BY DEF Init
      <3> HIDE DEF any
      <3>3. \A c \in External : FuncOf[c] \in Funcs
        BY CallsAssumption
      <3> QED
        BY <3>1, <3>2, <3>3
    <2>2. deadline \in [Entries -> Times]
      BY CallsAssumption DEF Init, Times
    <2> QED
      BY <2>1, <2>2 DEF Init, EntriesInv, Entries
  <1>2. QueuesInv
    BY DEF Init, QueuesInv, IsQueue, In
  <1>3. ClockInv
    BY CallsAssumption DEF Init, ClockInv, Sorted, Times
  <1>4. WorkersInv
    <2>1. Idle(thread) = {} /\ Active(thread) = {}
      BY DEF Init, Idle, Active
    <2>2. Cardinality(Idle(thread)) = 0 /\ Cardinality(Active(thread)) = 0
      BY <2>1, FS_EmptySet
    <2>3. thread \in [Threads -> States]
      BY DEF Init, States
    <2>4. 0 <= ThreadMin /\ Creating("awake") = 0
      BY CallsAssumption DEF Creating
    <2>5. /\ daemon = "awake" /\ daemon_awake = TRUE /\ idle_count = 0 /\ active_count = 0
      BY DEF Init
    <2>6. daemon_awake = (daemon # "asleep")
      BY <2>5
    <2> QED
      BY <2>2, <2>3, <2>4, <2>5, <2>6 DEF WorkersInv
  <1>5. PendingIsServed
    BY DEF Init, PendingIsServed
  <1> QED
    BY <1>1, <1>2, <1>3, <1>4, <1>5 DEF IndInv

\* What does not touch the threads keeps their counts, and a call that was pending
\* before is served as before.
LEMMA WorkersStay ==
    ASSUME WorkersInv, PendingIsServed, UNCHANGED workers,
           pending' # <<>> => pending # <<>>
    PROVE  WorkersInv' /\ PendingIsServed'
  BY DEF WorkersInv, PendingIsServed, workers, Idle, Active

\* What does not touch queues and entries keeps them.
LEMMA QueuesStay ==
    ASSUME EntriesInv, QueuesInv, UNCHANGED queues
    PROVE  EntriesInv' /\ QueuesInv' /\ pending' = pending /\ delayed' = delayed
  BY DEF EntriesInv, QueuesInv, queues, entries, IsQueue, In

\* The clock stays as it is.
LEMMA ClockStays ==
    ASSUME ClockInv, UNCHANGED clock, UNCHANGED <<delayed, deadline>>
    PROVE  ClockInv'
  BY DEF ClockInv, clock, Sorted

\* Every call of a client keeps the invariant.
LEMMA ClientKeepsInv ==
    ASSUME IndInv, Client
    PROVE  IndInv'
  <1>0. EntriesInv /\ QueuesInv /\ ClockInv /\ WorkersInv /\ PendingIsServed
    BY DEF IndInv
  <1>1. ASSUME NEW f \in Funcs, NEW unique \in BOOLEAN, ThreadCallFunc(f, unique)
        PROVE  IndInv'
    <2>1. PICK c \in free : /\ free' = free \ {c}
                            /\ func' = [func EXCEPT ![c] = f]
                            /\ PendingCallEnqueue(c)
      BY <1>1 DEF ThreadCallFunc
    <2>2. WakeIfNoneActive /\ UNCHANGED deadline /\ UNCHANGED allocated /\ UNCHANGED clock
      BY <1>1 DEF ThreadCallFunc
    <2>3. c \in Internal /\ c \in Entries /\ queue[c] = "none" /\ c \notin External
      BY <1>0, CallsAssumption DEF EntriesInv, Entries
    <2>4. QueuesInv'
      BY <1>0, <2>1, <2>3, PendingEnqueued
    <2>5. /\ delayed' = Without(delayed, {c})
          /\ queue' = [queue EXCEPT ![c] = "pending"]
      BY <2>1 DEF PendingCallEnqueue
    <2>6. EntriesInv'
      <3>1. func' \in [Entries -> Funcs]
        BY <1>0, <2>1 DEF EntriesInv
      <3> QED
        BY <1>0, <2>1, <2>2, <2>3, <2>5, <3>1 DEF EntriesInv, Entries
    <2>7. ClockInv'
      BY <1>0, <2>2, <2>5, DequeueKeepsClock
    <2> QED
      BY <1>0, <2>2, <2>4, <2>6, <2>7, QueuedIsServed DEF IndInv
  <1>2. ASSUME NEW f \in Funcs, NEW all \in BOOLEAN, ThreadCallFuncCancel(f, all)
        PROVE  IndInv'
    <2> DEFINE fromPending == Matches(pending, f, all)
               fromDelayed == IF all \/ fromPending = {} THEN Matches(delayed, f, all) ELSE {}
               removed == fromPending \cup fromDelayed
    <2>1. /\ CallDequeue(removed) /\ free' = free \cup (removed \cap Internal)
          /\ UNCHANGED <<func, deadline, allocated>> /\ UNCHANGED clock /\ UNCHANGED workers
      BY <1>2 DEF ThreadCallFuncCancel
    <2>2. removed \in SUBSET Entries
      <3>1. pending \in Seq(Entries) /\ delayed \in Seq(Entries)
        BY <1>0 DEF QueuesInv, IsQueue
      <3>2. Matches(pending, f, all) \subseteq Entries /\ Matches(delayed, f, all) \subseteq Entries
        BY <3>1 DEF Matches
      <3> QED
        BY <3>2
    <2> HIDE DEF removed
    <2>3. QueuesInv' /\ (pending' # <<>> => pending # <<>>)
      BY <1>0, <2>1, <2>2, CallsDequeued
    <2>4. /\ delayed' = Without(delayed, removed)
          /\ queue' = [c \in Entries |-> IF c \in removed THEN "none" ELSE queue[c]]
      BY <2>1 DEF CallDequeue
    <2>5. EntriesInv'
      BY <1>0, <2>1, <2>2, <2>4 DEF EntriesInv, Entries
    <2>6. ClockInv'
      BY <1>0, <2>1, <2>4, DequeueKeepsClock
    <2> QED
      BY <1>0, <2>1, <2>3, <2>5, <2>6, WorkersStay DEF IndInv
  <1>3. ASSUME NEW f \in Funcs, NEW d \in Times, ThreadCallFuncDelayed(f, d)
        PROVE  IndInv'
    <2>1. PICK c \in free : /\ free' = free \ {c}
                            /\ func' = [func EXCEPT ![c] = f]
                            /\ DelayedCallEnqueue(c, d)
                            /\ UNCHANGED <<allocated, firing, now, workers>>
      BY <1>3 DEF ThreadCallFuncDelayed
    <2>2. c \in Internal /\ c \in Entries /\ c \notin External
      BY <1>0, CallsAssumption DEF EntriesInv, Entries
    <2>3. QueuesInv' /\ ClockInv' /\ (pending' # <<>> => pending # <<>>)
      BY <1>0, <2>1, <2>2, DelayedEnqueued
    <2>4. /\ queue' = [queue EXCEPT ![c] = "delayed"]
          /\ deadline' = [deadline EXCEPT ![c] = d]
      BY <2>1 DEF DelayedCallEnqueue
    <2>5. EntriesInv'
      <3>1. func' \in [Entries -> Funcs] /\ deadline' \in [Entries -> Times]
        BY <1>0, <2>1, <2>4 DEF EntriesInv
      <3> QED
        BY <1>0, <2>1, <2>2, <2>4, <3>1 DEF EntriesInv, Entries
    <2> QED
      BY <1>0, <2>1, <2>3, <2>5, WorkersStay DEF IndInv
  <1>4. ASSUME NEW c \in External, NEW d \in Times, ThreadCallEnterDelayed(c, d)
        PROVE  IndInv'
    <2>1. /\ c \in allocated /\ DelayedCallEnqueue(c, d)
          /\ UNCHANGED <<func, free, allocated, firing, now, workers>>
      BY <1>4 DEF ThreadCallEnterDelayed
    <2>2. c \in Entries /\ c \notin Internal
      BY CallsAssumption DEF Entries
    <2>3. QueuesInv' /\ ClockInv' /\ (pending' # <<>> => pending # <<>>)
      BY <1>0, <2>1, <2>2, DelayedEnqueued
    <2>4. /\ queue' = [queue EXCEPT ![c] = "delayed"]
          /\ deadline' = [deadline EXCEPT ![c] = d]
      BY <2>1 DEF DelayedCallEnqueue
    <2>5. EntriesInv'
      <3>1. deadline' \in [Entries -> Times]
        BY <1>0, <2>4 DEF EntriesInv
      <3> QED
        BY <1>0, <2>1, <2>2, <2>4, <3>1 DEF EntriesInv, Entries
    <2> QED
      BY <1>0, <2>1, <2>3, <2>5, WorkersStay DEF IndInv
  <1>5. ASSUME NEW c \in External, ThreadCallEnter(c) PROVE IndInv'
    <2>1. /\ c \in allocated /\ queue[c] # "pending" /\ PendingCallEnqueue(c)
          /\ WakeIfNoneActive
          /\ UNCHANGED <<func, deadline, free, allocated>> /\ UNCHANGED clock
      BY <1>5 DEF ThreadCallEnter
    <2>2. c \in Entries /\ c \notin Internal
      BY CallsAssumption DEF Entries
    <2>3. QueuesInv'
      BY <1>0, <2>1, <2>2, PendingEnqueued
    <2>4. /\ delayed' = Without(delayed, {c})
          /\ queue' = [queue EXCEPT ![c] = "pending"]
      BY <2>1 DEF PendingCallEnqueue
    <2>5. EntriesInv'
      BY <1>0, <2>1, <2>2, <2>4 DEF EntriesInv, Entries
    <2>6. ClockInv'
      BY <1>0, <2>1, <2>4, DequeueKeepsClock
    <2> QED
      BY <1>0, <2>1, <2>3, <2>5, <2>6, QueuedIsServed DEF IndInv
  <1>6. ASSUME NEW c \in External, ThreadCallCancel(c) PROVE IndInv'
    <2>1. /\ c \in allocated /\ CallDequeue({c})
          /\ UNCHANGED <<func, deadline, free, allocated>> /\ UNCHANGED clock
          /\ UNCHANGED workers
      BY <1>6 DEF ThreadCallCancel
    <2>2. {c} \in SUBSET Entries /\ c \notin Internal
      BY CallsAssumption DEF Entries
    <2>3. QueuesInv' /\ (pending' # <<>> => pending # <<>>)
      BY <1>0, <2>1, <2>2, CallsDequeued
    <2>4. /\ delayed' = Without(delayed, {c})
          /\ queue' = [e \in Entries |-> IF e \in {c} THEN "none" ELSE queue[e]]
      BY <2>1 DEF CallDequeue
    <2>5. EntriesInv'
      BY <1>0, <2>1, <2>2, <2>4 DEF EntriesInv, Entries
    <2>6. ClockInv'
      BY <1>0, <2>1, <2>4, DequeueKeepsClock
    <2> QED
      BY <1>0, <2>1, <2>3, <2>5, <2>6, WorkersStay DEF IndInv
  <1>7. ASSUME NEW c \in External, ThreadCallAllocate(c) \/ ThreadCallFree(c) PROVE IndInv'
    <2>1. /\ UNCHANGED <<pending, pending_count, delayed, queue, func, deadline, free>>
          /\ UNCHANGED clock /\ UNCHANGED workers
          /\ \/ allocated' = allocated \cup {c}
             \/ allocated' = allocated \ {c} /\ queue[c] = "none"
      BY <1>7 DEF ThreadCallAllocate, ThreadCallFree
    <2>2. EntriesInv'
      BY <1>0, <2>1 DEF EntriesInv
    <2>3. QueuesInv'
      BY <1>0, <2>1 DEF QueuesInv, IsQueue, In
    <2>4. ClockInv'
      BY <1>0, <2>1, ClockStays
    <2> QED
      BY <1>0, <2>1, <2>2, <2>3, <2>4, WorkersStay DEF IndInv
  <1> QED
    BY <1>1, <1>2, <1>3, <1>4, <1>5, <1>6, <1>7 DEF Client

\* Every step of a call thread keeps the invariant.
LEMMA ThreadKeepsInv ==
    ASSUME IndInv, NEW t \in Threads,
           CallThread(t) \/ SchedCallBlock(t) \/ SchedCallUnblock(t)
    PROVE  IndInv'
  <1>0. EntriesInv /\ QueuesInv /\ ClockInv /\ WorkersInv /\ PendingIsServed
    BY DEF IndInv
  <1>1. /\ thread \in [Threads -> States] /\ daemon \in {"awake", "creating", "asleep"}
        /\ daemon_awake = (daemon # "asleep")
        /\ idle_count = Cardinality(Idle(thread)) /\ idle_count <= ThreadMin
        /\ active_count = Cardinality(Active(thread)) + Creating(daemon)
        /\ Creating(daemon) \in {0, 1} /\ ThreadMin \in Nat
    BY <1>0, CallsAssumption DEF WorkersInv, Creating
  <1>2. ASSUME NEW s \in States
        PROVE  /\ Move(thread, t, s) \in [Threads -> States]
               /\ Cardinality(Idle(thread)) \in Nat /\ Cardinality(Active(thread)) \in Nat
    BY <1>1, ThreadMoves
  <1>3. CASE ThreadTakesCall(t)
    <2>1. EntriesInv' /\ QueuesInv' /\ pending # <<>>
      BY <1>0, <1>3, FirstIsTaken
    <2>2. /\ thread[t] \in {"ready", "run"} /\ thread' = Move(thread, t, "run")
          /\ UNCHANGED <<delayed, deadline, idle_count, active_count, daemon_awake, daemon>>
          /\ UNCHANGED clock
      BY <1>3 DEF ThreadTakesCall, Move
    <2>3. "run" \in States
      BY DEF States
    <2>4. /\ thread' \in [Threads -> States]
          /\ Cardinality(Idle(thread')) = Cardinality(Idle(thread))
          /\ Cardinality(Active(thread')) = Cardinality(Active(thread))
      BY <1>1, <2>2, <2>3, ThreadMoves
    <2>5. WorkersInv'
      <3>1. Idle(thread)' = Idle(thread') /\ Active(thread)' = Active(thread')
        BY DEF Idle, Active
      <3> QED
        BY <1>1, <2>2, <2>4, <3>1 DEF WorkersInv
    <2>6. PendingIsServed'
      BY <1>0, <2>1, <2>2 DEF PendingIsServed
    <2> QED
      BY <1>0, <2>1, <2>2, <2>5, <2>6, ClockStays DEF IndInv
  <1>4. CASE ThreadIdles(t)
    <2>1. /\ thread[t] \in {"ready", "run"} /\ pending_count = 0
          /\ active_count' = active_count - 1
          /\ \/ /\ idle_count < ThreadMin /\ idle_count' = idle_count + 1
                /\ thread' = Move(thread, t, "idle")
             \/ idle_count' = idle_count /\ thread' = Move(thread, t, "none")
          /\ UNCHANGED <<daemon_awake, daemon>> /\ UNCHANGED queues /\ UNCHANGED clock
      BY <1>4 DEF ThreadIdles, Move
    <2>2. "idle" \in States /\ "none" \in States
      BY DEF States
    <2>3. /\ thread' \in [Threads -> States]
          /\ Cardinality(Active(thread')) = Cardinality(Active(thread)) - 1
          /\ idle_count' = Cardinality(Idle(thread')) /\ idle_count' <= ThreadMin
      <3>1. CASE /\ idle_count < ThreadMin /\ idle_count' = idle_count + 1
                 /\ thread' = Move(thread, t, "idle")
        <4>1. /\ thread' \in [Threads -> States]
              /\ Cardinality(Active(thread')) = Cardinality(Active(thread)) - 1
              /\ Cardinality(Idle(thread')) = Cardinality(Idle(thread)) + 1
          BY <1>1, <2>1, <2>2, <3>1, ThreadMoves
        <4>2. idle_count \in Nat
          BY <1>1, <1>2, <2>2
        <4> QED
          BY <1>1, <3>1, <4>1, <4>2
      <3>2. CASE idle_count' = idle_count /\ thread' = Move(thread, t, "none")
        <4>1. /\ thread' \in [Threads -> States]
              /\ Cardinality(Active(thread')) = Cardinality(Active(thread)) - 1
              /\ Cardinality(Idle(thread')) = Cardinality(Idle(thread))
          BY <1>1, <2>1, <2>2, <3>2, ThreadMoves
        <4> QED
          BY <1>1, <3>2, <4>1
      <3> QED
        BY <2>1, <3>1, <3>2
    <2>4. active_count' = Cardinality(Active(thread')) + Creating(daemon')
      BY <1>1, <1>2, <2>1, <2>2, <2>3
    <2>5. WorkersInv'
      <3>1. Idle(thread)' = Idle(thread') /\ Active(thread)' = Active(thread')
        BY DEF Idle, Active
      <3> QED
        BY <1>1, <2>1, <2>3, <2>4, <3>1 DEF WorkersInv
    <2>6. EntriesInv' /\ QueuesInv' /\ pending' = pending /\ delayed' = delayed
      BY <1>0, <2>1, QueuesStay
    <2>7. pending = <<>>
      <3>1. pending \in Seq(Entries) /\ Len(pending) = 0
        BY <1>0, <2>1 DEF QueuesInv, IsQueue
      <3> QED
        BY <3>1, EmptySeq
    <2>8. PendingIsServed'
      BY <2>6, <2>7 DEF PendingIsServed
    <2>9. ClockInv'
      BY <1>0, <2>1, <2>6, ClockStays DEF queues, entries
    <2> QED
      BY <2>5, <2>6, <2>8, <2>9 DEF IndInv
  <1>5. CASE SchedCallBlock(t)
    <2> DEFINE th == Move(thread, t, "blocked")
    <2>1. /\ thread[t] = "run" /\ UNCHANGED queues /\ UNCHANGED clock
          /\ \/ ThreadCallWake(th, active_count - 1)
             \/ /\ ~(active_count = 1 /\ pending_count > 0)
                /\ thread' = th /\ active_count' = active_count - 1
                /\ UNCHANGED <<idle_count, daemon_awake, daemon>>
      BY <1>5 DEF SchedCallBlock, Move
    <2>2. "blocked" \in States
      BY DEF States
    <2>3. /\ th \in [Threads -> States]
          /\ Cardinality(Active(th)) = Cardinality(Active(thread)) - 1
          /\ Cardinality(Idle(th)) = Cardinality(Idle(thread))
          /\ Cardinality(Active(thread)) \in Nat /\ Cardinality(Active(thread)) > 0
      BY <1>1, <2>1, <2>2, ThreadMoves
    <2> HIDE DEF th
    <2>4. /\ active_count - 1 = Cardinality(Active(th)) + Creating(daemon)
          /\ idle_count = Cardinality(Idle(th)) /\ active_count > 0
      BY <1>1, <2>3
    <2>5. EntriesInv' /\ QueuesInv' /\ pending' = pending /\ delayed' = delayed
      BY <1>0, <2>1, QueuesStay
    <2>6. ClockInv'
      BY <1>0, <2>1, <2>5, ClockStays DEF queues, entries
    <2>7. CASE ThreadCallWake(th, active_count - 1)
      <3>1. WorkersInv' /\ (active_count' > 0 \/ daemon' # "asleep")
        BY <1>1, <2>3, <2>4, <2>7, WakeServes
      <3> QED
        BY <2>5, <2>6, <3>1 DEF IndInv, PendingIsServed
    <2>8. CASE /\ ~(active_count = 1 /\ pending_count > 0)
               /\ thread' = th /\ active_count' = active_count - 1
               /\ UNCHANGED <<idle_count, daemon_awake, daemon>>
      <3>1. WorkersInv'
        <4>1. Idle(thread)' = Idle(th) /\ Active(thread)' = Active(th)
          BY <2>8 DEF Idle, Active
        <4> QED
          BY <1>1, <2>3, <2>4, <2>8, <4>1 DEF WorkersInv
      <3>2. pending # <<>> => pending_count > 0
        BY <1>0 DEF QueuesInv, IsQueue
      <3>3. active_count \in Nat
        BY <1>1, <2>3
      <3>4. pending # <<>> => active_count' > 0
        BY <2>4, <2>8, <3>2, <3>3
      <3>5. PendingIsServed'
        BY <2>5, <3>4 DEF PendingIsServed
      <3> QED
        BY <2>5, <2>6, <3>1, <3>5 DEF IndInv
    <2> QED
      BY <2>1, <2>7, <2>8
  <1>6. CASE SchedCallUnblock(t)
    <2>1. /\ thread[t] = "blocked" /\ thread' = Move(thread, t, "run")
          /\ active_count' = active_count + 1
          /\ UNCHANGED queues /\ UNCHANGED clock
          /\ UNCHANGED <<idle_count, daemon_awake, daemon>>
      BY <1>6 DEF SchedCallUnblock, Move
    <2>2. "run" \in States
      BY DEF States
    <2>3. /\ thread' \in [Threads -> States]
          /\ Cardinality(Active(thread')) = Cardinality(Active(thread)) + 1
          /\ Cardinality(Idle(thread')) = Cardinality(Idle(thread))
          /\ Cardinality(Active(thread)) \in Nat
      BY <1>1, <2>1, <2>2, ThreadMoves
    <2>4. active_count' = Cardinality(Active(thread')) + Creating(daemon') /\ active_count' > 0
      BY <1>1, <2>1, <2>3
    <2>5. WorkersInv'
      <3>1. Idle(thread)' = Idle(thread') /\ Active(thread)' = Active(thread')
        BY DEF Idle, Active
      <3> QED
        BY <1>1, <2>1, <2>3, <2>4, <3>1 DEF WorkersInv
    <2>6. EntriesInv' /\ QueuesInv' /\ pending' = pending /\ delayed' = delayed
      BY <1>0, <2>1, QueuesStay
    <2>7. ClockInv'
      BY <1>0, <2>1, <2>6, ClockStays DEF queues, entries
    <2> QED
      BY <2>4, <2>5, <2>6, <2>7 DEF IndInv, PendingIsServed
  <1> QED
    BY <1>3, <1>4, <1>5, <1>6 DEF CallThread

\* Every step of the daemon keeps the invariant.
LEMMA DaemonKeepsInv ==
    ASSUME IndInv, Daemon
    PROVE  IndInv'
  <1>0. EntriesInv /\ QueuesInv /\ ClockInv /\ WorkersInv /\ PendingIsServed
    BY DEF IndInv
  <1>1. /\ thread \in [Threads -> States] /\ daemon_awake = (daemon # "asleep")
        /\ idle_count = Cardinality(Idle(thread)) /\ idle_count <= ThreadMin
        /\ active_count = Cardinality(Active(thread)) + Creating(daemon)
    BY <1>0 DEF WorkersInv
  <1>2. UNCHANGED queues /\ UNCHANGED clock /\ idle_count' = idle_count
    BY DEF Daemon, DaemonLooks, DaemonCreates
  <1>3. EntriesInv' /\ QueuesInv' /\ pending' = pending /\ delayed' = delayed
    BY <1>0, <1>2, QueuesStay
  <1>4. ClockInv'
    BY <1>0, <1>2, <1>3, ClockStays DEF queues, entries
  <1>5. Cardinality(Active(thread)) \in Nat
    <2>1. Active(thread) \in SUBSET Threads
      BY DEF Active
    <2> QED
      BY <2>1, CallsAssumption, FS_Subset, FS_CardinalityType
  <1>6. CASE /\ daemon = "awake" /\ active_count = 0 /\ pending_count > 0
             /\ active_count' = active_count + 1 /\ daemon' = "creating"
             /\ UNCHANGED <<daemon_awake, thread>>
    <2>1. Creating(daemon) = 0 /\ Creating(daemon') = 1
      BY <1>6 DEF Creating
    <2>2. WorkersInv'
      <3>1. /\ thread' = thread /\ idle_count' = idle_count
            /\ Idle(thread)' = Idle(thread) /\ Active(thread)' = Active(thread)
        BY <1>2, <1>6 DEF Idle, Active
      <3>2. active_count' = Cardinality(Active(thread)) + Creating(daemon')
        BY <1>1, <1>5, <1>6, <2>1
      <3>3. daemon_awake' = (daemon' # "asleep")
        BY <1>1, <1>6
      <3> QED
        BY <1>1, <1>6, <3>1, <3>2, <3>3 DEF WorkersInv
    <2> QED
      BY <1>3, <1>4, <1>6, <2>2 DEF IndInv, PendingIsServed
  <1>7. CASE /\ daemon = "awake" /\ ~(active_count = 0 /\ pending_count > 0)
             /\ daemon_awake' = FALSE /\ daemon' = "asleep"
             /\ UNCHANGED <<active_count, thread>>
    <2>1. Creating(daemon) = 0 /\ Creating(daemon') = 0
      BY <1>7 DEF Creating
    <2>2. WorkersInv'
      <3>1. /\ thread' = thread /\ idle_count' = idle_count
            /\ Idle(thread)' = Idle(thread) /\ Active(thread)' = Active(thread)
        BY <1>2, <1>7 DEF Idle, Active
      <3>2. daemon_awake' = (daemon' # "asleep")
        BY <1>7
      <3> QED
        BY <1>1, <1>7, <2>1, <3>1, <3>2 DEF WorkersInv
    <2>3. pending # <<>> => pending_count > 0
      BY <1>0 DEF QueuesInv, IsQueue
    <2>4. pending # <<>> => active_count' > 0
      BY <1>1, <1>5, <1>7, <2>1, <2>3
    <2>5. PendingIsServed'
      BY <1>3, <2>4 DEF PendingIsServed
    <2> QED
      BY <1>3, <1>4, <2>2, <2>5 DEF IndInv
  <1>8. CASE DaemonCreates
    <2>1. PICK t \in Threads : thread[t] = "none" /\ thread' = Move(thread, t, "ready")
      BY <1>8 DEF DaemonCreates, Move
    <2>2. /\ daemon = "creating" /\ daemon' = "awake"
          /\ active_count' = active_count /\ daemon_awake' = daemon_awake
      BY <1>8 DEF DaemonCreates
    <2>3. "ready" \in States
      BY DEF States
    <2>4. /\ thread' \in [Threads -> States]
          /\ Cardinality(Idle(thread')) = Cardinality(Idle(thread))
          /\ Cardinality(Active(thread')) = Cardinality(Active(thread)) + 1
      BY <1>1, <2>1, <2>3, ThreadMoves
    <2>5. Creating(daemon) = 1 /\ Creating(daemon') = 0
      BY <2>2 DEF Creating
    <2>6. active_count' = Cardinality(Active(thread')) + Creating(daemon')
      BY <1>1, <1>5, <2>2, <2>4, <2>5
    <2>7. WorkersInv'
      <3>1. Idle(thread)' = Idle(thread') /\ Active(thread)' = Active(thread')
        BY DEF Idle, Active
      <3>2. daemon_awake' = (daemon' # "asleep")
        BY <1>1, <2>2
      <3> QED
        BY <1>1, <1>2, <2>2, <2>4, <2>6, <3>1, <3>2 DEF WorkersInv
    <2> QED
      BY <1>3, <1>4, <2>2, <2>7 DEF IndInv, PendingIsServed
  <1> QED
    BY <1>6, <1>7, <1>8 DEF Daemon, DaemonLooks

\* Time and its interrupts keep the invariant.
LEMMA TimeKeepsInv ==
    ASSUME IndInv, Tick \/ TimerQueueExpire \/ DelayedTimer
    PROVE  IndInv'
  <1>0. EntriesInv /\ QueuesInv /\ ClockInv /\ WorkersInv /\ PendingIsServed
    BY DEF IndInv
  <1>1. CASE Tick \/ TimerQueueExpire
    <2>1. UNCHANGED queues /\ UNCHANGED workers
      BY <1>1 DEF Tick, TimerQueueExpire
    <2>2. EntriesInv' /\ QueuesInv' /\ pending' = pending /\ delayed' = delayed
      BY <1>0, <2>1, QueuesStay
    <2>3. WorkersInv' /\ PendingIsServed'
      BY <1>0, <2>1, <2>2, WorkersStay
    <2>4. Sorted(delayed, deadline)'
      BY <1>0, <2>1 DEF ClockInv, Sorted, queues, entries
    <2>5. /\ timer' \in Times \cup {NoTimer} /\ firing' \in 0..Cpus /\ now' \in Times
          /\ \/ timer' = timer /\ firing' = firing
             \/ firing' > 0
      <3>1. CASE Tick
        BY <1>0, <3>1, CallsAssumption DEF Tick, ClockInv, Times
      <3>2. CASE TimerQueueExpire
        BY <1>0, <3>2, CallsAssumption DEF TimerQueueExpire, ClockInv
      <3> QED
        BY <1>1, <3>1, <3>2
    <2>6. deadline' = deadline
      BY <2>1 DEF queues, entries
    <2>7. ClockInv'
      BY <1>0, <2>2, <2>4, <2>5, <2>6 DEF ClockInv
    <2> QED
      BY <2>2, <2>3, <2>7 DEF IndInv
  <1>2. CASE DelayedTimer
    <2> DEFINE due == SubSeq(delayed, 1, DueCount)
    <2>1. QueuesInv' /\ ClockInv'
      BY <1>0, <1>2, DueIsMoved
    <2>2. /\ queue' = [c \in Entries |-> IF In(due, c) THEN "pending" ELSE queue[c]]
          /\ pending' = pending \o due
          /\ \/ WakeIfNoneActive
             \/ due = <<>> /\ UNCHANGED workers
          /\ UNCHANGED <<func, deadline, free, allocated>>
      BY <1>2 DEF DelayedTimer
    <2>3. DueCount \in 0..Len(delayed) /\ IsQueue(delayed) /\ delayed \in Seq(Entries)
      <3>1. deadline \in [Entries -> Times] /\ now \in Times /\ IsQueue(delayed)
        BY <1>0 DEF EntriesInv, ClockInv, QueuesInv
      <3>2. delayed \in Seq(Entries)
        BY <3>1 DEF IsQueue
      <3> QED
        BY <3>1, <3>2, UpToIs DEF DueCount
    <2>4. \A c \in Entries : In(due, c) => In(delayed, c)
      <3>1. IsCut(delayed, DueCount, due, SubSeq(delayed, DueCount + 1, Len(delayed)))
        BY <2>3, SubSeqCuts
      <3> HIDE DEF due
      <3> QED
        BY <2>3, <3>1, SplitIs
    <2> HIDE DEF due
    <2>5. \A c \in Entries : In(due, c) => queue[c] = "delayed"
      BY <1>0, <2>4 DEF QueuesInv
    <2>6. EntriesInv'
      BY <1>0, <2>2, <2>5 DEF EntriesInv, Entries
    <2>7. WorkersInv' /\ PendingIsServed'
      <3>1. CASE WakeIfNoneActive
        BY <1>0, <3>1, QueuedIsServed
      <3>2. CASE due = <<>> /\ UNCHANGED workers
        <4>1. pending' = pending
          BY <1>0, <2>2, <3>2 DEF QueuesInv, IsQueue
        <4> QED
          BY <1>0, <3>2, <4>1, WorkersStay
      <3> QED
        BY <2>2, <3>1, <3>2
    <2> QED
      BY <2>1, <2>6, <2>7 DEF IndInv
  <1> QED
    BY <1>1, <1>2

\* Every step keeps the invariant.
LEMMA NextKeepsInv == ASSUME IndInv, [Next]_vars PROVE IndInv'
  <1>1. CASE Next
    BY <1>1, ClientKeepsInv, ThreadKeepsInv, DaemonKeepsInv, TimeKeepsInv DEF Next
  <1>2. CASE UNCHANGED vars
    <2>1. UNCHANGED queues /\ UNCHANGED clock /\ UNCHANGED workers
      BY <1>2 DEF vars
    <2>2. EntriesInv' /\ QueuesInv' /\ pending' = pending /\ delayed' = delayed
      BY <2>1, QueuesStay DEF IndInv
    <2>3. WorkersInv' /\ PendingIsServed'
      BY <2>1, <2>2, WorkersStay DEF IndInv
    <2>4. ClockInv'
      BY <2>1, <2>2, ClockStays DEF IndInv, queues, entries
    <2> QED
      BY <2>2, <2>3, <2>4 DEF IndInv
  <1> QED
    BY <1>1, <1>2

(***************************************************************************)
(* The theorems.                                                           *)
(***************************************************************************)
\* Queues, entries, clock and threads fit together at any time, for any number of
\* entries, threads and processors.
THEOREM InvariantHolds == Spec => []IndInv
  BY InitInv, NextKeepsInv, PTL DEF Spec

\* The counters that decide who is woken tell the truth: pending_count, idle_count and
\* active_count are the numbers of calls and threads they stand for.
THEOREM CountsAreRight == Spec => []CountsAgree
  <1>1. IndInv => CountsAgree
    BY DEF IndInv, QueuesInv, WorkersInv, CountsAgree, Idle, Active, Creating
  <1> QED
    BY <1>1, InvariantHolds, PTL

\* No pending call is without a thread that will come to it or a daemon that is awake,
\* whatever callouts block.
THEOREM PendingHasServer == Spec => []PendingIsServed
  <1>1. IndInv => PendingIsServed
    BY DEF IndInv
  <1> QED
    BY <1>1, InvariantHolds, PTL

\* The delayed queue is in the order of deadlines, and its timer is early enough or has
\* expired: thread_call_delayed_timer misses no call.
THEOREM TimerIsEarly == Spec => []DelayedIsTimed
  <1>1. ASSUME IndInv PROVE DelayedIsTimed
    <2>1. delayed # <<>> => Head(delayed) = delayed[1]
      OBVIOUS
    <2> QED
      BY <1>1, <2>1 DEF IndInv, ClockInv, Sorted, DelayedIsTimed
  <1> QED
    BY <1>1, InvariantHolds, PTL

\* An entry is on the queue that call->queue names, once, and on no other; internal
\* entries are free exactly when they are on no queue.
THEOREM EntriesHavePlaces == Spec => []EntryHasOnePlace
  <1>1. ASSUME NEW q, IsQueue(q), NEW c \in Entries
        PROVE  Cardinality({i \in DOMAIN q : q[i] = c}) = IF In(q, c) THEN 1 ELSE 0
    <2>1. CASE In(q, c)
      <3>1. PICK i \in DOMAIN q : q[i] = c
        BY <2>1 DEF In
      <3>2. {j \in DOMAIN q : q[j] = c} = {i}
        BY <1>1, <3>1 DEF IsQueue
      <3> QED
        BY <2>1, <3>2, FS_Singleton
    <2>2. CASE ~In(q, c)
      <3>1. {j \in DOMAIN q : q[j] = c} = {}
        BY <2>2 DEF In
      <3> QED
        BY <2>2, <3>1, FS_EmptySet
    <2> QED
      BY <2>1, <2>2
  <1>2. ASSUME IndInv PROVE EntryHasOnePlace
    <2>1. ASSUME NEW c \in Entries
          PROVE  /\ Cardinality({i \in DOMAIN pending : pending[i] = c})
                        = (IF queue[c] = "pending" THEN 1 ELSE 0)
                 /\ Cardinality({i \in DOMAIN delayed : delayed[i] = c})
                        = (IF queue[c] = "delayed" THEN 1 ELSE 0)
      <3>1. /\ IsQueue(pending) /\ IsQueue(delayed)
            /\ In(pending, c) <=> queue[c] = "pending"
            /\ In(delayed, c) <=> queue[c] = "delayed"
        BY <1>2 DEF IndInv, QueuesInv
      <3> QED
        BY <1>1, <3>1
    <2> QED
      BY <1>2, <2>1 DEF IndInv, EntriesInv, EntryHasOnePlace
  <1> QED
    BY <1>2, InvariantHolds, PTL

\* The variables keep their types: no count falls below zero, and no more than
\* thread_call_thread_min threads are kept idle.
THEOREM TypesHold == Spec => []TypeOK
  <1>1. ASSUME IndInv PROVE TypeOK
    <2>1. pending \in Seq(Entries) /\ delayed \in Seq(Entries) /\ pending_count \in Nat
      BY <1>1 DEF IndInv, QueuesInv, IsQueue
    <2>2. Cardinality(Idle(thread)) \in Nat /\ Cardinality(Active(thread)) \in Nat
      <3>1. Idle(thread) \in SUBSET Threads /\ Active(thread) \in SUBSET Threads
        BY DEF Idle, Active
      <3>2. IsFiniteSet(Idle(thread)) /\ IsFiniteSet(Active(thread))
        BY <3>1, CallsAssumption, FS_Subset
      <3> QED
        BY <3>2, FS_CardinalityType
    <2>3. Creating(daemon) \in {0, 1} /\ ThreadMin \in Nat
      BY CallsAssumption DEF Creating
    <2>4. idle_count \in 0..ThreadMin /\ active_count \in Nat
      BY <1>1, <2>2, <2>3 DEF IndInv, WorkersInv
    <2>5. /\ daemon_awake \in BOOLEAN /\ daemon \in {"awake", "creating", "asleep"}
          /\ thread \in [Threads -> {"none", "ready", "run", "blocked", "idle"}]
      BY <1>1 DEF IndInv, WorkersInv, States
    <2>6. timer \in Times \cup {NoTimer} /\ firing \in 0..Cpus /\ now \in Times
      BY <1>1 DEF IndInv, ClockInv
    <2>7. /\ queue \in [Entries -> {"none", "pending", "delayed"}]
          /\ func \in [Entries -> Funcs] /\ deadline \in [Entries -> Times]
          /\ free \subseteq Internal /\ allocated \subseteq External
      BY <1>1 DEF IndInv, EntriesInv
    <2> QED
      BY <2>1, <2>4, <2>5, <2>6, <2>7 DEF TypeOK
  <1> QED
    BY <1>1, InvariantHolds, PTL
=============================================================================
