-------------------------- MODULE ArbitrationProofs --------------------------
(***************************************************************************)
(* Proofs about ArbitrationLock, for any number of threads and services.   *)
(*                                                                         *)
(* The queues fit the threads, no threads wait for each other in a circle, *)
(* and each of the two is needed for the other: the search follows the     *)
(* waiting queue, and it comes to an end because there is no circle yet.   *)
(* The search is a recursive function.  What it visits is proved by        *)
(* induction on the places of the chain, in the form that a set of natural *)
(* numbers that is not empty has a least element.                          *)
(***************************************************************************)
EXTENDS ArbitrationLock, FiniteSetTheorems, SequenceTheorems, WellFoundedInduction, TLAPS

Elements == [thread : Threads, service : Services, required : BOOLEAN]

(***************************************************************************)
(* Natural numbers.                                                        *)
(***************************************************************************)
Below == {pair \in Nat \X Nat : pair[1] < pair[2]}

\* A set of natural numbers that is not empty has a least element.
LEMMA LeastNatural ==
    ASSUME NEW A \in SUBSET Nat, A # {}
    PROVE  \E m \in A : \A n \in A : m <= n
  <1>1. IsWellFoundedOn(Below, Nat)
    BY NatLessThanWellFounded DEF OpToRel, Below
  <1>2. PICK m \in A : \A n \in A : <<n, m>> \notin Below
    BY <1>1, WFMin
  <1>3. ASSUME NEW n \in A PROVE m <= n
    <2>1. <<n, m>> \notin Below
      BY <1>2
    <2> QED
      BY <2>1 DEF Below
  <1> QED
    BY <1>3

\* Induction up to a bound: a set that has 1 and with every number the next one.
LEMMA InductionTo ==
    ASSUME NEW N \in Nat, NEW A, N >= 1 => 1 \in A,
           \A n \in 1..N : n < N /\ n \in A => n + 1 \in A
    PROVE  1..N \subseteq A
  <1> DEFINE Missing == (1..N) \ A
  <1> SUFFICES ASSUME Missing # {} PROVE FALSE
    OBVIOUS
  <1>0. Missing \in SUBSET Nat
    OBVIOUS
  <1>1. PICK m \in Missing : \A n \in Missing : m <= n
    <2> HIDE DEF Missing
    <2> QED
      BY <1>0, LeastNatural
  <1>2. m # 1 /\ m - 1 \in 1..N /\ m - 1 < N
    BY <1>1
  <1>3. m - 1 \in A
    BY <1>1, <1>2
  <1> QED
    BY <1>1, <1>2, <1>3

(***************************************************************************)
(* The waiting queue as the set of its elements.                           *)
(***************************************************************************)
\* Every thread is on the queue q once at most.
Once(q) == \A i, j \in DOMAIN q : q[i].thread = q[j].thread => i = j

\* A queue of elements, with each thread there once at most.
IsQueue(q) == q \in Seq(Elements) /\ Once(q)

\* An element is found by its thread.
LEMMA QueueLookup ==
    ASSUME NEW q, IsQueue(q)
    PROVE  /\ \A e \in ToSet(q) : e \in Elements
           /\ \A e, f \in ToSet(q) : e.thread = f.thread => e = f
           /\ \A t : (\E i \in DOMAIN q : q[i].thread = t) <=> \E e \in ToSet(q) : e.thread = t
           /\ \A e \in ToSet(q) : q[CHOOSE i \in DOMAIN q : q[i].thread = e.thread] = e
  <1>1. DOMAIN q = 1..Len(q) /\ \A i \in DOMAIN q : q[i] \in Elements
    BY DEF IsQueue
  <1>2. ASSUME NEW e \in ToSet(q)
        PROVE  q[CHOOSE i \in DOMAIN q : q[i].thread = e.thread] = e
    <2>1. PICK i \in DOMAIN q : q[i] = e
      BY DEF ToSet
    <2>2. \A j \in DOMAIN q : q[j].thread = e.thread => j = i
      BY <2>1 DEF IsQueue, Once
    <2> QED
      BY <2>1, <2>2
  <1> QED
    BY <1>1, <1>2 DEF ToSet, IsQueue, Once

\* queue_enter at the tail.
LEMMA QueueEnter ==
    ASSUME NEW q, IsQueue(q), NEW e \in Elements, \A f \in ToSet(q) : f.thread # e.thread
    PROVE  /\ IsQueue(Append(q, e))
           /\ ToSet(Append(q, e)) = ToSet(q) \cup {e}
           /\ Append(q, e)[Len(Append(q, e))] = e
  <1>1. /\ Append(q, e) \in Seq(Elements) /\ Len(q) \in Nat
        /\ DOMAIN q = 1..Len(q) /\ DOMAIN Append(q, e) = 1..(Len(q) + 1)
        /\ Len(Append(q, e)) = Len(q) + 1
        /\ \A i \in 1..Len(q) : Append(q, e)[i] = q[i]
        /\ Append(q, e)[Len(q) + 1] = e
    BY AppendProperties, LenProperties DEF IsQueue
  <1>2. \A i \in 1..Len(q) : q[i].thread # e.thread
    BY <1>1 DEF ToSet
  <1>3. Once(Append(q, e))
    <2> SUFFICES ASSUME NEW i \in 1..(Len(q) + 1), NEW j \in 1..(Len(q) + 1),
                        Append(q, e)[i].thread = Append(q, e)[j].thread
                 PROVE  i = j
      BY <1>1 DEF Once
    <2>1. CASE i \in 1..Len(q) /\ j \in 1..Len(q)
      BY <1>1, <2>1 DEF IsQueue, Once
    <2>2. CASE i = Len(q) + 1 \/ j = Len(q) + 1
      BY <1>1, <1>2, <2>2
    <2> QED
      BY <1>1, <2>1, <2>2
  <1>4. ToSet(Append(q, e)) = ToSet(q) \cup {e}
    BY <1>1 DEF ToSet
  <1> QED
    BY <1>1, <1>3, <1>4 DEF IsQueue

\* queue_remove of the element in place k.
LEMMA QueueRemove ==
    ASSUME NEW q, IsQueue(q), NEW k \in DOMAIN q
    PROVE  /\ IsQueue(RemoveAt(q, k))
           /\ ToSet(RemoveAt(q, k)) = ToSet(q) \ {q[k]}
  <1>1. Len(q) \in Nat /\ DOMAIN q = 1..Len(q) /\ \A j \in 1..Len(q) : q[j] \in Elements
    BY LenProperties DEF IsQueue
  <1> DEFINE a == SubSeq(q, 1, k - 1)
             b == SubSeq(q, k + 1, Len(q))
             r == RemoveAt(q, k)
  <1>2. a \in Seq(Elements) /\ Len(a) = k - 1 /\ \A j \in 1..(k - 1) : a[j] = q[j]
    BY <1>1
  <1>3. b \in Seq(Elements) /\ Len(b) = Len(q) - k /\ \A j \in 1..(Len(q) - k) : b[j] = q[k + j]
    BY <1>1
  <1>4. r = a \o b
    BY DEF RemoveAt
  <1> HIDE DEF a, b, r
  <1>5. /\ r \in Seq(Elements) /\ Len(r) = Len(a) + Len(b) /\ DOMAIN r = 1..Len(r)
        /\ \A j \in 1..(Len(a) + Len(b)) : r[j] = IF j <= Len(a) THEN a[j] ELSE b[j - Len(a)]
    BY <1>2, <1>3, <1>4, ConcatProperties, LenProperties
  <1>6. /\ DOMAIN r = 1..(Len(q) - 1)
        /\ \A j \in 1..(Len(q) - 1) : r[j] = IF j < k THEN q[j] ELSE q[j + 1]
    <2>1. k \in 1..Len(q) /\ Len(a) + Len(b) = Len(q) - 1
      BY <1>1, <1>2, <1>3
    <2>2. ASSUME NEW j \in 1..(Len(q) - 1) PROVE r[j] = IF j < k THEN q[j] ELSE q[j + 1]
      <3>1. CASE j < k
        BY <1>1, <1>2, <1>5, <2>1, <3>1
      <3>2. CASE ~(j < k)
        <4>1. j - (k - 1) \in 1..(Len(q) - k) /\ k + (j - (k - 1)) = j + 1
          BY <1>1, <2>1, <3>2
        <4>2. b[j - (k - 1)] = q[j + 1]
          BY <1>3, <4>1
        <4>3. r[j] = b[j - (k - 1)]
          BY <1>2, <1>5, <2>1, <3>2
        <4> QED
          BY <3>2, <4>2, <4>3
      <3> QED
        BY <3>1, <3>2
    <2> QED
      BY <1>5, <2>1, <2>2
  <1>7. Once(r)
    <2> SUFFICES ASSUME NEW i \in 1..(Len(q) - 1), NEW j \in 1..(Len(q) - 1),
                        r[i].thread = r[j].thread
                 PROVE  i = j
      BY <1>6 DEF Once
    <2>1. \A x, y \in 1..Len(q) : q[x].thread = q[y].thread => x = y
      BY <1>1 DEF IsQueue, Once
    <2> QED
      BY <1>1, <1>6, <2>1
  <1>8. ASSUME NEW e \in ToSet(r) PROVE e \in ToSet(q) \ {q[k]}
    <2>1. PICK j \in 1..(Len(q) - 1) : e = r[j]
      BY <1>6 DEF ToSet
    <2>2. PICK x \in 1..Len(q) : e = q[x] /\ x # k
      BY <1>1, <1>6, <2>1
    <2> QED
      BY <1>1, <2>2 DEF ToSet, IsQueue, Once
  <1>9. ASSUME NEW e \in ToSet(q) \ {q[k]} PROVE e \in ToSet(r)
    <2>1. PICK x \in 1..Len(q) : e = q[x] /\ x # k
      BY <1>1 DEF ToSet
    <2>2. CASE x < k
      BY <1>1, <1>6, <2>1, <2>2 DEF ToSet
    <2>3. CASE x > k
      <3>1. x - 1 \in 1..(Len(q) - 1) /\ r[x - 1] = e
        BY <1>1, <1>6, <2>1, <2>3
      <3> QED
        BY <1>6, <3>1 DEF ToSet
    <2> QED
      BY <1>1, <2>1, <2>2, <2>3
  <1> QED
    BY <1>5, <1>7, <1>8, <1>9 DEF r, IsQueue

(***************************************************************************)
(* The chain of holders.                                                   *)
(***************************************************************************)
\* The invariant, as far as the queues go.
QueuesInv ==
    /\ TypeOK
    /\ count \in [Services -> Nat]
    /\ WaitedIsHeld

Holders == Threads \cup {Nobody}
Places == 1..Cardinality(Threads)

\* The waiting queue is one, and the operators that search it find in it what
\* its set of elements holds.
LEMMA WaitingIsQueue ==
    ASSUME QueuesInv
    PROVE  /\ IsQueue(waiting)
           /\ \A t : IsWaiting(t) <=> \E e \in ToSet(waiting) : e.thread = t
           /\ \A e \in ToSet(waiting) : IsWaiting(e.thread) /\ ElementOf(e.thread) = e
           /\ \A t : IsWaiting(t) => /\ ElementOf(t) \in ToSet(waiting)
                                     /\ ElementOf(t).thread = t
                                     /\ PlaceOf(t) \in DOMAIN waiting
                                     /\ t \in Threads
  <1>1. IsQueue(waiting)
    BY DEF QueuesInv, TypeOK, WaitedIsHeld, IsQueue, Once, Elements
  <1>2. ASSUME NEW t, IsWaiting(t)
        PROVE  PlaceOf(t) \in DOMAIN waiting /\ waiting[PlaceOf(t)].thread = t
    BY <1>2 DEF IsWaiting, PlaceOf
  <1>3. \A e \in ToSet(waiting) : e.thread \in Threads
    BY <1>1, QueueLookup DEF Elements
  <1> QED
    BY <1>1, <1>2, <1>3, QueueLookup DEF IsWaiting, ElementOf, PlaceOf, ToSet

\* The next holder is one.
LEMMA NextHolderType ==
    ASSUME QueuesInv, NEW t, NEW h \in Holders
    PROVE  NextHolder(t, h) \in Holders
  <1>1. CASE IsWaiting(h)
    <2>1. ElementOf(h) \in Elements
      BY <1>1, WaitingIsQueue, QueueLookup
    <2> QED
      BY <2>1 DEF NextHolder, QueuesInv, TypeOK, Holders, Elements
  <1> QED
    BY <1>1 DEF NextHolder, Holders

\* The recursion of the search has a solution.
LEMMA ChainExists ==
    ASSUME QueuesInv, NEW t, NEW s \in Services
    PROVE  \E f : f = [n \in Places |-> IF n = 1 THEN owner[s] ELSE NextHolder(t, f[n - 1])]
  <1> DEFINE N == Cardinality(Threads)
             Good(k, f) == \A n \in 1..k : f[n] = IF n = 1 THEN owner[s]
                                                 ELSE NextHolder(t, f[n - 1])
             A == {k \in 1..N : \E f \in [1..k -> Holders] : Good(k, f)}
  <1>1. N \in Nat
    BY ArbitrationAssumption, FS_CardinalityType
  <1>2. owner[s] \in Holders
    BY DEF QueuesInv, TypeOK, Holders
  <1>3. N >= 1 => 1 \in A
    <2> DEFINE g == [n \in 1..1 |-> owner[s]]
    <2>1. g \in [1..1 -> Holders] /\ Good(1, g)
      BY <1>2
    <2> HIDE DEF Good, g, N
    <2> QED
      BY <1>1, <2>1
  <1>4. ASSUME NEW k \in 1..N, k < N, k \in A PROVE k + 1 \in A
    <2>1. PICK f \in [1..k -> Holders] : Good(k, f)
      BY <1>4
    <2> DEFINE g == [n \in 1..(k + 1) |-> IF n <= k THEN f[n] ELSE NextHolder(t, f[k])]
    <2>2. g \in [1..(k + 1) -> Holders]
      BY <1>1, NextHolderType
    <2>3. ASSUME NEW n \in 1..(k + 1)
          PROVE  g[n] = IF n = 1 THEN owner[s] ELSE NextHolder(t, g[n - 1])
      <3>1. CASE n = 1
        BY <1>1, <2>1, <3>1
      <3>2. CASE n # 1 /\ n <= k
        <4>1. g[n] = f[n] /\ g[n - 1] = f[n - 1] /\ n \in 1..k
          BY <1>1, <3>2
        <4>2. f[n] = NextHolder(t, f[n - 1])
          BY <2>1, <3>2, <4>1
        <4> QED
          BY <3>2, <4>1, <4>2
      <3>3. CASE n # 1 /\ n = k + 1
        <4>1. g[n] = NextHolder(t, f[k]) /\ g[n - 1] = f[k]
          BY <1>1, <3>3
        <4> QED
          BY <3>3, <4>1
      <3> QED
        BY <1>1, <3>1, <3>2, <3>3
    <2>4. Good(k + 1, g)
      BY <2>3
    <2> HIDE DEF Good, g, N
    <2>5. k + 1 \in 1..N
      BY <1>1, <1>4
    <2> QED
      BY <2>2, <2>4, <2>5
  <1>5. 1..N \subseteq A
    <2> HIDE DEF A
    <2> QED
      BY <1>1, <1>3, <1>4, InductionTo
  <1>6. CASE N = 0
    <2>1. Places = {}
      BY <1>6 DEF Places
    <2> QED
      BY <2>1
  <1>7. CASE N # 0
    <2>1. PICK f \in [1..N -> Holders] : Good(N, f)
      BY <1>1, <1>5, <1>7
    <2>2. f = [n \in 1..N |-> f[n]]
      OBVIOUS
    <2>3. f = [n \in 1..N |-> IF n = 1 THEN owner[s] ELSE NextHolder(t, f[n - 1])]
      BY <2>1, <2>2
    <2> QED
      BY <2>3 DEF Places
  <1> QED
    BY <1>6, <1>7

\* The search visits the holder of s, then always the next holder.
LEMMA ChainStep ==
    ASSUME QueuesInv, NEW t, NEW s \in Services, NEW n \in Places
    PROVE  HolderChain(t, s)[n] = IF n = 1 THEN owner[s]
                                  ELSE NextHolder(t, HolderChain(t, s)[n - 1])
  <1> DEFINE chain == HolderChain(t, s)
  <1>1. chain = CHOOSE f : f = [m \in Places |-> IF m = 1 THEN owner[s]
                                                ELSE NextHolder(t, f[m - 1])]
    BY DEF HolderChain, Places
  <1>2. chain = [m \in Places |-> IF m = 1 THEN owner[s] ELSE NextHolder(t, chain[m - 1])]
    <2> HIDE DEF chain
    <2> QED
      BY <1>1, ChainExists
  <1> HIDE DEF chain
  <1>3. chain[n] = IF n = 1 THEN owner[s] ELSE NextHolder(t, chain[n - 1])
    BY <1>2
  <1> QED
    BY <1>3 DEF chain

\* Nobody is waiting, and there is a place for every thread.
LEMMA PlacesOfThreads ==
    /\ Cardinality(Threads) \in Nat
    /\ Places \subseteq Nat
    /\ (\E t : t \in Threads) => 1 \in Places
  <1>1. Cardinality(Threads) \in Nat /\ IsFiniteSet(Threads)
    BY ArbitrationAssumption, FS_CardinalityType
  <1>2. (\E t : t \in Threads) => Cardinality(Threads) # 0
    BY <1>1, FS_EmptySet
  <1> QED
    BY <1>1, <1>2 DEF Places

\* The search visits holders.
LEMMA ChainType ==
    ASSUME QueuesInv, NEW t, NEW s \in Services, NEW n \in Places
    PROVE  HolderChain(t, s)[n] \in Holders
  <1> DEFINE A == {m \in Places : HolderChain(t, s)[m] \in Holders}
  <1>1. 1 \in Places => 1 \in A
    BY ChainStep DEF QueuesInv, TypeOK, Holders
  <1>2. ASSUME NEW m \in Places, m < Cardinality(Threads), m \in A PROVE m + 1 \in A
    <2>1. m + 1 \in Places /\ m + 1 # 1 /\ (m + 1) - 1 = m
      BY <1>2, PlacesOfThreads DEF Places
    <2>2. HolderChain(t, s)[m + 1] = NextHolder(t, HolderChain(t, s)[m])
      BY <2>1, ChainStep
    <2> QED
      BY <1>2, <2>1, <2>2, NextHolderType
  <1>3. Places \subseteq A
    <2> HIDE DEF A
    <2> QED
      BY <1>1, <1>2, PlacesOfThreads, InductionTo DEF Places
  <1> QED
    BY <1>3

\* A place where the search came to was reached through holders that wait, each
\* for what the next one holds.
LEMMA ChainPrefix ==
    ASSUME QueuesInv, NEW t, NEW s \in Services, NEW k \in Places,
           HolderChain(t, s)[k] # Nobody
    PROVE  \A m \in 1..(k - 1) :
             /\ HolderChain(t, s)[m] \notin {Nobody, t}
             /\ IsWaiting(HolderChain(t, s)[m])
             /\ HolderChain(t, s)[m + 1] = owner[ElementOf(HolderChain(t, s)[m]).service]
  <1> DEFINE chain == HolderChain(t, s)
  <1>1. ASSUME NEW m \in 1..(k - 1), chain[m + 1] # Nobody
        PROVE  /\ chain[m] \notin {Nobody, t} /\ IsWaiting(chain[m])
               /\ chain[m + 1] = owner[ElementOf(chain[m]).service]
    <2>1. m + 1 \in Places /\ m + 1 # 1 /\ (m + 1) - 1 = m
      BY PlacesOfThreads DEF Places
    <2>2. chain[m + 1] = NextHolder(t, chain[m])
      BY <2>1, ChainStep
    <2> HIDE DEF chain
    <2> QED
      BY <1>1, <2>2 DEF NextHolder
  <1> HIDE DEF chain
  <1> DEFINE A == {i \in 1..k : chain[k + 1 - i] # Nobody}
  <1>2. k \in Nat /\ k >= 1
    BY PlacesOfThreads DEF Places
  <1>3. 1 \in A
    BY <1>2 DEF chain
  <1>4. ASSUME NEW i \in 1..k, i < k, i \in A PROVE i + 1 \in A
    <2>1. k - i \in 1..(k - 1) /\ (k - i) + 1 = k + 1 - i /\ k + 1 - (i + 1) = k - i
      BY <1>2, <1>4
    <2>2. chain[k - i] # Nobody
      BY <1>1, <1>4, <2>1
    <2> QED
      BY <1>2, <1>4, <2>1, <2>2
  <1>5. 1..k \subseteq A
    <2> HIDE DEF A
    <2> QED
      BY <1>2, <1>3, <1>4, InductionTo
  <1>6. ASSUME NEW m \in 1..(k - 1) PROVE chain[m + 1] # Nobody
    <2>1. k - m \in 1..k /\ k + 1 - (k - m) = m + 1
      BY <1>2
    <2> QED
      BY <1>5, <2>1
  <1> QED
    BY <1>1, <1>6 DEF chain

\* A set that has the holder of s and with a thread what that one waits for
\* has every place where the search came to.
LEMMA ChainStays ==
    ASSUME QueuesInv, NEW t, NEW s \in Services, NEW k \in Places,
           HolderChain(t, s)[k] # Nobody,
           NEW S, owner[s] \in S,
           \A u \in S \ {t} : IsWaiting(u) => owner[ElementOf(u).service] \in S
    PROVE  HolderChain(t, s)[k] \in S
  <1> DEFINE chain == HolderChain(t, s)
             A == {m \in 1..k : chain[m] \in S}
  <1>1. k \in Nat /\ 1 \in Places
    BY PlacesOfThreads DEF Places
  <1>2. 1 \in A
    BY <1>1, ChainStep DEF Places
  <1>3. ASSUME NEW m \in 1..k, m < k, m \in A PROVE m + 1 \in A
    <2>1. m \in 1..(k - 1) /\ m + 1 \in 1..k
      BY <1>1, <1>3
    <2>2. /\ chain[m] \notin {Nobody, t} /\ IsWaiting(chain[m])
          /\ chain[m + 1] = owner[ElementOf(chain[m]).service]
      BY <2>1, ChainPrefix
    <2> HIDE DEF chain
    <2> QED
      BY <1>3, <2>1, <2>2
  <1>4. 1..k \subseteq A
    <2> HIDE DEF A
    <2> QED
      BY <1>1, <1>2, <1>3, InductionTo
  <1> QED
    BY <1>1, <1>4 DEF Places

\* Where no threads wait in a circle the search comes to an end: at a thread that
\* does not wait, or at the thread it began with.
LEMMA SearchEnds ==
    ASSUME QueuesInv, NoCircularWait, NEW t \in Threads, NEW s \in Services
    PROVE  \E n \in Places : \/ HolderChain(t, s)[n] \in {Nobody, t}
                             \/ ~IsWaiting(HolderChain(t, s)[n])
  <1> DEFINE chain == HolderChain(t, s)
  <1> SUFFICES ASSUME \A n \in Places : chain[n] \notin {Nobody, t} /\ IsWaiting(chain[n])
               PROVE  FALSE
    OBVIOUS
  <1>1. \A n \in Places : chain[n] \in Threads \ {t}
    BY ChainType DEF Holders
  <1>2. ASSUME NEW n \in Places, n < Cardinality(Threads)
        PROVE  n + 1 \in Places /\ chain[n + 1] = owner[ElementOf(chain[n]).service]
    <2>1. n + 1 \in Places /\ n + 1 # 1 /\ (n + 1) - 1 = n
      BY <1>2, PlacesOfThreads DEF Places
    <2>2. chain[n + 1] = NextHolder(t, chain[n])
      BY <2>1, ChainStep
    <2> HIDE DEF chain
    <2> QED
      BY <1>2, <2>1, <2>2 DEF NextHolder
  <1> HIDE DEF chain
  <1> DEFINE f == [n \in Places |-> chain[n]]
             N == Cardinality(Threads)
  <1>3. PICK i, j \in Places : i # j /\ f[i] = f[j]
    <2>1. N \in Nat /\ IsFiniteSet(Places) /\ Cardinality(Places) = N
      BY PlacesOfThreads, FS_Interval DEF Places
    <2>2. IsFiniteSet(Threads \ {t}) /\ Cardinality(Threads \ {t}) = N - 1
      BY ArbitrationAssumption, FS_RemoveElement
    <2>3. f \in [Places -> Threads \ {t}]
      BY <1>1
    <2> HIDE DEF f
    <2> QED
      BY <2>1, <2>2, <2>3, FS_PigeonHole
  <1>4. ASSUME NEW a \in Places, NEW b \in Places, a < b, chain[a] = chain[b]
        PROVE  FALSE
    <2> DEFINE R == {chain[n] : n \in a..(b - 1)}
    <2>1. a \in Nat /\ b \in Nat /\ b <= N /\ N \in Nat /\ a..(b - 1) \subseteq Places
      BY PlacesOfThreads DEF Places
    <2>2. R # {} /\ R \in SUBSET Threads
      BY <1>1, <1>4, <2>1
    <2>3. ASSUME NEW u \in R PROVE IsWaiting(u) /\ owner[ElementOf(u).service] \in R
      <3>1. PICK n \in a..(b - 1) : u = chain[n]
        OBVIOUS
      <3>2. n \in Places /\ n < N
        BY <1>4, <2>1
      <3>3. IsWaiting(u) /\ owner[ElementOf(u).service] = chain[n + 1]
        BY <1>2, <3>1, <3>2
      <3>4. CASE n + 1 \in a..(b - 1)
        BY <3>3, <3>4
      <3>5. CASE n + 1 = b
        <4>1. chain[n + 1] = chain[a] /\ a \in a..(b - 1)
          BY <1>4, <2>1, <3>5
        <4> QED
          BY <3>3, <4>1
      <3> QED
        BY <2>1, <3>1, <3>4, <3>5
    <2>4. Closed(R)
      BY <2>3 DEF Closed
    <2> QED
      BY <2>2, <2>4 DEF NoCircularWait
  <1>5. i \in Nat /\ j \in Nat /\ chain[i] = chain[j]
    BY <1>3, PlacesOfThreads
  <1> QED
    BY <1>3, <1>4, <1>5

(***************************************************************************)
(* The two invariants in terms of the elements W of the waiting queue and  *)
(* of the owners.                                                          *)
(***************************************************************************)
Fits(W, own, ab, st) ==
    /\ \A e \in W : /\ own[e.service] \notin {Nobody, e.thread}
                    /\ e.thread \notin ab
                    /\ st[e.thread] # "runs"
    /\ \A t \in Threads :
        st[t] # "runs" /\ (\A e \in W : e.thread # t)
            => t \in ab \/ \E s \in Services : own[s] = t
    /\ \A t \in ab : st[t] # "runs"

\* Every thread of S waits for what a thread of S owns.
WaitsWithin(S, W, own) == \A t \in S : \E e \in W : e.thread = t /\ own[e.service] \in S

Acyclic(W, own) == \A S \in SUBSET Threads : S # {} => ~WaitsWithin(S, W, own)

\* WaitedIsHeld and NoCircularWait in those terms.
LEMMA InTermsOfElements ==
    ASSUME IsQueue(waiting)
    PROVE  /\ WaitedIsHeld <=> Fits(ToSet(waiting), owner, aborted, state)
           /\ \A S : Closed(S) <=> WaitsWithin(S, ToSet(waiting), owner)
           /\ NoCircularWait <=> Acyclic(ToSet(waiting), owner)
  <1>1. WaitedIsHeld <=> Fits(ToSet(waiting), owner, aborted, state)
    BY DEF WaitedIsHeld, Fits, ToSet, IsQueue, Once, IsWaiting
  <1>2. ASSUME NEW S PROVE Closed(S) <=> WaitsWithin(S, ToSet(waiting), owner)
    <2>1. ASSUME NEW t
          PROVE  (IsWaiting(t) /\ owner[ElementOf(t).service] \in S)
                    <=> \E e \in ToSet(waiting) : e.thread = t /\ owner[e.service] \in S
      BY QueueLookup DEF IsWaiting, ElementOf, PlaceOf
    <2> QED
      BY <2>1 DEF Closed, WaitsWithin
  <1> QED
    BY <1>1, <1>2 DEF NoCircularWait, Acyclic

\* The same after a step.
LEMMA InTermsOfElementsNext ==
    ASSUME IsQueue(waiting')
    PROVE  /\ WaitedIsHeld' <=> Fits(ToSet(waiting'), owner', aborted', state')
           /\ NoCircularWait' <=> Acyclic(ToSet(waiting'), owner')
  <1>1. WaitedIsHeld' <=> Fits(ToSet(waiting'), owner', aborted', state')
    BY DEF WaitedIsHeld, Fits, ToSet, IsQueue, Once, IsWaiting
  <1>2. ASSUME NEW S \in SUBSET Threads
        PROVE  Closed(S)' <=> WaitsWithin(S, ToSet(waiting'), owner')
    <2>1. ASSUME NEW t
          PROVE  (IsWaiting(t)' /\ owner'[ElementOf(t)'.service] \in S)
                    <=> \E e \in ToSet(waiting') : e.thread = t /\ owner'[e.service] \in S
      BY QueueLookup DEF IsWaiting, ElementOf, PlaceOf
    <2> QED
      BY <2>1 DEF Closed, WaitsWithin
  <1> QED
    BY <1>1, <1>2 DEF NoCircularWait, Acyclic

\* Requests that go and locks that change hands close no circle, as long as a
\* lock does not go to a thread that waits.
LEMMA AcyclicKept ==
    ASSUME NEW W, NEW own, Acyclic(W, own), NEW V \in SUBSET W, NEW now,
           \A e \in V : now[e.service] = own[e.service] \/ \A f \in V : f.thread # now[e.service]
    PROVE  Acyclic(V, now)
  <1> SUFFICES ASSUME NEW S \in SUBSET Threads, S # {}, WaitsWithin(S, V, now)
               PROVE  WaitsWithin(S, W, own)
    BY DEF Acyclic
  <1> QED
    BY DEF WaitsWithin

IndInv == QueuesInv /\ NoCircularWait

\* A request that waits because the search found no circle closes none.
LEMMA WaitClosesNoCircle ==
    ASSUME IndInv, NEW t \in Threads, NEW s \in Services, NEW required,
           ~FindsCycle(t, s), ~IsWaiting(t)
    PROVE  Acyclic(ToSet(waiting) \cup {Element(t, s, required)}, owner)
  <1> DEFINE W == ToSet(waiting)
             new == Element(t, s, required)
             chain == HolderChain(t, s)
  <1>0. QueuesInv /\ NoCircularWait /\ IsQueue(waiting)
    BY WaitingIsQueue DEF IndInv
  <1> SUFFICES ASSUME NEW S \in SUBSET Threads, S # {}, WaitsWithin(S, W \cup {new}, owner)
               PROVE  FALSE
    BY DEF Acyclic
  <1>1. new.thread = t /\ new.service = s
    BY DEF Element
  <1>2. t \in S
    <2>1. ~WaitsWithin(S, W, owner)
      BY <1>0, InTermsOfElements DEF Acyclic
    <2> QED
      BY <1>1, <2>1 DEF WaitsWithin
  <1>3. owner[s] \in S
    <2>1. \A e \in W : e.thread # t
      BY <1>0, WaitingIsQueue
    <2> QED
      BY <1>1, <1>2, <2>1 DEF WaitsWithin
  <1>4. ASSUME NEW u \in S \ {t}
        PROVE  IsWaiting(u) /\ owner[ElementOf(u).service] \in S
    <2>1. PICK e \in W : e.thread = u /\ owner[e.service] \in S
      BY <1>1, <1>4 DEF WaitsWithin
    <2> QED
      BY <1>0, <2>1, WaitingIsQueue
  <1>5. \A n \in Places : chain[n] # t
    BY DEF FindsCycle, Places
  <1> DEFINE A == {n \in Places : chain[n] \in S}
  <1>6. 1 \in Places => 1 \in A
    BY <1>0, <1>3, ChainStep
  <1>7. ASSUME NEW n \in Places, n < Cardinality(Threads), n \in A PROVE n + 1 \in A
    <2>1. n + 1 \in Places /\ n + 1 # 1 /\ (n + 1) - 1 = n
      BY <1>7, PlacesOfThreads DEF Places
    <2>2. chain[n + 1] = NextHolder(t, chain[n])
      BY <1>0, <2>1, ChainStep
    <2>3. chain[n] \in S \ {t} /\ chain[n] # Nobody
      BY <1>5, <1>7, ArbitrationAssumption
    <2> HIDE DEF chain
    <2> QED
      BY <1>4, <2>1, <2>2, <2>3 DEF NextHolder
  <1>8. Places \subseteq A
    <2> HIDE DEF A
    <2> QED
      BY <1>6, <1>7, PlacesOfThreads, InductionTo DEF Places
  <1>9. \A n \in Places : chain[n] \notin {Nobody, t} /\ IsWaiting(chain[n])
    <2> HIDE DEF chain
    <2> QED
      BY <1>4, <1>5, <1>8, ArbitrationAssumption
  <1> QED
    BY <1>0, <1>9, SearchEnds

\* The victim is on the chain, waits and may fail.
LEMMA VictimOnChain ==
    ASSUME QueuesInv, NEW t \in Threads, NEW s \in Services, Willing(t, s) # {}
    PROVE  \E k \in Places : /\ Victim(t, s) = HolderChain(t, s)[k]
                             /\ Victim(t, s) \in Threads \ {t}
                             /\ IsWaiting(Victim(t, s))
                             /\ ~ElementOf(Victim(t, s)).required
  <1> DEFINE A == Willing(t, s)
             N == Cardinality(Threads)
             B == {N - n : n \in A}
  <1>1. A \subseteq Places /\ N \in Nat
    BY PlacesOfThreads DEF Willing, Places
  <1>2. B \in SUBSET Nat /\ B # {}
    BY <1>1, PlacesOfThreads DEF Places
  <1>3. PICK b \in B : \A c \in B : b <= c
    <2> HIDE DEF B
    <2> QED
      BY <1>2, LeastNatural
  <1>4. PICK k \in A : b = N - k
    BY <1>3
  <1>5. \A m \in A : m <= k
    <2> TAKE m \in A
    <2>1. N - k <= N - m
      BY <1>3, <1>4
    <2>2. m \in Nat /\ k \in Nat
      BY <1>1, PlacesOfThreads
    <2> QED
      BY <1>1, <2>1, <2>2
  <1> DEFINE c == CHOOSE n \in A : \A m \in A : m <= n
  <1>6. c \in A
    BY <1>5
  <1>7. Victim(t, s) = HolderChain(t, s)[c]
    BY DEF Victim
  <1> HIDE DEF c
  <1>8. c \in Places /\ HolderChain(t, s)[c] \in Holders
    BY <1>1, <1>6, ChainType
  <1> QED
    BY <1>6, <1>7, <1>8 DEF Willing, Holders

(***************************************************************************)
(* The steps.                                                              *)
(***************************************************************************)
\* What the invariant says, in the terms the steps are proved in.
LEMMA InvariantSays ==
    ASSUME IndInv
    PROVE  /\ QueuesInv /\ NoCircularWait /\ TypeOK /\ count \in [Services -> Nat]
           /\ IsQueue(waiting)
           /\ Fits(ToSet(waiting), owner, aborted, state)
           /\ Acyclic(ToSet(waiting), owner)
           /\ \A e \in ToSet(waiting) : e \in Elements
  BY WaitingIsQueue, InTermsOfElements, QueueLookup DEF IndInv, QueuesInv

\* What has to be shown of a step.
LEMMA InvariantNext ==
    ASSUME owner' \in [Services -> Holders],
           count' \in [Services -> Nat],
           \A s \in Services : count'[s] \in (IF owner'[s] = Nobody THEN {0} ELSE 1..MaxCount),
           state' \in [Threads -> {"runs", "sleeps", "interrupted"}],
           aborted' \subseteq Threads, panicked' \in BOOLEAN,
           IsQueue(waiting'),
           Fits(ToSet(waiting'), owner', aborted', state'),
           Acyclic(ToSet(waiting'), owner')
    PROVE  IndInv'
  <1>1. TypeOK'
    BY DEF TypeOK, IsQueue, Elements, Holders
  <1>2. WaitedIsHeld' /\ NoCircularWait'
    BY InTermsOfElementsNext
  <1> QED
    BY <1>1, <1>2 DEF IndInv, QueuesInv

\* A thread that runs waits for nothing.
LEMMA RunnerWaitsNot ==
    ASSUME IndInv, NEW t \in Threads, state[t] = "runs"
    PROVE  ~IsWaiting(t) /\ \A e \in ToSet(waiting) : e.thread # t
  BY InvariantSays, WaitingIsQueue DEF Fits

\* Both queues are empty at the start.
LEMMA InitHolds == Init => IndInv
  <1> SUFFICES ASSUME Init PROVE IndInv
    OBVIOUS
  <1>1. TypeOK /\ count \in [Services -> Nat]
    <2>1. waiting \in Seq([thread : Threads, service : Services, required : BOOLEAN])
      BY EmptySeq DEF Init
    <2>2. /\ owner \in [Services -> Threads \cup {Nobody}] /\ count \in [Services -> Nat]
          /\ \A s \in Services : count[s] \in (IF owner[s] = Nobody THEN {0} ELSE 1..MaxCount)
      BY DEF Init
    <2> QED
      BY <2>1, <2>2 DEF Init, TypeOK
  <1>2. waiting = <<>> /\ DOMAIN waiting = {} /\ \A t : ~IsWaiting(t)
    BY DEF Init, IsWaiting
  <1>3. WaitedIsHeld
    BY <1>2 DEF Init, WaitedIsHeld
  <1>4. NoCircularWait
    BY <1>2 DEF NoCircularWait, Closed
  <1> QED
    BY <1>1, <1>3, <1>4 DEF IndInv, QueuesInv

\* A free lock goes to a thread that waits for nothing.
LEMMA LockFreeStep ==
    ASSUME IndInv, NEW t \in Threads, NEW s \in Services, LockFree(t, s)
    PROVE  IndInv'
  <1> USE DEF LockFree, Calls
  <1>1. /\ TypeOK /\ count \in [Services -> Nat] /\ IsQueue(waiting)
        /\ Fits(ToSet(waiting), owner, aborted, state) /\ Acyclic(ToSet(waiting), owner)
        /\ \A e \in ToSet(waiting) : e \in Elements
    BY InvariantSays
  <1>2. \A e \in ToSet(waiting) : e.thread # t /\ owner'[e.service] = owner[e.service]
    BY <1>1, RunnerWaitsNot DEF Fits, Elements, TypeOK
  <1>3. Fits(ToSet(waiting), owner', aborted, state)
    <2>1. \A x \in Services, u \in Threads : owner[x] = u => owner'[x] = u
      BY <1>1, ArbitrationAssumption DEF TypeOK
    <2> QED
      BY <1>1, <1>2, <2>1 DEF Fits
  <1>4. Acyclic(ToSet(waiting), owner')
    BY <1>1, <1>2 DEF Acyclic, WaitsWithin
  <1>5. owner' \in [Services -> Holders] /\ count' \in [Services -> Nat]
    BY <1>1 DEF TypeOK, Holders
  <1>6. \A x \in Services : count'[x] \in (IF owner'[x] = Nobody THEN {0} ELSE 1..MaxCount)
    BY <1>1, ArbitrationAssumption DEF TypeOK
  <1> QED
    BY <1>1, <1>3, <1>4, <1>5, <1>6, InvariantNext DEF TypeOK

\* A further level of recursion touches only the count.
LEMMA LockAgainStep ==
    ASSUME IndInv, NEW t \in Threads, NEW s \in Services, LockAgain(t, s)
    PROVE  IndInv'
  <1> USE DEF LockAgain, Calls
  <1>1. /\ TypeOK /\ count \in [Services -> Nat] /\ IsQueue(waiting)
        /\ Fits(ToSet(waiting), owner, aborted, state) /\ Acyclic(ToSet(waiting), owner)
    BY InvariantSays
  <1>2. owner' \in [Services -> Holders] /\ count' \in [Services -> Nat]
    BY <1>1 DEF TypeOK, Holders
  <1>3. \A x \in Services : count'[x] \in (IF owner'[x] = Nobody THEN {0} ELSE 1..MaxCount)
    BY <1>1, ArbitrationAssumption DEF TypeOK
  <1> QED
    BY <1>1, <1>2, <1>3, InvariantNext DEF TypeOK

\* A request enters the queue where the search found no circle.
LEMMA LockWaitsStep ==
    ASSUME IndInv, NEW t \in Threads, NEW s \in Services, NEW required \in BOOLEAN,
           LockWaits(t, s, required)
    PROVE  IndInv'
  <1> USE DEF LockWaits, Contends, Calls, Sleep
  <1> DEFINE new == Element(t, s, required)
  <1>1. /\ TypeOK /\ count \in [Services -> Nat] /\ IsQueue(waiting)
        /\ Fits(ToSet(waiting), owner, aborted, state) /\ Acyclic(ToSet(waiting), owner)
    BY InvariantSays
  <1>2. ~IsWaiting(t) /\ \A e \in ToSet(waiting) : e.thread # t
    BY RunnerWaitsNot
  <1>3. new \in Elements /\ new.thread = t /\ new.service = s
    BY DEF Element, Elements
  <1>4. IsQueue(waiting') /\ ToSet(waiting') = ToSet(waiting) \cup {new}
    BY <1>1, <1>2, <1>3, QueueEnter
  <1>5. Acyclic(ToSet(waiting'), owner')
    BY <1>2, <1>4, WaitClosesNoCircle
  <1> HIDE DEF new
  <1>6. Fits(ToSet(waiting'), owner', aborted', state')
    BY <1>1, <1>3, <1>4 DEF Fits, TypeOK
  <1> QED
    BY <1>1, <1>4, <1>5, <1>6, InvariantNext DEF TypeOK, Holders

\* A request enters the queue in place of one that the circle needed: what is
\* closed without the victim was closed before.
LEMMA LockWaitsForVictimStep ==
    ASSUME IndInv, NEW t \in Threads, NEW s \in Services, LockWaitsForVictim(t, s)
    PROVE  IndInv'
  <1> USE DEF LockWaitsForVictim, Contends, Calls, Sleep
  <1> DEFINE new == Element(t, s, TRUE)
             victim == Victim(t, s)
             rest == RemoveAt(waiting, PlaceOf(victim))
             W == ToSet(waiting)
  <1>1. /\ TypeOK /\ count \in [Services -> Nat] /\ IsQueue(waiting) /\ QueuesInv
        /\ Fits(W, owner, aborted, state) /\ Acyclic(W, owner)
    BY InvariantSays
  <1>2. \A e \in W : e.thread # t
    BY RunnerWaitsNot
  <1>3. new \in Elements /\ new.thread = t /\ new.service = s
    BY DEF Element, Elements
  <1>4. PICK k \in Places : /\ victim = HolderChain(t, s)[k]
                            /\ victim \in Threads \ {t} /\ IsWaiting(victim)
    BY <1>1, VictimOnChain
  <1>5. /\ IsQueue(rest) /\ ToSet(rest) = W \ {ElementOf(victim)}
        /\ ElementOf(victim) \in W /\ ElementOf(victim).thread = victim
    BY <1>1, <1>4, WaitingIsQueue, QueueRemove DEF ElementOf
  <1>6. ToSet(rest) = {e \in W : e.thread # victim}
    BY <1>1, <1>5, QueueLookup
  <1>7. IsQueue(waiting') /\ ToSet(waiting') = {e \in W : e.thread # victim} \cup {new}
    <2>1. waiting' = Append(rest, new)
      OBVIOUS
    <2>2. \A f \in ToSet(rest) : f.thread # new.thread
      BY <1>2, <1>3, <1>6
    <2> HIDE DEF new, rest, victim, W, LockWaitsForVictim, Contends, Calls, Sleep
    <2>3. IsQueue(Append(rest, new)) /\ ToSet(Append(rest, new)) = ToSet(rest) \cup {new}
      BY <1>3, <1>5, <2>2, QueueEnter
    <2> QED
      BY <1>6, <2>1, <2>3
  <1> HIDE DEF new, victim, rest
  <1>8. Fits(ToSet(waiting'), owner', aborted', state')
    <2> USE DEF victim
    <2>1. state[victim] # "runs" /\ aborted' = aborted \cup {victim}
      BY <1>1, <1>5 DEF Fits
    <2>2. state' = [state EXCEPT ![t] = "sleeps"] /\ state \in [Threads -> {"runs", "sleeps", "interrupted"}]
      BY <1>1 DEF TypeOK
    <2>3. owner' = owner /\ t \notin aborted /\ owner[s] \notin {t, Nobody}
      OBVIOUS
    <2> HIDE DEF victim, W, LockWaitsForVictim, Contends, Calls, Sleep
    <2>4. ASSUME NEW e \in ToSet(waiting')
          PROVE  /\ owner'[e.service] \notin {Nobody, e.thread}
                 /\ e.thread \notin aborted' /\ state'[e.thread] # "runs"
      <3>1. CASE e \in W /\ e.thread # victim
        <4>1. e.thread \in Threads
          BY <1>1, <3>1, QueueLookup DEF Elements, W
        <4> QED
          BY <1>1, <1>2, <2>1, <2>2, <2>3, <3>1, <4>1 DEF Fits
      <3>2. CASE e = new
        BY <1>3, <1>4, <2>1, <2>2, <2>3, <3>2
      <3> QED
        BY <1>7, <3>1, <3>2
    <2>5. ASSUME NEW u \in Threads, state'[u] # "runs", \A e \in ToSet(waiting') : e.thread # u
          PROVE  u \in aborted' \/ \E x \in Services : owner'[x] = u
      <3>1. u # t
        BY <1>3, <1>7, <2>5
      <3>2. CASE u = victim
        BY <2>1, <3>2
      <3>3. CASE u # victim
        <4>1. \A e \in W : e.thread # u
          BY <1>7, <2>5, <3>3
        <4> QED
          BY <1>1, <2>1, <2>2, <2>3, <2>5, <3>1, <4>1 DEF Fits
      <3> QED
        BY <3>2, <3>3
    <2>6. \A u \in aborted' : state'[u] # "runs"
      BY <1>1, <1>4, <2>1, <2>2 DEF Fits, TypeOK
    <2> QED
      BY <2>4, <2>5, <2>6 DEF Fits
  <1>9. Acyclic(ToSet(waiting'), owner')
    <2> SUFFICES ASSUME NEW S \in SUBSET Threads, S # {},
                        WaitsWithin(S, {e \in W : e.thread # victim} \cup {new}, owner)
                 PROVE  FALSE
      BY <1>7 DEF Acyclic
    <2>1. victim \notin S
      BY <1>3, <1>4 DEF WaitsWithin
    <2>2. t \in S
      <3>1. ~WaitsWithin(S, W, owner)
        BY <1>1 DEF Acyclic
      <3> QED
        BY <1>3, <3>1 DEF WaitsWithin
    <2>3. owner[s] \in S
      BY <1>2, <1>3, <2>2 DEF WaitsWithin
    <2>4. ASSUME NEW u \in S \ {t} PROVE IsWaiting(u) /\ owner[ElementOf(u).service] \in S
      <3>1. PICK e \in W : e.thread = u /\ owner[e.service] \in S
        BY <1>3, <2>4 DEF WaitsWithin
      <3> QED
        BY <1>1, <3>1, WaitingIsQueue
    <2>5. HolderChain(t, s)[k] # Nobody
      BY <1>4, ArbitrationAssumption
    <2>6. HolderChain(t, s)[k] \in S
      BY <1>1, <2>3, <2>4, <2>5, ChainStays
    <2> QED
      BY <1>4, <2>1, <2>6
  <1>10. aborted' \subseteq Threads
    BY <1>1, <1>4 DEF TypeOK, victim
  <1> QED
    BY <1>1, <1>7, <1>8, <1>9, <1>10, InvariantNext DEF TypeOK, Holders

\* A panic leaves the queues as they are.
LEMMA LockPanicsStep ==
    ASSUME IndInv, NEW t \in Threads, NEW s \in Services, LockPanics(t, s)
    PROVE  IndInv'
  <1>1. UNCHANGED <<owner, count, waiting, state, aborted>> /\ panicked' = TRUE
    BY DEF LockPanics
  <1> QED
    BY <1>1, InvariantSays, InvariantNext DEF TypeOK, Holders

\* A thread on no queue returns from its sleep.
LEMMA WakesUpStep ==
    ASSUME IndInv, NEW t \in Threads, WakesUp(t)
    PROVE  IndInv'
  <1> USE DEF WakesUp
  <1>1. /\ TypeOK /\ count \in [Services -> Nat] /\ IsQueue(waiting)
        /\ Fits(ToSet(waiting), owner, aborted, state) /\ Acyclic(ToSet(waiting), owner)
    BY InvariantSays
  <1>2. \A e \in ToSet(waiting) : e.thread # t /\ e.thread \in Threads
    BY <1>1, WaitingIsQueue, InvariantSays DEF Elements
  <1>3. Fits(ToSet(waiting), owner, aborted', state')
    BY <1>1, <1>2 DEF Fits, TypeOK
  <1> QED
    BY <1>1, <1>3, InvariantNext DEF TypeOK, Holders

\* An interrupted thread stays on the queue until it takes the queue lock.
LEMMA InterruptStep ==
    ASSUME IndInv, NEW t \in Threads, Interrupt(t)
    PROVE  IndInv'
  <1> USE DEF Interrupt
  <1>1. /\ TypeOK /\ count \in [Services -> Nat] /\ IsQueue(waiting)
        /\ Fits(ToSet(waiting), owner, aborted, state) /\ Acyclic(ToSet(waiting), owner)
    BY InvariantSays
  <1>2. \A e \in ToSet(waiting) : e.thread \in Threads
    BY InvariantSays DEF Elements
  <1>3. Fits(ToSet(waiting), owner, aborted, state')
    BY <1>1, <1>2 DEF Fits, TypeOK
  <1> QED
    BY <1>1, <1>3, InvariantNext DEF TypeOK, Holders

\* An interrupted thread takes its request back, if it is still there.
LEMMA AfterInterruptStep ==
    ASSUME IndInv, NEW t \in Threads, AfterInterrupt(t)
    PROVE  IndInv'
  <1> DEFINE W == ToSet(waiting)
  <1>1. /\ TypeOK /\ count \in [Services -> Nat] /\ IsQueue(waiting) /\ QueuesInv
        /\ Fits(W, owner, aborted, state) /\ Acyclic(W, owner)
        /\ \A e \in W : e.thread \in Threads
    BY InvariantSays DEF Elements
  <1>2. IsQueue(waiting') /\ ToSet(waiting') = {e \in W : e.thread # t}
    <2>1. CASE IsWaiting(t)
      <3>1. waiting' = RemoveAt(waiting, PlaceOf(t))
        BY <2>1 DEF AfterInterrupt
      <3>2. IsQueue(waiting') /\ ToSet(waiting') = W \ {ElementOf(t)}
        BY <1>1, <2>1, <3>1, WaitingIsQueue, QueueRemove DEF ElementOf
      <3> QED
        BY <1>1, <2>1, <3>2, WaitingIsQueue, QueueLookup
    <2>2. CASE ~IsWaiting(t)
      BY <1>1, <2>2, WaitingIsQueue DEF AfterInterrupt
    <2> QED
      BY <2>1, <2>2
  <1>3. /\ owner' = owner /\ count' = count /\ panicked' = panicked
        /\ state' = [state EXCEPT ![t] = "runs"] /\ aborted' = aborted \ {t}
    BY DEF AfterInterrupt
  <1>4. Fits(ToSet(waiting'), owner', aborted', state')
    <2> HIDE DEF W
    <2> QED
      BY <1>1, <1>2, <1>3 DEF Fits, TypeOK
  <1>5. Acyclic(ToSet(waiting'), owner')
    BY <1>1, <1>2, <1>3 DEF Acyclic, WaitsWithin
  <1> QED
    BY <1>1, <1>2, <1>3, <1>4, <1>5, InvariantNext DEF TypeOK, Holders

\* The lock goes to the first that waits for it.
LEMMA FirstWaits ==
    ASSUME QueuesInv, NEW s \in Services, WaitingFor(s) # {}
    PROVE  LET first == CHOOSE i \in WaitingFor(s) : \A j \in WaitingFor(s) : i <= j
           IN  first \in DOMAIN waiting /\ waiting[first].service = s
  <1>1. WaitingFor(s) \in SUBSET Nat
    BY LenProperties DEF QueuesInv, TypeOK, WaitingFor
  <1>2. \E i \in WaitingFor(s) : \A j \in WaitingFor(s) : i <= j
    BY <1>1, LeastNatural
  <1> QED
    BY <1>2 DEF WaitingFor

\* A lock is counted down, given back, or handed to one that stops waiting then.
LEMMA UnlockStep ==
    ASSUME IndInv, NEW t \in Threads, NEW s \in Services, Unlock(t, s)
    PROVE  IndInv'
  <1> DEFINE W == ToSet(waiting)
  <1>1. /\ TypeOK /\ count \in [Services -> Nat] /\ IsQueue(waiting) /\ QueuesInv
        /\ Fits(W, owner, aborted, state) /\ Acyclic(W, owner)
        /\ \A e \in W : e \in Elements /\ e.thread \in Threads /\ e.service \in Services
    BY InvariantSays DEF Elements
  <1>2. /\ owner[s] = t /\ state[t] = "runs"
        /\ state' = state /\ aborted' = aborted /\ panicked' = panicked
    BY DEF Unlock, Calls
  <1>3. \A e \in W : e.thread # t
    BY <1>2, RunnerWaitsNot
  <1>4. CASE count[s] > 1
    <2>1. count' = [count EXCEPT ![s] = @ - 1] /\ owner' = owner /\ waiting' = waiting
      BY <1>4 DEF Unlock
    <2>2. count' \in [Services -> Nat]
      BY <1>1, <1>4, <2>1
    <2>3. \A x \in Services : count'[x] \in (IF owner'[x] = Nobody THEN {0} ELSE 1..MaxCount)
      BY <1>1, <1>4, <2>1, ArbitrationAssumption DEF TypeOK
    <2> QED
      BY <1>1, <1>2, <2>1, <2>2, <2>3, InvariantNext DEF TypeOK, Holders
  <1>5. CASE ~(count[s] > 1) /\ WaitingFor(s) = {}
    <2>1. /\ owner' = [owner EXCEPT ![s] = Nobody] /\ count' = [count EXCEPT ![s] = 0]
          /\ waiting' = waiting
      BY <1>5 DEF Unlock
    <2>2. \A e \in W : owner'[e.service] = owner[e.service]
      <3>1. \A e \in W : e.service # s
        BY <1>5 DEF WaitingFor, ToSet
      <3> QED
        BY <1>1, <2>1, <3>1 DEF TypeOK
    <2>3. \A x \in Services, u \in Threads : owner[x] = u /\ u # t => owner'[x] = u
      BY <1>1, <1>2, <2>1 DEF TypeOK
    <2>4. Acyclic(W, owner')
      BY <1>1, <2>2 DEF Acyclic, WaitsWithin
    <2>5. Fits(W, owner', aborted, state)
      <3> HIDE DEF W
      <3> QED
        BY <1>1, <1>2, <2>2, <2>3 DEF Fits
    <2>6. \A x \in Services : count'[x] \in (IF owner'[x] = Nobody THEN {0} ELSE 1..MaxCount)
      BY <1>1, <2>1 DEF TypeOK
    <2> QED
      BY <1>1, <1>2, <2>1, <2>4, <2>5, <2>6, InvariantNext DEF TypeOK, Holders
  <1>6. CASE ~(count[s] > 1) /\ WaitingFor(s) # {}
    <2> DEFINE first == CHOOSE i \in WaitingFor(s) : \A j \in WaitingFor(s) : i <= j
               e == waiting[first]
    <2>1. /\ owner' = [owner EXCEPT ![s] = e.thread] /\ count' = count
          /\ waiting' = RemoveAt(waiting, first)
      BY <1>6 DEF Unlock
    <2>2. first \in DOMAIN waiting /\ e.service = s
      BY <1>1, <1>6, FirstWaits
    <2> HIDE DEF first
    <2>3. e \in W /\ e.thread \in Threads \ {t}
      BY <1>1, <1>3, <2>2 DEF ToSet
    <2>4. IsQueue(waiting') /\ ToSet(waiting') = W \ {e}
      BY <1>1, <2>1, <2>2, QueueRemove
    <2>5. \A f \in ToSet(waiting') : f \in W /\ f.thread # e.thread
      BY <1>1, <2>3, <2>4, QueueLookup
    <2>6. \A f \in W : f.thread = e.thread => f = e
      BY <1>1, <2>3, QueueLookup
    <2>7. \A x \in Services : owner'[x] = IF x = s THEN e.thread ELSE owner[x]
      BY <1>1, <2>1 DEF TypeOK
    <2> HIDE DEF e, W
    <2>8. Acyclic(ToSet(waiting'), owner')
      <3>1. ASSUME NEW S \in SUBSET Threads, S # {}, WaitsWithin(S, ToSet(waiting'), owner')
            PROVE  WaitsWithin(S, W, owner)
        <4>1. e.thread \notin S
          BY <2>5, <3>1 DEF WaitsWithin
        <4> QED
          BY <1>1, <2>5, <2>7, <3>1, <4>1 DEF WaitsWithin
      <3> QED
        BY <1>1, <3>1 DEF Acyclic
    <2>9. Fits(ToSet(waiting'), owner', aborted, state)
      <3>1. \A f \in ToSet(waiting') : /\ owner'[f.service] \notin {Nobody, f.thread}
                                       /\ f.thread \notin aborted /\ state[f.thread] # "runs"
        BY <1>1, <2>3, <2>5, <2>7, ArbitrationAssumption DEF Fits
      <3>2. ASSUME NEW u \in Threads, state[u] # "runs", \A f \in ToSet(waiting') : f.thread # u
            PROVE  u \in aborted \/ \E x \in Services : owner'[x] = u
        <4>1. CASE u = e.thread
          BY <2>7, <4>1
        <4>2. CASE u # e.thread
          <5>1. \A f \in W : f.thread # u
            BY <2>4, <3>2, <4>2
          <5>2. u \in aborted \/ \E x \in Services : owner[x] = u
            BY <1>1, <3>2, <5>1 DEF Fits
          <5> QED
            BY <1>2, <2>7, <3>2, <5>2
        <4> QED
          BY <4>1, <4>2
      <3>3. \A u \in aborted : state[u] # "runs"
        BY <1>1 DEF Fits
      <3> QED
        BY <3>1, <3>2, <3>3 DEF Fits
    <2>10. \A x \in Services : count'[x] \in (IF owner'[x] = Nobody THEN {0} ELSE 1..MaxCount)
      BY <1>1, <1>2, <2>1, <2>3, <2>7, ArbitrationAssumption DEF TypeOK
    <2>11. owner' \in [Services -> Holders]
      BY <1>1, <2>1, <2>3 DEF TypeOK, Holders
    <2> QED
      BY <1>1, <1>2, <2>1, <2>4, <2>8, <2>9, <2>10, <2>11, InvariantNext DEF TypeOK
  <1> QED
    BY <1>4, <1>5, <1>6

\* Every step keeps the invariant.
LEMMA StepHolds ==
    ASSUME IndInv, [Next]_vars
    PROVE  IndInv'
  <1>1. CASE UNCHANGED vars
    BY <1>1, InvariantSays, InvariantNext DEF vars, TypeOK, Holders
  <1>2. ASSUME NEW t \in Threads, NEW s \in Services, LockRefused(t, s)
        PROVE  UNCHANGED vars
    BY <1>2 DEF LockRefused
  <1>3. CASE Next
    BY <1>1, <1>2, <1>3, LockFreeStep, LockAgainStep, LockWaitsStep, LockWaitsForVictimStep,
       LockPanicsStep, WakesUpStep, InterruptStep, AfterInterruptStep, UnlockStep
       DEF Next, Request
  <1> QED
    BY <1>1, <1>3

(***************************************************************************)
(* The results.                                                            *)
(***************************************************************************)
\* Both parts of the invariant hold in every state.
THEOREM InvariantHolds == Spec => []IndInv
  <1>1. IndInv /\ [Next]_vars => IndInv'
    BY StepHolds
  <1> QED
    BY <1>1, InitHolds, PTL DEF Spec

\* The two queues keep their kinds: holders with counts, requests with threads.
THEOREM TypesHold == Spec => []TypeOK
  <1>1. IndInv => TypeOK
    BY DEF IndInv, QueuesInv
  <1> QED
    BY <1>1, InvariantHolds, PTL

\* The assertions of lockForArbitration and unlockForArbitration about the two
\* queues hold, however many threads and services there are.
THEOREM QueuesFit == Spec => []WaitedIsHeld
  <1>1. IndInv => WaitedIsHeld
    BY DEF IndInv, QueuesInv
  <1> QED
    BY <1>1, InvariantHolds, PTL

\* The search of lockForArbitration keeps any number of threads from waiting for
\* each other in a circle.
THEOREM NoDeadlock == Spec => []NoCircularWait
  <1>1. IndInv => NoCircularWait
    BY DEF IndInv
  <1> QED
    BY <1>1, InvariantHolds, PTL

(***************************************************************************)
(* Whom a deadlock costs its request.                                      *)
(***************************************************************************)
\* What the search walks along, up to where it meets its own thread, is a circle:
\* the threads on it other than t wait, at a place each, for one another.
LEMMA CycleIsCircle ==
    ASSUME QueuesInv, NEW t \in Threads, NEW s \in Services, FindsCycle(t, s),
           NEW U, \A n \in Places : LET h == HolderChain(t, s)[n]
                                   IN  h \notin {Nobody, t} /\ IsWaiting(h) => h \in U
    PROVE  ClosesCircle(U, t, s)
  <1> DEFINE chain == HolderChain(t, s)
  <1>1. PICK k \in Places : chain[k] = t
    BY DEF FindsCycle, Places
  <1>2. k \in Nat /\ k >= 1 /\ 1 \in Places /\ 1..k \subseteq Places
    BY PlacesOfThreads DEF Places
  <1>3. chain[k] # Nobody
    BY <1>1, ArbitrationAssumption
  <1>4. \A m \in 1..(k - 1) : /\ chain[m] \notin {Nobody, t} /\ IsWaiting(chain[m])
                              /\ chain[m + 1] = owner[ElementOf(chain[m]).service]
    BY <1>3, ChainPrefix
  <1>5. chain[1] = owner[s]
    BY <1>2, ChainStep
  <1>6. \A m \in 1..(k - 1) : chain[m] \in U
    BY <1>2, <1>4
  <1> HIDE DEF chain
  <1> DEFINE S == {chain[m] : m \in 1..k}
  <1>7. t \in S /\ owner[s] \in S
    <2>1. k \in 1..k /\ 1 \in 1..k
      BY <1>2
    <2> QED
      BY <1>1, <1>5, <2>1
  <1>8. S \in SUBSET (U \cup {t})
    <2> SUFFICES ASSUME NEW m \in 1..k PROVE chain[m] \in U \cup {t}
      OBVIOUS
    <2>1. m = k \/ m \in 1..(k - 1)
      BY <1>2
    <2> QED
      BY <1>1, <1>6, <2>1
  <1>9. ASSUME NEW u \in S \ {t} PROVE IsWaiting(u) /\ owner[ElementOf(u).service] \in S
    <2>1. PICK m \in 1..k : u = chain[m]
      OBVIOUS
    <2>2. m \in 1..(k - 1) /\ m + 1 \in 1..k
      BY <1>1, <1>2, <1>9, <2>1
    <2> QED
      BY <1>4, <2>1, <2>2
  <1> HIDE DEF S
  <1> QED
    BY <1>7, <1>8, <1>9 DEF ClosesCircle

\* Without the request of a holder on the chain there is no circle.
LEMMA VictimBreaksCircle ==
    ASSUME QueuesInv, NEW t \in Threads, NEW s \in Services, NEW k \in Places,
           HolderChain(t, s)[k] \in Threads \ {t}
    PROVE  ~ClosesCircle(Threads \ {HolderChain(t, s)[k]}, t, s)
  <1> DEFINE v == HolderChain(t, s)[k]
  <1> SUFFICES ASSUME NEW S \in SUBSET ((Threads \ {v}) \cup {t}), owner[s] \in S,
                      \A u \in S \ {t} : IsWaiting(u) /\ owner[ElementOf(u).service] \in S
               PROVE  FALSE
    BY DEF ClosesCircle
  <1>1. v # Nobody
    BY ArbitrationAssumption
  <1>2. v \in S
    BY <1>1, ChainStays
  <1> QED
    BY <1>2

\* Of the steps only two make anyone fail.
LEMMA WhoFails ==
    ASSUME Next,
           \A t \in Threads, s \in Services : ~LockWaitsForVictim(t, s) /\ ~LockPanics(t, s)
    PROVE  aborted' \subseteq aborted /\ panicked' = panicked
  BY DEF Next, Request, LockFree, LockAgain, LockRefused, LockWaits, WakesUp, Interrupt,
         AfterInterrupt, Unlock, vars

\* A request is aborted for a circle that it closes.
LEMMA AbortIsJust ==
    ASSUME IndInv, NEW t \in Threads, NEW s \in Services, LockWaitsForVictim(t, s)
    PROVE  AbortBreaksCircle /\ panicked' = panicked
  <1> DEFINE new == Element(t, s, TRUE)
             victim == Victim(t, s)
             rest == RemoveAt(waiting, PlaceOf(victim))
  <1>1. /\ waiting' = Append(rest, new) /\ aborted' = aborted \cup {victim}
        /\ FindsCycle(t, s) /\ Willing(t, s) # {} /\ state[t] = "runs" /\ panicked' = panicked
    BY DEF LockWaitsForVictim, Contends, Calls, Sleep
  <1>2. QueuesInv /\ IsQueue(waiting)
    BY InvariantSays
  <1>3. PICK k \in Places : /\ victim = HolderChain(t, s)[k]
                            /\ victim \in Threads \ {t} /\ IsWaiting(victim)
                            /\ ~ElementOf(victim).required
    BY <1>1, <1>2, VictimOnChain
  <1>4. waiting'[Len(waiting')] = new
    <2>1. rest \in Seq(Elements)
      BY <1>2, <1>3, WaitingIsQueue, QueueRemove DEF IsQueue
    <2>2. new \in Elements
      BY DEF Element, Elements
    <2> HIDE DEF rest, new
    <2> QED
      BY <1>1, <2>1, <2>2, AppendProperties
  <1>5. new.thread = t /\ new.service = s
    BY DEF Element
  <1>6. ClosesCircle(Threads, t, s)
    <2>1. \A n \in Places : LET h == HolderChain(t, s)[n]
                            IN  h \notin {Nobody, t} /\ IsWaiting(h) => h \in Threads
      BY <1>2, WaitingIsQueue
    <2> QED
      BY <1>1, <1>2, <2>1, CycleIsCircle
  <1>7. ~ClosesCircle(Threads \ {victim}, t, s)
    BY <1>2, <1>3, VictimBreaksCircle
  <1> HIDE DEF victim, new
  <1> QED
    BY <1>1, <1>3, <1>4, <1>5, <1>6, <1>7 DEF AbortBreaksCircle

\* A request that panics is for another's service, and every wait on the circle that
\* it closes is one that may not fail.
LEMMA PanicClosesCircle ==
    ASSUME IndInv, NEW t \in Threads, NEW s \in Services, LockPanics(t, s)
    PROVE  /\ owner[s] # t /\ aborted' = aborted
           /\ ClosesCircle({u \in Threads : IsWaiting(u) /\ ElementOf(u).required}, t, s)
  <1> DEFINE U == {u \in Threads : IsWaiting(u) /\ ElementOf(u).required}
  <1>1. /\ FindsCycle(t, s) /\ Willing(t, s) = {}
        /\ owner[s] # t /\ aborted' = aborted
    BY DEF LockPanics, Contends
  <1>2. QueuesInv
    BY InvariantSays
  <1>3. \A n \in Places : LET h == HolderChain(t, s)[n]
                          IN  h \notin {Nobody, t} /\ IsWaiting(h) => h \in U
    BY <1>1, <1>2, WaitingIsQueue DEF Willing, Places
  <1>4. ClosesCircle(U, t, s)
    <2> HIDE DEF U
    <2> QED
      BY <1>1, <1>2, <1>3, CycleIsCircle
  <1> QED
    BY <1>1, <1>4

\* A panic is for a circle of requests that may not fail, whoever asked.
LEMMA PanicIsJust ==
    ASSUME IndInv, \E t \in Threads, s \in Services : LockPanics(t, s)
    PROVE  PanicHasCircle /\ aborted' = aborted
  <1> DEFINE required == {u \in Threads : IsWaiting(u) /\ ElementOf(u).required}
             panics == {r \in Threads \X Services : LockPanics(r[1], r[2])}
  <1>1. PICK t \in Threads, s \in Services : LockPanics(t, s)
    OBVIOUS
  <1>2. panics # {}
    <2>1. <<t, s>> \in Threads \X Services /\ <<t, s>>[1] = t /\ <<t, s>>[2] = s
      OBVIOUS
    <2> QED
      BY <1>1, <2>1
  <1>3. ASSUME NEW r \in panics
        PROVE  owner[r[2]] # r[1] /\ ClosesCircle(required, r[1], r[2])
    <2>1. r[1] \in Threads /\ r[2] \in Services /\ LockPanics(r[1], r[2])
      OBVIOUS
    <2> QED
      BY <2>1, PanicClosesCircle
  <1>4. aborted' = aborted
    BY <1>1, PanicClosesCircle
  <1> HIDE DEF required, panics
  <1>5. panics # {} /\ \A r \in panics :
            owner[r[2]] # r[1] /\ ClosesCircle(required, r[1], r[2])
    BY <1>2, <1>3
  <1> QED
    BY <1>4, <1>5 DEF PanicHasCircle, required, panics

\* lockForArbitration aborts another's request, or panics, only where its own
\* request closes a circle; what it aborts may fail and breaks that circle; when it
\* panics no request of the circle may fail.
THEOREM FailureIsJust == Spec => FailsOnlyForDeadlock
  <1>1. ASSUME IndInv, Next PROVE AbortBreaksCircle /\ PanicHasCircle
    <2>1. CASE \E t \in Threads, s \in Services : LockWaitsForVictim(t, s)
      BY <1>1, <2>1, AbortIsJust DEF PanicHasCircle
    <2>2. CASE \E t \in Threads, s \in Services : LockPanics(t, s)
      BY <1>1, <2>2, PanicIsJust DEF AbortBreaksCircle
    <2>3. CASE \A t \in Threads, s \in Services : ~LockWaitsForVictim(t, s) /\ ~LockPanics(t, s)
      BY <1>1, <2>3, WhoFails DEF AbortBreaksCircle, PanicHasCircle
    <2> QED
      BY <2>1, <2>2, <2>3
  <1>2. IndInv /\ [Next]_vars => [AbortBreaksCircle /\ PanicHasCircle]_vars
    BY <1>1
  <1> QED
    BY <1>2, InvariantHolds, PTL DEF Spec, FailsOnlyForDeadlock
==============================================================================
