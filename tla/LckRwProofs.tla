----------------------------- MODULE LckRwProofs -----------------------------
(***************************************************************************)
(* Proofs about LckRw, for any number of threads the count of the lock     *)
(* word can hold, with and without privileged writers and sleeping.        *)
(*                                                                         *)
(* The invariant ties the lock word to the threads: the count is the       *)
(* number of readers, and each of the two flags has at most one owner, who *)
(* waits for the readers to leave or has the lock exclusively.             *)
(***************************************************************************)
EXTENDS LckRw, FiniteSetTheorems, TLAPS

Readers == {t \in Threads : pc[t] = "shared"}
WriteOwner(t) == pc[t] \in {"dr", "exclW"}
UpgradeOwner(t) == pc[t] \in {"up", "exclU"}

\* The fields of the word, the flags and the threads, but not the count.
KindsInv ==
    /\ interlock \in Threads \cup {NoThread}
    /\ want_upgrade \in BOOLEAN /\ want_write \in BOOLEAN
    /\ r_waiting \in BOOLEAN /\ w_waiting \in BOOLEAN
    /\ priv_excl \in BOOLEAN /\ can_sleep \in BOOLEAN
    /\ pc \in [Threads -> {"idle"} \cup Holding \cup Waiting]
    /\ at \in [Threads -> {"spin", "ilk", "block"}]
    /\ wakeups \in [Threads -> SUBSET Events]
    /\ asleep \in [Events -> SUBSET Threads]

CountInv == shared_count = Cardinality(Readers)

\* Each flag is set for its owner, and there is only one.
OwnersInv ==
    /\ \A t \in Threads : WriteOwner(t) => want_write
    /\ \A t, u \in Threads : WriteOwner(t) /\ WriteOwner(u) => t = u
    /\ \A t \in Threads : UpgradeOwner(t) => want_upgrade
    /\ \A t, u \in Threads : UpgradeOwner(t) /\ UpgradeOwner(u) => t = u

\* Who has the lock exclusively has it alone.
AloneInv ==
    /\ \A t \in Threads : pc[t] \in {"exclW", "exclU"} => shared_count = 0
    /\ \A t \in Threads : pc[t] = "exclW" => ~want_upgrade

WordInv == CountInv /\ OwnersInv /\ AloneInv

IndInv == KindsInv /\ WordInv /\ SleeperIsAnnounced

(***************************************************************************)
(* The count.                                                              *)
(***************************************************************************)
\* The readers can be counted, and there are no more of them than threads.
LEMMA ReadersCounted ==
    /\ IsFiniteSet(Readers)
    /\ Cardinality(Readers) \in 0..Cardinality(Threads)
    /\ Cardinality(Readers) = 0 <=> Readers = {}
    /\ \A t : t \in Readers => (Cardinality(Readers) = 1 <=> Readers = {t})
  <1>1. IsFiniteSet(Threads) /\ Cardinality(Threads) \in Nat
    BY ThreadsAssumption, FS_CardinalityType
  <1>2. Readers \in SUBSET Threads
    BY DEF Readers
  <1>3. IsFiniteSet(Readers) /\ Cardinality(Readers) <= Cardinality(Threads)
    BY <1>1, <1>2, FS_Subset
  <1>4. Cardinality(Readers) \in Nat
    BY <1>3, FS_CardinalityType
  <1>5. Cardinality(Readers) = 0 <=> Readers = {}
    BY <1>3, FS_EmptySet
  <1>6. Cardinality(Readers) = 1 <=> \E x : Readers = {x}
    BY <1>3, FS_Singleton
  <1> QED
    BY <1>1, <1>3, <1>4, <1>5, <1>6

\* A thread that becomes a reader is one more.
LEMMA ReaderEnters ==
    ASSUME KindsInv, NEW t \in Threads, pc[t] # "shared", Goto(t, "shared")
    PROVE  Cardinality(Readers') = Cardinality(Readers) + 1
  <1>1. Readers' = Readers \cup {t} /\ t \notin Readers
    BY DEF Readers, Goto, KindsInv
  <1> QED
    BY <1>1, ReadersCounted, FS_AddElement

\* A reader that goes elsewhere is one less.
LEMMA ReaderLeaves ==
    ASSUME KindsInv, NEW t \in Threads, NEW p, pc[t] = "shared", p # "shared",
           Goto(t, p)
    PROVE  Cardinality(Readers') = Cardinality(Readers) - 1
  <1>1. Readers' = Readers \ {t} /\ t \in Readers
    BY DEF Readers, Goto, KindsInv
  <1> QED
    BY <1>1, ReadersCounted, FS_RemoveElement

\* Other moves, and no move at all, leave the readers alone.
LEMMA ReadersStay ==
    ASSUME KindsInv, NEW t \in Threads, NEW p, pc[t] # "shared", p # "shared",
           Goto(t, p) \/ UNCHANGED pc
    PROVE  Readers' = Readers
  BY DEF Readers, Goto, KindsInv

\* A reader is counted, and without a count there is none.
LEMMA CountTells ==
    ASSUME CountInv
    PROVE  /\ shared_count \in Nat
           /\ shared_count <= Cardinality(Threads)
           /\ \A t \in Threads : pc[t] = "shared" => shared_count > 0
           /\ shared_count = 0 => Readers = {}
           /\ \A t \in Threads :
                pc[t] = "shared" => (shared_count = 1 <=> Readers = {t})
  <1>1. \A t \in Threads : pc[t] = "shared" => t \in Readers
    BY DEF Readers
  <1>2. Cardinality(Threads) \in Nat
    BY ThreadsAssumption, FS_CardinalityType
  <1> QED
    BY <1>1, <1>2, ReadersCounted DEF CountInv

(***************************************************************************)
(* The steps.                                                              *)
(***************************************************************************)
Step(t) == Request(t) \/ Acquire(t) \/ Done(t) \/ ThreadWakeup(t)

\* The events a release finds to be woken are events.
LEMMA WakesEvents ==
    /\ ReadersToWake \in SUBSET Events
    /\ WritersToWake \in SUBSET Events
    /\ \A p : EventOf(p) \in Events
    /\ "reader" \in ReadersToWake <=> r_waiting /\ ~(priv_excl /\ w_waiting)
    /\ "writer" \in WritersToWake <=> w_waiting
    /\ "writer" \notin ReadersToWake /\ "reader" \notin WritersToWake
  BY DEF ReadersToWake, WritersToWake, If, Events, EventOf

\* Every step keeps the kinds of the fields and of the threads.
LEMMA KindsKept ==
    ASSUME KindsInv, NEW t \in Threads, Step(t)
    PROVE  KindsInv'
  <1> USE DEF KindsInv, Goto, Holding, Waiting, modes, fields
  <1>1. CASE LockShared(t) \/ LockSharedSlow(t) \/ GrabShared(t)
    BY <1>1 DEF LockShared, LockSharedSlow, GrabShared
  <1>2. CASE LockExclusive(t) \/ LockExclusiveSlow(t) \/ GrabWant(t) \/ Drained(t)
    BY <1>2 DEF LockExclusive, LockExclusiveSlow, GrabWant, Drained
  <1>3. CASE SharedToExclusive(t) \/ UpgradeDrained(t)
    BY <1>3 DEF SharedToExclusive, UpgradeDrained
  <1>4. CASE SharedToExclusiveFails(t)
    BY <1>4, WakesEvents DEF SharedToExclusiveFails, If
  <1>5. CASE ExclusiveToShared(t)
    BY <1>5, WakesEvents DEF ExclusiveToShared
  <1>6. CASE LckInterlockLock(t) \/ Awakened(t)
    BY <1>6 DEF LckInterlockLock, Awakened
  <1>7. ASSUME Sleep(t) PROVE KindsInv'
    BY <1>7, WakesEvents DEF Sleep
  <1>8. ASSUME NEW p \in {"shared", "dr", "exclW", "exclU"}, Proceed(t, p),
               want_write' \in BOOLEAN
        PROVE  KindsInv'
    BY <1>8 DEF Proceed
  <1>9. CASE SharedOrSleep(t) \/ WantOrSleep(t) \/ DrainedOrSleep(t) \/ UpgradeOrSleep(t)
    <2> HIDE DEF Goto, Holding, Waiting, modes
    <2>1. CASE SharedOrSleep(t)
      BY <1>7, <1>8, <2>1 DEF SharedOrSleep
    <2>2. CASE WantOrSleep(t)
      BY <1>7, <1>8, <2>2 DEF WantOrSleep
    <2>3. CASE DrainedOrSleep(t)
      BY <1>7, <1>8, <2>3 DEF DrainedOrSleep
    <2>4. CASE UpgradeOrSleep(t)
      BY <1>7, <1>8, <2>4 DEF UpgradeOrSleep
    <2> QED
      BY <1>9, <2>1, <2>2, <2>3, <2>4
  <1>10. CASE Done(t)
    <2>1. /\ want_upgrade' \in BOOLEAN /\ want_write' \in BOOLEAN
          /\ r_waiting' \in BOOLEAN /\ w_waiting' \in BOOLEAN
      BY <1>10 DEF Done
    <2>2. wakeups' \in [Threads -> SUBSET Events]
      BY <1>10, WakesEvents DEF Done
    <2>3. pc' \in [Threads -> {"idle"} \cup Holding \cup Waiting]
      BY <1>10 DEF Done
    <2>4. UNCHANGED <<interlock, priv_excl, can_sleep, at, asleep>>
      BY <1>10 DEF Done
    <2> QED
      BY <2>1, <2>2, <2>3, <2>4
  <1>11. CASE ThreadWakeup(t)
    BY <1>11 DEF ThreadWakeup, Events
  <1> QED
    BY <1>1, <1>2, <1>3, <1>4, <1>5, <1>6, <1>9, <1>10, <1>11 DEF Step, Request, Acquire

\* Every step keeps the count of the word the number of readers.
LEMMA CountKept ==
    ASSUME KindsInv, WordInv, NEW t \in Threads, Step(t)
    PROVE  CountInv'
  <1> USE DEF WordInv
  <1> SUFFICES shared_count' = Cardinality(Readers')
    BY DEF CountInv
  <1>1. ASSUME pc[t] # "shared", Goto(t, "shared"), shared_count' = shared_count + 1
        PROVE  shared_count' = Cardinality(Readers')
    BY <1>1, ReaderEnters DEF CountInv
  <1>2. ASSUME NEW p, pc[t] = "shared", p # "shared", Goto(t, p),
               shared_count' = shared_count - 1
        PROVE  shared_count' = Cardinality(Readers')
    BY <1>2, ReaderLeaves DEF CountInv
  <1>3. ASSUME NEW p, pc[t] # "shared", p # "shared", Goto(t, p),
               UNCHANGED shared_count
        PROVE  shared_count' = Cardinality(Readers')
    BY <1>3, ReadersStay DEF CountInv
  <1>4. ASSUME UNCHANGED <<pc, shared_count>>
        PROVE  shared_count' = Cardinality(Readers')
    BY <1>4 DEF CountInv, Readers
  <1>5. CASE LockShared(t) \/ GrabShared(t) \/ ExclusiveToShared(t)
    BY <1>1, <1>5 DEF LockShared, GrabShared, ExclusiveToShared, Calls, Spinning
  <1>6. CASE LockSharedSlow(t) \/ LockExclusive(t) \/ LockExclusiveSlow(t) \/ GrabWant(t)
             \/ Drained(t) \/ UpgradeDrained(t)
    BY <1>3, <1>6 DEF LockSharedSlow, LockExclusive, LockExclusiveSlow, GrabWant, Drained,
                      UpgradeDrained, Calls, Spinning, fields
  <1>7. CASE SharedToExclusive(t) \/ SharedToExclusiveFails(t)
    BY <1>2, <1>7 DEF SharedToExclusive, SharedToExclusiveFails, Calls
  <1>8. CASE LckInterlockLock(t) \/ Awakened(t) \/ ThreadWakeup(t)
    BY <1>4, <1>8 DEF LckInterlockLock, Awakened, ThreadWakeup, fields
  <1>9. CASE SharedOrSleep(t)
    BY <1>1, <1>4, <1>9 DEF SharedOrSleep, Sleep, Proceed, WithInterlock
  <1>10. CASE WantOrSleep(t) \/ DrainedOrSleep(t) \/ UpgradeOrSleep(t)
    BY <1>3, <1>4, <1>10
       DEF WantOrSleep, DrainedOrSleep, UpgradeOrSleep, Sleep, Proceed, WithInterlock
  <1>11. CASE Done(t)
    <2>1. CASE pc[t] = "shared"
      BY <1>2, <1>11, <2>1, CountTells DEF Done
    <2>2. CASE pc[t] \in {"exclW", "exclU"}
      BY <1>3, <1>11, <2>2 DEF Done, AloneInv
    <2> QED
      BY <1>11, <2>1, <2>2 DEF Done, Holding
  <1> QED
    BY <1>5, <1>6, <1>7, <1>8, <1>9, <1>10, <1>11 DEF Step, Request, Acquire

\* Every step keeps each flag with its one owner.
LEMMA OwnersKept ==
    ASSUME KindsInv, WordInv, NEW t \in Threads, Step(t)
    PROVE  OwnersInv'
  <1> USE DEF KindsInv, OwnersInv, WriteOwner, UpgradeOwner, Goto, WordInv
  <1>1. CASE LockShared(t) \/ LockSharedSlow(t) \/ GrabShared(t)
    BY <1>1 DEF LockShared, LockSharedSlow, GrabShared, fields
  <1>2. CASE LockExclusive(t) \/ GrabWant(t)
    BY <1>2 DEF LockExclusive, GrabWant, ExclusiveWanted
  <1>3. CASE LockExclusiveSlow(t) \/ LckInterlockLock(t) \/ Awakened(t) \/ ThreadWakeup(t)
    BY <1>3 DEF LockExclusiveSlow, LckInterlockLock, Awakened, ThreadWakeup, fields
  <1>4. CASE Drained(t) \/ UpgradeDrained(t)
    BY <1>4 DEF Drained, UpgradeDrained, Spinning, fields
  <1>5. CASE SharedToExclusive(t) \/ SharedToExclusiveFails(t)
    BY <1>5 DEF SharedToExclusive, SharedToExclusiveFails
  <1>6. CASE ExclusiveToShared(t)
    BY <1>6 DEF ExclusiveToShared, AloneInv
  <1>7. ASSUME Sleep(t) PROVE OwnersInv'
    BY <1>7 DEF Sleep
  <1>8. CASE SharedOrSleep(t) \/ WantOrSleep(t)
    BY <1>7, <1>8 DEF SharedOrSleep, WantOrSleep, Proceed
  <1>9. CASE DrainedOrSleep(t) \/ UpgradeOrSleep(t)
    BY <1>7, <1>9 DEF DrainedOrSleep, UpgradeOrSleep, Proceed, WithInterlock
  <1>10. CASE Done(t)
    <2>1. CASE pc[t] = "shared"
      <3>1. UNCHANGED <<want_upgrade, want_write>>
        BY <1>10, <2>1, CountTells DEF Done
      <3> QED
        BY <1>10, <2>1, <3>1 DEF Done
    <2>2. CASE pc[t] = "exclU"
      <3>1. UNCHANGED want_write
        BY <1>10, <2>2 DEF Done, AloneInv
      <3> QED
        BY <1>10, <2>2, <3>1 DEF Done
    <2>3. CASE pc[t] = "exclW"
      <3>1. UNCHANGED want_upgrade
        BY <1>10, <2>3 DEF Done, AloneInv
      <3> QED
        BY <1>10, <2>3, <3>1 DEF Done
    <2> QED
      BY <1>10, <2>1, <2>2, <2>3 DEF Done, Holding
  <1> QED
    BY <1>1, <1>2, <1>3, <1>4, <1>5, <1>6, <1>8, <1>9, <1>10 DEF Step, Request, Acquire

\* Nobody comes in next to a thread that has the lock exclusively.
LEMMA AloneKept ==
    ASSUME KindsInv, WordInv, NEW t \in Threads, Step(t)
    PROVE  AloneInv'
  <1> USE DEF KindsInv, AloneInv, Goto, WordInv
  <1>1. CASE LockShared(t)
    BY <1>1 DEF LockShared, ExclusiveWanted, OwnersInv, WriteOwner, UpgradeOwner
  <1>2. ASSUME ~SharedRefused, NEW u \in Threads
        PROVE  pc[u] \notin {"exclW", "exclU"}
    BY <1>2 DEF SharedRefused, ExclusiveWanted, OwnersInv, WriteOwner, UpgradeOwner
  <1>3. CASE GrabShared(t)
    BY <1>2, <1>3 DEF GrabShared
  <1>4. CASE LockSharedSlow(t) \/ LockExclusiveSlow(t) \/ GrabWant(t)
    BY <1>4 DEF LockSharedSlow, LockExclusiveSlow, GrabWant, fields
  <1>5. CASE LockExclusive(t) \/ Drained(t)
    BY <1>5 DEF LockExclusive, Drained, ExclusiveWanted, HeldReadOrUpgrade, fields
  <1>6. CASE UpgradeDrained(t)
    BY <1>6 DEF UpgradeDrained, fields
  <1>7. CASE LckInterlockLock(t) \/ Awakened(t) \/ ThreadWakeup(t)
    BY <1>7 DEF LckInterlockLock, Awakened, ThreadWakeup, fields
  <1>8. ASSUME Sleep(t) PROVE AloneInv'
    BY <1>8 DEF Sleep
  <1>9. CASE SharedOrSleep(t)
    BY <1>2, <1>8, <1>9 DEF SharedOrSleep, Proceed
  <1>10. CASE WantOrSleep(t) \/ DrainedOrSleep(t) \/ UpgradeOrSleep(t)
    BY <1>8, <1>10 DEF WantOrSleep, DrainedOrSleep, UpgradeOrSleep, Proceed
  <1>11. CASE pc[t] = "shared" /\ (SharedToExclusive(t) \/ SharedToExclusiveFails(t) \/ Done(t))
    <2>1. \A u \in Threads : pc[u] \notin {"exclW", "exclU"}
      BY <1>11, CountTells
    <2>2. CASE SharedToExclusive(t)
      BY <2>1, <2>2, CountTells DEF SharedToExclusive
    <2> QED
      BY <1>11, <2>1, <2>2 DEF SharedToExclusiveFails, Done
  <1>12. CASE pc[t] \in {"exclW", "exclU"} /\ (Done(t) \/ ExclusiveToShared(t))
    <2>1. \A u \in Threads : pc[u] \in {"exclW", "exclU"} => u = t
      BY <1>12 DEF OwnersInv, WriteOwner, UpgradeOwner
    <2> QED
      BY <1>12, <2>1 DEF Done, ExclusiveToShared
  <1> QED
    BY <1>1, <1>3, <1>4, <1>5, <1>6, <1>7, <1>9, <1>10, <1>11, <1>12
       DEF Step, Request, Acquire, SharedToExclusive, SharedToExclusiveFails, Calls,
           Done, ExclusiveToShared, Holding

\* Every step keeps the sleepers announced.
LEMMA SleepersKept ==
    ASSUME KindsInv, SleeperIsAnnounced, NEW t \in Threads, Step(t)
    PROVE  SleeperIsAnnounced'
  <1> USE DEF SleeperIsAnnounced, KindsInv
  <1>1. ASSUME UNCHANGED <<r_waiting, w_waiting, wakeups, asleep>>
        PROVE  SleeperIsAnnounced'
    BY <1>1
  <1>2. CASE \/ LockShared(t) \/ LockSharedSlow(t) \/ GrabShared(t) \/ LockExclusive(t)
             \/ LockExclusiveSlow(t) \/ GrabWant(t) \/ Drained(t) \/ UpgradeDrained(t)
             \/ SharedToExclusive(t) \/ LckInterlockLock(t) \/ Awakened(t)
    BY <1>1, <1>2
       DEF LockShared, LockSharedSlow, GrabShared, LockExclusive, LockExclusiveSlow,
           GrabWant, Drained, UpgradeDrained, SharedToExclusive, LckInterlockLock,
           Awakened, fields
  <1>3. ASSUME Sleep(t) PROVE SleeperIsAnnounced'
    BY <1>3 DEF Sleep, EventOf, Events
  <1>4. CASE SharedOrSleep(t) \/ WantOrSleep(t) \/ DrainedOrSleep(t) \/ UpgradeOrSleep(t)
    BY <1>1, <1>3, <1>4 DEF SharedOrSleep, WantOrSleep, DrainedOrSleep, UpgradeOrSleep, Proceed
  <1>5. CASE SharedToExclusiveFails(t)
    BY <1>5, WakesEvents DEF SharedToExclusiveFails, Calls, If
  <1>6. CASE ExclusiveToShared(t)
    BY <1>6, WakesEvents DEF ExclusiveToShared
  <1>7. CASE Done(t)
    BY <1>7, WakesEvents DEF Done
  <1>8. CASE ThreadWakeup(t)
    BY <1>8 DEF ThreadWakeup, Events, fields
  <1> QED
    BY <1>2, <1>4, <1>5, <1>6, <1>7, <1>8 DEF Step, Request, Acquire

(***************************************************************************)
(* The invariant of the lock.                                              *)
(***************************************************************************)
\* The lock word and the threads agree in every reachable state, whoever is
\* interrupted where.
THEOREM InvariantHolds == Spec => []IndInv
  <1>1. Init => IndInv
    <2> SUFFICES ASSUME Init PROVE IndInv
      OBVIOUS
    <2>1. KindsInv
      BY DEF Init, KindsInv, Events
    <2>2. Readers = {}
      BY DEF Init, Readers
    <2>3. CountInv
      BY <2>2, FS_EmptySet DEF Init, CountInv
    <2>4. OwnersInv /\ AloneInv
      BY DEF Init, OwnersInv, AloneInv, WriteOwner, UpgradeOwner
    <2>5. SleeperIsAnnounced
      BY DEF Init, SleeperIsAnnounced, Events
    <2> QED
      BY <2>1, <2>3, <2>4, <2>5 DEF IndInv, WordInv
  <1>2. IndInv /\ [Next]_vars => IndInv'
    <2> SUFFICES ASSUME IndInv, [Next]_vars PROVE IndInv'
      OBVIOUS
    <2>1. CASE Next
      <3>1. PICK t \in Threads : Step(t)
        BY <2>1 DEF Next, Step
      <3> QED
        BY <3>1, KindsKept, CountKept, OwnersKept, AloneKept, SleepersKept
           DEF IndInv, WordInv
    <2>2. CASE UNCHANGED vars
      BY <2>2 DEF vars, fields, modes, IndInv, KindsInv, WordInv, CountInv, Readers,
                  OwnersInv, WriteOwner, UpgradeOwner, AloneInv, SleeperIsAnnounced
    <2> QED
      BY <2>1, <2>2
  <1> QED
    BY <1>1, <1>2, PTL DEF Spec

\* The count of readers never runs below zero or beyond the number of threads,
\* and so not into the interlock byte; the other fields keep their kinds.
THEOREM TypesHold == Spec => []TypeOK
  <1>1. IndInv => TypeOK
    <2> SUFFICES ASSUME IndInv PROVE TypeOK
      OBVIOUS
    <2>1. shared_count \in 0..Cardinality(Threads)
      BY CountTells, ThreadsAssumption, FS_CardinalityType DEF IndInv, WordInv
    <2> QED
      BY <2>1 DEF IndInv, KindsInv, TypeOK
  <1> QED
    BY <1>1, InvariantHolds, PTL

\* lck_rw_done and lck_rw_lock_exclusive_to_shared read off the word how the
\* caller holds the lock: what they read is right.
THEOREM WordIsRight == Spec => []WordTellsHold
  <1>1. IndInv => WordTellsHold
    <2> SUFFICES ASSUME IndInv PROVE WordTellsHold
      OBVIOUS
    <2>1. \A t \in Threads : pc[t] = "shared" => shared_count > 0
      BY CountTells DEF IndInv, WordInv
    <2> QED
      BY <2>1 DEF IndInv, WordInv, OwnersInv, AloneInv, WriteOwner, UpgradeOwner,
                  WordTellsHold
  <1> QED
    BY <1>1, InvariantHolds, PTL

\* No wake-up is lost between assert_wait and thread_wakeup: every sleeper is
\* announced in the word or a thread is about to wake it.
THEOREM NoWakeupLost == Spec => []SleeperIsAnnounced
  <1>1. IndInv => SleeperIsAnnounced
    BY DEF IndInv
  <1> QED
    BY <1>1, InvariantHolds, PTL

(***************************************************************************)
(* The lock implements RWLock.                                             *)
(***************************************************************************)
Writers == {t \in Threads : pc[t] \in {"exclW", "exclU"}}
Upgraders == {t \in Threads : pc[t] = "up"}

\* A thread that enters or leaves one of the three places changes that set by
\* itself.
LEMMA MovesMap ==
    ASSUME KindsInv, NEW t \in Threads, NEW p, Goto(t, p)
    PROVE  /\ Readers' = IF p = "shared" THEN Readers \cup {t} ELSE Readers \ {t}
           /\ Writers' = IF p \in {"exclW", "exclU"} THEN Writers \cup {t}
                         ELSE Writers \ {t}
           /\ Upgraders' = IF p = "up" THEN Upgraders \cup {t} ELSE Upgraders \ {t}
  BY DEF KindsInv, Goto, Readers, Writers, Upgraders

\* A lock whose word is free of readers and flags has no owner of any kind.
LEMMA FreeWord ==
    ASSUME IndInv
    PROVE  /\ ~want_write => \A t \in Writers : pc[t] = "exclU"
           /\ ~want_upgrade => Upgraders = {} /\ \A t \in Writers : pc[t] = "exclW"
           /\ shared_count = 0 => Readers = {}
           /\ shared_count # 0 => Writers = {}
  <1>1. shared_count = 0 => Readers = {}
    BY CountTells DEF IndInv, WordInv
  <1> QED
    BY <1>1 DEF IndInv, WordInv, OwnersInv, AloneInv, WriteOwner, UpgradeOwner, Writers,
                Upgraders

\* The actions of RWLock under the mapping, in terms of the three sets.
LEMMA AbstractSteps ==
    ASSUME NEW t \in Threads
    PROVE  /\ /\ t \notin Readers \cup Writers \cup Upgraders
              /\ Writers = {} /\ Readers' = Readers \cup {t}
              /\ UNCHANGED <<Writers, Upgraders>>
              => RW!AcquireShared(t)
           /\ /\ Readers \cup Writers \cup Upgraders = {} /\ Writers' = {t}
              /\ UNCHANGED <<Readers, Upgraders>>
              => RW!AcquireExclusive(t)
           /\ /\ t \in Readers /\ Readers' = Readers \ {t}
              /\ UNCHANGED <<Writers, Upgraders>>
              => RW!ReleaseShared(t)
           /\ /\ t \in Writers /\ Writers' = Writers \ {t}
              /\ UNCHANGED <<Readers, Upgraders>>
              => RW!ReleaseExclusive(t)
           /\ /\ t \in Readers /\ Upgraders = {} /\ Readers' = Readers \ {t}
              /\ IF Readers = {t} THEN Writers' = {t} /\ UNCHANGED Upgraders
                 ELSE Upgraders' = {t} /\ UNCHANGED Writers
              => RW!Upgrade(t)
           /\ /\ t \in Upgraders /\ Readers = {} /\ Upgraders' = Upgraders \ {t}
              /\ Writers' = {t} /\ UNCHANGED Readers
              => RW!FinishUpgrade(t)
           /\ /\ t \in Writers /\ Writers' = Writers \ {t}
              /\ Readers' = Readers \cup {t} /\ UNCHANGED Upgraders
              => RW!Downgrade(t)
           /\ UNCHANGED <<Readers, Writers, Upgraders>> => UNCHANGED RW!vars
  BY DEF RW!AcquireShared, RW!Outside, RW!AcquireExclusive, RW!ReleaseShared,
         RW!ReleaseExclusive, RW!Upgrade, RW!FinishUpgrade, RW!Downgrade, RW!vars,
         Readers, Writers, Upgraders

\* Every step of the lock is a step of RWLock or none of its business.
LEMMA StepsMap ==
    ASSUME IndInv, NEW t \in Threads, Step(t)
    PROVE  RW!Next \/ UNCHANGED RW!vars
  <1> SUFFICES \/ RW!AcquireShared(t) \/ RW!AcquireExclusive(t) \/ RW!ReleaseShared(t)
               \/ RW!ReleaseExclusive(t) \/ RW!Upgrade(t) \/ RW!FinishUpgrade(t)
               \/ RW!Downgrade(t) \/ UNCHANGED RW!vars
    BY DEF RW!Next
  <1> USE DEF IndInv
  <1>1. /\ t \in Readers <=> pc[t] = "shared"
        /\ t \in Writers <=> pc[t] \in {"exclW", "exclU"}
        /\ t \in Upgraders <=> pc[t] = "up"
    BY DEF Readers, Writers, Upgraders
  <1>2. ASSUME UNCHANGED pc PROVE UNCHANGED RW!vars
    BY <1>2, AbstractSteps DEF Readers, Writers, Upgraders
  <1>3. ASSUME NEW p, Goto(t, p), p \in {"sh", "wr", "dr"}, pc[t] \in {"idle", "wr"}
        PROVE  UNCHANGED RW!vars
    BY <1>1, <1>3, MovesMap, AbstractSteps
  <1>4. ASSUME pc[t] \in {"idle", "sh"}, Goto(t, "shared"), Writers = {}
        PROVE  RW!AcquireShared(t)
    BY <1>1, <1>4, MovesMap, AbstractSteps
  <1>5. ASSUME Goto(t, "exclW"), Readers = {}, Writers = {}, Upgraders = {}
        PROVE  RW!AcquireExclusive(t)
    BY <1>5, MovesMap, AbstractSteps
  <1>6. ASSUME pc[t] = "shared", Goto(t, "idle")
        PROVE  RW!ReleaseShared(t)
    BY <1>1, <1>6, MovesMap, AbstractSteps
  <1>7. ASSUME pc[t] \in {"exclW", "exclU"}, Goto(t, "idle")
        PROVE  RW!ReleaseExclusive(t)
    BY <1>1, <1>7, MovesMap, AbstractSteps
  <1>8. ASSUME pc[t] = "up", Goto(t, "exclU"), shared_count = 0
        PROVE  RW!FinishUpgrade(t)
    <2>1. want_upgrade
      BY <1>8 DEF WordInv, OwnersInv, UpgradeOwner
    <2>2. Writers = {}
      BY <1>8, <2>1 DEF WordInv, OwnersInv, AloneInv, UpgradeOwner, Writers
    <2> QED
      BY <1>1, <1>8, <2>2, FreeWord, MovesMap, AbstractSteps
  <1>9. ASSUME ~SharedRefused PROVE Writers = {}
    <2>1. CASE shared_count # 0
      BY <2>1, FreeWord
    <2>2. CASE ~ExclusiveWanted
      BY <2>2, FreeWord DEF ExclusiveWanted, Writers
    <2> QED
      BY <1>9, <2>1, <2>2 DEF SharedRefused
  <1>10. CASE LockShared(t) \/ GrabShared(t)
    BY <1>4, <1>9, <1>10 DEF LockShared, GrabShared, SharedRefused, Calls, Spinning
  <1>11. CASE LockSharedSlow(t) \/ LockExclusiveSlow(t) \/ GrabWant(t)
    BY <1>3, <1>11 DEF LockSharedSlow, LockExclusiveSlow, GrabWant, Calls, Spinning
  <1>12. CASE LockExclusive(t)
    <2>1. Writers = {} /\ Readers = {} /\ Upgraders = {}
      BY <1>12, FreeWord DEF LockExclusive, ExclusiveWanted, Writers
    <2> QED
      BY <1>5, <1>12, <2>1 DEF LockExclusive
  <1>13. ASSUME pc[t] = "dr", shared_count = 0, ~want_upgrade, Goto(t, "exclW")
         PROVE  RW!AcquireExclusive(t)
    <2>1. Writers = {}
      BY <1>13, FreeWord DEF WordInv, OwnersInv, WriteOwner, Writers
    <2> QED
      BY <1>5, <1>13, <2>1, FreeWord
  <1>14. CASE Drained(t) \/ UpgradeDrained(t)
    BY <1>8, <1>13, <1>14 DEF Drained, UpgradeDrained, Spinning, HeldReadOrUpgrade
  <1>15. CASE SharedToExclusive(t)
    <2>1. pc[t] = "shared" /\ (shared_count = 1 <=> Readers = {t}) /\ shared_count # 0
      BY <1>15, CountTells DEF SharedToExclusive, Calls, WordInv
    <2>2. Writers = {} /\ Upgraders = {}
      BY <1>15, <2>1, FreeWord DEF SharedToExclusive
    <2>3. CASE shared_count = 1
      BY <1>1, <1>15, <2>1, <2>2, <2>3, MovesMap, AbstractSteps DEF SharedToExclusive
    <2>4. CASE shared_count # 1
      BY <1>1, <1>15, <2>1, <2>2, <2>4, MovesMap, AbstractSteps DEF SharedToExclusive
    <2> QED
      BY <2>3, <2>4
  <1>16. CASE SharedToExclusiveFails(t)
    BY <1>6, <1>16 DEF SharedToExclusiveFails, Calls
  <1>17. CASE ExclusiveToShared(t)
    <2>1. pc[t] \in {"exclW", "exclU"} /\ Goto(t, "shared")
      BY <1>17 DEF ExclusiveToShared
    <2> QED
      BY <1>1, <2>1, MovesMap, AbstractSteps
  <1>18. CASE LckInterlockLock(t) \/ Awakened(t) \/ ThreadWakeup(t)
    BY <1>2, <1>18 DEF LckInterlockLock, Awakened, ThreadWakeup
  <1>19. CASE SharedOrSleep(t)
    BY <1>2, <1>4, <1>9, <1>19 DEF SharedOrSleep, Sleep, Proceed, WithInterlock
  <1>20. CASE WantOrSleep(t)
    BY <1>2, <1>3, <1>20 DEF WantOrSleep, Sleep, Proceed, WithInterlock
  <1>21. CASE DrainedOrSleep(t) \/ UpgradeOrSleep(t)
    BY <1>2, <1>8, <1>13, <1>21 DEF DrainedOrSleep, UpgradeOrSleep, Sleep, Proceed, WithInterlock
  <1>22. CASE Done(t)
    BY <1>6, <1>7, <1>22 DEF Done, Holding
  <1> QED
    BY <1>10, <1>11, <1>12, <1>14, <1>15, <1>16, <1>17, <1>18, <1>19, <1>20, <1>21, <1>22
       DEF Step, Request, Acquire

\* The lock word, the interlock and the sleeping of lck_rw_t implement a
\* reader/writer lock with an upgrade that no writer gets in front of.
THEOREM LockIsRWLock == Spec => ImplementsRWLock
  <1>1. Init => RW!Init
    BY DEF Init, RW!Init
  <1>2. IndInv /\ [Next]_vars => [RW!Next]_(RW!vars)
    <2> SUFFICES ASSUME IndInv, [Next]_vars PROVE RW!Next \/ UNCHANGED RW!vars
      OBVIOUS
    <2>1. CASE Next
      <3>1. PICK t \in Threads : Step(t)
        BY <2>1 DEF Next, Step
      <3> QED
        BY <3>1, StepsMap
    <2>2. CASE UNCHANGED vars
      BY <2>2 DEF vars, RW!vars
    <2> QED
      BY <2>1, <2>2
  <1> QED
    BY <1>1, <1>2, InvariantHolds, PTL DEF Spec, ImplementsRWLock, RW!Spec
==============================================================================
