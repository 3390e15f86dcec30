-------------------------------- MODULE LckRw --------------------------------
(***************************************************************************)
(* The reader/writer lock of the i386 kernel (lck_rw_t): the assembly fast *)
(* paths of osfmk/i386/i386_lock.s and the paths that spin and sleep of    *)
(* osfmk/i386/locks_i386.c.                                                *)
(*                                                                         *)
(* The lock is one 32-bit word: a count of readers, an interlock byte and  *)
(* flags.  The fast paths read the word and replace it with compare and    *)
(* exchange, so each of them is one atomic step on the word, and each      *)
(* refuses to act while the interlock is set.  The slow paths set the      *)
(* interlock, look at the fields, write them and clear the interlock.      *)
(* The wake-ups that follow a release come after the word was changed:     *)
(* they are steps of their own.                                            *)
(*                                                                         *)
(* A spinning thread may try again at any time and may give up at any time *)
(* (the deadline), so clocks are left out.                                 *)
(***************************************************************************)
EXTENDS Integers, FiniteSets

CONSTANTS
    Threads,
    NoThread    \* "nobody", for the interlock

(* The count of readers is a 16-bit field next to the interlock: more      *)
(* threads than it can count would carry into the interlock byte.          *)
ASSUME ThreadsAssumption ==
    /\ IsFiniteSet(Threads)
    /\ Cardinality(Threads) < 65536
    /\ NoThread \notin Threads

VARIABLES
    shared_count, interlock, want_upgrade, want_write,
    r_waiting, w_waiting, priv_excl, can_sleep,     \* fields of lck_rw_t
    pc,         \* where each thread is: see below
    at,         \* for a thread that waits: "spin", "ilk" or "block"
    wakeups,    \* wake-ups a thread still has to do after its release
    asleep      \* event -> threads between assert_wait and the wake-up

fields == <<shared_count, want_upgrade, want_write, r_waiting, w_waiting>>
modes == <<priv_excl, can_sleep>>
vars == <<fields, interlock, modes, pc, at, wakeups, asleep>>

(***************************************************************************)
(* "idle"      has nothing to do with the lock                             *)
(* "shared"    holds it for reading                                        *)
(* "exclW"     holds it for writing, through want_write                    *)
(* "exclU"     holds it for writing, through want_upgrade                  *)
(* "sh"        in lck_rw_lock_shared_gen                                   *)
(* "wr", "dr"  in the first and the second loop of lck_rw_lock_exclusive_gen*)
(* "up"        in lck_rw_lock_shared_to_exclusive_success                  *)
(* The code has no such variable: exclW and exclU tell apart what the      *)
(* thread did, not what the lock word says.                                *)
(***************************************************************************)
Holding == {"shared", "exclW", "exclU"}
Waiting == {"sh", "wr", "dr", "up"}

Events == {"reader", "writer"}
EventOf(p) == IF p = "sh" THEN "reader" ELSE "writer"

Goto(t, p) == pc' = [pc EXCEPT ![t] = p]

Init ==
    /\ shared_count = 0
    /\ interlock = NoThread
    /\ want_upgrade = FALSE /\ want_write = FALSE
    /\ r_waiting = FALSE /\ w_waiting = FALSE
    /\ priv_excl \in BOOLEAN /\ can_sleep \in BOOLEAN
    /\ pc = [t \in Threads |-> "idle"]
    /\ at = [t \in Threads |-> "spin"]
    /\ wakeups = [t \in Threads |-> {}]
    /\ asleep = [e \in Events |-> {}]

\* The thread runs code of its own, no routine of the lock.
Calls(t, p) == pc[t] = p /\ wakeups[t] = {}

-----------------------------------------------------------------------------
(* Acquiring *)

ExclusiveWanted == want_upgrade \/ want_write

\* lck_rw_lock_shared, and lck_rw_try_lock_shared when it succeeds
LockShared(t) ==
    /\ Calls(t, "idle")
    /\ interlock = NoThread /\ ~ExclusiveWanted
    /\ shared_count' = shared_count + 1
    /\ Goto(t, "shared")
    /\ UNCHANGED <<want_upgrade, want_write, r_waiting, w_waiting,
                   interlock, modes, at, wakeups, asleep>>

LockSharedSlow(t) ==
    /\ Calls(t, "idle")
    /\ interlock # NoThread \/ ExclusiveWanted
    /\ Goto(t, "sh")
    /\ UNCHANGED <<fields, interlock, modes, at, wakeups, asleep>>

\* Readers wait only for privileged writers, whoever has the lock.
SharedRefusedByPrivilege == ExclusiveWanted /\ priv_excl

\* A lock that readers have already keeps taking readers, unless writers are
\* privileged.
SharedRefused == ExclusiveWanted /\ (shared_count = 0 \/ priv_excl)

Spinning(t, p) == pc[t] = p /\ at[t] = "spin"

GrabShared(t) ==
    /\ Spinning(t, "sh")
    /\ interlock = NoThread /\ ~SharedRefused
    /\ shared_count' = shared_count + 1
    /\ Goto(t, "shared")
    /\ UNCHANGED <<want_upgrade, want_write, r_waiting, w_waiting,
                   interlock, modes, at, wakeups, asleep>>

\* lck_rw_lock_exclusive, and lck_rw_try_lock_exclusive when it succeeds
LockExclusive(t) ==
    /\ Calls(t, "idle")
    /\ interlock = NoThread /\ shared_count = 0 /\ ~ExclusiveWanted
    /\ want_write' = TRUE
    /\ Goto(t, "exclW")
    /\ UNCHANGED <<shared_count, want_upgrade, r_waiting, w_waiting,
                   interlock, modes, at, wakeups, asleep>>

LockExclusiveSlow(t) ==
    /\ Calls(t, "idle")
    /\ interlock # NoThread \/ shared_count # 0 \/ ExclusiveWanted
    /\ Goto(t, "wr")
    /\ UNCHANGED <<fields, interlock, modes, at, wakeups, asleep>>

GrabWant(t) ==
    /\ Spinning(t, "wr")
    /\ interlock = NoThread /\ ~want_write
    /\ want_write' = TRUE
    /\ Goto(t, "dr")
    /\ UNCHANGED <<shared_count, want_upgrade, r_waiting, w_waiting,
                   interlock, modes, at, wakeups, asleep>>

\* Only readers are waited for, not an upgrade in progress.
HeldRead == shared_count # 0 \/ interlock # NoThread

\* lck_rw_held_read_or_upgrade: the interlock counts as held.
HeldReadOrUpgrade == shared_count # 0 \/ interlock # NoThread \/ want_upgrade

Drained(t) ==
    /\ Spinning(t, "dr")
    /\ ~HeldReadOrUpgrade
    /\ Goto(t, "exclW")
    /\ UNCHANGED <<fields, interlock, modes, at, wakeups, asleep>>

\* The loop of lck_rw_lock_shared_to_exclusive_success looks at the count
\* alone, whoever has the interlock.
UpgradeDrained(t) ==
    /\ Spinning(t, "up")
    /\ shared_count = 0
    /\ Goto(t, "exclU")
    /\ UNCHANGED <<fields, interlock, modes, at, wakeups, asleep>>

-----------------------------------------------------------------------------
(* Sleeping: the deadline is over, and the lock may sleep.                 *)

LckInterlockLock(t) ==
    /\ pc[t] \in Waiting /\ at[t] = "spin"
    /\ can_sleep
    /\ interlock = NoThread
    /\ interlock' = t
    /\ at' = [at EXCEPT ![t] = "ilk"]
    /\ UNCHANGED <<fields, modes, pc, wakeups, asleep>>

WithInterlock(t, p) == pc[t] = p /\ at[t] = "ilk"

\* assert_wait, then the interlock is cleared, then thread_block
Sleep(t) ==
    /\ interlock' = NoThread
    /\ at' = [at EXCEPT ![t] = "block"]
    /\ asleep' = [asleep EXCEPT ![EventOf(pc[t])] = @ \cup {t}]
    /\ r_waiting' = (r_waiting \/ EventOf(pc[t]) = "reader")
    /\ w_waiting' = (w_waiting \/ EventOf(pc[t]) = "writer")
    /\ UNCHANGED <<shared_count, want_upgrade, want_write, modes, pc, wakeups>>

\* The state changed before the interlock was taken: no need to sleep.
Proceed(t, p) ==
    /\ interlock' = NoThread
    /\ at' = [at EXCEPT ![t] = "spin"]
    /\ Goto(t, p)
    /\ UNCHANGED <<r_waiting, w_waiting, want_upgrade, modes, wakeups, asleep>>

SharedOrSleep(t) ==
    /\ WithInterlock(t, "sh")
    /\ IF SharedRefused
       THEN Sleep(t)
       ELSE /\ shared_count' = shared_count + 1
            /\ Proceed(t, "shared")
            /\ UNCHANGED want_write

WantOrSleep(t) ==
    /\ WithInterlock(t, "wr")
    /\ IF want_write
       THEN Sleep(t)
       ELSE /\ want_write' = TRUE
            /\ Proceed(t, "dr")
            /\ UNCHANGED shared_count

DrainedOrSleep(t) ==
    /\ WithInterlock(t, "dr")
    /\ IF shared_count # 0 \/ want_upgrade
       THEN Sleep(t)
       ELSE Proceed(t, "exclW") /\ UNCHANGED <<shared_count, want_write>>

UpgradeOrSleep(t) ==
    /\ WithInterlock(t, "up")
    /\ IF shared_count # 0
       THEN Sleep(t)
       ELSE Proceed(t, "exclU") /\ UNCHANGED <<shared_count, want_write>>

\* thread_block returns, and the outer loop starts again.
Awakened(t) ==
    /\ at[t] = "block"
    /\ t \notin asleep[EventOf(pc[t])]
    /\ at' = [at EXCEPT ![t] = "spin"]
    /\ UNCHANGED <<fields, interlock, modes, pc, wakeups, asleep>>

-----------------------------------------------------------------------------
(* Releasing.  What has to be woken is decided from the word as it was     *)
(* before the compare and exchange.                                        *)

If(condition, events) == IF condition THEN events ELSE {}

\* Privileged writers hold readers back even when no writer waits.
ReadersHeldBack == If(r_waiting /\ ~priv_excl, {"reader"})

ReadersToWake == If(r_waiting /\ ~(priv_excl /\ w_waiting), {"reader"})
WritersToWake == If(w_waiting, {"writer"})

\* The reader count is decremented without a look whether there is one.
DoneUncounted(t) ==
    /\ pc[t] \in Holding /\ wakeups[t] = {}
    /\ interlock = NoThread
    /\ shared_count' = shared_count - 1
    /\ w_waiting' = FALSE /\ r_waiting' = FALSE
    /\ wakeups' = [wakeups EXCEPT ![t] = WritersToWake \cup ReadersToWake]
    /\ Goto(t, "idle")
    /\ UNCHANGED <<want_upgrade, want_write, interlock, modes, at, asleep>>

\* lck_rw_done and the decision of lck_rw_done_gen.  The word alone says how
\* the lock is held.  No disjunct fits a lock that nobody holds: a panic.
Done(t) ==
    /\ pc[t] \in Holding /\ wakeups[t] = {}
    /\ interlock = NoThread
    /\ \/ /\ shared_count > 0
          /\ shared_count' = shared_count - 1
          /\ UNCHANGED <<want_upgrade, want_write>>
       \/ /\ shared_count = 0 /\ want_upgrade
          /\ want_upgrade' = FALSE
          /\ UNCHANGED <<shared_count, want_write>>
       \/ /\ shared_count = 0 /\ ~want_upgrade /\ want_write
          /\ want_write' = FALSE
          /\ UNCHANGED <<shared_count, want_upgrade>>
    /\ IF shared_count <= 1
       THEN /\ w_waiting' = FALSE
            /\ r_waiting' = (r_waiting /\ w_waiting /\ priv_excl)
            /\ wakeups' = [wakeups EXCEPT ![t] = WritersToWake \cup ReadersToWake]
       ELSE UNCHANGED <<w_waiting, r_waiting, wakeups>>
    /\ Goto(t, "idle")
    /\ UNCHANGED <<interlock, modes, at, asleep>>

\* lck_rw_lock_shared_to_exclusive.  The second of two upgrades fails and
\* costs the thread its share of the lock.
SharedToExclusive(t) ==
    /\ Calls(t, "shared")
    /\ interlock = NoThread /\ ~want_upgrade
    /\ want_upgrade' = TRUE
    /\ shared_count' = shared_count - 1
    /\ Goto(t, IF shared_count = 1 THEN "exclU" ELSE "up")
    /\ UNCHANGED <<want_write, r_waiting, w_waiting, interlock, modes, at,
                   wakeups, asleep>>

\* The upgrade that waits for this reader is not woken.
SharedToExclusiveFailsSilently(t) ==
    /\ Calls(t, "shared")
    /\ interlock = NoThread /\ want_upgrade
    /\ shared_count' = shared_count - 1
    /\ Goto(t, "idle")
    /\ UNCHANGED <<want_upgrade, want_write, r_waiting, w_waiting, interlock,
                   modes, at, wakeups, asleep>>

SharedToExclusiveFails(t) ==
    /\ Calls(t, "shared")
    /\ interlock = NoThread /\ want_upgrade
    /\ shared_count' = shared_count - 1
    /\ w_waiting' = (w_waiting /\ shared_count # 1)
    /\ wakeups' = [wakeups EXCEPT ![t] = If(shared_count = 1, WritersToWake)]
    /\ Goto(t, "idle")
    /\ UNCHANGED <<want_upgrade, want_write, r_waiting, interlock, modes, at,
                   asleep>>

\* lck_rw_lock_exclusive_to_shared
ExclusiveToShared(t) ==
    /\ pc[t] \in {"exclW", "exclU"} /\ wakeups[t] = {}
    /\ interlock = NoThread
    /\ shared_count' = shared_count + 1
    /\ want_upgrade' = FALSE
    /\ want_write' = (want_write /\ want_upgrade)
    /\ r_waiting' = (r_waiting /\ w_waiting /\ priv_excl)
    /\ wakeups' = [wakeups EXCEPT ![t] = ReadersToWake]
    /\ Goto(t, "shared")
    /\ UNCHANGED <<w_waiting, interlock, modes, at, asleep>>

\* thread_wakeup wakes everyone who waits for the event, writers first.
ThreadWakeup(t) ==
    \E e \in wakeups[t] :
        /\ e = "reader" => "writer" \notin wakeups[t]
        /\ asleep' = [asleep EXCEPT ![e] = {}]
        /\ wakeups' = [wakeups EXCEPT ![t] = @ \ {e}]
        /\ UNCHANGED <<fields, interlock, modes, pc, at>>

-----------------------------------------------------------------------------
\* What a thread begins of its own will
Request(t) ==
    \/ LockShared(t) \/ LockSharedSlow(t)
    \/ LockExclusive(t) \/ LockExclusiveSlow(t)
    \/ SharedToExclusive(t) \/ SharedToExclusiveFails(t)
    \/ ExclusiveToShared(t)

Acquire(t) ==
    \/ GrabShared(t) \/ GrabWant(t) \/ Drained(t) \/ UpgradeDrained(t)
    \/ LckInterlockLock(t)
    \/ SharedOrSleep(t) \/ WantOrSleep(t) \/ DrainedOrSleep(t) \/ UpgradeOrSleep(t)
    \/ Awakened(t)

Next == \E t \in Threads : Request(t) \/ Acquire(t) \/ Done(t) \/ ThreadWakeup(t)

Spec == Init /\ [][Next]_vars

(* A thread that runs goes on; one that holds the lock releases it some    *)
(* time.  Nobody has to ask for the lock.                                  *)
FairSpec ==
    /\ Spec
    /\ \A t \in Threads :
        WF_vars(Acquire(t)) /\ WF_vars(Done(t)) /\ WF_vars(ThreadWakeup(t))

-----------------------------------------------------------------------------
(* The fields of lck_rw_t keep their kinds; above all the count of readers *)
(* never goes below zero or above the number of threads, which in the      *)
(* 16-bit field of the code would run into the interlock byte.             *)
TypeOK ==
    /\ shared_count \in 0..Cardinality(Threads)
    /\ interlock \in Threads \cup {NoThread}
    /\ want_upgrade \in BOOLEAN /\ want_write \in BOOLEAN
    /\ r_waiting \in BOOLEAN /\ w_waiting \in BOOLEAN
    /\ priv_excl \in BOOLEAN /\ can_sleep \in BOOLEAN
    /\ pc \in [Threads -> {"idle"} \cup Holding \cup Waiting]
    /\ at \in [Threads -> {"spin", "ilk", "block"}]
    /\ wakeups \in [Threads -> SUBSET Events]
    /\ asleep \in [Events -> SUBSET Threads]

(* lck_rw_done and lck_rw_lock_exclusive_to_shared find out from the word  *)
(* alone how the caller holds the lock: a count means shared, else         *)
(* want_upgrade, else want_write.  Whoever holds the lock finds its own    *)
(* hold there, so it clears no other thread's bit, lck_rw_unlock_shared    *)
(* and lck_rw_unlock_exclusive do not panic on the type, and lck_rw_done   *)
(* never finds a lock without an owner.                                    *)
WordTellsHold ==
    \A t \in Threads :
        /\ pc[t] = "shared" => shared_count > 0
        /\ pc[t] = "exclU" => shared_count = 0 /\ want_upgrade
        /\ pc[t] = "exclW" => shared_count = 0 /\ ~want_upgrade /\ want_write

(* No wake-up is lost: a thread between assert_wait and its wake-up is     *)
(* announced in the lock word, where the next release sees it, or a thread *)
(* that saw it there is on its way to thread_wakeup.                       *)
SleeperIsAnnounced ==
    /\ asleep["reader"] # {} => r_waiting \/ \E t \in Threads : "reader" \in wakeups[t]
    /\ asleep["writer"] # {} => w_waiting \/ \E t \in Threads : "writer" \in wakeups[t]

(* The lock is a reader/writer lock with an upgrade that is atomic for     *)
(* writers: the code implements RWLock.                                    *)
RW == INSTANCE RWLock WITH
        readers <- {t \in Threads : pc[t] = "shared"},
        writers <- {t \in Threads : pc[t] \in {"exclW", "exclU"}},
        upgraders <- {t \in Threads : pc[t] = "up"}

ImplementsRWLock == RW!Spec

(* When the threads stop asking for the lock, everyone who waits gets it   *)
(* and gives it back: no thread sleeps or spins for ever on a lock that    *)
(* the others have left.                                                   *)
WaitersGetThrough ==
    <>[][\A t \in Threads : ~Request(t)]_vars
        => <>[](\A t \in Threads : pc[t] = "idle" /\ wakeups[t] = {})
==============================================================================
