--------------------------- MODULE ArbitrationLock ---------------------------
(***************************************************************************)
(* The arbitration locks of I/O Kit, IOService::lockForArbitration and     *)
(* unlockForArbitration of iokit/Kernel/IOService.cpp: one recursive lock  *)
(* per service, kept as elements of two global queues.  A thread that has  *)
(* to wait first follows the chain of holders and what they wait for; when *)
(* the chain comes back to itself, its own request fails, or a request on  *)
(* the chain whose caller can bear to fail, or the kernel panics.          *)
(*                                                                         *)
(* Both routines work under gArbitrationLockQueueLock, so each is one      *)
(* step, and what a thread does after its sleep is another.  The free      *)
(* queue only recycles memory and is left out.                             *)
(***************************************************************************)
EXTENDS Integers, SequencesExt, FiniteSets

CONSTANTS
    Threads,
    Services,
    Nobody,
    MaxCount    \* bound: levels of recursion

ASSUME ArbitrationAssumption ==
    /\ IsFiniteSet(Threads) /\ Nobody \notin Threads
    /\ MaxCount \in Nat \ {0}

VARIABLES
    owner, count,   \* the active queue: per service, the element's thread
                    \* and count
    waiting,        \* the waiting queue: elements [thread, service, required]
    state,          \* each thread: "runs", "sleeps" in thread_block, or was
                    \* "interrupted" and has not taken the queue lock yet
    aborted,        \* threads whose element has the aborted flag
    panicked

vars == <<owner, count, waiting, state, aborted, panicked>>

Init ==
    /\ owner = [s \in Services |-> Nobody]
    /\ count = [s \in Services |-> 0]
    /\ waiting = <<>>
    /\ state = [t \in Threads |-> "runs"]
    /\ aborted = {}
    /\ panicked = FALSE

Element(t, s, required) == [thread |-> t, service |-> s, required |-> required]

IsWaiting(t) == \E i \in DOMAIN waiting : waiting[i].thread = t
PlaceOf(t) == CHOOSE i \in DOMAIN waiting : waiting[i].thread = t
ElementOf(t) == waiting[PlaceOf(t)]

Calls(t) == state[t] = "runs" /\ t \notin aborted /\ ~panicked

-----------------------------------------------------------------------------
(* The search for a cycle *)

\* The search goes on from a holder to the holder of what that one waits for.
\* It ends at a thread that does not wait or that is t, Nobody from there on.
NextHolder(t, holder) ==
    IF holder \in {Nobody, t} \/ ~IsWaiting(holder) THEN Nobody
    ELSE owner[ElementOf(holder).service]

\* The holders that the search visits from the holder of s on.
HolderChain(t, s) ==
    LET chain[n \in 1..Cardinality(Threads)] ==
            IF n = 1 THEN owner[s] ELSE NextHolder(t, chain[n - 1])
    IN  chain

\* Only the holder of s is looked at, not what it waits for.
FindsShortCycle(t, s) ==
    /\ IsWaiting(owner[s])
    /\ owner[ElementOf(owner[s]).service] = t

\* The request of t for s would close a cycle.
FindsCycle(t, s) == \E n \in 1..Cardinality(Threads) : HolderChain(t, s)[n] = t

\* Only the holder of s is asked whether its request may fail.
WillingFirst(t, s) ==
    {n \in {1} :
        LET holder == HolderChain(t, s)[n]
        IN  holder \notin {Nobody, t} /\ IsWaiting(holder)
            /\ ~ElementOf(holder).required}

\* The places on the chain of holders whose own request may fail.
Willing(t, s) ==
    {n \in 1..Cardinality(Threads) :
        LET holder == HolderChain(t, s)[n]
        IN  holder \notin {Nobody, t} /\ IsWaiting(holder)
            /\ ~ElementOf(holder).required}

\* victim: the last of them
Victim(t, s) ==
    HolderChain(t, s)[CHOOSE n \in Willing(t, s) : \A m \in Willing(t, s) : m <= n]

-----------------------------------------------------------------------------
(* lockForArbitration *)

LockFree(t, s) ==
    /\ Calls(t)
    /\ owner[s] = Nobody
    /\ owner' = [owner EXCEPT ![s] = t]
    /\ count' = [count EXCEPT ![s] = 1]
    /\ UNCHANGED <<waiting, state, aborted, panicked>>

LockAgain(t, s) ==
    /\ Calls(t)
    /\ owner[s] = t
    /\ count[s] < MaxCount
    /\ count' = [count EXCEPT ![s] = @ + 1]
    /\ UNCHANGED <<owner, waiting, state, aborted, panicked>>

Contends(t, s) == Calls(t) /\ owner[s] \notin {t, Nobody}

Sleep(t, s, required, queue) ==
    /\ waiting' = Append(queue, Element(t, s, required))
    /\ state' = [state EXCEPT ![t] = "sleeps"]

\* The chain ends at a thread that runs.
LockWaits(t, s, required) ==
    /\ Contends(t, s)
    /\ ~FindsCycle(t, s)
    /\ Sleep(t, s, required, waiting)
    /\ UNCHANGED <<owner, count, aborted, panicked>>

\* The request itself may fail: it does, and nothing is left of it.
LockRefused(t, s) ==
    /\ Contends(t, s)
    /\ FindsCycle(t, s)
    /\ UNCHANGED vars

\* A request that may not fail costs a willing one on the chain its place.
LockWaitsForVictim(t, s) ==
    /\ Contends(t, s)
    /\ FindsCycle(t, s) /\ Willing(t, s) # {}
    /\ LET victim == Victim(t, s) IN
        /\ Sleep(t, s, TRUE, RemoveAt(waiting, PlaceOf(victim)))
        /\ aborted' = aborted \cup {victim}
    /\ UNCHANGED <<owner, count, panicked>>

LockPanics(t, s) ==
    /\ Contends(t, s)
    /\ FindsCycle(t, s) /\ Willing(t, s) = {}
    /\ panicked' = TRUE
    /\ UNCHANGED <<owner, count, waiting, state, aborted>>

\* The thread was woken: its element is on the active queue, or aborted, and
\* lockForArbitration returns with success or without.
WakesUp(t) ==
    /\ state[t] = "sleeps" /\ ~panicked
    /\ ~IsWaiting(t)
    /\ state' = [state EXCEPT ![t] = "runs"]
    /\ aborted' = aborted \ {t}
    /\ UNCHANGED <<owner, count, waiting, panicked>>

\* Only a request that may fail sleeps interruptibly.
Interrupt(t) ==
    /\ state[t] = "sleeps" /\ ~panicked
    /\ IsWaiting(t) /\ ~ElementOf(t).required
    /\ state' = [state EXCEPT ![t] = "interrupted"]
    /\ UNCHANGED <<owner, count, waiting, aborted, panicked>>

\* The element stays on the waiting queue.
AfterInterruptStays(t) ==
    /\ state[t] = "interrupted" /\ ~panicked
    /\ state' = [state EXCEPT ![t] = "runs"]
    /\ aborted' = aborted \ {t}
    /\ UNCHANGED <<owner, count, waiting, panicked>>

\* The queue lock is taken again: meanwhile the element may have been moved
\* to the active queue, or aborted.
AfterInterrupt(t) ==
    /\ state[t] = "interrupted" /\ ~panicked
    /\ waiting' = IF IsWaiting(t) THEN RemoveAt(waiting, PlaceOf(t)) ELSE waiting
    /\ state' = [state EXCEPT ![t] = "runs"]
    /\ aborted' = aborted \ {t}
    /\ UNCHANGED <<owner, count, panicked>>

-----------------------------------------------------------------------------
(* unlockForArbitration: the lock is handed to the first who waits for it. *)

WaitingFor(s) == {i \in DOMAIN waiting : waiting[i].service = s}

\* The last level of recursion is counted down like the others.
UnlockOneLevel(t, s) ==
    /\ Calls(t)
    /\ owner[s] = t
    /\ count[s] > 0
    /\ count' = [count EXCEPT ![s] = @ - 1]
    /\ UNCHANGED <<owner, waiting, state, aborted, panicked>>

\* The lock is given back and those who wait are left asleep.
UnlockWithoutHandover(t, s) ==
    /\ Calls(t)
    /\ owner[s] = t
    /\ count' = [count EXCEPT ![s] = @ - 1]
    /\ owner' = [owner EXCEPT ![s] = IF count[s] > 1 THEN t ELSE Nobody]
    /\ UNCHANGED <<waiting, state, aborted, panicked>>

Unlock(t, s) ==
    /\ Calls(t)
    /\ owner[s] = t
    /\ IF count[s] > 1
       THEN /\ count' = [count EXCEPT ![s] = @ - 1]
            /\ UNCHANGED <<owner, waiting>>
       ELSE IF WaitingFor(s) = {}
       THEN /\ owner' = [owner EXCEPT ![s] = Nobody]
            /\ count' = [count EXCEPT ![s] = 0]
            /\ UNCHANGED waiting
       ELSE LET first == CHOOSE i \in WaitingFor(s) : \A j \in WaitingFor(s) : i <= j IN
            /\ owner' = [owner EXCEPT ![s] = waiting[first].thread]
            /\ waiting' = RemoveAt(waiting, first)
            /\ UNCHANGED count
    /\ UNCHANGED <<state, aborted, panicked>>

-----------------------------------------------------------------------------
Request(t) ==
    \E s \in Services :
        \/ LockFree(t, s) \/ LockAgain(t, s) \/ LockRefused(t, s)
        \/ LockWaitsForVictim(t, s) \/ LockPanics(t, s)
        \/ \E required \in BOOLEAN : LockWaits(t, s, required)

Next ==
    \E t \in Threads :
        \/ Request(t)
        \/ WakesUp(t) \/ Interrupt(t) \/ AfterInterrupt(t)
        \/ \E s \in Services : Unlock(t, s)

Spec == Init /\ [][Next]_vars

(* Threads that were woken run, and a holder that runs gives its locks     *)
(* back.                                                                   *)
FairSpec ==
    /\ Spec
    /\ \A t \in Threads :
        /\ WF_vars(WakesUp(t)) /\ WF_vars(AfterInterrupt(t))
        /\ WF_vars(\E s \in Services : Unlock(t, s))

-----------------------------------------------------------------------------
(* The two queues keep their kinds: a service on the active queue has one  *)
(* holder and a count of at least one, a service that is not has none.     *)
TypeOK ==
    /\ owner \in [Services -> Threads \cup {Nobody}]
    /\ \A s \in Services : count[s] \in (IF owner[s] = Nobody THEN {0} ELSE 1..MaxCount)
    /\ waiting \in Seq([thread : Threads, service : Services, required : BOOLEAN])
    /\ state \in [Threads -> {"runs", "sleeps", "interrupted"}]
    /\ aborted \subseteq Threads
    /\ panicked \in BOOLEAN

\* Every thread of S waits for a service that a thread of S holds.
Closed(S) == \A t \in S : IsWaiting(t) /\ owner[ElementOf(t).service] \in S

(* The search keeps threads from waiting for each other in a circle, with  *)
(* locks handed over, requests aborted and threads interrupted between one *)
(* search and the next: no set of threads only waits for itself.           *)
NoCircularWait == \A S \in SUBSET Threads : S # {} => ~Closed(S)

(* The queues fit the threads, which is what the assertions of both        *)
(* routines say: whoever waits does so once, not aborted, and for a        *)
(* service that another thread holds; a sleeper that is on no queue is the *)
(* one a service was handed to or was aborted, so it returns.              *)
WaitedIsHeld ==
    /\ \A i \in DOMAIN waiting :
        LET e == waiting[i] IN
        /\ owner[e.service] \notin {Nobody, e.thread}
        /\ e.thread \notin aborted
        /\ state[e.thread] # "runs"
        /\ \A j \in DOMAIN waiting : waiting[j].thread = e.thread => i = j
    /\ \A t \in Threads :
        state[t] # "runs" /\ ~IsWaiting(t)
            => t \in aborted \/ \E s \in Services : owner[s] = t
    /\ \A t \in aborted : state[t] # "runs"

\* With the waits of the threads in W and in addition that of t for s, a
\* circle is closed.
ClosesCircle(W, t, s) ==
    \E S \in SUBSET (W \cup {t}) :
        /\ t \in S /\ owner[s] \in S
        /\ \A u \in S \ {t} : IsWaiting(u) /\ owner[ElementOf(u).service] \in S

\* A request that is aborted had said it may fail, and it was one without
\* which the new request, the last on the queue, closes no circle.
AbortBreaksCircle ==
    \A v \in aborted' \ aborted :
        /\ ~ElementOf(v).required
        /\ LET new == waiting'[Len(waiting')] IN
            /\ ClosesCircle(Threads, new.thread, new.service)
            /\ ~ClosesCircle(Threads \ {v}, new.thread, new.service)

\* The kernel panics for a request on another's service that closes a circle
\* on which every wait is one that may not fail.
PanicHasCircle ==
    panicked' /\ ~panicked =>
        LET required == {u \in Threads : IsWaiting(u) /\ ElementOf(u).required}
            panics == {r \in Threads \X Services : LockPanics(r[1], r[2])}
        IN  /\ panics # {}
            /\ \A r \in panics :
                owner[r[2]] # r[1] /\ ClosesCircle(required, r[1], r[2])

(* Nobody fails for nothing: lockForArbitration aborts another's request,  *)
(* or panics, only for a circle that its own request closes; the request   *)
(* it aborts may fail and breaks the circle, and it panics only when no    *)
(* request on the whole circle may fail.                                   *)
FailsOnlyForDeadlock == [][AbortBreaksCircle /\ PanicHasCircle]_vars

(* When the threads stop asking, everyone who waits is served: holders     *)
(* give back, and no sleeper is left on a queue or off it.                 *)
WaitersGetThrough ==
    <>[][\A t \in Threads : ~Request(t)]_vars
        => <>[](\/ panicked
                \/ /\ owner = [s \in Services |-> Nobody]
                   /\ \A t \in Threads : state[t] = "runs")
==============================================================================
