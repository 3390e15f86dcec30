----------------------------- MODULE ThreadCall -----------------------------
(***************************************************************************)
(* Callouts of the kernel, osfmk/kern/thread_call.c with the queues of     *)
(* osfmk/kern/timer_call.c: a call is put on the pending queue to run      *)
(* soon, or on the delayed queue, from which one timer moves it to the     *)
(* pending queue at its deadline.  Call threads serve the pending queue.   *)
(* One thread is enough as long as it does not block; when the last active *)
(* one blocks while calls are pending, the scheduler's callback wakes an   *)
(* idle thread, or the daemon, which makes a new one.                      *)
(*                                                                         *)
(* Every routine works under thread_call_lock, so each is one step; a      *)
(* routine that lets the lock go in the middle is several steps.  A call   *)
(* is identified with its entry; param1 is data and left out.              *)
(***************************************************************************)
EXTENDS Integers, Sequences, FiniteSets

CONSTANTS
    External,   \* entries that clients allocate (thread_call_allocate)
    Internal,   \* internal_call_storage: entries for the func routines
    Funcs,      \* { function, argument } pairs
    FuncOf,     \* the pair an external entry was set up with
    Threads,    \* threads the daemon may create
    ThreadMin,  \* thread_call_thread_min: idle threads that are kept
    Cpus,       \* processors: each runs one timer interrupt at a time
    MaxBlocked, \* bound: callouts that block at the same time
    MaxTime     \* bound: the clock stops here, deadlines are below

ASSUME CallsAssumption ==
    /\ External \cap Internal = {}
    /\ Funcs # {} /\ FuncOf \in [External -> Funcs]
    /\ IsFiniteSet(Threads)
    /\ ThreadMin \in Nat /\ Cpus \in Nat \ {0} /\ MaxBlocked \in Nat /\ MaxTime \in Nat

Entries == External \cup Internal
NoTimer == MaxTime + 1
Times == 0..MaxTime

VARIABLES
    pending, pending_count,     \* group->pending_queue and its count
    delayed,                    \* group->delayed_queue
    queue,                      \* call->queue, per entry
    func,                       \* call->func and param0, per entry
    deadline,                   \* call->deadline, per entry
    free,                       \* thread_call_internal_queue
    allocated,                  \* external entries that exist
    timer,                      \* when delayed_timer expires, or NoTimer
    firing,                     \* timer interrupts on their way to the handler
    now,                        \* mach_absolute_time
    idle_count, active_count,
    daemon_awake,               \* thread_call_daemon_awake
    daemon,                     \* the daemon thread: "awake", "creating", "asleep"
    thread                      \* each call thread: "none", "ready", "run",
                                \* "blocked", "idle"

entries == <<queue, func, deadline, free, allocated>>
queues == <<pending, pending_count, delayed, entries>>
clock == <<timer, firing, now>>
workers == <<idle_count, active_count, daemon_awake, daemon, thread>>
vars == <<queues, clock, workers>>

Init ==
    /\ pending = <<>> /\ pending_count = 0 /\ delayed = <<>>
    /\ queue = [c \in Entries |-> "none"]
    /\ func = [c \in Entries |-> IF c \in External THEN FuncOf[c]
                                ELSE CHOOSE f \in Funcs : TRUE]
    /\ deadline = [c \in Entries |-> 0]
    /\ free = Internal /\ allocated = {}
    /\ timer = NoTimer /\ firing = 0 /\ now = 0
    /\ idle_count = 0 /\ active_count = 0
    /\ daemon_awake = TRUE /\ daemon = "awake"
    /\ thread = [t \in Threads |-> "none"]

In(q, c) == \E i \in DOMAIN q : q[i] = c

\* The places of the queue q that remque leaves when the entries C are taken off
Kept(q, C) == {i \in DOMAIN q : q[i] \notin C}

\* The queue q without the entries C: the k-th entry is the one at the place up
\* to which k places are kept.
Without(q, C) ==
    [k \in 1..Cardinality(Kept(q, C)) |->
        q[CHOOSE i \in Kept(q, C) : Cardinality({j \in Kept(q, C) : j <= i}) = k]]

-----------------------------------------------------------------------------
(* Threads *)

\* thread_call_wake, when the threads are in the states th and active of
\* them are counted
ThreadCallWake(th, active) ==
    IF idle_count > 0 /\ \E t \in Threads : th[t] = "idle"
    THEN /\ \E t \in Threads :
                th[t] = "idle" /\ thread' = [th EXCEPT ![t] = "ready"]
         /\ idle_count' = idle_count - 1
         /\ active_count' = active + 1
         /\ UNCHANGED <<daemon_awake, daemon>>
    ELSE /\ daemon_awake' = TRUE
         /\ daemon' = IF daemon_awake THEN daemon ELSE "awake"
         /\ thread' = th
         /\ active_count' = active
         /\ UNCHANGED idle_count

WakeIfNoneActive ==
    IF active_count = 0 THEN ThreadCallWake(thread, 0) ELSE UNCHANGED workers

\* A block that looks at the threads and not at the queue, and so wakes
\* nobody.
SchedCallBlockSilently(t) ==
    /\ thread[t] = "run"
    /\ Cardinality({u \in Threads : thread[u] = "blocked"}) < MaxBlocked
    /\ thread' = [thread EXCEPT ![t] = "blocked"]
    /\ active_count' = active_count - 1
    /\ UNCHANGED <<queues, clock, idle_count, daemon_awake, daemon>>

\* sched_call_thread: the function of a call blocks
SchedCallBlock(t) ==
    /\ thread[t] = "run"
    /\ Cardinality({u \in Threads : thread[u] = "blocked"}) < MaxBlocked
    /\ LET th == [thread EXCEPT ![t] = "blocked"] IN
       IF active_count = 1 /\ pending_count > 0
       THEN ThreadCallWake(th, active_count - 1)
       ELSE /\ thread' = th
            /\ active_count' = active_count - 1
            /\ UNCHANGED <<idle_count, daemon_awake, daemon>>
    /\ UNCHANGED <<queues, clock>>

SchedCallUnblock(t) ==
    /\ thread[t] = "blocked"
    /\ thread' = [thread EXCEPT ![t] = "run"]
    /\ active_count' = active_count + 1
    /\ UNCHANGED <<queues, clock, idle_count, daemon_awake, daemon>>

\* The loop of thread_call_thread, entered by a new or woken thread or when
\* the function of the last call has returned.
ThreadTakesCall(t) ==
    /\ thread[t] \in {"ready", "run"}
    /\ pending_count > 0
    /\ LET call == Head(pending) IN
        /\ queue' = [queue EXCEPT ![call] = "none"]
        /\ free' = free \cup ({call} \cap Internal)
    /\ pending' = Tail(pending)
    /\ pending_count' = pending_count - 1
    /\ thread' = [thread EXCEPT ![t] = "run"]
    /\ UNCHANGED <<delayed, func, deadline, allocated, clock, idle_count,
                   active_count, daemon_awake, daemon>>

\* One thread too many is kept.
ThreadIdlesBeyondMin(t) ==
    /\ thread[t] \in {"ready", "run"}
    /\ pending_count = 0
    /\ active_count' = active_count - 1
    /\ idle_count' = idle_count + 1
    /\ thread' = [thread EXCEPT ![t] = "idle"]
    /\ UNCHANGED <<queues, clock, daemon_awake, daemon>>

ThreadIdles(t) ==
    /\ thread[t] \in {"ready", "run"}
    /\ pending_count = 0
    /\ active_count' = active_count - 1
    /\ IF idle_count < ThreadMin
       THEN /\ idle_count' = idle_count + 1
            /\ thread' = [thread EXCEPT ![t] = "idle"]
       ELSE /\ thread' = [thread EXCEPT ![t] = "none"]     \* thread_terminate
            /\ UNCHANGED idle_count
    /\ UNCHANGED <<queues, clock, daemon_awake, daemon>>

\* thread_call_daemon_continue: the lock is let go while a thread is made.
DaemonLooks ==
    /\ daemon = "awake"
    /\ IF active_count = 0 /\ pending_count > 0
       THEN /\ active_count' = active_count + 1
            /\ daemon' = "creating"
            /\ UNCHANGED daemon_awake
       ELSE /\ daemon_awake' = FALSE
            /\ daemon' = "asleep"
            /\ UNCHANGED active_count
    /\ UNCHANGED <<queues, clock, idle_count, thread>>

DaemonCreates ==
    /\ daemon = "creating"
    /\ \E t \in Threads :
        thread[t] = "none" /\ thread' = [thread EXCEPT ![t] = "ready"]
    /\ daemon' = "awake"
    /\ UNCHANGED <<queues, clock, idle_count, active_count, daemon_awake>>

-----------------------------------------------------------------------------
(* Queues *)

\* call_entry_enqueue_tail with the bookkeeping of _pending_call_enqueue
PendingCallEnqueue(c) ==
    /\ pending' = Append(Without(pending, {c}), c)
    /\ delayed' = Without(delayed, {c})
    /\ pending_count' = pending_count + 1
    /\ queue' = [queue EXCEPT ![c] = "pending"]

\* the entries at the head of the queue q whose deadline is d or earlier
UpTo(q, d) ==
    CHOOSE k \in 0..Len(q) :
        /\ \A i \in 1..k : deadline[q[i]] <= d
        /\ k < Len(q) => deadline[q[k + 1]] > d

\* call_entry_enqueue_deadline: behind the entries with the same deadline or
\* an earlier one; an entry that keeps its deadline keeps its place.
EnqueueDeadline(q, c, d) ==
    IF queue[c] = "delayed" /\ deadline[c] = d THEN q
    ELSE LET rest == Without(q, {c})
             k == UpTo(rest, d)
         IN  SubSeq(rest, 1, k) \o <<c>> \o SubSeq(rest, k + 1, Len(rest))

\* An entry that was pending leaves that queue uncounted.
DelayedCallEnqueueUncounted(c, d) ==
    /\ pending' = Without(pending, {c})
    /\ delayed' = EnqueueDeadline(delayed, c, d)
    /\ queue' = [queue EXCEPT ![c] = "delayed"]
    /\ deadline' = [deadline EXCEPT ![c] = d]
    /\ timer' = IF Head(delayed') = c THEN d ELSE timer
    /\ UNCHANGED pending_count

\* _delayed_call_enqueue, then the timer is set when the entry is now first
DelayedCallEnqueue(c, d) ==
    /\ pending' = Without(pending, {c})
    /\ pending_count' = pending_count - (IF queue[c] = "pending" THEN 1 ELSE 0)
    /\ delayed' = EnqueueDeadline(delayed, c, d)
    /\ queue' = [queue EXCEPT ![c] = "delayed"]
    /\ deadline' = [deadline EXCEPT ![c] = d]
    /\ timer' = IF Head(delayed') = c THEN d ELSE timer

\* _call_dequeue of several entries
CallDequeue(C) ==
    /\ pending' = Without(pending, C)
    /\ delayed' = Without(delayed, C)
    /\ pending_count' = pending_count
                            - Cardinality({c \in C : queue[c] = "pending"})
    /\ queue' = [c \in Entries |-> IF c \in C THEN "none" ELSE queue[c]]

-----------------------------------------------------------------------------
(* Calls of clients *)

\* thread_call_func; an empty storage is a panic
ThreadCallFunc(f, unique) ==
    /\ ~(unique /\ \E i \in DOMAIN pending : func[pending[i]] = f)
    /\ \E c \in free :
        /\ free' = free \ {c}
        /\ func' = [func EXCEPT ![c] = f]
        /\ PendingCallEnqueue(c)
    /\ WakeIfNoneActive
    /\ UNCHANGED <<deadline, allocated, clock>>

ThreadCallFuncDelayed(f, d) ==
    \E c \in free :
        /\ free' = free \ {c}
        /\ func' = [func EXCEPT ![c] = f]
        /\ DelayedCallEnqueue(c, d)
        /\ UNCHANGED <<allocated, firing, now, workers>>

\* The entries of a queue that thread_call_func_cancel removes: the first
\* match, or all of them.
Matches(q, f, all) ==
    {q[i] : i \in {i \in DOMAIN q :
        func[q[i]] = f /\ (all \/ \A j \in 1..(i - 1) : func[q[j]] # f)}}

\* An internal entry is not given back.
ThreadCallFuncCancelLeaks(f, all) ==
    LET removed == Matches(pending, f, all) \cup Matches(delayed, f, all)
    IN  /\ removed # {}
        /\ CallDequeue(removed)
        /\ UNCHANGED <<free, func, deadline, allocated, clock, workers>>

\* With cancel_all both queues are searched, else the second one only when
\* the first had no match.
ThreadCallFuncCancel(f, all) ==
    LET fromPending == Matches(pending, f, all)
        fromDelayed == IF all \/ fromPending = {} THEN Matches(delayed, f, all) ELSE {}
        removed == fromPending \cup fromDelayed
    IN  /\ removed # {}
        /\ CallDequeue(removed)
        /\ free' = free \cup (removed \cap Internal)
        /\ UNCHANGED <<func, deadline, allocated, clock, workers>>

\* thread_call_enter and thread_call_enter1
ThreadCallEnter(c) ==
    /\ c \in allocated
    /\ queue[c] # "pending"
    /\ PendingCallEnqueue(c)
    /\ WakeIfNoneActive
    /\ UNCHANGED <<func, deadline, free, allocated, clock>>

\* thread_call_enter_delayed and thread_call_enter1_delayed
ThreadCallEnterDelayed(c, d) ==
    /\ c \in allocated
    /\ DelayedCallEnqueue(c, d)
    /\ UNCHANGED <<func, free, allocated, firing, now, workers>>

ThreadCallCancel(c) ==
    /\ c \in allocated /\ queue[c] # "none"
    /\ CallDequeue({c})
    /\ UNCHANGED <<func, deadline, free, allocated, clock, workers>>

ThreadCallAllocate(c) ==
    /\ c \in External \ allocated
    /\ allocated' = allocated \cup {c}
    /\ UNCHANGED <<pending, pending_count, delayed, queue, func, deadline, free,
                   clock, workers>>

\* thread_call_free refuses an entry that is on a queue.
ThreadCallFree(c) ==
    /\ c \in allocated /\ queue[c] = "none"
    /\ allocated' = allocated \ {c}
    /\ UNCHANGED <<pending, pending_count, delayed, queue, func, deadline, free,
                   clock, workers>>

-----------------------------------------------------------------------------
(* Time *)

Tick ==
    /\ now < MaxTime
    /\ now' = now + 1
    /\ UNCHANGED <<timer, firing, queues, workers>>

\* timer_queue_expire takes the timer off its queue, then calls the handler
\* without a lock: the timer may be set again before the handler runs.
TimerQueueExpire ==
    /\ timer <= now /\ firing < Cpus
    /\ timer' = NoTimer
    /\ firing' = firing + 1
    /\ UNCHANGED <<now, queues, workers>>

\* the entries at the head of the delayed queue that are due
DueCount == UpTo(delayed, now)

\* The handler does not set the timer for the entries that are left.
DelayedTimerOnce ==
    /\ firing > 0
    /\ firing' = firing - 1
    /\ LET due == SubSeq(delayed, 1, DueCount)
       IN  /\ pending' = pending \o due
           /\ pending_count' = pending_count + DueCount
           /\ delayed' = SubSeq(delayed, DueCount + 1, Len(delayed))
           /\ queue' = [c \in Entries |-> IF In(due, c) THEN "pending" ELSE queue[c]]
           /\ IF due # <<>> THEN WakeIfNoneActive ELSE UNCHANGED workers
    /\ UNCHANGED <<func, deadline, free, allocated, timer, now>>

\* The handler moves the entries and leaves the threads alone.
DelayedTimerWakesNobody ==
    /\ firing > 0
    /\ firing' = firing - 1
    /\ LET due == SubSeq(delayed, 1, DueCount)
           rest == SubSeq(delayed, DueCount + 1, Len(delayed))
       IN  /\ pending' = pending \o due
           /\ pending_count' = pending_count + DueCount
           /\ delayed' = rest
           /\ queue' = [c \in Entries |-> IF In(due, c) THEN "pending" ELSE queue[c]]
           /\ timer' = IF rest = <<>> THEN timer ELSE deadline[Head(rest)]
    /\ UNCHANGED <<func, deadline, free, allocated, now, workers>>

\* thread_call_delayed_timer
DelayedTimer ==
    /\ firing > 0
    /\ firing' = firing - 1
    /\ LET due == SubSeq(delayed, 1, DueCount)
           rest == SubSeq(delayed, DueCount + 1, Len(delayed))
       IN  /\ pending' = pending \o due
           /\ pending_count' = pending_count + DueCount
           /\ delayed' = rest
           /\ queue' = [c \in Entries |-> IF In(due, c) THEN "pending" ELSE queue[c]]
           /\ timer' = IF rest = <<>> THEN timer ELSE deadline[Head(rest)]
           /\ IF due # <<>> THEN WakeIfNoneActive ELSE UNCHANGED workers
    /\ UNCHANGED <<func, deadline, free, allocated, now>>

-----------------------------------------------------------------------------
Client ==
    \/ \E f \in Funcs, flag \in BOOLEAN :
        ThreadCallFunc(f, flag) \/ ThreadCallFuncCancel(f, flag)
    \/ \E f \in Funcs, d \in Times : ThreadCallFuncDelayed(f, d)
    \/ \E c \in External, d \in Times : ThreadCallEnterDelayed(c, d)
    \/ \E c \in External :
        \/ ThreadCallEnter(c) \/ ThreadCallCancel(c)
        \/ ThreadCallAllocate(c) \/ ThreadCallFree(c)

CallThread(t) == ThreadTakesCall(t) \/ ThreadIdles(t)
Daemon == DaemonLooks \/ DaemonCreates

Next ==
    \/ Client
    \/ \E t \in Threads : CallThread(t) \/ SchedCallBlock(t) \/ SchedCallUnblock(t)
    \/ Daemon
    \/ Tick \/ TimerQueueExpire \/ DelayedTimer

Spec == Init /\ [][Next]_vars

(* The scheduler runs call threads and the daemon, and the clock and its   *)
(* interrupts do not stop.  A function that blocks need not ever come      *)
(* back, but one that always comes back returns at last.                   *)
FairSpec ==
    /\ Spec
    /\ \A t \in Threads : SF_vars(CallThread(t))
    /\ WF_vars(Daemon)
    /\ WF_vars(Tick) /\ WF_vars(TimerQueueExpire) /\ WF_vars(DelayedTimer)

-----------------------------------------------------------------------------
(* Queues, entries and counters of thread_call.c keep their kinds: no      *)
(* count falls below zero, and no more threads than thread_call_thread_min *)
(* are kept idle.                                                          *)
TypeOK ==
    /\ pending \in Seq(Entries) /\ delayed \in Seq(Entries)
    /\ pending_count \in Nat
    /\ queue \in [Entries -> {"none", "pending", "delayed"}]
    /\ func \in [Entries -> Funcs]
    /\ deadline \in [Entries -> Times]
    /\ free \subseteq Internal /\ allocated \subseteq External
    /\ timer \in Times \cup {NoTimer} /\ firing \in 0..Cpus /\ now \in Times
    /\ idle_count \in 0..ThreadMin /\ active_count \in Nat
    /\ daemon_awake \in BOOLEAN /\ daemon \in {"awake", "creating", "asleep"}
    /\ thread \in [Threads -> {"none", "ready", "run", "blocked", "idle"}]

(* The three counters that decide who is woken tell the truth although     *)
(* client, timer, scheduler, daemon and call threads all change them:      *)
(* pending_count is the length of the queue, idle_count the number of      *)
(* threads on idle_wqueue, active_count the number of threads that will    *)
(* look at the queue again, the one the daemon is making included.         *)
CountsAgree ==
    /\ pending_count = Len(pending)
    /\ idle_count = Cardinality({t \in Threads : thread[t] = "idle"})
    /\ active_count = Cardinality({t \in Threads : thread[t] \in {"ready", "run"}})
                        + (IF daemon = "creating" THEN 1 ELSE 0)
    /\ daemon_awake = (daemon # "asleep")

(* No pending call is left without somebody to serve it: a call thread     *)
(* that will come back to the queue, or the daemon, which is awake and     *)
(* will make one.                                                          *)
PendingIsServed ==
    pending # <<>> => active_count > 0 \/ daemon # "asleep"

(* The timer never misses a delayed call: its queue is ordered by          *)
(* deadline, and the timer is set for the first entry or earlier, or its   *)
(* handler is on the way.                                                  *)
DelayedIsTimed ==
    /\ \A i, j \in DOMAIN delayed :
        i < j => deadline[delayed[i]] <= deadline[delayed[j]]
    /\ delayed # <<>> => firing > 0 \/ timer <= deadline[Head(delayed)]

(* An entry is in one place: on the queue its queue field names, once, or  *)
(* on none.  An internal entry is free exactly when it is on no queue, so  *)
(* none is lost or used twice, and an external one that was freed is on    *)
(* no queue.                                                               *)
EntryHasOnePlace ==
    /\ \A c \in Entries :
        /\ Cardinality({i \in DOMAIN pending : pending[i] = c})
                = (IF queue[c] = "pending" THEN 1 ELSE 0)
        /\ Cardinality({i \in DOMAIN delayed : delayed[i] = c})
                = (IF queue[c] = "delayed" THEN 1 ELSE 0)
    /\ \A c \in Internal : c \in free <=> queue[c] = "none"
    /\ \A c \in External \ allocated : queue[c] = "none"

(* A pending call is run, if its client does not take it back, even when   *)
(* the functions of other calls block for ever; and a delayed call does    *)
(* not stay on its queue for ever.  That MaxTime bounds the deadlines      *)
(* leaves out the client that keeps entering its call with ever later      *)
(* ones, which the code puts off for as long as it is asked to.            *)
CallsGetRun ==
    \A c \in Entries : \A q \in {"pending", "delayed"} :
        (queue[c] = q) ~> (queue[c] # q)
=============================================================================
