----------------------------- MODULE ServiceMatch -----------------------------
(***************************************************************************)
(* Registration and matching of I/O Kit, iokit/Kernel/IOService.cpp with   *)
(* iokit/Kernel/IOCatalogue.cpp: a service that is registered is matched   *)
(* against the drivers of the catalogue, by a configuration thread or, for *)
(* a synchronous registration, by the caller; it is matched again when it  *)
(* is registered again or the catalogue changes.  Every service counts its *)
(* own matching and its busy clients, and who waits for it to go quiet     *)
(* waits for that count.                                                   *)
(*                                                                         *)
(* A step is what happens under one lock.  An arbitration lock that is     *)
(* kept over several steps, as during the walk of _adjustBusy, is in lock; *)
(* that it excludes others is what ArbitrationLock shows.  Termination is  *)
(* left out: no service is inactive.  Drivers are of one match category,   *)
(* and one that would not probe or start on a service counts as not        *)
(* matching it.                                                            *)
(***************************************************************************)
EXTENDS Integers, Sequences, FiniteSets

CONSTANTS
    Services, NoService,
    Provider,       \* getProvider(): a service, or NoService for the root
    Published,      \* services that are registered from the start
    Drivers, NoDriver,
    Matches,        \* per driver: the services it would drive
    Listed,         \* drivers that are in the catalogue from the start
    Clients,        \* threads that register services or wait
    Scenarios,      \* bound: per client, the operations it may do, each once
    ConfigThreads,  \* the threads of the pool: kMaxConfigThreads of them
    Nobody

kIOServiceBusyMax == 255

Threads == Clients \cup ConfigThreads

\* What a client may ask for: an operation, its service, option and driver
Operations ==
    [what : {"register", "waitQuiet"}, service : Services,
     option : {"default", "sync", "async"}, driver : {NoDriver}]
        \cup [what : {"matchIdle"}, service : {NoService}, option : {"default"}, driver : {NoDriver}]
        \cup [what : {"add", "remove", "load"}, service : {NoService}, option : {"default"},
              driver : Drivers]

\* The providers of a service end at a root: there is no circle.
ASSUME MatchAssumption ==
    /\ Provider \in [Services -> Services \cup {NoService}]
    /\ \A S \in SUBSET Services : S # {} => \E s \in S : Provider[s] \notin S
    /\ NoService \notin Services /\ NoDriver \notin Drivers /\ Nobody \notin Threads
    /\ Clients \cap ConfigThreads = {} /\ IsFiniteSet(Threads) /\ IsFiniteSet(Services)
    /\ Published \subseteq Services /\ Listed \subseteq Drivers
    /\ Matches \in [Drivers -> SUBSET Services]
    /\ Scenarios \subseteq [Clients -> SUBSET Operations]

VARIABLES
    flags,      \* __state of each service: a set of the names below
    busy,       \* its busy count, the low byte of __state[1]
    driver,     \* its client, or NoDriver
    lock,       \* arbitration lock, while it is kept over several steps
    catalogue, loaded, generation,  \* IOCatalogue, modules that are in
    catalogLock,
    toTell,     \* allSet of catalogNewDrivers, while the catalogue is locked
    jobs, outstanding, numConfig, numWaiting, semaphore,
    busyLock,   \* gIOServiceBusyLock, while it is kept over several steps
    asleep,     \* threads between assert_wait and their wake-up
    at,         \* the place of each thread
    on,         \* the service it works on
    local,      \* its local variables
    todo        \* operations a client has left

FlagNames == {"NeedConfig", "Config", "Registered", "ModuleStall", "BusyWaiter",
              "SyncPub", "Synchronous"}

services == <<flags, busy, driver, lock>>
catalog == <<catalogue, loaded, generation, catalogLock, toTell>>
pool == <<jobs, outstanding, numConfig, numWaiting, semaphore>>
sleep == <<busyLock, asleep>>
frames == <<on, local>>
vars == <<services, catalog, pool, sleep, at, frames, todo>>

NoLocals == [next |-> NoService, delta |-> 0, prevBusy |-> 0, option |-> "default",
             generation |-> 0, found |-> {}]

Init ==
    /\ flags = [s \in Services |-> IF s \in Published THEN {"Registered"} ELSE {}]
    /\ busy = [s \in Services |-> 0]
    /\ driver = [s \in Services |-> NoDriver]
    /\ lock = [s \in Services |-> Nobody]
    /\ catalogue = Listed /\ loaded = {} /\ generation = 1
    /\ catalogLock = Nobody /\ toTell = {}
    /\ jobs = <<>> /\ outstanding = 0 /\ numConfig = 0 /\ numWaiting = 0
    /\ semaphore = 0
    /\ busyLock = Nobody /\ asleep = {}
    /\ at = [t \in Threads |-> IF t \in Clients THEN "idle" ELSE "none"]
    /\ on = [t \in Threads |-> NoService]
    /\ local = [t \in Threads |-> NoLocals]
    /\ todo \in Scenarios

Has(s, flag) == flag \in flags[s]
Goto(t, place) == at' = [at EXCEPT ![t] = place]

\* A routine ends, and with it its local variables.
Leave(t, place) ==
    /\ Goto(t, place)
    /\ on' = [on EXCEPT ![t] = NoService]
    /\ local' = [local EXCEPT ![t] = NoLocals]
Lockable(t, s) == lock[s] \in {t, Nobody}

\* thread_wakeup on a service: everyone who sleeps on it
SleepersOn(s) == {t \in asleep : on[t] = s}

-----------------------------------------------------------------------------
(* _adjustBusy: called with the lock of on[t]; goes up from service to     *)
(* provider as long as the count leaves or reaches zero.                   *)

\* The first call of the loop: place is where the caller goes on.
StartWalk(t, s, delta, place) ==
    /\ lock' = [lock EXCEPT ![s] = t]
    /\ at' = [at EXCEPT ![t] = place]
    /\ local' = [local EXCEPT ![t].next = s, ![t].delta = delta]

Walking(t) == local[t].next # NoService

\* "bad busy count": the count stays as it is.
BadBusyCount(s, delta) ==
    (delta < 0 /\ busy[s] = 0) \/ (delta > 0 /\ busy[s] = kIOServiceBusyMax)

AdjustBusy(t) ==
    /\ Walking(t)
    /\ LET s == local[t].next
           delta == local[t].delta
           count == IF BadBusyCount(s, delta) THEN busy[s] ELSE busy[s] + delta
           turns == busy[s] = 0 \/ count = 0
       IN  /\ Lockable(t, s)
           /\ Has(s, "BusyWaiter") => busyLock = Nobody
           /\ busy' = [busy EXCEPT ![s] = count]
           /\ flags' = [flags EXCEPT ![s] = @ \ {"BusyWaiter"}]
           /\ asleep' = IF Has(s, "BusyWaiter") THEN asleep \ SleepersOn(s) ELSE asleep
           /\ local' = [local EXCEPT
                ![t].next = IF turns THEN Provider[s] ELSE NoService,
                ![t].delta = IF ~turns THEN 0 ELSE IF count = 0 THEN -1 ELSE 1]
    /\ UNCHANGED <<driver, lock, catalog, pool, busyLock, at, on, todo>>

\* A thread that is at a place, and not inside _adjustBusy
At(t, place) == at[t] = place /\ ~Walking(t)

\* unlockForArbitration
Unlock(t) == lock' = [lock EXCEPT ![on[t]] = Nobody]

-----------------------------------------------------------------------------
(* startMatching, from registerService or from the catalogue *)

\* A service that is being matched now counts as one that is not.
NeedsConfigUnlessAsked(s) == ~Has(s, "NeedConfig")

NeedsConfig(s) == flags[s] \cap {"NeedConfig", "Config"} = {}

\* option: kIOServiceSynchronous, kIOServiceAsynchronous or neither
IsSync(s, option) ==
    /\ option # "async"
    /\ option = "sync" \/ (Provider[s] # NoService /\ Has(Provider[s], "Synchronous"))

Returns(t) == IF catalogLock = t THEN "catalog" ELSE "idle"

\* kIOServiceSynchronousState is written last, before the lock is released.
WithSynchronous(set, sync) ==
    (set \ {"Synchronous"}) \cup (IF sync THEN {"Synchronous"} ELSE {})

StartMatching(t, s, option) ==
    LET sync == IsSync(s, option)
        asked == flags[s] \cup {"NeedConfig"}
    IN  /\ lock[s] = Nobody
        /\ IF NeedsConfig(s)
           THEN /\ flags' = [flags EXCEPT ![s] = asked]
                /\ lock' = [lock EXCEPT ![s] = t]
                /\ on' = [on EXCEPT ![t] = s]
                /\ local' = [local EXCEPT ![t].next = s, ![t].delta = 1,
                                          ![t].prevBusy = busy[s],
                                          ![t].option = IF sync THEN "sync" ELSE "async"]
                /\ Goto(t, "published")
           ELSE /\ flags' = [flags EXCEPT ![s] = WithSynchronous(asked, sync)]
                /\ Leave(t, Returns(t))
                /\ UNCHANGED lock

AfterPublish(t) ==
    LET sync == local[t].option = "sync" IN
    /\ At(t, "published")
    /\ flags' = [flags EXCEPT ![on[t]] = WithSynchronous(@, sync)]
    /\ Unlock(t)
    /\ Goto(t, IF Has(on[t], "SyncPub") THEN "wakePublisher"
               ELSE IF sync THEN "publish" ELSE "ping")
    /\ UNCHANGED <<busy, driver, catalog, pool, sleep, frames, todo>>

WakePublisher(t) ==
    /\ At(t, "wakePublisher")
    /\ busyLock = Nobody
    /\ asleep' = asleep \ SleepersOn(on[t])
    /\ Leave(t, Returns(t))
    /\ UNCHANGED <<services, catalog, pool, busyLock, todo>>

\* The loop of a synchronous registration.  NeedConfig is read without a lock.
Publish(t) ==
    /\ At(t, "publish")
    /\ Goto(t, IF Has(on[t], "NeedConfig") THEN "find" ELSE "publishWait")
    /\ UNCHANGED <<services, catalog, pool, sleep, frames, todo>>

PublishWait(t) ==
    LET s == on[t] IN
    /\ At(t, "publishWait")
    /\ lock[s] = Nobody /\ busyLock = Nobody
    /\ IF local[t].prevBusy < busy[s]
       THEN /\ flags' = [flags EXCEPT ![s] = @ \cup {"SyncPub", "BusyWaiter"}]
            /\ busyLock' = t
            /\ Goto(t, "publishAssert")
            /\ UNCHANGED frames
       ELSE /\ flags' = [flags EXCEPT ![s] = @ \ {"SyncPub"}]
            /\ Leave(t, Returns(t))
            /\ UNCHANGED busyLock
    /\ UNCHANGED <<busy, driver, lock, catalog, pool, asleep, todo>>

-----------------------------------------------------------------------------
(* waitForState as waitQuiet calls it *)

\* gIOServiceBusyLock is not taken: the wake-up may come before assert_wait.
WaitLookUnlocked(t) ==
    LET s == on[t] IN
    /\ At(t, "waitQuiet")
    /\ lock[s] = Nobody
    /\ IF busy[s] # 0
       THEN /\ flags' = [flags EXCEPT ![s] = @ \cup {"BusyWaiter"}]
            /\ Goto(t, "waitAssert")
            /\ UNCHANGED frames
       ELSE Leave(t, "idle") /\ UNCHANGED flags
    /\ UNCHANGED <<busy, driver, lock, catalog, pool, sleep, todo>>

WaitLook(t) ==
    LET s == on[t] IN
    /\ At(t, "waitQuiet")
    /\ lock[s] = Nobody /\ busyLock = Nobody
    /\ IF busy[s] # 0
       THEN /\ flags' = [flags EXCEPT ![s] = @ \cup {"BusyWaiter"}]
            /\ busyLock' = t
            /\ Goto(t, "waitAssert")
            /\ UNCHANGED frames
       ELSE Leave(t, "idle") /\ UNCHANGED <<flags, busyLock>>
    /\ UNCHANGED <<busy, driver, lock, catalog, pool, asleep, todo>>

\* The arbitration lock was released before, gIOServiceBusyLock is released
\* now.
AssertWait(t) ==
    /\ at[t] \in {"waitAssert", "publishAssert"}
    /\ asleep' = asleep \cup {t}
    /\ busyLock' = Nobody
    /\ Goto(t, IF at[t] = "waitAssert" THEN "waitSleep" ELSE "publishSleep")
    /\ UNCHANGED <<services, catalog, pool, frames, todo>>

\* Who was woken looks again.
Awakened(t) ==
    /\ t \notin asleep
    /\ \/ at[t] = "waitSleep" /\ Goto(t, "waitQuiet")
       \/ at[t] = "publishSleep" /\ Goto(t, "publish")
       \/ at[t] = "matchSleep" /\ Goto(t, "matchIdle")
    /\ UNCHANGED <<services, catalog, pool, sleep, frames, todo>>

\* A waitQuiet or waitMatchIdle with a deadline returns kIOReturnTimeout.
WaitTimesOut(t) ==
    /\ at[t] \in {"waitSleep", "matchSleep"} /\ t \in asleep
    /\ asleep' = asleep \ {t}
    /\ Leave(t, "idle")
    /\ UNCHANGED <<services, catalog, pool, busyLock, todo>>

\* waitMatchIdle looks and falls asleep on gNumConfigThreads under gJobsLock.
WaitMatchIdle(t) ==
    /\ At(t, "matchIdle")
    /\ IF numConfig = 0
       THEN Goto(t, "idle") /\ UNCHANGED asleep
       ELSE Goto(t, "matchSleep") /\ asleep' = asleep \cup {t}
    /\ UNCHANGED <<services, catalog, pool, busyLock, frames, todo>>

-----------------------------------------------------------------------------
(* Jobs *)

\* The limit of the pool is not looked at.
PingConfigUnbounded(t) ==
    /\ At(t, "ping")
    /\ jobs' = Append(jobs, on[t])
    /\ outstanding' = outstanding + 1
    /\ IF outstanding + 1 > numWaiting
       THEN /\ numConfig' = numConfig + 1
            /\ numWaiting' = numWaiting + 1
            /\ Goto(t, "createThread")
       ELSE Goto(t, "signal") /\ UNCHANGED <<numConfig, numWaiting>>
    /\ UNCHANGED <<services, catalog, semaphore, sleep, frames, todo>>

\* A thread is made only when there is none.
PingConfigOneThread(t) ==
    /\ At(t, "ping")
    /\ jobs' = Append(jobs, on[t])
    /\ outstanding' = outstanding + 1
    /\ IF numConfig = 0
       THEN /\ numConfig' = numConfig + 1
            /\ numWaiting' = numWaiting + 1
            /\ Goto(t, "createThread")
       ELSE Goto(t, "signal") /\ UNCHANGED <<numConfig, numWaiting>>
    /\ UNCHANGED <<services, catalog, semaphore, sleep, frames, todo>>

PingConfig(t) ==
    /\ At(t, "ping")
    /\ jobs' = Append(jobs, on[t])
    /\ outstanding' = outstanding + 1
    /\ IF outstanding + 1 > numWaiting /\ numConfig < Cardinality(ConfigThreads)
       THEN /\ numConfig' = numConfig + 1
            /\ numWaiting' = numWaiting + 1
            /\ Goto(t, "createThread")
       ELSE Goto(t, "signal") /\ UNCHANGED <<numConfig, numWaiting>>
    /\ UNCHANGED <<services, catalog, semaphore, sleep, frames, todo>>

\* _IOConfigThread::configThread
CreateThread(t) ==
    /\ At(t, "createThread")
    /\ \E c \in ConfigThreads :
        at[c] = "none" /\ at' = [at EXCEPT ![c] = "wait", ![t] = "signal"]
    /\ UNCHANGED <<services, catalog, pool, sleep, frames, todo>>

SemaphoreSignal(t) ==
    /\ At(t, "signal")
    /\ semaphore' = semaphore + 1
    /\ Leave(t, Returns(t))
    /\ UNCHANGED <<services, catalog, jobs, outstanding, numConfig, numWaiting,
                   sleep, todo>>

\* _IOConfigThread::main
TakeJob(t) ==
    /\ At(t, "wait")
    /\ semaphore > 0
    /\ semaphore' = semaphore - 1
    /\ on' = [on EXCEPT ![t] = Head(jobs)]
    /\ jobs' = Tail(jobs)
    /\ outstanding' = outstanding - 1
    /\ numWaiting' = numWaiting - 1
    /\ Goto(t, "find")
    /\ UNCHANGED <<services, catalog, numConfig, sleep, local, todo>>

\* Who sleeps on gNumConfigThreads: the last thread of the pool wakes them all.
MatchSleepers == {t \in asleep : at[t] = "matchSleep"}

JobDone(t) ==
    /\ At(t, "jobDone")
    /\ IF outstanding > numWaiting
       THEN numWaiting' = numWaiting + 1 /\ Goto(t, "wait") /\ UNCHANGED <<numConfig, asleep>>
       ELSE /\ numConfig' = numConfig - 1 /\ Goto(t, "none") /\ UNCHANGED numWaiting
            /\ asleep' = IF numConfig = 1 THEN asleep \ MatchSleepers ELSE asleep
    /\ UNCHANGED <<services, catalog, jobs, outstanding, semaphore, busyLock, frames, todo>>

-----------------------------------------------------------------------------
(* doServiceMatch *)

FindDrivers(t) ==
    /\ At(t, "find")
    /\ catalogLock = Nobody
    /\ local' = [local EXCEPT
            ![t].found = {d \in catalogue : on[t] \in Matches[d]},
            ![t].generation = generation]
    /\ Goto(t, "begin")
    /\ UNCHANGED <<services, catalog, pool, sleep, on, todo>>

BeginConfig(t) ==
    /\ At(t, "begin")
    /\ lock[on[t]] = Nobody
    /\ flags' = [flags EXCEPT ![on[t]] = (@ \ {"NeedConfig"}) \cup {"Config", "Registered"}]
    /\ Goto(t, IF local[t].found = {} THEN "again" ELSE "probe")
    /\ UNCHANGED <<busy, driver, lock, catalog, pool, sleep, frames, todo>>

\* probeCandidates: one driver that is not loaded keeps all from starting.
Stalls(t) == driver[on[t]] = NoDriver /\ ~(local[t].found \subseteq loaded)

ProbeCandidates(t) ==
    /\ At(t, "probe")
    /\ IF Stalls(t)
       THEN Goto(t, "stall") /\ UNCHANGED driver
       ELSE /\ IF driver[on[t]] = NoDriver
               THEN \E d \in local[t].found : driver' = [driver EXCEPT ![on[t]] = d]
               ELSE UNCHANGED driver
            /\ Goto(t, "unstall")
    /\ UNCHANGED <<flags, busy, lock, catalog, pool, sleep, frames, todo>>

\* A service that stalls again is counted again.
AdjustStallAgain(t) ==
    LET s == on[t]
        stalls == at[t] = "stall"
    IN  /\ At(t, "stall") \/ At(t, "unstall")
        /\ lock[s] = Nobody
        /\ IF ~stalls /\ ~Has(s, "ModuleStall")
           THEN Goto(t, "again") /\ UNCHANGED <<flags, lock, local>>
           ELSE /\ flags' = [flags EXCEPT ![s] = IF stalls THEN @ \cup {"ModuleStall"}
                                                 ELSE @ \ {"ModuleStall"}]
                /\ StartWalk(t, s, IF stalls THEN 1 ELSE -1, "stallDone")
        /\ UNCHANGED <<busy, driver, catalog, pool, sleep, on, todo>>

\* The end of probeCandidates.
AdjustStall(t) ==
    LET s == on[t]
        stalls == at[t] = "stall"
    IN  /\ At(t, "stall") \/ At(t, "unstall")
        /\ lock[s] = Nobody
        /\ IF stalls = Has(s, "ModuleStall")
           THEN Goto(t, "again") /\ UNCHANGED <<flags, lock, local>>
           ELSE /\ flags' = [flags EXCEPT ![s] = IF stalls THEN @ \cup {"ModuleStall"}
                                                 ELSE @ \ {"ModuleStall"}]
                /\ StartWalk(t, s, IF stalls THEN 1 ELSE -1, "stallDone")
        /\ UNCHANGED <<busy, driver, catalog, pool, sleep, on, todo>>

StallDone(t) ==
    /\ At(t, "stallDone")
    /\ Unlock(t)
    /\ Goto(t, "again")
    /\ UNCHANGED <<flags, busy, driver, catalog, pool, sleep, frames, todo>>

\* The request that came during the matching is dropped.
MatchAgainForgets(t) ==
    LET s == on[t] IN
    /\ At(t, "again")
    /\ lock[s] = Nobody
    /\ IF local[t].generation # generation
       THEN Goto(t, "find") /\ UNCHANGED <<flags, lock, local>>
       ELSE /\ flags' = [flags EXCEPT ![s] = @ \ {"Config", "NeedConfig"}]
            /\ StartWalk(t, s, -1, "matched")
    /\ UNCHANGED <<busy, driver, catalog, pool, sleep, on, todo>>

\* It is left for a job that nobody has made.
MatchAgainLeaves(t) ==
    LET s == on[t] IN
    /\ At(t, "again")
    /\ lock[s] = Nobody
    /\ IF local[t].generation # generation
       THEN Goto(t, "find") /\ UNCHANGED <<flags, lock, local>>
       ELSE /\ flags' = [flags EXCEPT ![s] = @ \ {"Config"}]
            /\ StartWalk(t, s, -1, "matched")
    /\ UNCHANGED <<busy, driver, catalog, pool, sleep, on, todo>>

\* keepGuessing, or the end of the matching
MatchAgain(t) ==
    LET s == on[t] IN
    /\ At(t, "again")
    /\ lock[s] = Nobody
    /\ IF Has(s, "NeedConfig") \/ local[t].generation # generation
       THEN Goto(t, "find") /\ UNCHANGED <<flags, lock, local>>
       ELSE /\ flags' = [flags EXCEPT ![s] = @ \ {"Config"}]
            /\ StartWalk(t, s, -1, "matched")
    /\ UNCHANGED <<busy, driver, catalog, pool, sleep, on, todo>>

Matched(t) ==
    /\ At(t, "matched")
    /\ Unlock(t)
    /\ IF t \in ConfigThreads THEN Leave(t, "jobDone")
       ELSE Goto(t, "publishWait") /\ UNCHANGED frames
    /\ UNCHANGED <<flags, busy, driver, catalog, pool, sleep, todo>>

-----------------------------------------------------------------------------
(* The catalogue: addDrivers, removeDrivers, moduleHasLoaded.  Its lock is *)
(* kept until all services were told and the generation was increased.     *)

CatalogNewDrivers(t, d) ==
    /\ toTell' = {s \in Matches[d] : Has(s, "Registered")}
    /\ catalogLock' = t
    /\ Goto(t, "catalog")

AddDrivers(t, d) ==
    /\ catalogLock = Nobody
    /\ d \notin catalogue
    /\ catalogue' = catalogue \cup {d}
    /\ CatalogNewDrivers(t, d)
    /\ UNCHANGED <<services, loaded, generation, pool, sleep, on, local>>

RemoveDrivers(t, d) ==
    /\ catalogLock = Nobody
    /\ d \in catalogue
    /\ catalogue' = catalogue \ {d}
    /\ CatalogNewDrivers(t, d)
    /\ UNCHANGED <<services, loaded, generation, pool, sleep, on, local>>

\* kextd has loaded the module, and says so afterwards.
LoadModule(t, d) ==
    /\ loaded' = loaded \cup {d}
    /\ local' = [local EXCEPT ![t].found = {d}]
    /\ Goto(t, "moduleHasLoaded")
    /\ UNCHANGED <<services, catalogue, generation, catalogLock, toTell, pool, sleep, on>>

ModuleHasLoaded(t) ==
    /\ At(t, "moduleHasLoaded")
    /\ catalogLock = Nobody
    /\ \E d \in local[t].found :
        IF d \in catalogue
        THEN CatalogNewDrivers(t, d)
        ELSE Goto(t, "idle") /\ UNCHANGED <<toTell, catalogLock>>
    /\ local' = [local EXCEPT ![t] = NoLocals]
    /\ UNCHANGED <<services, catalogue, loaded, generation, pool, sleep, on, todo>>

TellService(t) ==
    /\ At(t, "catalog")
    /\ \E s \in toTell :
        /\ StartMatching(t, s, "async")
        /\ toTell' = toTell \ {s}
    /\ UNCHANGED <<busy, driver, catalogue, loaded, generation, catalogLock, pool,
                   sleep, todo>>

CatalogDone(t) ==
    /\ At(t, "catalog")
    /\ toTell = {}
    /\ generation' = generation + 1
    /\ catalogLock' = Nobody
    /\ Goto(t, "idle")
    /\ UNCHANGED <<services, catalogue, loaded, toTell, pool, sleep, frames, todo>>

-----------------------------------------------------------------------------
\* A client begins one of its operations.
Begins(t, op) ==
    /\ at[t] = "idle" /\ op \in todo[t]
    /\ todo' = [todo EXCEPT ![t] = @ \ {op}]

Waits(t, place, s) ==
    /\ on' = [on EXCEPT ![t] = s]
    /\ Goto(t, place)
    /\ UNCHANGED <<services, catalog, pool, sleep, local>>

Request(t) ==
    \E op \in todo[t] :
        /\ Begins(t, op)
        /\ \/ /\ op.what = "register"
              /\ StartMatching(t, op.service, op.option)
              /\ UNCHANGED <<busy, driver, catalog, pool, sleep>>
           \/ op.what = "waitQuiet" /\ Waits(t, "waitQuiet", op.service)
           \/ op.what = "matchIdle" /\ Waits(t, "matchIdle", NoService)
           \/ op.what = "add" /\ AddDrivers(t, op.driver)
           \/ op.what = "remove" /\ RemoveDrivers(t, op.driver)
           \/ op.what = "load" /\ LoadModule(t, op.driver)

Runs(t) ==
    \/ AdjustBusy(t)
    \/ AfterPublish(t) \/ WakePublisher(t) \/ Publish(t) \/ PublishWait(t)
    \/ WaitLook(t) \/ AssertWait(t) \/ Awakened(t) \/ WaitMatchIdle(t)
    \/ PingConfig(t) \/ CreateThread(t) \/ SemaphoreSignal(t)
    \/ TakeJob(t) \/ JobDone(t)
    \/ FindDrivers(t) \/ BeginConfig(t) \/ ProbeCandidates(t) \/ AdjustStall(t)
    \/ StallDone(t) \/ MatchAgain(t) \/ Matched(t)
    \/ ModuleHasLoaded(t) \/ TellService(t) \/ CatalogDone(t)

Next == \E t \in Threads : Runs(t) \/ WaitTimesOut(t) \/ (t \in Clients /\ Request(t))

Spec == Init /\ [][Next]_vars

(* Threads of the kernel that can run do.  No client has to begin anything,*)
(* and no wait has to time out.                                            *)
FairSpec == Spec /\ \A t \in Threads : WF_vars(Runs(t))

-----------------------------------------------------------------------------
(* Every service, queue and counter keeps its kind: busy counts fit their  *)
(* byte of __state[1], the pool never has more than kMaxConfigThreads      *)
(* threads, and only clients sleep for a service or lock the catalogue.    *)
TypeOK ==
    /\ flags \in [Services -> SUBSET FlagNames]
    /\ busy \in [Services -> 0..kIOServiceBusyMax]
    /\ driver \in [Services -> Drivers \cup {NoDriver}]
    /\ lock \in [Services -> Threads \cup {Nobody}]
    /\ catalogue \subseteq Drivers /\ loaded \subseteq Drivers /\ generation \in Nat
    /\ catalogLock \in Clients \cup {Nobody} /\ toTell \subseteq Services
    /\ jobs \in Seq(Services) /\ outstanding \in Nat /\ semaphore \in Nat
    /\ numConfig \in 0..Cardinality(ConfigThreads)
    /\ numWaiting \in 0..Cardinality(ConfigThreads)
    /\ busyLock \in Clients \cup {Nobody} /\ asleep \subseteq Clients
    /\ on \in [Threads -> Services \cup {NoService}]

Count(condition) == IF condition THEN 1 ELSE 0

\* What walks in progress are about to do to the count of s.
Due(s) ==
    Cardinality({t \in Threads : local[t].next = s /\ local[t].delta = 1})
        - Cardinality({t \in Threads : local[t].next = s /\ local[t].delta = -1})

(* The busy count of a service is its own matching, its stalled module and *)
(* its busy clients, up to what the walks in progress will still add or    *)
(* take, although a walk holds only the lock it started from and one more. *)
(* Nobody takes from a count that is zero, which _adjustBusy would report. *)
BusyConserved ==
    /\ \A s \in Services :
        busy[s] + Due(s) = Count(~NeedsConfig(s)) + Count(Has(s, "ModuleStall"))
                            + Cardinality({c \in Services : Provider[c] = s /\ busy[c] > 0})
    /\ \A t \in Threads : Walking(t) => ~BadBusyCount(local[t].next, local[t].delta)

InServiceMatch ==
    {"find", "begin", "probe", "stall", "unstall", "stallDone", "again", "matched"}

(* "The matching and probing process [...] is always single threaded per   *)
(* provider": at most one thread is in doServiceMatch of a service.        *)
SingleThreadedPerProvider ==
    \A t, u \in Threads :
        t # u /\ at[t] \in InServiceMatch /\ at[u] \in InServiceMatch => on[t] # on[u]

(* The counters of the pool are true, and no job is left without a thread: *)
(* there is a waiting thread for every job, or the pool is complete and    *)
(* each of its threads looks for more work before it ends.                 *)
JobsHaveThreads ==
    LET creating == {t \in Clients : at[t] = "createThread"} IN
    /\ outstanding = Len(jobs)
    /\ numWaiting = Cardinality({t \in ConfigThreads : at[t] = "wait"} \cup creating)
    /\ numConfig = Cardinality({t \in ConfigThreads : at[t] # "none"} \cup creating)
    /\ outstanding > numWaiting => numConfig = Cardinality(ConfigThreads)

(* When nothing is under way for a registered service, it has been matched *)
(* against the catalogue as it is and the modules that are loaded now: it  *)
(* has a driver if the catalogue has one for it whose module is there, and *)
(* stalls only for a module that is missing.                               *)
DriversAreFound ==
    \A s \in Services :
        /\ Has(s, "Registered") /\ NeedsConfig(s)
        /\ \A t \in Clients : at[t] # "moduleHasLoaded" /\ catalogLock # t
        => LET fitting == {d \in catalogue : s \in Matches[d]}
           IN  fitting # {} /\ fitting \subseteq loaded
                => driver[s] # NoDriver /\ ~Has(s, "ModuleStall")

(* A registration gets matched: by a configuration thread, by the caller   *)
(* or by the thread that matches the service already, which sees the flag  *)
(* before it ends.  It does so as long as no service is registered again   *)
(* while a synchronous registration of it waits for its clients.  Then one *)
(* can be lost: the publisher has found kIOServiceNeedConfigState clear    *)
(* and is not yet asleep again, the second registration leaves the work to *)
(* it because of kIOServiceSyncPubState, and its thread_wakeup finds       *)
(* nobody (scenario SyncTwice, MCServiceMatchLost.cfg).                    *)
RegistrationsAreMatched ==
    \A s \in Services : Has(s, "NeedConfig") ~> ~Has(s, "NeedConfig")

(* No wake-up is lost: when all is quiet and stays so, nobody is left in   *)
(* waitQuiet, waitMatchIdle or a synchronous registration.                 *)
WaitersReturn ==
    <>[](numConfig = 0 /\ \A s \in Services : busy[s] = 0)
        => <>[](\A t \in Clients : at[t] = "idle")
===============================================================================
