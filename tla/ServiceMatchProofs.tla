--------------------------- MODULE ServiceMatchProofs ---------------------------
(***************************************************************************)
(* Proofs about ServiceMatch.                                              *)
(*                                                                         *)
(* For every scenario: the kinds of the state (KindsInv) and the counters  *)
(* of the pool (PoolInv).  When no client registers synchronously: every   *)
(* request is with one thread or once in the queue (TokenInv), from which  *)
(* matching is single threaded per provider; the walks of _adjustBusy      *)
(* (WalkInv), from which the busy counts are true.  When moreover no       *)
(* driver is added to the catalogue or removed: what threads know of it    *)
(* (FoundInv), from which drivers are found.                               *)
(***************************************************************************)
EXTENDS ServiceMatch, FiniteSetTheorems, FunctionTheorems, SequenceTheorems, TLAPS

ClientPlaces ==
    {"idle", "published", "wakePublisher", "publish", "publishWait", "publishAssert",
     "publishSleep", "waitQuiet", "waitAssert", "waitSleep", "matchIdle", "matchSleep",
     "ping", "createThread", "signal", "catalog", "moduleHasLoaded"} \cup InServiceMatch

ConfigPlaces == {"none", "wait", "jobDone"} \cup InServiceMatch

\* where a thread has a service to work on
Serving ==
    {"published", "wakePublisher", "publish", "publishWait", "publishAssert", "publishSleep",
     "waitQuiet", "waitAssert", "waitSleep", "ping"} \cup InServiceMatch

Locals ==
    [next : Services \cup {NoService}, delta : {-1, 0, 1}, prevBusy : Nat,
     option : {"default", "sync", "async"}, generation : Nat, found : SUBSET Drivers]

\* The threads are at places of their kind, and work on a service where they
\* need one.
PlacesInv ==
    /\ at \in [Threads -> ClientPlaces \cup ConfigPlaces]
    /\ \A t \in Clients : at[t] \in ClientPlaces
    /\ \A t \in ConfigThreads : at[t] \in ConfigPlaces
    /\ on \in [Threads -> Services \cup {NoService}]
    /\ \A t \in Threads : at[t] \in Serving => on[t] \in Services
    /\ local \in [Threads -> Locals]

StateInv ==
    /\ flags \in [Services -> SUBSET FlagNames]
    /\ busy \in [Services -> 0..kIOServiceBusyMax]
    /\ driver \in [Services -> Drivers \cup {NoDriver}]
    /\ lock \in [Services -> Threads \cup {Nobody}]
    /\ catalogue \subseteq Drivers /\ loaded \subseteq Drivers /\ generation \in Nat
    /\ catalogLock \in Clients \cup {Nobody} /\ toTell \subseteq Services
    /\ busyLock \in Clients \cup {Nobody} /\ asleep \subseteq Clients
    /\ todo \in [Clients -> SUBSET Operations]

KindsInv == PlacesInv /\ StateInv

Creating == {t \in Clients : at[t] = "createThread"}
Signalling == {t \in Clients : at[t] \in {"createThread", "signal"}}
Waiting == {t \in ConfigThreads : at[t] = "wait"}
Started == {t \in ConfigThreads : at[t] # "none"}

\* The semaphore counts the jobs whose thread has not been told yet.
PoolInv ==
    /\ jobs \in Seq(Services) /\ semaphore \in Nat
    /\ Len(jobs) = semaphore + Cardinality(Signalling)
    /\ numConfig <= Cardinality(ConfigThreads)
    /\ JobsHaveThreads


\* Only t moves.
Alone(t) ==
    /\ at' = [at EXCEPT ![t] = at'[t]]
    /\ on' = [on EXCEPT ![t] = on'[t]]
    /\ local' = [local EXCEPT ![t] = local'[t]]

\* What a step of a thread t has to say of itself to keep the threads in place.
LEMMA PlacesKept ==
    ASSUME PlacesInv, NEW t \in Threads, Alone(t),
           t \in Clients => at'[t] \in ClientPlaces,
           t \in ConfigThreads => at'[t] \in ConfigPlaces,
           on'[t] \in Services \cup {NoService}, at'[t] \in Serving => on'[t] \in Services,
           local'[t] \in Locals
    PROVE  PlacesInv'
  <1>1. at' \in [Threads -> ClientPlaces \cup ConfigPlaces]
    BY DEF PlacesInv, Alone, Threads
  <1>2. \A u \in Threads : u # t => at'[u] = at[u] /\ on'[u] = on[u]
    BY DEF PlacesInv, Alone
  <1>3. /\ \A u \in Clients : at'[u] \in ClientPlaces
        /\ \A u \in ConfigThreads : at'[u] \in ConfigPlaces
    BY <1>2 DEF PlacesInv, Threads
  <1>4. on' \in [Threads -> Services \cup {NoService}] /\ local' \in [Threads -> Locals]
    BY DEF PlacesInv, Alone
  <1>5. \A u \in Threads : at'[u] \in Serving => on'[u] \in Services
    BY <1>2 DEF PlacesInv
  <1> QED
    BY <1>1, <1>3, <1>4, <1>5 DEF PlacesInv

\* Who is at a place of clients is one.
LEMMA ClientOrConfig ==
    ASSUME PlacesInv, NEW t \in Threads
    PROVE  /\ t \in Clients <=> t \notin ConfigThreads
           /\ at[t] \notin ConfigPlaces => t \in Clients
           /\ at[t] \notin ClientPlaces => t \in ConfigThreads
           /\ at[t] \in Serving => on[t] \in Services
           /\ local[t] \in Locals /\ on[t] \in Services \cup {NoService}
  BY MatchAssumption DEF PlacesInv, Threads

\* Local variables with some of them changed.
LEMMA LocalsChanged ==
    /\ NoLocals \in Locals
    /\ \A l \in Locals : \A s \in Services \cup {NoService} : \A d \in {-1, 0, 1} :
            [l EXCEPT !.next = s, !.delta = d] \in Locals
    /\ \A l \in Locals : \A s \in Services : \A b \in Nat : \A o \in {"default", "sync", "async"} :
            [l EXCEPT !.next = s, !.delta = 1, !.prevBusy = b, !.option = o] \in Locals
    /\ \A l \in Locals : \A f \in SUBSET Drivers : \A g \in Nat :
            [l EXCEPT !.found = f, !.generation = g] \in Locals
    /\ \A l \in Locals : \A f \in SUBSET Drivers : [l EXCEPT !.found = f] \in Locals
  BY DEF Locals, NoLocals

\* startMatching leaves its thread at a place of clients, flags are flags and
\* locks are held by threads.
LEMMA StartMatchingPlaces ==
    ASSUME KindsInv, NEW t \in Clients, NEW s \in Services, NEW option, StartMatching(t, s, option)
    PROVE  PlacesInv' /\ flags' \in [Services -> SUBSET FlagNames]
           /\ lock' \in [Services -> Threads \cup {Nobody}]
  <1>0. PlacesInv /\ StateInv /\ t \in Threads
    BY DEF KindsInv, Threads
  <1>1. local[t] \in Locals /\ busy[s] \in Nat
    BY <1>0 DEF PlacesInv, StateInv, kIOServiceBusyMax
  <1>2. CASE NeedsConfig(s)
    <2>1. /\ at' = [at EXCEPT ![t] = "published"] /\ on' = [on EXCEPT ![t] = s]
          /\ local' = [local EXCEPT ![t].next = s, ![t].delta = 1, ![t].prevBusy = busy[s],
                        ![t].option = IF IsSync(s, option) THEN "sync" ELSE "async"]
          /\ flags' = [flags EXCEPT ![s] = flags[s] \cup {"NeedConfig"}]
          /\ lock' = [lock EXCEPT ![s] = t]
      BY <1>2 DEF StartMatching, Goto
    <2>2. local'[t] = [local[t] EXCEPT !.next = s, !.delta = 1, !.prevBusy = busy[s],
                         !.option = IF IsSync(s, option) THEN "sync" ELSE "async"]
      BY <1>0, <2>1 DEF PlacesInv
    <2>3. local'[t] \in Locals
      BY <1>1, <2>2 DEF Locals
    <2>4. Alone(t)
      BY <1>0, <2>1 DEF Alone, PlacesInv
    <2>5. at'[t] = "published" /\ on'[t] = s
      BY <1>0, <2>1 DEF PlacesInv
    <2>6. PlacesInv'
      BY <1>0, <2>3, <2>4, <2>5, PlacesKept, MatchAssumption DEF ClientPlaces
    <2> QED
      BY <1>0, <2>1, <2>6 DEF StateInv, FlagNames
  <1>3. CASE ~NeedsConfig(s)
    <2>1. /\ at' = [at EXCEPT ![t] = Returns(t)] /\ on' = [on EXCEPT ![t] = NoService]
          /\ local' = [local EXCEPT ![t] = NoLocals]
          /\ flags' = [flags EXCEPT ![s] = WithSynchronous(flags[s] \cup {"NeedConfig"}, IsSync(s, option))]
          /\ lock' = lock
      BY <1>3 DEF StartMatching, Leave, Goto
    <2>2. /\ at'[t] = Returns(t) /\ on'[t] = NoService /\ local'[t] = NoLocals /\ Alone(t)
      BY <1>0, <2>1 DEF Alone, PlacesInv
    <2>3. PlacesInv'
      BY <1>0, <2>2, PlacesKept, MatchAssumption, LocalsChanged DEF ClientPlaces, Returns, Serving, InServiceMatch
    <2>4. flags' \in [Services -> SUBSET FlagNames]
      BY <1>0, <2>1 DEF StateInv, FlagNames, WithSynchronous
    <2> QED
      BY <1>0, <2>1, <2>3, <2>4 DEF StateInv
  <1> QED
    BY <1>2, <1>3

\* A thread t goes to place p, to work on s with the local variables l.
Moves(t, p, s, l) ==
    /\ at' = [at EXCEPT ![t] = p]
    /\ on' = [on EXCEPT ![t] = s]
    /\ local' = [local EXCEPT ![t] = l]

\* A thread that goes to place p, with service s and local variables l, moves
\* alone.
LEMMA MovesAlone ==
    ASSUME PlacesInv, NEW t \in Threads, NEW p, NEW s, NEW l, Moves(t, p, s, l)
    PROVE  Alone(t) /\ at'[t] = p /\ on'[t] = s /\ local'[t] = l
  BY DEF PlacesInv, Moves, Alone

\* The places at which a thread counts for the pool.
PoolPlaces == {"createThread", "signal", "wait", "none"}

\* The synchronous registration and the waits of clients.
LEMMA WaitersMove ==
    ASSUME KindsInv, NEW t \in Threads,
           \/ AfterPublish(t) \/ WakePublisher(t) \/ Publish(t) \/ PublishWait(t)
           \/ WaitLook(t) \/ AssertWait(t) \/ Awakened(t) \/ WaitMatchIdle(t) \/ WaitTimesOut(t)
    PROVE  /\ KindsInv' /\ Alone(t) /\ UNCHANGED pool
           /\ at[t] \notin PoolPlaces /\ at'[t] \notin PoolPlaces
  <1>0. /\ PlacesInv /\ StateInv /\ on[t] = on[t] /\ local[t] \in Locals
        /\ on = [on EXCEPT ![t] = on[t]] /\ local = [local EXCEPT ![t] = local[t]]
        /\ on[t] \in Services \cup {NoService} /\ NoLocals \in Locals
    BY LocalsChanged DEF KindsInv, PlacesInv
  <1>c. /\ at[t] \notin ConfigPlaces => t \in Clients
        /\ at[t] \in Serving => on[t] \in Services
        /\ t \in Clients => t \notin ConfigThreads
    BY <1>0, ClientOrConfig
  <1>1. CASE AfterPublish(t)
    <2>1. /\ at[t] = "published"
          /\ \E p \in {"wakePublisher", "publish", "ping"} : Moves(t, p, on[t], local[t])
      BY <1>0, <1>1 DEF AfterPublish, At, Moves, Goto, frames
    <2>2. t \in Clients /\ on[t] \in Services
      BY <1>c, <2>1 DEF ConfigPlaces, Serving, InServiceMatch
    <2>3. PICK p \in {"wakePublisher", "publish", "ping"} : Moves(t, p, on[t], local[t])
      BY <2>1
    <2>4. Alone(t) /\ at'[t] = p /\ on'[t] = on[t] /\ local'[t] = local[t]
      BY <1>0, <2>3, MovesAlone
    <2>5. PlacesInv'
      BY <1>0, <1>c, <2>2, <2>4, PlacesKept DEF ClientPlaces
    <2>6. StateInv'
      BY <1>0, <1>1, <2>2, MatchAssumption
         DEF StateInv, AfterPublish, Unlock, WithSynchronous, FlagNames, catalog, sleep
    <2> QED
      BY <1>1, <2>1, <2>4, <2>5, <2>6 DEF KindsInv, AfterPublish, PoolPlaces
  <1>2. CASE WakePublisher(t)
    <2>1. at[t] = "wakePublisher" /\ Moves(t, Returns(t), NoService, NoLocals)
      BY <1>2 DEF WakePublisher, At, Moves, Leave, Goto
    <2>2. t \in Clients
      BY <1>c, <2>1 DEF ConfigPlaces, InServiceMatch
    <2>4. Alone(t) /\ at'[t] = Returns(t) /\ on'[t] = NoService /\ local'[t] = NoLocals
      BY <1>0, <2>1, MovesAlone
    <2>5. PlacesInv'
      BY <1>0, <1>c, <2>2, <2>4, PlacesKept DEF ClientPlaces, Returns, Serving, InServiceMatch
    <2>6. StateInv'
      BY <1>0, <1>2 DEF StateInv, WakePublisher, services, catalog
    <2> QED
      BY <1>2, <2>1, <2>4, <2>5, <2>6 DEF KindsInv, WakePublisher, PoolPlaces, Returns
  <1>3. CASE Publish(t)
    <2>1. /\ at[t] = "publish"
          /\ \E p \in {"find", "publishWait"} : Moves(t, p, on[t], local[t])
      BY <1>0, <1>3 DEF Publish, At, Moves, Goto, frames
    <2>2. t \in Clients /\ on[t] \in Services
      BY <1>c, <2>1 DEF ConfigPlaces, Serving, InServiceMatch
    <2>3. PICK p \in {"find", "publishWait"} : Moves(t, p, on[t], local[t])
      BY <2>1
    <2>4. Alone(t) /\ at'[t] = p /\ on'[t] = on[t] /\ local'[t] = local[t]
      BY <1>0, <2>3, MovesAlone
    <2>5. PlacesInv'
      BY <1>0, <1>c, <2>2, <2>4, PlacesKept DEF ClientPlaces, InServiceMatch
    <2>6. StateInv'
      BY <1>0, <1>3 DEF StateInv, Publish, services, catalog, sleep
    <2> QED
      BY <1>3, <2>1, <2>4, <2>5, <2>6 DEF KindsInv, Publish, PoolPlaces
  <1>4. CASE PublishWait(t)
    <2>1. /\ at[t] = "publishWait"
          /\ \/ Moves(t, "publishAssert", on[t], local[t])
             \/ Moves(t, Returns(t), NoService, NoLocals)
      BY <1>0, <1>4 DEF PublishWait, At, Moves, Leave, Goto, frames
    <2>2. t \in Clients /\ on[t] \in Services
      BY <1>c, <2>1 DEF ConfigPlaces, Serving, InServiceMatch
    <2>4. /\ Alone(t)
          /\ \/ at'[t] = "publishAssert" /\ on'[t] = on[t] /\ local'[t] = local[t]
             \/ at'[t] = Returns(t) /\ on'[t] = NoService /\ local'[t] = NoLocals
      BY <1>0, <2>1, MovesAlone
    <2>5. PlacesInv'
      BY <1>0, <1>c, <2>2, <2>4, PlacesKept DEF ClientPlaces, Returns, Serving, InServiceMatch
    <2>6. StateInv'
      BY <1>0, <1>4, <2>2, MatchAssumption
         DEF StateInv, PublishWait, FlagNames, catalog
    <2> QED
      BY <1>4, <2>1, <2>4, <2>5, <2>6 DEF KindsInv, PublishWait, PoolPlaces, Returns
  <1>5. CASE WaitLook(t)
    <2>1. /\ at[t] = "waitQuiet"
          /\ \/ Moves(t, "waitAssert", on[t], local[t])
             \/ Moves(t, "idle", NoService, NoLocals)
      BY <1>0, <1>5 DEF WaitLook, At, Moves, Leave, Goto, frames
    <2>2. t \in Clients /\ on[t] \in Services
      BY <1>c, <2>1 DEF ConfigPlaces, Serving, InServiceMatch
    <2>4. /\ Alone(t)
          /\ \/ at'[t] = "waitAssert" /\ on'[t] = on[t] /\ local'[t] = local[t]
             \/ at'[t] = "idle" /\ on'[t] = NoService /\ local'[t] = NoLocals
      BY <1>0, <2>1, MovesAlone
    <2>5. PlacesInv'
      BY <1>0, <1>c, <2>2, <2>4, PlacesKept DEF ClientPlaces, Serving, InServiceMatch
    <2>6. StateInv'
      BY <1>0, <1>5, <2>2, MatchAssumption
         DEF StateInv, WaitLook, FlagNames, catalog
    <2> QED
      BY <1>5, <2>1, <2>4, <2>5, <2>6 DEF KindsInv, WaitLook, PoolPlaces
  <1>6. CASE AssertWait(t)
    <2>1. /\ at[t] \in {"waitAssert", "publishAssert"}
          /\ \E p \in {"waitSleep", "publishSleep"} : Moves(t, p, on[t], local[t])
      BY <1>0, <1>6 DEF AssertWait, Moves, Goto, frames
    <2>2. t \in Clients /\ on[t] \in Services
      BY <1>c, <2>1 DEF ConfigPlaces, Serving, InServiceMatch
    <2>3. PICK p \in {"waitSleep", "publishSleep"} : Moves(t, p, on[t], local[t])
      BY <2>1
    <2>4. Alone(t) /\ at'[t] = p /\ on'[t] = on[t] /\ local'[t] = local[t]
      BY <1>0, <2>3, MovesAlone
    <2>5. PlacesInv'
      BY <1>0, <1>c, <2>2, <2>4, PlacesKept DEF ClientPlaces
    <2>6. StateInv'
      BY <1>0, <1>6, <2>2 DEF StateInv, AssertWait, services, catalog
    <2> QED
      BY <1>6, <2>1, <2>4, <2>5, <2>6 DEF KindsInv, AssertWait, PoolPlaces
  <1>7. CASE Awakened(t)
    <2>1. \/ at[t] = "waitSleep" /\ Moves(t, "waitQuiet", on[t], local[t])
          \/ at[t] = "publishSleep" /\ Moves(t, "publish", on[t], local[t])
          \/ at[t] = "matchSleep" /\ Moves(t, "matchIdle", on[t], local[t])
      BY <1>0, <1>7 DEF Awakened, Moves, Goto, frames
    <2>2. t \in Clients /\ (at[t] # "matchSleep" => on[t] \in Services)
      BY <1>c, <2>1 DEF ConfigPlaces, Serving, InServiceMatch
    <2>4. /\ Alone(t) /\ on'[t] = on[t] /\ local'[t] = local[t]
          /\ \/ at[t] = "waitSleep" /\ at'[t] = "waitQuiet"
             \/ at[t] = "publishSleep" /\ at'[t] = "publish"
             \/ at[t] = "matchSleep" /\ at'[t] = "matchIdle"
      BY <1>0, <2>1, MovesAlone
    <2>5. PlacesInv'
      BY <1>0, <1>c, <2>2, <2>4, PlacesKept DEF ClientPlaces, Serving, InServiceMatch
    <2>6. StateInv'
      BY <1>0, <1>7 DEF StateInv, Awakened, services, catalog, sleep
    <2> QED
      BY <1>7, <2>1, <2>4, <2>5, <2>6 DEF KindsInv, Awakened, PoolPlaces
  <1>8. CASE WaitMatchIdle(t)
    <2>1. /\ at[t] = "matchIdle"
          /\ \E p \in {"idle", "matchSleep"} : Moves(t, p, on[t], local[t])
      BY <1>0, <1>8 DEF WaitMatchIdle, At, Moves, Goto, frames
    <2>2. t \in Clients
      BY <1>c, <2>1 DEF ConfigPlaces, InServiceMatch
    <2>3. PICK p \in {"idle", "matchSleep"} : Moves(t, p, on[t], local[t])
      BY <2>1
    <2>4. Alone(t) /\ at'[t] = p /\ on'[t] = on[t] /\ local'[t] = local[t]
      BY <1>0, <2>3, MovesAlone
    <2>5. PlacesInv'
      BY <1>0, <1>c, <2>2, <2>4, PlacesKept DEF ClientPlaces, Serving, InServiceMatch
    <2>6. StateInv'
      BY <1>0, <1>8, <2>2 DEF StateInv, WaitMatchIdle, services, catalog
    <2> QED
      BY <1>8, <2>1, <2>4, <2>5, <2>6 DEF KindsInv, WaitMatchIdle, PoolPlaces
  <1>9. CASE WaitTimesOut(t)
    <2>1. at[t] \in {"waitSleep", "matchSleep"} /\ Moves(t, "idle", NoService, NoLocals)
      BY <1>9 DEF WaitTimesOut, Moves, Leave, Goto
    <2>2. t \in Clients
      BY <1>c, <2>1 DEF ConfigPlaces, InServiceMatch
    <2>4. Alone(t) /\ at'[t] = "idle" /\ on'[t] = NoService /\ local'[t] = NoLocals
      BY <1>0, <2>1, MovesAlone
    <2>5. PlacesInv'
      BY <1>0, <1>c, <2>2, <2>4, PlacesKept DEF ClientPlaces, Serving, InServiceMatch
    <2>6. StateInv'
      BY <1>0, <1>9 DEF StateInv, WaitTimesOut, services, catalog
    <2> QED
      BY <1>9, <2>1, <2>4, <2>5, <2>6 DEF KindsInv, WaitTimesOut, PoolPlaces
  <1> QED
    BY <1>1, <1>2, <1>3, <1>4, <1>5, <1>6, <1>7, <1>8, <1>9

\* doServiceMatch, and the walk of _adjustBusy.
LEMMA MatchersMove ==
    ASSUME KindsInv, NEW t \in Threads,
           \/ AdjustBusy(t) \/ FindDrivers(t) \/ BeginConfig(t) \/ ProbeCandidates(t)
           \/ AdjustStall(t) \/ StallDone(t) \/ MatchAgain(t) \/ Matched(t)
    PROVE  /\ KindsInv' /\ Alone(t) /\ UNCHANGED pool
           /\ at'[t] = at[t] \/ (at[t] \notin PoolPlaces /\ at'[t] \notin PoolPlaces)
  <1>0. /\ PlacesInv /\ StateInv /\ local[t] \in Locals
        /\ on = [on EXCEPT ![t] = on[t]] /\ local = [local EXCEPT ![t] = local[t]]
        /\ at = [at EXCEPT ![t] = at[t]]
        /\ on[t] \in Services \cup {NoService} /\ NoLocals \in Locals
    BY LocalsChanged DEF KindsInv, PlacesInv
  <1>c. /\ t \in ConfigThreads => at[t] \in ConfigPlaces
        /\ t \in Clients => at[t] \in ClientPlaces
        /\ at[t] \in Serving => on[t] \in Services
        /\ t \in Clients <=> t \notin ConfigThreads
    BY <1>0, ClientOrConfig DEF PlacesInv
  <1>1. CASE AdjustBusy(t)
    <2> DEFINE s == local[t].next
               d == local[t].delta
               count == IF BadBusyCount(s, d) THEN busy[s] ELSE busy[s] + d
               turns == busy[s] = 0 \/ count = 0
               n == IF turns THEN Provider[s] ELSE NoService
               e == IF ~turns THEN 0 ELSE IF count = 0 THEN -1 ELSE 1
    <2>1. /\ s \in Services /\ d \in {-1, 0, 1} /\ Provider[s] \in Services \cup {NoService}
          /\ busy[s] \in 0..kIOServiceBusyMax
      BY <1>0, <1>1, MatchAssumption DEF AdjustBusy, Walking, Locals, StateInv
    <2>2. /\ local' = [local EXCEPT ![t].next = n, ![t].delta = e]
          /\ at' = at /\ on' = on
          /\ busy' = [busy EXCEPT ![s] = count]
          /\ flags' = [flags EXCEPT ![s] = @ \ {"BusyWaiter"}]
          /\ asleep' \subseteq asleep
          /\ UNCHANGED <<driver, lock, catalog, pool, busyLock, todo>>
      BY <1>1 DEF AdjustBusy
    <2>3. n \in Services \cup {NoService} /\ e \in {-1, 0, 1}
      BY <2>1
    <2>4. count \in 0..kIOServiceBusyMax
      <3>1. CASE BadBusyCount(s, d)
        BY <2>1, <3>1
      <3>2. CASE ~BadBusyCount(s, d)
        <4>1. count = busy[s] + d /\ (d < 0 => busy[s] # 0) /\ (d > 0 => busy[s] # kIOServiceBusyMax)
          BY <3>2 DEF BadBusyCount
        <4> HIDE DEF s, d, count
        <4> QED
          BY <2>1, <4>1 DEF kIOServiceBusyMax
      <3> QED
        BY <3>1, <3>2
    <2> HIDE DEF n, e, count
    <2>5. Moves(t, at[t], on[t], [local[t] EXCEPT !.next = n, !.delta = e])
      BY <1>0, <2>2 DEF Moves, PlacesInv
    <2>6. [local[t] EXCEPT !.next = n, !.delta = e] \in Locals
      BY <1>0, <2>3, LocalsChanged
    <2>7. Alone(t) /\ at'[t] = at[t] /\ on'[t] = on[t] /\ local'[t] \in Locals
      BY <1>0, <2>5, <2>6, MovesAlone
    <2>8. PlacesInv'
      BY <1>0, <1>c, <2>7, PlacesKept
    <2>9. StateInv'
      BY <1>0, <2>1, <2>2, <2>4 DEF StateInv, catalog
    <2> QED
      BY <2>2, <2>7, <2>8, <2>9 DEF KindsInv
  <1>2. CASE FindDrivers(t)
    <2> DEFINE f == {d \in catalogue : on[t] \in Matches[d]}
    <2>1. /\ at[t] = "find" /\ f \in SUBSET Drivers /\ generation \in Nat
          /\ local' = [local EXCEPT ![t].found = f, ![t].generation = generation]
          /\ at' = [at EXCEPT ![t] = "begin"] /\ on' = on
      BY <1>0, <1>2 DEF FindDrivers, At, Goto, StateInv
    <2> HIDE DEF f
    <2>2. Moves(t, "begin", on[t], [local[t] EXCEPT !.found = f, !.generation = generation])
      BY <1>0, <2>1 DEF Moves, PlacesInv
    <2>3. [local[t] EXCEPT !.found = f, !.generation = generation] \in Locals
      BY <1>0, <2>1, LocalsChanged
    <2>4. Alone(t) /\ at'[t] = "begin" /\ on'[t] = on[t] /\ local'[t] \in Locals
      BY <1>0, <2>2, <2>3, MovesAlone
    <2>5. PlacesInv'
      BY <1>0, <1>c, <2>1, <2>4, PlacesKept
         DEF ClientPlaces, ConfigPlaces, Serving, InServiceMatch
    <2>6. StateInv'
      BY <1>0, <1>2 DEF StateInv, FindDrivers, services, catalog, sleep
    <2> QED
      BY <1>2, <2>1, <2>4, <2>5, <2>6 DEF KindsInv, FindDrivers, PoolPlaces
  <1>3. CASE BeginConfig(t)
    <2>1. /\ at[t] = "begin"
          /\ \E p \in {"again", "probe"} : Moves(t, p, on[t], local[t])
      BY <1>0, <1>3 DEF BeginConfig, At, Moves, Goto, frames
    <2>2. PICK p \in {"again", "probe"} : Moves(t, p, on[t], local[t])
      BY <2>1
    <2>3. Alone(t) /\ at'[t] = p /\ on'[t] = on[t] /\ local'[t] = local[t]
      BY <1>0, <2>2, MovesAlone
    <2>4. on[t] \in Services
      BY <1>c, <2>1 DEF Serving, InServiceMatch
    <2>5. PlacesInv'
      BY <1>0, <1>c, <2>1, <2>3, <2>4, PlacesKept
         DEF ClientPlaces, ConfigPlaces, Serving, InServiceMatch
    <2>6. StateInv'
      BY <1>0, <1>3, <2>4 DEF StateInv, BeginConfig, FlagNames, catalog, sleep
    <2> QED
      BY <1>3, <2>1, <2>3, <2>5, <2>6 DEF KindsInv, BeginConfig, PoolPlaces
  <1>4. CASE ProbeCandidates(t)
    <2>1. /\ at[t] = "probe"
          /\ \E p \in {"stall", "unstall"} : Moves(t, p, on[t], local[t])
      BY <1>0, <1>4 DEF ProbeCandidates, At, Moves, Goto, frames
    <2>2. PICK p \in {"stall", "unstall"} : Moves(t, p, on[t], local[t])
      BY <2>1
    <2>3. Alone(t) /\ at'[t] = p /\ on'[t] = on[t] /\ local'[t] = local[t]
      BY <1>0, <2>2, MovesAlone
    <2>4. on[t] \in Services /\ local[t].found \in SUBSET Drivers
      BY <1>0, <1>c, <2>1 DEF Serving, InServiceMatch, Locals
    <2>5. PlacesInv'
      BY <1>0, <1>c, <2>1, <2>3, <2>4, PlacesKept
         DEF ClientPlaces, ConfigPlaces, Serving, InServiceMatch
    <2>6. driver' \in [Services -> Drivers \cup {NoDriver}]
      BY <1>0, <1>4, <2>4 DEF StateInv, ProbeCandidates
    <2>7. StateInv'
      BY <1>0, <1>4, <2>6 DEF StateInv, ProbeCandidates, catalog, sleep
    <2> QED
      BY <1>4, <2>1, <2>3, <2>5, <2>7 DEF KindsInv, ProbeCandidates, PoolPlaces
  <1>5. CASE AdjustStall(t)
    <2>1. at[t] \in {"stall", "unstall"} /\ on[t] \in Services
      BY <1>c, <1>5 DEF AdjustStall, At, Serving, InServiceMatch
    <2>2. \E p \in {"again", "stallDone"} : \E l \in Locals : Moves(t, p, on[t], l)
      <3>1. CASE (at[t] = "stall") = Has(on[t], "ModuleStall")
        BY <1>0, <1>5, <3>1 DEF AdjustStall, Goto, Moves
      <3>2. CASE (at[t] = "stall") # Has(on[t], "ModuleStall")
        <4>1. \E d \in {-1, 1} : /\ at' = [at EXCEPT ![t] = "stallDone"] /\ on' = on
                /\ local' = [local EXCEPT ![t].next = on[t], ![t].delta = d]
          BY <1>5, <3>2 DEF AdjustStall, StartWalk
        <4>2. PICK d \in {-1, 1} : /\ at' = [at EXCEPT ![t] = "stallDone"] /\ on' = on
                /\ local' = [local EXCEPT ![t].next = on[t], ![t].delta = d]
          BY <4>1
        <4>3. Moves(t, "stallDone", on[t], [local[t] EXCEPT !.next = on[t], !.delta = d])
          BY <1>0, <4>2 DEF Moves, PlacesInv
        <4>4. [local[t] EXCEPT !.next = on[t], !.delta = d] \in Locals
          BY <1>0, <2>1, LocalsChanged
        <4> QED
          BY <4>3, <4>4
      <3> QED
        BY <3>1, <3>2
    <2>3. PICK p \in {"again", "stallDone"} : \E l \in Locals : Moves(t, p, on[t], l)
      BY <2>2
    <2>4. Alone(t) /\ at'[t] = p /\ on'[t] = on[t] /\ local'[t] \in Locals
      BY <1>0, <2>3, MovesAlone
    <2>5. PlacesInv'
      BY <1>0, <1>c, <2>1, <2>4, PlacesKept
         DEF ClientPlaces, ConfigPlaces, Serving, InServiceMatch
    <2>6. flags' \in [Services -> SUBSET FlagNames] /\ lock' \in [Services -> Threads \cup {Nobody}]
      BY <1>0, <1>5, <2>1 DEF StateInv, AdjustStall, StartWalk, FlagNames
    <2>7. StateInv'
      BY <1>0, <1>5, <2>6 DEF StateInv, AdjustStall, catalog, sleep
    <2> QED
      BY <1>5, <2>1, <2>4, <2>5, <2>7 DEF KindsInv, AdjustStall, PoolPlaces
  <1>6. CASE StallDone(t)
    <2>1. at[t] = "stallDone" /\ Moves(t, "again", on[t], local[t])
      BY <1>0, <1>6 DEF StallDone, At, Moves, Goto, frames
    <2>3. Alone(t) /\ at'[t] = "again" /\ on'[t] = on[t] /\ local'[t] = local[t]
      BY <1>0, <2>1, MovesAlone
    <2>4. on[t] \in Services
      BY <1>c, <2>1 DEF Serving, InServiceMatch
    <2>5. PlacesInv'
      BY <1>0, <1>c, <2>1, <2>3, <2>4, PlacesKept
         DEF ClientPlaces, ConfigPlaces, Serving, InServiceMatch
    <2>6. StateInv'
      BY <1>0, <1>6, <2>4 DEF StateInv, StallDone, Unlock, catalog, sleep
    <2> QED
      BY <1>6, <2>1, <2>3, <2>5, <2>6 DEF KindsInv, StallDone, PoolPlaces
  <1>7. CASE MatchAgain(t)
    <2>1. at[t] = "again" /\ on[t] \in Services
      BY <1>c, <1>7 DEF MatchAgain, At, Serving, InServiceMatch
    <2>2. \E p \in {"find", "matched"} : \E l \in Locals : Moves(t, p, on[t], l)
      <3>1. CASE Has(on[t], "NeedConfig") \/ local[t].generation # generation
        BY <1>0, <1>7, <3>1 DEF MatchAgain, Goto, Moves
      <3>2. CASE ~(Has(on[t], "NeedConfig") \/ local[t].generation # generation)
        <4>1. /\ at' = [at EXCEPT ![t] = "matched"] /\ on' = on
              /\ local' = [local EXCEPT ![t].next = on[t], ![t].delta = -1]
          BY <1>7, <3>2 DEF MatchAgain, StartWalk
        <4>2. Moves(t, "matched", on[t], [local[t] EXCEPT !.next = on[t], !.delta = -1])
          BY <1>0, <4>1 DEF Moves, PlacesInv
        <4>3. [local[t] EXCEPT !.next = on[t], !.delta = -1] \in Locals
          BY <1>0, <2>1, LocalsChanged
        <4> QED
          BY <4>2, <4>3
      <3> QED
        BY <3>1, <3>2
    <2>3. PICK p \in {"find", "matched"} : \E l \in Locals : Moves(t, p, on[t], l)
      BY <2>2
    <2>4. Alone(t) /\ at'[t] = p /\ on'[t] = on[t] /\ local'[t] \in Locals
      BY <1>0, <2>3, MovesAlone
    <2>5. PlacesInv'
      BY <1>0, <1>c, <2>1, <2>4, PlacesKept
         DEF ClientPlaces, ConfigPlaces, Serving, InServiceMatch
    <2>6. flags' \in [Services -> SUBSET FlagNames] /\ lock' \in [Services -> Threads \cup {Nobody}]
      BY <1>0, <1>7, <2>1 DEF StateInv, MatchAgain, StartWalk
    <2>7. StateInv'
      BY <1>0, <1>7, <2>6 DEF StateInv, MatchAgain, catalog, sleep
    <2> QED
      BY <1>7, <2>1, <2>4, <2>5, <2>7 DEF KindsInv, MatchAgain, PoolPlaces
  <1>8. CASE Matched(t)
    <2>1. /\ at[t] = "matched"
          /\ \/ t \in ConfigThreads /\ Moves(t, "jobDone", NoService, NoLocals)
             \/ t \in Clients /\ Moves(t, "publishWait", on[t], local[t])
      BY <1>0, <1>c, <1>8 DEF Matched, At, Moves, Leave, Goto, frames
    <2>2. on[t] \in Services
      BY <1>c, <2>1 DEF Serving, InServiceMatch
    <2>3. /\ Alone(t)
          /\ \/ t \in ConfigThreads /\ at'[t] = "jobDone" /\ on'[t] = NoService /\ local'[t] = NoLocals
             \/ t \in Clients /\ at'[t] = "publishWait" /\ on'[t] = on[t] /\ local'[t] = local[t]
      BY <1>0, <2>1, MovesAlone
    <2>5. PlacesInv'
      BY <1>0, <1>c, <2>2, <2>3, PlacesKept
         DEF ClientPlaces, ConfigPlaces, Serving, InServiceMatch
    <2>6. StateInv'
      BY <1>0, <1>8, <2>2 DEF StateInv, Matched, Unlock, catalog, sleep
    <2> QED
      BY <1>8, <2>1, <2>3, <2>5, <2>6 DEF KindsInv, Matched, PoolPlaces
  <1> QED
    BY <1>1, <1>2, <1>3, <1>4, <1>5, <1>6, <1>7, <1>8

\* The catalogue.
LEMMA CatalogueMoves ==
    ASSUME KindsInv, NEW t \in Threads,
           ModuleHasLoaded(t) \/ TellService(t) \/ CatalogDone(t)
    PROVE  /\ KindsInv' /\ Alone(t) /\ UNCHANGED pool
           /\ at[t] \notin PoolPlaces /\ at'[t] \notin PoolPlaces
  <1>0. /\ PlacesInv /\ StateInv /\ local[t] \in Locals
        /\ on = [on EXCEPT ![t] = on[t]] /\ local = [local EXCEPT ![t] = local[t]]
        /\ on[t] \in Services \cup {NoService} /\ NoLocals \in Locals
    BY LocalsChanged DEF KindsInv, PlacesInv
  <1>c. /\ at[t] \notin ConfigPlaces => t \in Clients
        /\ t \in Clients => t \notin ConfigThreads
    BY <1>0, ClientOrConfig
  <1>1. CASE ModuleHasLoaded(t)
    <2>1. /\ at[t] = "moduleHasLoaded"
          /\ \E p \in {"catalog", "idle"} : Moves(t, p, on[t], NoLocals)
      BY <1>0, <1>1 DEF ModuleHasLoaded, CatalogNewDrivers, At, Moves, Goto
    <2>2. t \in Clients
      BY <1>c, <2>1 DEF ConfigPlaces, InServiceMatch
    <2>3. PICK p \in {"catalog", "idle"} : Moves(t, p, on[t], NoLocals)
      BY <2>1
    <2>4. Alone(t) /\ at'[t] = p /\ on'[t] = on[t] /\ local'[t] = NoLocals
      BY <1>0, <2>3, MovesAlone
    <2>5. PlacesInv'
      BY <1>0, <1>c, <2>2, <2>4, PlacesKept DEF ClientPlaces, Serving, InServiceMatch
    <2>6. toTell' \subseteq Services /\ catalogLock' \in Clients \cup {Nobody}
      BY <1>0, <1>1, <2>2, MatchAssumption DEF StateInv, ModuleHasLoaded, CatalogNewDrivers
    <2>7. StateInv'
      BY <1>0, <1>1, <2>6 DEF StateInv, ModuleHasLoaded, services, sleep
    <2> QED
      BY <1>1, <2>1, <2>4, <2>5, <2>7 DEF KindsInv, ModuleHasLoaded, PoolPlaces
  <1>2. CASE TellService(t)
    <2>1. at[t] = "catalog" /\ t \in Clients
      BY <1>c, <1>2 DEF TellService, At, ConfigPlaces, InServiceMatch
    <2>2. PICK s \in toTell : StartMatching(t, s, "async") /\ toTell' = toTell \ {s}
      BY <1>2 DEF TellService
    <2>3. s \in Services
      BY <1>0 DEF StateInv
    <2>4. PlacesInv' /\ flags' \in [Services -> SUBSET FlagNames]
          /\ lock' \in [Services -> Threads \cup {Nobody}]
      BY <2>1, <2>2, <2>3, StartMatchingPlaces
    <2>5. Alone(t) /\ at'[t] \in {"published", "catalog", "idle"}
      BY <1>0, <2>2 DEF StartMatching, Leave, Goto, Returns, Alone, PlacesInv
    <2>6. StateInv'
      BY <1>0, <1>2, <2>2, <2>4 DEF StateInv, TellService, sleep
    <2> QED
      BY <1>2, <2>1, <2>4, <2>5, <2>6 DEF KindsInv, TellService, PoolPlaces
  <1>3. CASE CatalogDone(t)
    <2>1. at[t] = "catalog" /\ Moves(t, "idle", on[t], local[t])
      BY <1>0, <1>3 DEF CatalogDone, At, Moves, Goto, frames
    <2>2. t \in Clients
      BY <1>c, <2>1 DEF ConfigPlaces, InServiceMatch
    <2>4. Alone(t) /\ at'[t] = "idle" /\ on'[t] = on[t] /\ local'[t] = local[t]
      BY <1>0, <2>1, MovesAlone
    <2>5. PlacesInv'
      BY <1>0, <1>c, <2>2, <2>4, PlacesKept DEF ClientPlaces, Serving, InServiceMatch
    <2>6. StateInv'
      BY <1>0, <1>3 DEF StateInv, CatalogDone, services, sleep
    <2> QED
      BY <1>3, <2>1, <2>4, <2>5, <2>6 DEF KindsInv, CatalogDone, PoolPlaces
  <1> QED
    BY <1>1, <1>2, <1>3

\* A client begins an operation.
LEMMA RequestMoves ==
    ASSUME KindsInv, NEW t \in Clients, Request(t)
    PROVE  /\ KindsInv' /\ Alone(t) /\ UNCHANGED pool
           /\ at[t] \notin PoolPlaces /\ at'[t] \notin PoolPlaces
  <1>0. /\ PlacesInv /\ StateInv /\ local[t] \in Locals /\ t \in Threads /\ t \notin ConfigThreads
        /\ on = [on EXCEPT ![t] = on[t]] /\ local = [local EXCEPT ![t] = local[t]]
        /\ on[t] \in Services \cup {NoService} /\ NoLocals \in Locals
    BY LocalsChanged, MatchAssumption DEF KindsInv, PlacesInv, Threads
  <1>1. PICK op \in todo[t] :
        /\ Begins(t, op)
        /\ \/ /\ op.what = "register"
              /\ StartMatching(t, op.service, op.option)
              /\ UNCHANGED <<busy, driver, catalog, pool, sleep>>
           \/ op.what = "waitQuiet" /\ Waits(t, "waitQuiet", op.service)
           \/ op.what = "matchIdle" /\ Waits(t, "matchIdle", NoService)
           \/ op.what = "add" /\ AddDrivers(t, op.driver)
           \/ op.what = "remove" /\ RemoveDrivers(t, op.driver)
           \/ op.what = "load" /\ LoadModule(t, op.driver)
    BY DEF Request
  <1>2. op \in Operations /\ at[t] = "idle"
    BY <1>0, <1>1 DEF StateInv, Begins
  <1>3. todo' \in [Clients -> SUBSET Operations]
    BY <1>0, <1>1 DEF StateInv, Begins
  <1>4. CASE op.what = "register"
    <2>1. op.service \in Services
      BY <1>2, <1>4 DEF Operations
    <2>2. StartMatching(t, op.service, op.option) /\ UNCHANGED <<busy, driver, catalog, pool, sleep>>
      BY <1>1, <1>4
    <2>3. PlacesInv' /\ flags' \in [Services -> SUBSET FlagNames]
          /\ lock' \in [Services -> Threads \cup {Nobody}]
      BY <2>1, <2>2, StartMatchingPlaces
    <2>4. Alone(t) /\ at'[t] \in {"published", "catalog", "idle"}
      BY <1>0, <2>2 DEF StartMatching, Leave, Goto, Returns, Alone, PlacesInv
    <2>5. StateInv'
      BY <1>0, <1>3, <2>2, <2>3 DEF StateInv, catalog, sleep
    <2> QED
      BY <1>2, <2>2, <2>3, <2>4, <2>5 DEF KindsInv, PoolPlaces
  <1>5. CASE op.what \in {"waitQuiet", "matchIdle"}
    <2>1. PICK p \in {"waitQuiet", "matchIdle"} : \E s \in Services \cup {NoService} :
            Waits(t, p, s) /\ (p = "waitQuiet" => s \in Services)
      <3>1. op.what = "waitQuiet" => op.service \in Services
        BY <1>2 DEF Operations
      <3> QED
        BY <1>1, <1>5, <3>1
    <2>2. PICK s \in Services \cup {NoService} :
            Waits(t, p, s) /\ (p = "waitQuiet" => s \in Services)
      BY <2>1
    <2>3. Moves(t, p, s, local[t])
      BY <1>0, <2>2 DEF Waits, Moves, Goto
    <2>4. Alone(t) /\ at'[t] = p /\ on'[t] = s /\ local'[t] = local[t]
      BY <1>0, <2>3, MovesAlone
    <2>5. PlacesInv'
      BY <1>0, <2>2, <2>4, PlacesKept DEF ClientPlaces, Serving, InServiceMatch
    <2>6. StateInv'
      BY <1>0, <1>3, <2>2 DEF StateInv, Waits, services, catalog, sleep
    <2> QED
      BY <1>2, <2>2, <2>4, <2>5, <2>6 DEF KindsInv, PoolPlaces, Waits
  <1>6. CASE op.what \in {"add", "remove"}
    <2>1. op.driver \in Drivers
      BY <1>2, <1>6 DEF Operations
    <2>2. AddDrivers(t, op.driver) \/ RemoveDrivers(t, op.driver)
      BY <1>1, <1>6
    <2>3. Moves(t, "catalog", on[t], local[t])
      BY <1>0, <2>2 DEF AddDrivers, RemoveDrivers, CatalogNewDrivers, Moves, Goto
    <2>4. Alone(t) /\ at'[t] = "catalog" /\ on'[t] = on[t] /\ local'[t] = local[t]
      BY <1>0, <2>3, MovesAlone
    <2>5. PlacesInv'
      BY <1>0, <2>4, PlacesKept DEF ClientPlaces, Serving, InServiceMatch
    <2>6. toTell' \subseteq Services /\ catalogLock' \in Clients \cup {Nobody}
          /\ catalogue' \subseteq Drivers
      BY <1>0, <2>1, <2>2, MatchAssumption
         DEF StateInv, AddDrivers, RemoveDrivers, CatalogNewDrivers
    <2>7. StateInv'
      BY <1>0, <1>3, <2>2, <2>6 DEF StateInv, AddDrivers, RemoveDrivers, services, sleep
    <2> QED
      BY <1>2, <2>2, <2>4, <2>5, <2>7 DEF KindsInv, PoolPlaces, AddDrivers, RemoveDrivers
  <1>7. CASE op.what = "load"
    <2>1. op.driver \in Drivers /\ LoadModule(t, op.driver)
      BY <1>1, <1>2, <1>7 DEF Operations
    <2>2. Moves(t, "moduleHasLoaded", on[t], [local[t] EXCEPT !.found = {op.driver}])
      BY <1>0, <2>1 DEF LoadModule, Moves, Goto, PlacesInv
    <2>3. [local[t] EXCEPT !.found = {op.driver}] \in Locals
      <3>1. {op.driver} \in SUBSET Drivers
        BY <2>1
      <3> QED
        BY <1>0, <3>1, LocalsChanged
    <2>4. Alone(t) /\ at'[t] = "moduleHasLoaded" /\ on'[t] = on[t] /\ local'[t] \in Locals
      BY <1>0, <2>2, <2>3, MovesAlone
    <2>5. PlacesInv'
      BY <1>0, <2>4, PlacesKept DEF ClientPlaces, Serving, InServiceMatch
    <2>6. StateInv'
      BY <1>0, <1>3, <2>1 DEF StateInv, LoadModule, services, sleep
    <2> QED
      BY <1>2, <2>1, <2>4, <2>5, <2>6 DEF KindsInv, PoolPlaces, LoadModule
  <1> QED
    BY <1>1, <1>4, <1>5, <1>6, <1>7

\* The sets the pool counts are finite.
LEMMA PoolFinite ==
    /\ IsFiniteSet(Creating) /\ IsFiniteSet(Signalling)
    /\ IsFiniteSet(Waiting \cup Creating) /\ IsFiniteSet(Started \cup Creating)
    /\ Waiting \cup Creating \subseteq Started \cup Creating
  <1>1. /\ Creating \subseteq Threads /\ Signalling \subseteq Threads
        /\ Waiting \cup Creating \subseteq Threads /\ Started \cup Creating \subseteq Threads
    BY DEF Creating, Signalling, Waiting, Started, Threads
  <1>2. IsFiniteSet(Threads)
    BY MatchAssumption
  <1>3. \A S : S \subseteq Threads => IsFiniteSet(S)
    BY <1>2, FS_Subset
  <1>4. Waiting \subseteq Started
    BY DEF Waiting, Started
  <1> QED
    BY <1>1, <1>3, <1>4

\* One more, and one less.
LEMMA OneMore ==
    ASSUME NEW S, IsFiniteSet(S), NEW x
    PROVE  /\ Cardinality(S) \in Nat
           /\ x \notin S => Cardinality(S \cup {x}) = Cardinality(S) + 1
           /\ x \in S => Cardinality(S \ {x}) = Cardinality(S) - 1
  BY FS_CardinalityType, FS_AddElement, FS_RemoveElement

\* JobsHaveThreads with the names of this module.
PoolCounts ==
    /\ outstanding = Len(jobs)
    /\ numWaiting = Cardinality(Waiting \cup Creating)
    /\ numConfig = Cardinality(Started \cup Creating)
    /\ outstanding > numWaiting => numConfig = Cardinality(ConfigThreads)

\* JobsHaveThreads, in the words of the sets above.
LEMMA PoolCountsAre == JobsHaveThreads <=> PoolCounts
  BY DEF JobsHaveThreads, PoolCounts, Waiting, Creating, Started

\* A step that neither touches the pool nor moves a thread to or from it.
LEMMA PoolStays ==
    ASSUME KindsInv, PoolInv, NEW t \in Threads, Alone(t), UNCHANGED pool,
           at'[t] = at[t] \/ (at[t] \notin PoolPlaces /\ at'[t] \notin PoolPlaces)
    PROVE  PoolInv'
  <1>1. \A u \in Threads : \/ at'[u] = at[u]
                           \/ at[u] \notin PoolPlaces /\ at'[u] \notin PoolPlaces
    BY DEF KindsInv, PlacesInv, Alone
  <1>2. /\ Creating' = Creating /\ Signalling' = Signalling
        /\ Waiting' = Waiting /\ Started' = Started
    BY <1>1 DEF Creating, Signalling, Waiting, Started, PoolPlaces, Threads
  <1>3. PoolCounts'
    BY <1>2, PoolCountsAre DEF PoolInv, PoolCounts, pool
  <1>4. JobsHaveThreads'
    BY <1>3 DEF JobsHaveThreads, PoolCounts, Waiting, Creating, Started
  <1> QED
    BY <1>2, <1>4 DEF PoolInv, pool

\* A job is enqueued, with a thread for it if there is room for one.
LEMMA PingConfigKeeps ==
    ASSUME KindsInv, PoolInv, NEW t \in Threads, PingConfig(t)
    PROVE  KindsInv' /\ PoolInv'
  <1>0. /\ PlacesInv /\ StateInv /\ local[t] \in Locals /\ PoolCounts
        /\ on = [on EXCEPT ![t] = on[t]] /\ local = [local EXCEPT ![t] = local[t]]
    BY PoolCountsAre DEF KindsInv, PlacesInv, PoolInv
  <1>1. /\ at[t] = "ping"
        /\ \E p \in {"createThread", "signal"} : Moves(t, p, on[t], local[t])
    BY <1>0 DEF PingConfig, At, Moves, Goto, frames
  <1>2. t \in Clients /\ t \notin ConfigThreads /\ on[t] \in Services
    BY <1>0, <1>1, ClientOrConfig, MatchAssumption DEF ConfigPlaces, Serving, InServiceMatch
  <1>3. PICK p \in {"createThread", "signal"} : Moves(t, p, on[t], local[t])
    BY <1>1
  <1>4. Alone(t) /\ at'[t] = p /\ on'[t] = on[t] /\ local'[t] = local[t]
    BY <1>0, <1>3, MovesAlone
  <1>5. PlacesInv'
    BY <1>0, <1>2, <1>4, PlacesKept DEF ClientPlaces, Serving, InServiceMatch
  <1>6. StateInv'
    BY <1>0 DEF StateInv, PingConfig, services, catalog, sleep
  <1>7. \A u \in Threads : u # t => at'[u] = at[u]
    BY <1>0, <1>4 DEF Alone, PlacesInv
  <1>8. /\ Signalling' = Signalling \cup {t} /\ t \notin Signalling
        /\ Waiting' = Waiting /\ Started' = Started
        /\ t \notin Waiting /\ t \notin Started /\ t \notin Creating
        /\ Creating' = IF p = "createThread" THEN Creating \cup {t} ELSE Creating
    BY <1>1, <1>2, <1>4, <1>7 DEF Signalling, Creating, Waiting, Started, Threads
  <1>9. /\ jobs' \in Seq(Services) /\ Len(jobs') = Len(jobs) + 1 /\ Len(jobs) \in Nat
        /\ outstanding' = outstanding + 1 /\ semaphore' = semaphore
    BY <1>2 DEF PoolInv, PingConfig
  <1>10. Cardinality(Signalling') = Cardinality(Signalling) + 1 /\ Cardinality(Signalling) \in Nat
    BY <1>8, PoolFinite, OneMore
  <1>11. /\ Cardinality(Waiting \cup Creating) \in Nat /\ Cardinality(Started \cup Creating) \in Nat
         /\ Cardinality(ConfigThreads) \in Nat
    <2>1. ConfigThreads \subseteq Threads /\ IsFiniteSet(Threads)
      BY MatchAssumption DEF Threads
    <2>2. IsFiniteSet(ConfigThreads)
      BY <2>1, FS_Subset
    <2> QED
      BY <2>2, PoolFinite, FS_CardinalityType
  <1>12. PoolCounts' /\ numConfig' <= Cardinality(ConfigThreads)
    <2>1. CASE outstanding + 1 > numWaiting /\ numConfig < Cardinality(ConfigThreads)
      <3>1. numConfig' = numConfig + 1 /\ numWaiting' = numWaiting + 1 /\ at'[t] = "createThread"
        BY <2>1, <1>0, <1>1 DEF PingConfig, Goto, PlacesInv
      <3>2. /\ Waiting' \cup Creating' = (Waiting \cup Creating) \cup {t}
            /\ Started' \cup Creating' = (Started \cup Creating) \cup {t}
        BY <1>4, <1>8, <3>1
      <3>3. /\ Cardinality(Waiting' \cup Creating') = Cardinality(Waiting \cup Creating) + 1
            /\ Cardinality(Started' \cup Creating') = Cardinality(Started \cup Creating) + 1
        BY <1>8, <3>2, PoolFinite, OneMore
      <3>4. numWaiting \in Nat /\ numConfig \in Nat /\ outstanding \in Nat
        BY <1>0, <1>9, <1>11 DEF PoolCounts
      <3>5. ~(outstanding' > numWaiting')
        BY <1>0, <1>9, <2>1, <3>1, <3>4 DEF PoolCounts
      <3>6. outstanding' = Len(jobs')
        BY <1>0, <1>9 DEF PoolCounts
      <3>7. numWaiting' = Cardinality(Waiting' \cup Creating') /\ numConfig' = Cardinality(Started' \cup Creating')
        BY <1>0, <3>1, <3>3 DEF PoolCounts
      <3>8. numConfig' <= Cardinality(ConfigThreads)
        BY <2>1, <3>1, <3>4, <1>11
      <3> QED
        BY <3>5, <3>6, <3>7, <3>8 DEF PoolCounts
    <2>2. CASE ~(outstanding + 1 > numWaiting /\ numConfig < Cardinality(ConfigThreads))
      <3>1. numConfig' = numConfig /\ numWaiting' = numWaiting /\ at'[t] = "signal"
        BY <2>2, <1>0, <1>1 DEF PingConfig, Goto, PlacesInv
      <3>2. Waiting' \cup Creating' = Waiting \cup Creating
            /\ Started' \cup Creating' = Started \cup Creating
        BY <1>4, <1>8, <3>1
      <3>4. numWaiting \in Nat /\ numConfig \in Nat /\ outstanding \in Nat
        BY <1>0, <1>9, <1>11 DEF PoolCounts
      <3>5. outstanding' > numWaiting' => numConfig' = Cardinality(ConfigThreads)
        BY <1>9, <1>11, <2>2, <3>1, <3>4 DEF PoolInv
      <3>6. outstanding' = Len(jobs')
        BY <1>0, <1>9 DEF PoolCounts
      <3>7. numWaiting' = Cardinality(Waiting' \cup Creating') /\ numConfig' = Cardinality(Started' \cup Creating')
        BY <1>0, <3>1, <3>2 DEF PoolCounts
      <3> QED
        BY <3>1, <3>5, <3>6, <3>7 DEF PoolCounts, PoolInv
    <2> QED
      BY <2>1, <2>2
  <1>13. JobsHaveThreads'
    BY <1>12 DEF JobsHaveThreads, PoolCounts, Waiting, Creating, Started
  <1>14. Len(jobs') = semaphore' + Cardinality(Signalling')
    BY <1>9, <1>10 DEF PoolInv
  <1> QED
    BY <1>5, <1>6, <1>9, <1>12, <1>13, <1>14 DEF KindsInv, PoolInv

\* A thread that was counted is made: it takes the place of who makes it.
LEMMA CreateThreadKeeps ==
    ASSUME KindsInv, PoolInv, NEW t \in Threads, CreateThread(t)
    PROVE  KindsInv' /\ PoolInv'
  <1>0. PlacesInv /\ StateInv /\ PoolCounts
    BY PoolCountsAre DEF KindsInv, PoolInv
  <1>1. at[t] = "createThread" /\ UNCHANGED <<services, catalog, pool, sleep, frames, todo>>
    BY DEF CreateThread, At
  <1>2. t \in Clients /\ t \notin ConfigThreads
    BY <1>0, <1>1, ClientOrConfig, MatchAssumption DEF ConfigPlaces, InServiceMatch
  <1>3. PICK c \in ConfigThreads : at[c] = "none" /\ at' = [at EXCEPT ![c] = "wait", ![t] = "signal"]
    BY DEF CreateThread
  <1>4. /\ c \in Threads /\ c # t /\ at'[c] = "wait" /\ at'[t] = "signal" /\ c \notin Clients
        /\ \A u \in Threads : u \notin {t, c} => at'[u] = at[u]
    BY <1>0, <1>2, <1>3, MatchAssumption DEF PlacesInv, Threads
  <1>5. PlacesInv'
    <2>1. at' \in [Threads -> ClientPlaces \cup ConfigPlaces]
      BY <1>0, <1>3 DEF PlacesInv, ClientPlaces, ConfigPlaces
    <2>2. /\ \A u \in Clients : at'[u] \in ClientPlaces
          /\ \A u \in ConfigThreads : at'[u] \in ConfigPlaces
      BY <1>0, <1>2, <1>4, MatchAssumption DEF PlacesInv, Threads, ClientPlaces, ConfigPlaces
    <2>3. \A u \in Threads : at'[u] \in Serving => on'[u] \in Services
      BY <1>0, <1>1, <1>4 DEF PlacesInv, Serving, InServiceMatch, frames
    <2> QED
      BY <1>0, <1>1, <2>1, <2>2, <2>3 DEF PlacesInv, frames
  <1>6. StateInv'
    BY <1>0, <1>1 DEF StateInv, services, catalog, sleep
  <1>7. /\ Signalling' = Signalling /\ Creating' = Creating \ {t}
        /\ Waiting' = Waiting \cup {c} /\ Started' = Started \cup {c}
        /\ c \notin Waiting /\ c \notin Started /\ c \notin Creating
        /\ t \in Creating /\ t \notin Started /\ t \notin Waiting
    BY <1>1, <1>2, <1>3, <1>4 DEF Signalling, Creating, Waiting, Started, Threads
  <1>8. /\ Waiting' \cup Creating' = ((Waiting \cup Creating) \ {t}) \cup {c}
        /\ Started' \cup Creating' = ((Started \cup Creating) \ {t}) \cup {c}
        /\ t \in Waiting \cup Creating /\ t \in Started \cup Creating
        /\ c \notin (Waiting \cup Creating) \ {t} /\ c \notin (Started \cup Creating) \ {t}
    BY <1>4, <1>7
  <1>9. \A S : IsFiniteSet(S) /\ t \in S /\ c \notin S \ {t}
                => Cardinality((S \ {t}) \cup {c}) = Cardinality(S)
    <2> SUFFICES ASSUME NEW S, IsFiniteSet(S), t \in S, c \notin S \ {t}
                 PROVE  Cardinality((S \ {t}) \cup {c}) = Cardinality(S)
      OBVIOUS
    <2>1. IsFiniteSet(S \ {t}) /\ Cardinality(S \ {t}) = Cardinality(S) - 1 /\ Cardinality(S) \in Nat
      BY FS_RemoveElement, FS_CardinalityType
    <2>2. Cardinality((S \ {t}) \cup {c}) = Cardinality(S \ {t}) + 1
      BY <2>1, OneMore
    <2> QED
      BY <2>1, <2>2
  <1>10. /\ Cardinality(Waiting' \cup Creating') = Cardinality(Waiting \cup Creating)
         /\ Cardinality(Started' \cup Creating') = Cardinality(Started \cup Creating)
    BY <1>8, <1>9, PoolFinite
  <1>11. PoolCounts'
    BY <1>0, <1>1, <1>10 DEF PoolCounts, pool
  <1>12. JobsHaveThreads'
    BY <1>11 DEF JobsHaveThreads, PoolCounts, Waiting, Creating, Started
  <1> QED
    BY <1>1, <1>5, <1>6, <1>7, <1>12 DEF KindsInv, PoolInv, pool

\* The semaphore is signalled for a job that is in the queue.
LEMMA SemaphoreSignalKeeps ==
    ASSUME KindsInv, PoolInv, NEW t \in Threads, SemaphoreSignal(t)
    PROVE  KindsInv' /\ PoolInv' /\ Alone(t)
  <1>0. PlacesInv /\ StateInv /\ PoolCounts /\ NoLocals \in Locals
    BY PoolCountsAre, LocalsChanged DEF KindsInv, PoolInv
  <1>1. at[t] = "signal" /\ Moves(t, Returns(t), NoService, NoLocals)
    BY DEF SemaphoreSignal, At, Leave, Moves, Goto
  <1>2. t \in Clients /\ t \notin ConfigThreads
    BY <1>0, <1>1, ClientOrConfig, MatchAssumption DEF ConfigPlaces, InServiceMatch
  <1>3. Returns(t) \in {"catalog", "idle"}
    BY DEF Returns
  <1>4. /\ semaphore' = semaphore + 1
        /\ UNCHANGED <<services, catalog, jobs, outstanding, numConfig, numWaiting, sleep, todo>>
    BY DEF SemaphoreSignal
  <1>5. StateInv'
    BY <1>0, <1>4 DEF StateInv, services, catalog, sleep
  <1>6. t \in Signalling
    BY <1>1, <1>2 DEF Signalling
  <1>7. Cardinality(Signalling \ {t}) = Cardinality(Signalling) - 1 /\ Cardinality(Signalling) \in Nat
    BY <1>6, PoolFinite, OneMore
  <1>8. Alone(t) /\ at'[t] = Returns(t) /\ on'[t] = NoService /\ local'[t] = NoLocals
    BY <1>0, <1>1, MovesAlone
  <1>9. PlacesInv'
    BY <1>0, <1>2, <1>3, <1>8, PlacesKept DEF ClientPlaces, Serving, InServiceMatch
  <1>10. \A u \in Threads : u # t => at'[u] = at[u]
    BY <1>0, <1>8 DEF Alone, PlacesInv
  <1>11. /\ Signalling' = Signalling \ {t} /\ Creating' = Creating
         /\ Waiting' = Waiting /\ Started' = Started
    BY <1>1, <1>2, <1>3, <1>8, <1>10 DEF Signalling, Creating, Waiting, Started, Threads
  <1>12. PoolCounts'
    BY <1>0, <1>4, <1>11 DEF PoolCounts
  <1>13. JobsHaveThreads'
    BY <1>12 DEF JobsHaveThreads, PoolCounts, Waiting, Creating, Started
  <1>14. Len(jobs') = semaphore' + Cardinality(Signalling')
    BY <1>4, <1>7, <1>11 DEF PoolInv
  <1> QED
    BY <1>4, <1>5, <1>8, <1>9, <1>13, <1>14 DEF KindsInv, PoolInv

\* A thread of the pool takes the first job: there is one for every signal.
LEMMA TakeJobKeeps ==
    ASSUME KindsInv, PoolInv, NEW t \in Threads, TakeJob(t)
    PROVE  /\ KindsInv' /\ PoolInv' /\ Alone(t) /\ at[t] = "wait" /\ at'[t] = "find"
           /\ jobs # <<>> /\ on'[t] = Head(jobs) /\ jobs' = Tail(jobs) /\ t \in ConfigThreads
  <1>0. /\ PlacesInv /\ StateInv /\ local[t] \in Locals /\ PoolCounts
        /\ local = [local EXCEPT ![t] = local[t]]
    BY PoolCountsAre DEF KindsInv, PlacesInv, PoolInv
  <1>1. at[t] = "wait" /\ Moves(t, "find", Head(jobs), local[t])
    BY <1>0 DEF TakeJob, At, Moves, Goto
  <1>2. t \in ConfigThreads /\ t \notin Clients
    BY <1>0, <1>1, ClientOrConfig DEF ClientPlaces, InServiceMatch
  <1>3. Cardinality(Signalling) \in Nat
    BY PoolFinite, OneMore
  <1>4. Len(jobs) > 0
    BY <1>3 DEF PoolInv, TakeJob
  <1>5. /\ jobs # <<>> /\ Head(jobs) \in Services /\ Tail(jobs) \in Seq(Services)
        /\ Len(Tail(jobs)) = Len(jobs) - 1 /\ Len(jobs) \in Nat
    BY <1>4 DEF PoolInv
  <1>6. Alone(t) /\ at'[t] = "find" /\ on'[t] = Head(jobs) /\ local'[t] = local[t]
    BY <1>0, <1>1, MovesAlone
  <1>7. PlacesInv'
    BY <1>0, <1>2, <1>5, <1>6, PlacesKept DEF ConfigPlaces, InServiceMatch
  <1>8. StateInv'
    BY <1>0 DEF StateInv, TakeJob, services, catalog, sleep
  <1>9. \A u \in Threads : u # t => at'[u] = at[u]
    BY <1>0, <1>6 DEF Alone, PlacesInv
  <1>10. /\ Signalling' = Signalling /\ Creating' = Creating /\ Started' = Started
         /\ Waiting' = Waiting \ {t} /\ t \in Waiting /\ t \notin Creating
    BY <1>1, <1>2, <1>6, <1>9 DEF Signalling, Creating, Waiting, Started, Threads
  <1>11. Waiting' \cup Creating' = (Waiting \cup Creating) \ {t} /\ t \in Waiting \cup Creating
    BY <1>10
  <1>12. /\ Cardinality(Waiting' \cup Creating') = Cardinality(Waiting \cup Creating) - 1
         /\ Cardinality(Waiting \cup Creating) \in Nat
    BY <1>11, PoolFinite, OneMore
  <1>13. /\ jobs' = Tail(jobs) /\ semaphore' = semaphore - 1 /\ outstanding' = outstanding - 1
         /\ numWaiting' = numWaiting - 1 /\ numConfig' = numConfig /\ semaphore > 0
    BY DEF TakeJob
  <1>14. outstanding' > numWaiting' => numConfig' = Cardinality(ConfigThreads)
    BY <1>0, <1>5, <1>12, <1>13 DEF PoolCounts
  <1>15. PoolCounts'
    BY <1>0, <1>5, <1>10, <1>12, <1>13, <1>14 DEF PoolCounts
  <1>16. JobsHaveThreads'
    BY <1>15 DEF JobsHaveThreads, PoolCounts, Waiting, Creating, Started
  <1>17. semaphore' \in Nat /\ Len(jobs') = semaphore' + Cardinality(Signalling')
    BY <1>3, <1>5, <1>10, <1>13 DEF PoolInv
  <1> QED
    BY <1>1, <1>2, <1>5, <1>6, <1>7, <1>8, <1>13, <1>16, <1>17 DEF KindsInv, PoolInv

\* A thread of the pool waits for the next job, or ends if there is none for it.
LEMMA JobDoneKeeps ==
    ASSUME KindsInv, PoolInv, NEW t \in Threads, JobDone(t)
    PROVE  KindsInv' /\ PoolInv' /\ Alone(t)
  <1>0. /\ PlacesInv /\ StateInv /\ local[t] \in Locals /\ PoolCounts
        /\ on = [on EXCEPT ![t] = on[t]] /\ local = [local EXCEPT ![t] = local[t]]
        /\ on[t] \in Services \cup {NoService}
    BY PoolCountsAre DEF KindsInv, PlacesInv, PoolInv
  <1>1. /\ at[t] = "jobDone"
        /\ \E p \in {"wait", "none"} : Moves(t, p, on[t], local[t])
    BY <1>0 DEF JobDone, At, Moves, Goto, frames
  <1>2. t \in ConfigThreads /\ t \notin Clients
    BY <1>0, <1>1, ClientOrConfig DEF ClientPlaces, InServiceMatch
  <1>3. PICK p \in {"wait", "none"} : Moves(t, p, on[t], local[t])
    BY <1>1
  <1>4. Alone(t) /\ at'[t] = p /\ on'[t] = on[t] /\ local'[t] = local[t]
    BY <1>0, <1>3, MovesAlone
  <1>5. PlacesInv'
    BY <1>0, <1>2, <1>4, PlacesKept DEF ConfigPlaces, Serving, InServiceMatch
  <1>6. StateInv'
    BY <1>0 DEF StateInv, JobDone, services, catalog
  <1>7. \A u \in Threads : u # t => at'[u] = at[u]
    BY <1>0, <1>4 DEF Alone, PlacesInv
  <1>8. /\ Cardinality(Waiting \cup Creating) \in Nat /\ Cardinality(Started \cup Creating) \in Nat
        /\ Len(jobs) \in Nat
    <2>1. Len(jobs) \in Nat
      BY DEF PoolInv
    <2> QED
      BY <2>1, PoolFinite, FS_CardinalityType
  <1>9. CASE outstanding > numWaiting
    <2>1. numWaiting' = numWaiting + 1 /\ numConfig' = numConfig /\ at'[t] = "wait"
          /\ UNCHANGED <<jobs, outstanding, semaphore>>
      BY <1>0, <1>9 DEF JobDone, Goto, PlacesInv
    <2>2. /\ Signalling' = Signalling /\ Creating' = Creating /\ Started' = Started
          /\ Waiting' = Waiting \cup {t} /\ t \notin Waiting /\ t \notin Creating
      BY <1>1, <1>2, <1>7, <2>1 DEF Signalling, Creating, Waiting, Started, Threads
    <2>3. Waiting' \cup Creating' = (Waiting \cup Creating) \cup {t} /\ t \notin Waiting \cup Creating
      BY <2>2
    <2>4. Cardinality(Waiting' \cup Creating') = Cardinality(Waiting \cup Creating) + 1
      BY <2>3, PoolFinite, OneMore
    <2>5. PoolCounts'
      BY <1>0, <1>8, <1>9, <2>1, <2>2, <2>4 DEF PoolCounts
    <2>6. JobsHaveThreads'
      BY <2>5 DEF JobsHaveThreads, PoolCounts, Waiting, Creating, Started
    <2> QED
      BY <1>4, <1>5, <1>6, <2>1, <2>2, <2>6 DEF KindsInv, PoolInv
  <1>10. CASE ~(outstanding > numWaiting)
    <2>1. numWaiting' = numWaiting /\ numConfig' = numConfig - 1 /\ at'[t] = "none"
          /\ UNCHANGED <<jobs, outstanding, semaphore>>
      BY <1>0, <1>10 DEF JobDone, Goto, PlacesInv
    <2>2. /\ Signalling' = Signalling /\ Creating' = Creating /\ Waiting' = Waiting
          /\ Started' = Started \ {t} /\ t \in Started /\ t \notin Creating
      BY <1>1, <1>2, <1>7, <2>1 DEF Signalling, Creating, Waiting, Started, Threads
    <2>3. Started' \cup Creating' = (Started \cup Creating) \ {t} /\ t \in Started \cup Creating
      BY <2>2
    <2>4. Cardinality(Started' \cup Creating') = Cardinality(Started \cup Creating) - 1
      BY <2>3, PoolFinite, OneMore
    <2>5. PoolCounts'
      BY <1>0, <1>8, <1>10, <2>1, <2>2, <2>4 DEF PoolCounts
    <2>6. JobsHaveThreads'
      BY <2>5 DEF JobsHaveThreads, PoolCounts, Waiting, Creating, Started
    <2>7. numConfig' <= Cardinality(ConfigThreads)
      <3>1. ConfigThreads \subseteq Threads /\ IsFiniteSet(Threads)
        BY MatchAssumption DEF Threads
      <3>2. Cardinality(ConfigThreads) \in Nat
        BY <3>1, FS_Subset, FS_CardinalityType
      <3> QED
        BY <1>0, <1>8, <2>1, <3>2 DEF PoolInv, PoolCounts
    <2> QED
      BY <1>4, <1>5, <1>6, <2>1, <2>2, <2>6, <2>7 DEF KindsInv, PoolInv
  <1> QED
    BY <1>9, <1>10

-----------------------------------------------------------------------------
(* For every scenario: the kinds of the state, and the pool *)

\* At first everything is of its kind, and the pool is empty.
LEMMA InitKinds ==
    ASSUME Init
    PROVE  KindsInv /\ PoolInv
  <1>1. PlacesInv
    BY LocalsChanged, MatchAssumption
       DEF Init, PlacesInv, Threads, ClientPlaces, ConfigPlaces, Serving, InServiceMatch
  <1>2. StateInv
    BY MatchAssumption DEF Init, StateInv, FlagNames, kIOServiceBusyMax
  <1>3. Creating = {} /\ Signalling = {} /\ Waiting = {} /\ Started = {}
    BY MatchAssumption DEF Init, Creating, Signalling, Waiting, Started, Threads
  <1>4. Cardinality({}) = 0
    BY FS_EmptySet
  <1>5. Waiting \cup Creating = {} /\ Started \cup Creating = {}
    BY <1>3
  <1>6. jobs = <<>> /\ outstanding = 0 /\ semaphore = 0 /\ numConfig = 0 /\ numWaiting = 0
    BY DEF Init
  <1>7. JobsHaveThreads
    <2>1. Cardinality(Waiting \cup Creating) = 0 /\ Cardinality(Started \cup Creating) = 0
      BY <1>4, <1>5
    <2>2. Len(jobs) = 0
      BY <1>6
    <2>3. PoolCounts
      BY <1>6, <2>1, <2>2 DEF PoolCounts
    <2> QED
      BY <2>3, PoolCountsAre
  <1>8. Cardinality(ConfigThreads) \in Nat
    <2>1. ConfigThreads \subseteq Threads /\ IsFiniteSet(Threads)
      BY MatchAssumption DEF Threads
    <2> QED
      BY <2>1, FS_Subset, FS_CardinalityType
  <1>9. PoolInv
    BY <1>3, <1>4, <1>6, <1>7, <1>8 DEF PoolInv
  <1> QED
    BY <1>1, <1>2, <1>9 DEF KindsInv

\* Every step keeps the kinds and the pool.
LEMMA NextKinds ==
    ASSUME KindsInv, PoolInv, [Next]_vars
    PROVE  KindsInv' /\ PoolInv'
  <1>1. CASE UNCHANGED vars
    <2>1. KindsInv'
      BY <1>1 DEF KindsInv, PlacesInv, StateInv, vars, services, catalog, pool, sleep, frames
    <2>2. PoolInv'
      BY <1>1 DEF PoolInv, JobsHaveThreads, Signalling, vars, pool
    <2> QED
      BY <2>1, <2>2
  <1>2. ASSUME NEW t \in Threads, Runs(t) \/ WaitTimesOut(t) \/ (t \in Clients /\ Request(t))
        PROVE  KindsInv' /\ PoolInv'
    <2>1. CASE \/ AfterPublish(t) \/ WakePublisher(t) \/ Publish(t) \/ PublishWait(t)
               \/ WaitLook(t) \/ AssertWait(t) \/ Awakened(t) \/ WaitMatchIdle(t) \/ WaitTimesOut(t)
      <3>1. /\ KindsInv' /\ Alone(t) /\ UNCHANGED pool
            /\ at[t] \notin PoolPlaces /\ at'[t] \notin PoolPlaces
        BY <2>1, WaitersMove
      <3> QED
        BY <3>1, PoolStays
    <2>2. CASE \/ AdjustBusy(t) \/ FindDrivers(t) \/ BeginConfig(t) \/ ProbeCandidates(t)
               \/ AdjustStall(t) \/ StallDone(t) \/ MatchAgain(t) \/ Matched(t)
      <3>1. /\ KindsInv' /\ Alone(t) /\ UNCHANGED pool
            /\ at'[t] = at[t] \/ (at[t] \notin PoolPlaces /\ at'[t] \notin PoolPlaces)
        BY <2>2, MatchersMove
      <3> QED
        BY <3>1, PoolStays
    <2>3. CASE ModuleHasLoaded(t) \/ TellService(t) \/ CatalogDone(t)
      <3>1. /\ KindsInv' /\ Alone(t) /\ UNCHANGED pool
            /\ at[t] \notin PoolPlaces /\ at'[t] \notin PoolPlaces
        BY <2>3, CatalogueMoves
      <3> QED
        BY <3>1, PoolStays
    <2>4. CASE t \in Clients /\ Request(t)
      <3>1. /\ KindsInv' /\ Alone(t) /\ UNCHANGED pool
            /\ at[t] \notin PoolPlaces /\ at'[t] \notin PoolPlaces
        BY <2>4, RequestMoves
      <3> QED
        BY <3>1, PoolStays
    <2>5. CASE PingConfig(t)
      BY <2>5, PingConfigKeeps
    <2>6. CASE CreateThread(t) \/ SemaphoreSignal(t)
      BY <2>6, CreateThreadKeeps, SemaphoreSignalKeeps
    <2>7. CASE TakeJob(t)
      BY <2>7, TakeJobKeeps
    <2>8. CASE JobDone(t)
      BY <2>8, JobDoneKeeps
    <2> QED
      BY <1>2, <2>1, <2>2, <2>3, <2>4, <2>5, <2>6, <2>7, <2>8 DEF Runs
  <1> QED
    BY <1>1, <1>2 DEF Next

\* Whatever the clients do, every variable keeps its kind and the counters of
\* the pool count its threads.
THEOREM KindsAndPool == Spec => [](KindsInv /\ PoolInv)
  <1>1. Init => KindsInv /\ PoolInv
    BY InitKinds
  <1>2. KindsInv /\ PoolInv /\ [Next]_vars => (KindsInv /\ PoolInv)'
    BY NextKinds
  <1> QED
    BY <1>1, <1>2, PTL DEF Spec

\* Every service, queue and counter keeps its kind, whatever the clients do.
THEOREM TypesHold == Spec => []TypeOK
  <1>1. KindsInv /\ PoolInv => TypeOK
    <2> SUFFICES ASSUME KindsInv, PoolInv
                 PROVE  TypeOK
      OBVIOUS
    <2>1. Cardinality(ConfigThreads) \in Nat
      <3>1. ConfigThreads \subseteq Threads /\ IsFiniteSet(Threads)
        BY MatchAssumption DEF Threads
      <3> QED
        BY <3>1, FS_Subset, FS_CardinalityType
    <2>2. PoolCounts
      BY PoolCountsAre DEF PoolInv
    <2>3. /\ Cardinality(Waiting \cup Creating) \in Nat /\ Cardinality(Started \cup Creating) \in Nat
          /\ Cardinality(Waiting \cup Creating) <= Cardinality(Started \cup Creating)
      BY PoolFinite, FS_CardinalityType, FS_Subset
    <2>4. outstanding \in Nat /\ jobs \in Seq(Services) /\ semaphore \in Nat
      BY <2>2 DEF PoolInv, PoolCounts
    <2>5. numConfig <= Cardinality(ConfigThreads)
      BY DEF PoolInv
    <2>6. numConfig \in 0..Cardinality(ConfigThreads) /\ numWaiting \in 0..Cardinality(ConfigThreads)
      BY <2>1, <2>2, <2>3, <2>5 DEF PoolCounts
    <2> QED
      BY <2>4, <2>6 DEF KindsInv, PlacesInv, StateInv, TypeOK
  <1> QED
    BY <1>1, KindsAndPool, PTL

\* The counters of the pool are true and no job is left without a thread,
\* whatever the clients do and however many threads the pool may have.
THEOREM NoJobIsLeft == Spec => []JobsHaveThreads
  <1>1. KindsInv /\ PoolInv => JobsHaveThreads
    BY DEF PoolInv
  <1> QED
    BY <1>1, KindsAndPool, PTL

-----------------------------------------------------------------------------
(* When no client registers synchronously *)

\* No client asks for kIOServiceSynchronous.
AllAsynchronous ==
    \A scenario \in Scenarios : \A t \in Clients : \A op \in scenario[t] : op.option # "sync"

Synchronously == {"wakePublisher", "publish", "publishWait", "publishAssert", "publishSleep"}

\* Then all matching is done by the pool.
AsyncInv ==
    /\ \A t \in Clients : at[t] \notin Synchronously \cup InServiceMatch
    /\ \A t \in Threads : at[t] = "published" => local[t].option # "sync"
    /\ \A s \in Services : ~Has(s, "SyncPub") /\ ~Has(s, "Synchronous")
    /\ \A t \in Clients : \A op \in todo[t] : op.option # "sync"

\* where a thread keeps the lock of its service
Locking == {"published", "stallDone", "matched"}

\* A walk of _adjustBusy is made with the lock of the service it began at.
LockInv ==
    /\ \A t \in Threads : at[t] \in Locking => lock[on[t]] = t
    /\ \A t \in Threads : Walking(t) => at[t] \in Locking /\ local[t].delta \in {-1, 1}

\* Thread u is where it was.
Same(u) == at'[u] = at[u] /\ on'[u] = on[u] /\ local'[u] = local[u]

\* When t moves alone, the other threads are where they were.
LEMMA AloneSame ==
    ASSUME PlacesInv, NEW t \in Threads, Alone(t)
    PROVE  \A u \in Threads : u # t => Same(u)
  BY DEF PlacesInv, Alone, Same

\* What a step of t has to say of itself to keep all matching with the pool.
LEMMA AsyncKept ==
    ASSUME AsyncInv, NEW t \in Threads, \A u \in Threads : u # t => Same(u),
           t \in Clients => at'[t] \notin Synchronously \cup InServiceMatch,
           at'[t] = "published" => local'[t].option # "sync",
           \A s \in Services : flags'[s] \cap {"SyncPub", "Synchronous"} = {},
           \A u \in Clients : todo'[u] \subseteq todo[u]
    PROVE  AsyncInv'
  BY DEF AsyncInv, Same, Threads, Has

\* What a step of t has to say of itself to keep the locks of walks: it takes
\* no lock from another thread.
LEMMA LockKept ==
    ASSUME KindsInv, LockInv, NEW t \in Threads, \A u \in Threads : u # t => Same(u),
           \A s \in Services : lock'[s] = lock[s] \/ lock[s] \in {t, Nobody},
           at'[t] \in Locking => lock'[on'[t]] = t,
           local'[t].next # NoService => at'[t] \in Locking /\ local'[t].delta \in {-1, 1}
    PROVE  LockInv'
  <1>1. \A u \in Threads : at[u] \in Locking => on[u] \in Services
    BY DEF KindsInv, PlacesInv, Locking, Serving, InServiceMatch
  <1>2. ASSUME NEW u \in Threads, at'[u] \in Locking
        PROVE  lock'[on'[u]] = u
    <2>1. CASE u = t
      BY <1>2, <2>1
    <2>2. CASE u # t
      <3>1. Same(u) /\ at[u] \in Locking
        BY <1>2, <2>2 DEF Same
      <3>2. lock[on[u]] = u /\ on[u] \in Services /\ u # Nobody
        BY <1>1, <3>1, MatchAssumption DEF LockInv
      <3> QED
        BY <2>2, <3>1, <3>2 DEF Same
    <2> QED
      BY <2>1, <2>2
  <1>3. ASSUME NEW u \in Threads, Walking(u)'
        PROVE  at'[u] \in Locking /\ local'[u].delta \in {-1, 1}
    <2>1. CASE u = t
      BY <1>3, <2>1 DEF Walking
    <2>2. CASE u # t
      BY <1>3, <2>2 DEF Walking, LockInv, Same
    <2> QED
      BY <2>1, <2>2
  <1> QED
    BY <1>2, <1>3 DEF LockInv

\* where a thread has a service to match, or has just matched it
Responsible == {"published", "ping"} \cup (InServiceMatch \ {"matched"})
Engaged == Responsible \cup {"matched"}

Configured(s) == {"Config", "Registered"} \subseteq flags[s]
Configuring == {"probe", "stall", "unstall", "stallDone", "again"}

\* What is asked for is done by one thread or stands once in the queue.
TokenInv ==
    /\ \A t, u \in Threads : at[t] \in Responsible /\ at[u] \in Responsible /\ t # u
            => on[t] # on[u]
    /\ \A t \in Threads : at[t] \in Responsible => ~NeedsConfig(on[t])
    /\ \A t \in Threads : at[t] \in Responsible => \A i \in DOMAIN jobs : jobs[i] # on[t]
    /\ \A i \in DOMAIN jobs : ~NeedsConfig(jobs[i])
    /\ \A i, j \in DOMAIN jobs : jobs[i] = jobs[j] => i = j
    /\ \A t \in Threads : at[t] \in Configuring => Configured(on[t])
    /\ \A t \in Threads : at[t] = "matched" => NeedsConfig(on[t])

\* The requests for a service stay, and so does its configuration.
SameMarks(s) ==
    /\ NeedsConfig(s)' <=> NeedsConfig(s)
    /\ Configured(s)' <=> Configured(s)
    /\ Has(s, "ModuleStall")' <=> Has(s, "ModuleStall")

\* Who is engaged in matching, configures or locks, does so for a service.
LEMMA EngagedServe ==
    ASSUME KindsInv, NEW t \in Threads
    PROVE  /\ at[t] \in Engaged => on[t] \in Services
           /\ at[t] \in Configuring => at[t] \in Responsible
           /\ at[t] \in Locking => at[t] \in Engaged
  BY DEF KindsInv, PlacesInv, Engaged, Responsible, Serving, Configuring, Locking, InServiceMatch

\* Threads that are not engaged move.
LEMMA TokensStay ==
    ASSUME KindsInv, PoolInv, TokenInv, KindsInv', jobs' = jobs,
           \A s \in Services : SameMarks(s),
           \A u \in Threads : \/ at'[u] = at[u] /\ on'[u] = on[u]
                              \/ at[u] \notin Engaged /\ at'[u] \notin Engaged
    PROVE  TokenInv'
  <1>1. \A u \in Threads : at'[u] \in Engaged => at'[u] = at[u] /\ on'[u] = on[u] /\ on[u] \in Services
    BY EngagedServe
  <1>2. \A i \in DOMAIN jobs : jobs[i] \in Services
    BY DEF PoolInv
  <1>3. \A u \in Threads : at'[u] \in Responsible => ~NeedsConfig(on[u])'
    BY <1>1 DEF TokenInv, SameMarks, Engaged
  <1>4. \A u \in Threads : at'[u] \in Configuring => at'[u] \in Engaged
    BY DEF Configuring, Engaged, Responsible, InServiceMatch
  <1>5. \A u \in Threads : at'[u] \in Configuring => Configured(on[u])'
    BY <1>1, <1>4 DEF TokenInv, SameMarks
  <1>6. \A u \in Threads : at'[u] = "matched" => NeedsConfig(on[u])'
    BY <1>1 DEF TokenInv, SameMarks, Engaged
  <1>7. \A i \in DOMAIN jobs : ~NeedsConfig(jobs[i])'
    BY <1>2 DEF TokenInv, SameMarks
  <1> QED
    BY <1>1, <1>3, <1>4, <1>5, <1>6, <1>7 DEF TokenInv, Engaged

\* A step outside of the matching: of threads that wait, tell or enqueue.
Outside ==
    /\ UNCHANGED <<busy, driver, lock, jobs>>
    /\ \A s \in Services : SameMarks(s)
    /\ \A u \in Threads : \/ Same(u)
                          \/ at[u] \notin Engaged /\ at'[u] \notin Engaged /\ local'[u].next = NoService

\* A registration finds that nothing has been asked for.
Begun(t, s) ==
    /\ s \in Services /\ lock[s] = Nobody /\ NeedsConfig(s) /\ at[t] \in {"idle", "catalog"}
    /\ UNCHANGED <<busy, driver, jobs>>
    /\ flags' = [flags EXCEPT ![s] = flags[s] \cup {"NeedConfig"}]
    /\ lock' = [lock EXCEPT ![s] = t]
    /\ at'[t] = "published" /\ on'[t] = s
    /\ local'[t].next = s /\ local'[t].delta = 1 /\ local'[t].option = "async"
    /\ \A u \in Threads : u # t => Same(u)

\* The flags by which waits are told are no marks of the matching.
LEMMA SameFlags ==
    ASSUME NEW s \in Services, flags'[s] \cap (FlagNames \ {"BusyWaiter", "SyncPub", "Synchronous"})
                                = flags[s] \cap (FlagNames \ {"BusyWaiter", "SyncPub", "Synchronous"})
    PROVE  SameMarks(s)
  <1>1. \A f \in {"NeedConfig", "Config", "Registered", "ModuleStall"} : f \in flags'[s] <=> f \in flags[s]
    BY DEF FlagNames
  <1> QED
    BY <1>1 DEF SameMarks, NeedsConfig, Configured, Has

\* startMatching, when it is not synchronous, either only repeats a request or
\* begins one with the walk that counts it.
LEMMA StartMatchingCases ==
    ASSUME KindsInv, AsyncInv, LockInv, NEW t \in Clients, NEW s \in Services, NEW option,
           option # "sync", StartMatching(t, s, option), at[t] \in {"idle", "catalog"},
           UNCHANGED <<busy, driver, pool>>, \A u \in Clients : todo'[u] \subseteq todo[u]
    PROVE  AsyncInv' /\ (Outside \/ Begun(t, s))
  <1>0. PlacesInv /\ StateInv /\ t \in Threads /\ jobs' = jobs
    BY DEF KindsInv, Threads, pool
  <1>1. ~IsSync(s, option)
    BY MatchAssumption DEF IsSync, AsyncInv
  <1>2. CASE NeedsConfig(s)
    <2>1. /\ at' = [at EXCEPT ![t] = "published"] /\ on' = [on EXCEPT ![t] = s]
          /\ local' = [local EXCEPT ![t].next = s, ![t].delta = 1, ![t].prevBusy = busy[s],
                        ![t].option = "async"]
          /\ flags' = [flags EXCEPT ![s] = flags[s] \cup {"NeedConfig"}]
          /\ lock' = [lock EXCEPT ![s] = t] /\ lock[s] = Nobody
      BY <1>1, <1>2 DEF StartMatching, Goto
    <2>2. local'[t] = [local[t] EXCEPT !.next = s, !.delta = 1, !.prevBusy = busy[s], !.option = "async"]
      BY <1>0, <2>1 DEF PlacesInv
    <2>3. local[t] \in Locals
      BY <1>0 DEF PlacesInv
    <2>4. local'[t].next = s /\ local'[t].delta = 1 /\ local'[t].option = "async"
      BY <2>2, <2>3 DEF Locals
    <2>5. at'[t] = "published" /\ on'[t] = s /\ \A u \in Threads : u # t => Same(u)
      BY <1>0, <2>1 DEF PlacesInv, Same
    <2>6. \A x \in Services : flags'[x] \cap {"SyncPub", "Synchronous"} = {}
      BY <1>0, <2>1 DEF AsyncInv, Has, StateInv
    <2>7. AsyncInv'
      BY <1>0, <2>4, <2>5, <2>6, AsyncKept DEF Synchronously, InServiceMatch
    <2> QED
      BY <1>0, <1>2, <2>1, <2>4, <2>5, <2>7 DEF Begun
  <1>3. CASE ~NeedsConfig(s)
    <2>1. /\ at' = [at EXCEPT ![t] = Returns(t)] /\ on' = [on EXCEPT ![t] = NoService]
          /\ local' = [local EXCEPT ![t] = NoLocals]
          /\ flags' = [flags EXCEPT ![s] = (flags[s] \cup {"NeedConfig"}) \ {"Synchronous"}]
          /\ lock' = lock
      BY <1>1, <1>3 DEF StartMatching, Leave, Goto, WithSynchronous
    <2>2. /\ at'[t] \in {"catalog", "idle"} /\ local'[t] = NoLocals /\ \A u \in Threads : u # t => Same(u)
      BY <1>0, <2>1 DEF Same, PlacesInv, Returns
    <2>3. at[t] \notin Engaged /\ at'[t] \notin Engaged /\ local'[t].next = NoService
      BY <2>2 DEF Engaged, Responsible, InServiceMatch, NoLocals
    <2>4. \A x \in Services : SameMarks(x)
      BY <1>0, <1>3, <2>1 DEF StateInv, SameMarks, NeedsConfig, Configured, Has
    <2>6. \A x \in Services : flags'[x] \cap {"SyncPub", "Synchronous"} = {}
      BY <1>0, <2>1 DEF AsyncInv, Has, StateInv
    <2>7. AsyncInv'
      BY <1>0, <2>2, <2>6, AsyncKept DEF Synchronously, InServiceMatch
    <2> QED
      BY <1>0, <2>1, <2>2, <2>3, <2>4, <2>7 DEF Outside
  <1> QED
    BY <1>2, <1>3

\* Clients that wait.
LEMMA WaitersOutside ==
    ASSUME KindsInv, AsyncInv, LockInv, NEW t \in Threads,
           \/ WaitLook(t) \/ AssertWait(t) \/ Awakened(t) \/ WaitMatchIdle(t) \/ WaitTimesOut(t)
    PROVE  AsyncInv' /\ Outside
  <1>0. PlacesInv /\ StateInv /\ Alone(t) /\ jobs' = jobs
    BY WaitersMove DEF KindsInv, pool
  <1>1. \A u \in Threads : u # t => Same(u)
    BY <1>0, AloneSame
  <1>2. at[t] \in {"waitQuiet", "waitAssert", "publishAssert", "waitSleep", "publishSleep",
               "matchIdle", "matchSleep"}
    BY DEF WaitLook, AssertWait, Awakened, WaitMatchIdle, WaitTimesOut, At
  <1>3. t \in Clients
    BY <1>0, <1>2, ClientOrConfig DEF ConfigPlaces, InServiceMatch
  <1>4. at[t] \in {"waitQuiet", "waitAssert", "waitSleep", "matchIdle", "matchSleep"}
    BY <1>2, <1>3 DEF AsyncInv, Synchronously
  <1>5. local[t].next = NoService
    BY <1>4 DEF LockInv, Walking, Locking
  <1>6. at'[t] \in {"waitQuiet", "waitAssert", "waitSleep", "matchIdle", "matchSleep", "idle"}
    BY <1>0, <1>4 DEF WaitLook, AssertWait, Awakened, WaitMatchIdle, WaitTimesOut, At, Leave, Goto, PlacesInv
  <1>7. local'[t].next = NoService
    BY <1>0, <1>5 DEF WaitLook, AssertWait, Awakened, WaitMatchIdle, WaitTimesOut, Leave, PlacesInv,
         frames, NoLocals
  <1>8. todo' = todo /\ busy' = busy /\ driver' = driver /\ lock' = lock
    BY DEF WaitLook, AssertWait, Awakened, WaitMatchIdle, WaitTimesOut, services
  <1>9. \A s \in Services : flags'[s] \ {"BusyWaiter"} = flags[s] \ {"BusyWaiter"}
    <2>1. \/ flags' = flags
          \/ on[t] \in Services /\ flags' = [flags EXCEPT ![on[t]] = @ \cup {"BusyWaiter"}]
      <3>1. at[t] = "waitQuiet" => on[t] \in Services
        BY <1>0 DEF PlacesInv, Serving
      <3> QED
        BY <3>1 DEF WaitLook, AssertWait, Awakened, WaitMatchIdle, WaitTimesOut, services, At
    <2> QED
      BY <1>0, <2>1 DEF StateInv
  <1>10. \A s \in Services : flags'[s] \cap {"SyncPub", "Synchronous"} = {}
    BY <1>9 DEF AsyncInv, Has
  <1>11. \A s \in Services : SameMarks(s)
    BY <1>9, SameFlags DEF FlagNames
  <1>12. AsyncInv'
    BY <1>1, <1>6, <1>8, <1>10, AsyncKept DEF Synchronously, InServiceMatch
  <1>13. at[t] \notin Engaged /\ at'[t] \notin Engaged
    BY <1>4, <1>6 DEF Engaged, Responsible, InServiceMatch
  <1> QED
    BY <1>0, <1>1, <1>7, <1>8, <1>11, <1>12, <1>13 DEF Outside

\* The pool, apart from taking a job, and the end of a change of the catalogue.
LEMMA ServersOutside ==
    ASSUME KindsInv, PoolInv, AsyncInv, LockInv, NEW t \in Threads,
           \/ CreateThread(t) \/ SemaphoreSignal(t) \/ JobDone(t)
           \/ ModuleHasLoaded(t) \/ CatalogDone(t)
    PROVE  AsyncInv' /\ Outside
  <1>0. PlacesInv /\ StateInv /\ jobs' = jobs
    BY DEF KindsInv, pool, CreateThread, SemaphoreSignal, JobDone, ModuleHasLoaded, CatalogDone
  <1>1. at[t] \in {"signal", "createThread", "jobDone", "moduleHasLoaded", "catalog"}
    BY DEF CreateThread, SemaphoreSignal, JobDone, ModuleHasLoaded, CatalogDone, At
  <1>2. local[t].next = NoService
    BY <1>1 DEF LockInv, Walking, Locking
  <1>3. \A u \in Threads : u # t => \/ Same(u)
                                    \/ /\ at[u] = "none" /\ at'[u] = "wait" /\ u \in ConfigThreads
                                       /\ on'[u] = on[u] /\ local'[u] = local[u]
    <2>1. CASE CreateThread(t)
      BY <1>0, <2>1 DEF CreateThread, PlacesInv, Same, frames
    <2>2. CASE SemaphoreSignal(t) \/ JobDone(t)
      BY <2>2, <1>0, SemaphoreSignalKeeps, JobDoneKeeps, AloneSame
    <2>3. CASE ModuleHasLoaded(t) \/ CatalogDone(t)
      BY <2>3, <1>0, CatalogueMoves, AloneSame
    <2> QED
      BY <2>1, <2>2, <2>3
  <1>4. at'[t] \in {"signal", "catalog", "idle", "wait", "none"}
    BY <1>0, <1>1, MatchAssumption DEF CreateThread, SemaphoreSignal, Leave, JobDone, ModuleHasLoaded, CatalogDone, At, Goto, Returns,
         CatalogNewDrivers, PlacesInv
  <1>5. local'[t].next = NoService
    BY <1>0, <1>2 DEF CreateThread, SemaphoreSignal, Leave, JobDone, ModuleHasLoaded, CatalogDone,
         PlacesInv, frames, NoLocals
  <1>6. todo' = todo /\ busy' = busy /\ driver' = driver /\ lock' = lock /\ flags' = flags
    BY DEF CreateThread, SemaphoreSignal, JobDone, ModuleHasLoaded, CatalogDone, services
  <1>7. \A s \in Services : SameMarks(s)
    BY <1>6, SameFlags
  <1>8. \A u \in Threads : u # t /\ ~Same(u) => local'[u].next = NoService
    <2>1. \A u \in Threads : at[u] = "none" => local[u].next = NoService
      BY DEF LockInv, Walking, Locking
    <2> QED
      BY <1>3, <2>1
  <1>9. \A u \in Threads : Same(u) \/ (at[u] \notin Engaged /\ at'[u] \notin Engaged)
    BY <1>1, <1>3, <1>4 DEF Engaged, Responsible, InServiceMatch
  <1>10. AsyncInv'
    <2>1. \A u \in Clients : at'[u] \notin Synchronously \cup InServiceMatch
      BY <1>3, <1>4, MatchAssumption DEF AsyncInv, Synchronously, InServiceMatch, Same, Threads
    <2>2. \A u \in Threads : at'[u] = "published" => local'[u].option # "sync"
      BY <1>3, <1>4 DEF AsyncInv, Same
    <2> QED
      BY <1>6, <2>1, <2>2 DEF AsyncInv, Has
  <1> QED
    BY <1>0, <1>5, <1>6, <1>7, <1>8, <1>9, <1>10 DEF Outside

\* A client begins an operation, or a change of the catalogue tells a service.
LEMMA RequestsAsync ==
    ASSUME KindsInv, AsyncInv, LockInv, NEW t \in Clients, Request(t) \/ TellService(t)
    PROVE  AsyncInv' /\ (Outside \/ \E s \in Services : Begun(t, s))
  <1>0. PlacesInv /\ StateInv /\ t \in Threads
    BY DEF KindsInv, Threads
  <1>1. CASE TellService(t)
    <2>1. PICK s \in toTell : StartMatching(t, s, "async")
      BY <1>1 DEF TellService
    <2>2. s \in Services /\ at[t] = "catalog" /\ UNCHANGED <<busy, driver, pool>> /\ todo' = todo
      BY <1>0, <1>1 DEF StateInv, TellService, At
    <2>3. AsyncInv' /\ (Outside \/ Begun(t, s))
      BY <2>1, <2>2, StartMatchingCases
    <2> QED
      BY <2>2, <2>3
  <1>2. CASE Request(t)
    <2>1. PICK op \in todo[t] :
          /\ Begins(t, op)
          /\ \/ /\ op.what = "register"
                /\ StartMatching(t, op.service, op.option)
                /\ UNCHANGED <<busy, driver, catalog, pool, sleep>>
             \/ op.what = "waitQuiet" /\ Waits(t, "waitQuiet", op.service)
             \/ op.what = "matchIdle" /\ Waits(t, "matchIdle", NoService)
             \/ op.what = "add" /\ AddDrivers(t, op.driver)
             \/ op.what = "remove" /\ RemoveDrivers(t, op.driver)
             \/ op.what = "load" /\ LoadModule(t, op.driver)
      BY <1>2 DEF Request
    <2>2. /\ op \in Operations /\ at[t] = "idle" /\ op.option # "sync"
          /\ \A u \in Clients : todo'[u] \subseteq todo[u]
      BY <1>0, <2>1 DEF StateInv, Begins, AsyncInv
    <2>3. CASE op.what = "register"
      <3>1. op.service \in Services
        BY <2>2, <2>3 DEF Operations
      <3>2. StartMatching(t, op.service, op.option) /\ UNCHANGED <<busy, driver, pool>>
        BY <2>1, <2>3
      <3>3. AsyncInv' /\ (Outside \/ Begun(t, op.service))
        BY <2>2, <3>1, <3>2, StartMatchingCases
      <3> QED
        BY <3>1, <3>3
    <2>4. CASE op.what # "register"
      <3>1. /\ jobs' = jobs /\ busy' = busy /\ driver' = driver /\ lock' = lock /\ flags' = flags
            /\ at'[t] \in {"waitQuiet", "matchIdle", "catalog", "moduleHasLoaded"}
        BY <1>0, <2>1, <2>4 DEF Waits, AddDrivers, RemoveDrivers, LoadModule, CatalogNewDrivers,
             Goto, PlacesInv, services, pool
      <3>2. local[t].next = NoService /\ local[t] \in Locals
        BY <1>0, <2>2 DEF LockInv, Walking, Locking, PlacesInv
      <3>3. local'[t].next = NoService
        BY <1>0, <2>1, <2>4, <3>2 DEF Waits, AddDrivers, RemoveDrivers, LoadModule, PlacesInv, Locals
      <3>4. \A u \in Threads : u # t => Same(u)
        BY <1>0, <1>2, RequestMoves, AloneSame
      <3>5. at[t] \notin Engaged /\ at'[t] \notin Engaged
        BY <2>2, <3>1 DEF Engaged, Responsible, InServiceMatch
      <3>6. \A s \in Services : SameMarks(s)
        BY <3>1, SameFlags
      <3>7. \A s \in Services : flags'[s] \cap {"SyncPub", "Synchronous"} = {}
        BY <3>1 DEF AsyncInv, Has
      <3>8. AsyncInv'
        BY <1>0, <2>2, <3>1, <3>4, <3>7, AsyncKept DEF Synchronously, InServiceMatch
      <3> QED
        BY <3>1, <3>3, <3>4, <3>5, <3>6, <3>8 DEF Outside
    <2> QED
      BY <2>3, <2>4
  <1> QED
    BY <1>1, <1>2

\* Locks and tokens outside of the matching, and when it is asked for.
LEMMA OutsideKeeps ==
    ASSUME KindsInv, PoolInv, LockInv, TokenInv, KindsInv', Outside
    PROVE  LockInv' /\ TokenInv'
  <1>1. TokenInv'
    <2>1. \A u \in Threads : \/ at'[u] = at[u] /\ on'[u] = on[u]
                             \/ at[u] \notin Engaged /\ at'[u] \notin Engaged
      BY DEF Outside, Same
    <2> QED
      BY <2>1, TokensStay DEF Outside
  <1>2. \A u \in Threads : at'[u] \in Locking => Same(u)
    BY DEF Outside, Locking, Engaged, Responsible, InServiceMatch
  <1>3. \A u \in Threads : at'[u] \in Locking => lock'[on'[u]] = u
    BY <1>2 DEF Outside, LockInv, Same
  <1>4. \A u \in Threads : Walking(u)' => at'[u] \in Locking /\ local'[u].delta \in {-1, 1}
    BY DEF Outside, LockInv, Same, Walking
  <1> QED
    BY <1>1, <1>3, <1>4 DEF LockInv

\* A request that begins keeps the locks, and is done by its thread alone.
LEMMA BegunKeeps ==
    ASSUME KindsInv, PoolInv, LockInv, TokenInv, KindsInv', NEW t \in Threads,
           NEW s \in Services, Begun(t, s)
    PROVE  LockInv' /\ TokenInv'
  <1>0. flags \in [Services -> SUBSET FlagNames] /\ lock \in [Services -> Threads \cup {Nobody}]
    BY DEF KindsInv, StateInv
  <1>1. LockInv'
    <2>1. \A x \in Services : lock'[x] = lock[x] \/ lock[x] \in {t, Nobody}
      BY <1>0 DEF Begun
    <2>2. lock'[on'[t]] = t
      BY <1>0 DEF Begun
    <2> QED
      BY <2>1, <2>2, LockKept DEF Begun, Locking
  <1>2. /\ \A x \in Services : x # s => flags'[x] = flags[x]
        /\ ~NeedsConfig(s)' /\ NeedsConfig(s)
    BY <1>0 DEF Begun, NeedsConfig
  <1>3. \A u \in Threads : u # t => Same(u)
    BY DEF Begun
  <1>4. \A u \in Threads : u # t /\ at[u] \in Responsible => on[u] # s /\ on[u] \in Services
    BY <1>2, EngagedServe DEF TokenInv, Engaged
  <1>5. \A i \in DOMAIN jobs : jobs[i] # s /\ jobs[i] \in Services
    BY <1>2 DEF TokenInv, PoolInv
  <1>6. \A u \in Threads : u # t /\ at[u] = "matched" => on[u] # s /\ on[u] \in Services
    BY MatchAssumption, EngagedServe DEF LockInv, Begun, Locking, Engaged
  <1>7. \A u \in Threads : at[u] \in Configuring => at[u] \in Responsible
    BY DEF Configuring, Responsible, InServiceMatch
  <1>8. at'[t] = "published" /\ on'[t] = s /\ jobs' = jobs
    BY DEF Begun
  <1>9. \A u, v \in Threads : at'[u] \in Responsible /\ at'[v] \in Responsible /\ u # v => on'[u] # on'[v]
    BY <1>3, <1>4, <1>8 DEF TokenInv, Same
  <1>10. \A u \in Threads : at'[u] \in Responsible => ~NeedsConfig(on[u])'
    <2> SUFFICES ASSUME NEW u \in Threads, at'[u] \in Responsible
                 PROVE  ~NeedsConfig(on[u])'
      OBVIOUS
    <2>1. CASE u = t
      BY <1>2, <1>8, <2>1 DEF NeedsConfig
    <2>2. CASE u # t
      BY <1>2, <1>3, <1>4, <2>2 DEF TokenInv, Same, NeedsConfig
    <2> QED
      BY <2>1, <2>2
  <1>11. \A u \in Threads : at'[u] \in Responsible => \A i \in DOMAIN jobs' : jobs'[i] # on'[u]
    BY <1>3, <1>5, <1>8 DEF TokenInv, Same
  <1>12. \A i \in DOMAIN jobs' : ~NeedsConfig(jobs[i])'
    BY <1>2, <1>5, <1>8 DEF TokenInv, NeedsConfig
  <1>13. \A u \in Threads : at'[u] \in Configuring => Configured(on[u])'
    <2> SUFFICES ASSUME NEW u \in Threads, at'[u] \in Configuring
                 PROVE  Configured(on[u])'
      OBVIOUS
    <2>1. u # t
      BY <1>8 DEF Configuring
    <2> QED
      BY <1>2, <1>3, <1>4, <1>7, <2>1 DEF TokenInv, Same, Configured
  <1>14. \A u \in Threads : at'[u] = "matched" => NeedsConfig(on[u])'
    BY <1>2, <1>3, <1>6, <1>8 DEF TokenInv, Same, NeedsConfig
  <1>15. \A i, j \in DOMAIN jobs' : jobs'[i] = jobs'[j] => i = j
    BY <1>8 DEF TokenInv
  <1> QED
    BY <1>1, <1>9, <1>10, <1>11, <1>12, <1>13, <1>14, <1>15 DEF TokenInv

\* The thread that has to match a service goes on with it.
LEMMA ResponsibleMoves ==
    ASSUME KindsInv, PoolInv, TokenInv, NEW t \in Threads, \A u \in Threads : u # t => Same(u),
           at[t] \in Responsible, at'[t] \in Engaged, on'[t] = on[t], jobs' = jobs,
           \A x \in Services : x # on[t] => flags'[x] = flags[x],
           at'[t] \in Responsible => ~NeedsConfig(on[t])',
           at'[t] \in Configuring => Configured(on[t])',
           at'[t] = "matched" => NeedsConfig(on[t])'
    PROVE  TokenInv'
  <1>1. on[t] \in Services /\ ~NeedsConfig(on[t])
    BY EngagedServe DEF TokenInv, Engaged
  <1>2. \A u \in Threads : u # t /\ at[u] \in Responsible => on[u] # on[t] /\ on[u] \in Services
    BY EngagedServe DEF TokenInv, Engaged
  <1>3. \A u \in Threads : u # t /\ at[u] = "matched" => on[u] # on[t] /\ on[u] \in Services
    BY <1>1, EngagedServe DEF TokenInv, Engaged
  <1>4. \A i \in DOMAIN jobs : jobs[i] # on[t] /\ jobs[i] \in Services
    BY DEF TokenInv, PoolInv
  <1>5. \A u \in Threads : at[u] \in Configuring => at[u] \in Responsible
    BY DEF Configuring, Responsible, InServiceMatch
  <1>6. \A u, v \in Threads : at'[u] \in Responsible /\ at'[v] \in Responsible /\ u # v => on'[u] # on'[v]
    BY DEF TokenInv, Same
  <1>7. \A u \in Threads : at'[u] \in Responsible => ~NeedsConfig(on[u])'
    BY <1>2 DEF TokenInv, Same, NeedsConfig
  <1>8. \A u \in Threads : at'[u] \in Responsible => \A i \in DOMAIN jobs' : jobs'[i] # on'[u]
    BY DEF TokenInv, Same
  <1>9. \A i \in DOMAIN jobs' : ~NeedsConfig(jobs[i])'
    BY <1>4 DEF TokenInv, NeedsConfig
  <1>10. \A u \in Threads : at'[u] \in Configuring => Configured(on[u])'
    <2> SUFFICES ASSUME NEW u \in Threads, at'[u] \in Configuring
                 PROVE  Configured(on[u])'
      OBVIOUS
    <2>1. CASE u = t
      BY <2>1
    <2>2. CASE u # t
      BY <1>2, <1>5, <2>2 DEF TokenInv, Same, Configured
    <2> QED
      BY <2>1, <2>2
  <1>11. \A u \in Threads : at'[u] = "matched" => NeedsConfig(on[u])'
    <2> SUFFICES ASSUME NEW u \in Threads, at'[u] = "matched"
                 PROVE  NeedsConfig(on[u])'
      OBVIOUS
    <2>1. CASE u = t
      BY <2>1
    <2>2. CASE u # t
      BY <1>3, <2>2 DEF TokenInv, Same, NeedsConfig
    <2> QED
      BY <2>1, <2>2
  <1>12. \A i, j \in DOMAIN jobs' : jobs'[i] = jobs'[j] => i = j
    BY DEF TokenInv
  <1> QED
    BY <1>6, <1>7, <1>8, <1>9, <1>10, <1>11, <1>12 DEF TokenInv

\* A step that changes no count, nothing that is counted and no walk.
Quiet ==
    /\ busy' = busy
    /\ \A s \in Services : /\ NeedsConfig(s)' <=> NeedsConfig(s)
                           /\ Has(s, "ModuleStall")' <=> Has(s, "ModuleStall")
    /\ \A u \in Threads : Same(u) \/ (~Walking(u) /\ ~Walking(u)')

\* A walk with a change by d begins at the service of t.
Departs(t, d) ==
    /\ busy' = busy /\ jobs' = jobs
    /\ on[t] \in Services /\ lock[on[t]] = Nobody /\ ~Walking(t)
    /\ at'[t] \in {"stallDone", "matched"} /\ on'[t] = on[t]
    /\ local'[t].next = on[t] /\ local'[t].delta = d
    /\ \A u \in Threads : u # t => Same(u)
    /\ \A x \in Services : x # on[t] => flags'[x] = flags[x]

Stalled(t) ==
    /\ Departs(t, 1) /\ at'[t] = "stallDone"
    /\ ~Has(on[t], "ModuleStall") /\ Has(on[t], "ModuleStall")'
    /\ ~NeedsConfig(on[t]) /\ ~NeedsConfig(on[t])'

Unstalled(t) ==
    /\ Departs(t, -1) /\ at'[t] = "stallDone"
    /\ Has(on[t], "ModuleStall") /\ ~Has(on[t], "ModuleStall")'
    /\ ~NeedsConfig(on[t]) /\ ~NeedsConfig(on[t])'

Finished(t) ==
    /\ Departs(t, -1) /\ at'[t] = "matched"
    /\ Has(on[t], "ModuleStall")' <=> Has(on[t], "ModuleStall")
    /\ ~NeedsConfig(on[t]) /\ NeedsConfig(on[t])'

\* A step outside of the matching begins no walk and changes no count.
LEMMA OutsideQuiet ==
    ASSUME LockInv, Outside
    PROVE  Quiet
  <1>1. \A u \in Threads : Same(u) \/ (~Walking(u) /\ ~Walking(u)')
    BY DEF Outside, LockInv, Walking, Locking, Engaged, Responsible, InServiceMatch
  <1> QED
    BY <1>1 DEF Outside, Quiet, SameMarks

\* A registration is handed to the pool.
LEMMA AfterPublishKeeps ==
    ASSUME KindsInv, PoolInv, AsyncInv, LockInv, TokenInv, KindsInv', NEW t \in Threads, AfterPublish(t)
    PROVE  AsyncInv' /\ LockInv' /\ TokenInv' /\ Quiet
  <1>0. PlacesInv /\ StateInv /\ Alone(t) /\ jobs' = jobs
    BY WaitersMove DEF KindsInv, pool
  <1>1. \A u \in Threads : u # t => Same(u)
    BY <1>0, AloneSame
  <1>2. at[t] = "published" /\ ~Walking(t) /\ on[t] \in Services
    BY <1>0 DEF AfterPublish, At, PlacesInv, Serving
  <1>3. ~Has(on[t], "SyncPub") /\ local[t].option # "sync"
    BY <1>2 DEF AsyncInv
  <1>4. /\ at'[t] = "ping" /\ on'[t] = on[t] /\ local'[t] = local[t]
        /\ flags' = [flags EXCEPT ![on[t]] = @ \ {"Synchronous"}]
        /\ lock' = [lock EXCEPT ![on[t]] = Nobody] /\ busy' = busy /\ todo' = todo
    BY <1>0, <1>2, <1>3 DEF AfterPublish, Goto, WithSynchronous, Unlock, PlacesInv, frames
  <1>5. \A x \in Services : flags'[x] \ {"Synchronous"} = flags[x] \ {"Synchronous"}
    BY <1>0, <1>4 DEF StateInv
  <1>6. \A x \in Services : SameMarks(x)
    BY <1>5, SameFlags DEF FlagNames
  <1>7. \A x \in Services : flags'[x] \cap {"SyncPub", "Synchronous"} = {}
    BY <1>0, <1>4 DEF AsyncInv, Has, StateInv
  <1>8. AsyncInv'
    BY <1>1, <1>4, <1>7, AsyncKept DEF Synchronously, InServiceMatch
  <1>9. LockInv'
    <2>1. \A s \in Services : lock'[s] = lock[s] \/ lock[s] \in {t, Nobody}
      BY <1>0, <1>2, <1>4 DEF LockInv, Locking, StateInv
    <2> QED
      BY <1>1, <1>2, <1>4, <2>1, LockKept DEF Locking, Walking
  <1>10. ~NeedsConfig(on[t]) /\ at[t] \in Responsible /\ at'[t] \in Engaged /\ at'[t] \notin Configuring
         /\ at'[t] # "matched"
    BY <1>2, <1>4 DEF TokenInv, Responsible, Engaged, Configuring
  <1>11. ~NeedsConfig(on[t])' /\ \A x \in Services : x # on[t] => flags'[x] = flags[x]
    BY <1>0, <1>2, <1>4, <1>6, <1>10 DEF SameMarks, StateInv, NeedsConfig
  <1>12. TokenInv'
    BY <1>0, <1>1, <1>4, <1>10, <1>11, ResponsibleMoves
  <1>13. Quiet
    BY <1>1, <1>2, <1>4, <1>6 DEF Quiet, SameMarks, Walking
  <1> QED
    BY <1>8, <1>9, <1>12, <1>13

\* doServiceMatch, up to the walk that ends it.
LEMMA MatchersKeep ==
    ASSUME KindsInv, PoolInv, AsyncInv, LockInv, TokenInv, KindsInv', NEW t \in Threads,
           \/ FindDrivers(t) \/ BeginConfig(t) \/ ProbeCandidates(t)
           \/ AdjustStall(t) \/ StallDone(t) \/ MatchAgain(t)
    PROVE  /\ AsyncInv' /\ LockInv' /\ TokenInv'
           /\ Quiet \/ Stalled(t) \/ Unstalled(t) \/ Finished(t)
  <1>0. PlacesInv /\ StateInv /\ Alone(t) /\ jobs' = jobs
    BY MatchersMove DEF KindsInv, pool
  <1>1. \A u \in Threads : u # t => Same(u)
    BY <1>0, AloneSame
  <1>2. /\ at[t] \in {"find", "begin", "probe", "stall", "unstall", "stallDone", "again"}
        /\ ~Walking(t)
    BY DEF FindDrivers, BeginConfig, ProbeCandidates, AdjustStall, StallDone, MatchAgain, At
  <1>3. /\ on[t] \in Services /\ at[t] \in Responsible /\ local[t] \in Locals
        /\ t \in ConfigThreads /\ t \notin Clients
    BY <1>0, <1>2, ClientOrConfig DEF PlacesInv, Serving, Responsible, InServiceMatch, AsyncInv
  <1>4. ~NeedsConfig(on[t]) /\ (at[t] \in Configuring => Configured(on[t]))
    BY <1>3 DEF TokenInv
  <1>5. busy' = busy /\ todo' = todo /\ on' = on
    BY DEF FindDrivers, BeginConfig, ProbeCandidates, AdjustStall, StallDone, MatchAgain, services, frames
  <1>6. /\ \A x \in Services : x # on[t] => flags'[x] = flags[x]
        /\ flags'[on[t]] \cap {"SyncPub", "Synchronous"} \subseteq flags[on[t]]
    BY <1>0, <1>3 DEF FindDrivers, BeginConfig, ProbeCandidates, AdjustStall, StallDone, MatchAgain,
         StartWalk, services, StateInv
  <1>7. \A x \in Services : flags'[x] \cap {"SyncPub", "Synchronous"} = {}
    BY <1>3, <1>6 DEF AsyncInv, Has
  <1>8. at'[t] \in {"find", "begin", "probe", "stall", "unstall", "stallDone", "again", "matched"}
    BY <1>0 DEF FindDrivers, BeginConfig, ProbeCandidates, AdjustStall, StallDone, MatchAgain, Goto,
         StartWalk, PlacesInv
  <1>9. AsyncInv'
    BY <1>1, <1>3, <1>5, <1>7, <1>8, AsyncKept
  <1>10. ASSUME flags' = flags, lock' = lock \/ StallDone(t), ~Walking(t)',
                at'[t] \notin Locking, at'[t] \in Configuring => Configured(on[t])
         PROVE  LockInv' /\ TokenInv' /\ Quiet
    <2>1. \A x \in Services : lock'[x] = lock[x] \/ lock[x] \in {t, Nobody}
      BY <1>0, <1>3, <1>10 DEF LockInv, Locking, StateInv, StallDone, At, Unlock
    <2>2. LockInv'
      BY <1>1, <1>10, <2>1, LockKept DEF Walking
    <2>3. TokenInv'
      <3>1. at'[t] \in Engaged /\ at'[t] # "matched" /\ on'[t] = on[t]
        BY <1>5, <1>8, <1>10 DEF Engaged, Responsible, InServiceMatch, Locking
      <3>2. ~NeedsConfig(on[t])' /\ (at'[t] \in Configuring => Configured(on[t])')
        BY <1>4, <1>5, <1>10 DEF NeedsConfig, Configured
      <3> QED
        BY <1>0, <1>1, <1>3, <1>6, <3>1, <3>2, ResponsibleMoves
    <2>4. Quiet
      BY <1>1, <1>2, <1>5, <1>10 DEF Quiet, NeedsConfig, Has
    <2> QED
      BY <2>2, <2>3, <2>4
  <1>11. CASE FindDrivers(t)
    <2>1. /\ flags' = flags /\ lock' = lock /\ at'[t] = "begin"
          /\ local'[t].next = local[t].next
      BY <1>0, <1>3, <1>11 DEF FindDrivers, services, Goto, PlacesInv, Locals
    <2> QED
      BY <1>2, <1>9, <1>10, <2>1 DEF Walking, Locking, Configuring
  <1>12. CASE ProbeCandidates(t)
    <2>1. /\ flags' = flags /\ lock' = lock /\ at'[t] \in {"stall", "unstall"}
          /\ local' = local /\ at[t] = "probe"
      BY <1>0, <1>12 DEF ProbeCandidates, At, Goto, PlacesInv, frames
    <2> QED
      BY <1>2, <1>4, <1>9, <1>10, <2>1 DEF Walking, Locking, Configuring
  <1>13. CASE StallDone(t)
    <2>1. /\ flags' = flags /\ at'[t] = "again" /\ local' = local /\ at[t] = "stallDone"
      BY <1>0, <1>13 DEF StallDone, At, Goto, PlacesInv, frames
    <2> QED
      BY <1>2, <1>4, <1>9, <1>10, <1>13, <2>1 DEF Walking, Locking, Configuring
  <1>14. CASE BeginConfig(t)
    <2>1. /\ flags'[on[t]] = (flags[on[t]] \ {"NeedConfig"}) \cup {"Config", "Registered"}
          /\ at'[t] \in {"again", "probe"} /\ local' = local /\ lock' = lock
      BY <1>0, <1>3, <1>14 DEF BeginConfig, At, Goto, PlacesInv, StateInv, frames
    <2>2. ~NeedsConfig(on[t])' /\ Configured(on[t])'
          /\ (Has(on[t], "ModuleStall")' <=> Has(on[t], "ModuleStall"))
      BY <1>5, <2>1 DEF NeedsConfig, Configured, Has
    <2>3. LockInv'
      BY <1>1, <1>2, <2>1, LockKept DEF Walking, Locking
    <2>4. TokenInv'
      <3>1. at'[t] \in Engaged /\ at'[t] # "matched" /\ on'[t] = on[t]
        BY <1>5, <2>1 DEF Engaged, Responsible, InServiceMatch
      <3> QED
        BY <1>0, <1>1, <1>3, <1>6, <2>2, <3>1, ResponsibleMoves
    <2>5. \A s \in Services : /\ NeedsConfig(s)' <=> NeedsConfig(s)
                              /\ Has(s, "ModuleStall")' <=> Has(s, "ModuleStall")
      BY <1>4, <1>5, <1>6, <2>2 DEF NeedsConfig, Has
    <2>6. Quiet
      BY <1>1, <1>2, <1>5, <2>1, <2>5 DEF Quiet, Walking
    <2> QED
      BY <1>9, <2>3, <2>4, <2>6
  <1>15. CASE AdjustStall(t)
    <2>0. at[t] \in {"stall", "unstall"} /\ lock[on[t]] = Nobody
      BY <1>15 DEF AdjustStall, At
    <2>1. CASE (at[t] = "stall") = Has(on[t], "ModuleStall")
      <3>1. flags' = flags /\ lock' = lock /\ local' = local /\ at'[t] = "again"
        BY <1>0, <1>15, <2>1 DEF AdjustStall, Goto, PlacesInv
      <3> QED
        BY <1>2, <1>4, <1>9, <1>10, <2>0, <3>1 DEF Walking, Locking, Configuring
    <2>2. CASE (at[t] = "stall") # Has(on[t], "ModuleStall")
      <3> DEFINE d == IF at[t] = "stall" THEN 1 ELSE -1
      <3>1. /\ flags' = [flags EXCEPT ![on[t]] = IF at[t] = "stall" THEN @ \cup {"ModuleStall"}
                                                 ELSE @ \ {"ModuleStall"}]
            /\ lock' = [lock EXCEPT ![on[t]] = t]
            /\ at' = [at EXCEPT ![t] = "stallDone"]
            /\ local' = [local EXCEPT ![t].next = on[t], ![t].delta = d]
        BY <1>15, <2>2 DEF AdjustStall, StartWalk
      <3>2. at'[t] = "stallDone" /\ lock'[on[t]] = t
            /\ \A x \in Services : lock'[x] = lock[x] \/ lock[x] \in {t, Nobody}
        BY <1>0, <1>3, <2>0, <3>1 DEF PlacesInv, StateInv
      <3>3. local'[t].next = on[t] /\ local'[t].delta = d /\ d \in {-1, 1}
        BY <1>0, <1>3, <3>1 DEF PlacesInv, Locals
      <3>4. flags'[on[t]] = IF at[t] = "stall" THEN flags[on[t]] \cup {"ModuleStall"}
                            ELSE flags[on[t]] \ {"ModuleStall"}
        BY <1>0, <1>3, <3>1 DEF StateInv
      <3>5. ~NeedsConfig(on[t])' /\ Configured(on[t])'
        BY <1>4, <1>5, <2>0, <3>4 DEF NeedsConfig, Configured, Configuring
      <3>6. LockInv'
        BY <1>1, <1>5, <3>2, <3>3, LockKept DEF Locking
      <3>7. TokenInv'
        <4>1. at'[t] \in Engaged /\ at'[t] # "matched" /\ on'[t] = on[t]
          BY <1>5, <3>2 DEF Engaged, Responsible, InServiceMatch
        <4> QED
          BY <1>0, <1>1, <1>3, <1>6, <3>5, <4>1, ResponsibleMoves
      <3>8. Departs(t, d)
        BY <1>0, <1>1, <1>2, <1>3, <1>5, <1>6, <2>0, <3>2, <3>3 DEF Departs
      <3>9. CASE at[t] = "stall"
        BY <1>4, <1>5, <1>9, <2>2, <3>2, <3>4, <3>5, <3>6, <3>7, <3>8, <3>9 DEF Stalled, Has
      <3>10. CASE at[t] = "unstall"
        BY <1>4, <1>5, <1>9, <2>2, <3>2, <3>4, <3>5, <3>6, <3>7, <3>8, <3>10 DEF Unstalled, Has
      <3> QED
        BY <2>0, <3>9, <3>10
    <2> QED
      BY <2>1, <2>2
  <1>16. CASE MatchAgain(t)
    <2>0. at[t] = "again" /\ lock[on[t]] = Nobody
      BY <1>16 DEF MatchAgain, At
    <2>1. CASE Has(on[t], "NeedConfig") \/ local[t].generation # generation
      <3>1. flags' = flags /\ lock' = lock /\ local' = local /\ at'[t] = "find"
        BY <1>0, <1>16, <2>1 DEF MatchAgain, Goto, PlacesInv
      <3> QED
        BY <1>2, <1>9, <1>10, <3>1 DEF Walking, Locking, Configuring
    <2>2. CASE ~(Has(on[t], "NeedConfig") \/ local[t].generation # generation)
      <3>1. /\ flags' = [flags EXCEPT ![on[t]] = @ \ {"Config"}]
            /\ lock' = [lock EXCEPT ![on[t]] = t]
            /\ at' = [at EXCEPT ![t] = "matched"]
            /\ local' = [local EXCEPT ![t].next = on[t], ![t].delta = -1]
        BY <1>16, <2>2 DEF MatchAgain, StartWalk
      <3>2. at'[t] = "matched" /\ lock'[on[t]] = t
            /\ \A x \in Services : lock'[x] = lock[x] \/ lock[x] \in {t, Nobody}
        BY <1>0, <1>3, <2>0, <3>1 DEF PlacesInv, StateInv
      <3>3. local'[t].next = on[t] /\ local'[t].delta = -1
        BY <1>0, <1>3, <3>1 DEF PlacesInv, Locals
      <3>4. flags'[on[t]] = flags[on[t]] \ {"Config"}
        BY <1>0, <1>3, <3>1 DEF StateInv
      <3>5. NeedsConfig(on[t])' /\ (Has(on[t], "ModuleStall")' <=> Has(on[t], "ModuleStall"))
        BY <1>5, <2>2, <3>4 DEF NeedsConfig, Has
      <3>6. LockInv'
        BY <1>1, <1>5, <3>2, <3>3, LockKept DEF Locking
      <3>7. TokenInv'
        <4>1. at'[t] \in Engaged /\ at'[t] \notin Responsible /\ at'[t] \notin Configuring /\ on'[t] = on[t]
          BY <1>5, <3>2 DEF Engaged, Responsible, InServiceMatch, Configuring
        <4> QED
          BY <1>0, <1>1, <1>3, <1>6, <3>5, <4>1, ResponsibleMoves
      <3>8. Departs(t, -1)
        BY <1>0, <1>1, <1>2, <1>3, <1>5, <1>6, <2>0, <3>2, <3>3 DEF Departs
      <3> QED
        BY <1>4, <1>9, <3>2, <3>5, <3>6, <3>7, <3>8 DEF Finished
    <2> QED
      BY <2>1, <2>2
  <1> QED
    BY <1>11, <1>12, <1>13, <1>14, <1>15, <1>16

\* The thread that registered leaves the service to the queue.
LEMMA PingConfigTokens ==
    ASSUME KindsInv, PoolInv, AsyncInv, LockInv, TokenInv, NEW t \in Threads, PingConfig(t)
    PROVE  AsyncInv' /\ LockInv' /\ TokenInv' /\ Quiet
  <1>0. PlacesInv /\ StateInv
    BY DEF KindsInv
  <1>1. at[t] = "ping" /\ ~Walking(t) /\ on[t] \in Services /\ at[t] \in Responsible
    BY <1>0 DEF PingConfig, At, PlacesInv, Serving, Responsible
  <1>2. /\ at'[t] \in {"createThread", "signal"} /\ on' = on /\ local' = local
        /\ \A u \in Threads : u # t => Same(u)
    BY <1>0 DEF PingConfig, Goto, PlacesInv, frames, Same
  <1>3. flags' = flags /\ lock' = lock /\ busy' = busy /\ todo' = todo /\ jobs' = Append(jobs, on[t])
    BY DEF PingConfig, services
  <1>4. AsyncInv'
    <2>1. \A s \in Services : flags'[s] \cap {"SyncPub", "Synchronous"} = {}
      BY <1>3 DEF AsyncInv, Has
    <2> QED
      BY <1>2, <1>3, <2>1, AsyncKept DEF Synchronously, InServiceMatch
  <1>5. LockInv'
    BY <1>1, <1>2, <1>3, LockKept DEF Locking, Walking
  <1>6. Quiet
    BY <1>1, <1>2, <1>3 DEF Quiet, Walking, Same, NeedsConfig, Has
  <1>7. /\ jobs \in Seq(Services) /\ Len(jobs) \in Nat
        /\ DOMAIN jobs' = 1..(Len(jobs) + 1) /\ DOMAIN jobs = 1..Len(jobs)
        /\ \A i \in DOMAIN jobs' : jobs'[i] = IF i \in DOMAIN jobs THEN jobs[i] ELSE on[t]
        /\ \A i \in DOMAIN jobs' : i \notin DOMAIN jobs => i = Len(jobs) + 1
    BY <1>1, <1>3 DEF PoolInv
  <1>8. \A u \in Threads : at'[u] \in Engaged => u # t /\ Same(u)
    BY <1>2 DEF Engaged, Responsible, InServiceMatch
  <1>9. ~NeedsConfig(on[t]) /\ \A i \in DOMAIN jobs : jobs[i] # on[t]
    BY <1>1 DEF TokenInv
  <1>10. TokenInv'
    <2>1. \A u \in Threads : at'[u] \in Responsible => at'[u] \in Engaged
      BY DEF Engaged
    <2>2. \A u, v \in Threads : at'[u] \in Responsible /\ at'[v] \in Responsible /\ u # v => on'[u] # on'[v]
      BY <1>8, <2>1 DEF TokenInv, Same
    <2>3. \A u \in Threads : at'[u] \in Responsible => ~NeedsConfig(on[u])'
      BY <1>3, <1>8, <2>1 DEF TokenInv, Same, NeedsConfig
    <2>4. \A u \in Threads : at'[u] \in Responsible => \A i \in DOMAIN jobs' : jobs'[i] # on'[u]
      BY <1>1, <1>7, <1>8, <2>1 DEF TokenInv, Same
    <2>5. \A i \in DOMAIN jobs' : ~NeedsConfig(jobs[i])'
      BY <1>3, <1>7, <1>9 DEF TokenInv, NeedsConfig
    <2>6. \A i, j \in DOMAIN jobs' : jobs'[i] = jobs'[j] => i = j
      BY <1>7, <1>9 DEF TokenInv
    <2>7. \A u \in Threads : at'[u] \in Configuring => Configured(on[u])'
      <3>1. \A u \in Threads : at'[u] \in Configuring => at'[u] \in Engaged
        BY DEF Engaged, Configuring, Responsible, InServiceMatch
      <3> QED
        BY <1>3, <1>8, <3>1 DEF TokenInv, Same, Configured
    <2>8. \A u \in Threads : at'[u] = "matched" => NeedsConfig(on[u])'
      BY <1>3, <1>8 DEF TokenInv, Same, NeedsConfig, Engaged
    <2> QED
      BY <2>2, <2>3, <2>4, <2>5, <2>6, <2>7, <2>8 DEF TokenInv
  <1> QED
    BY <1>4, <1>5, <1>6, <1>10

\* A thread of the pool takes a service from the queue.
LEMMA TakeJobTokens ==
    ASSUME KindsInv, PoolInv, AsyncInv, LockInv, TokenInv, NEW t \in Threads, TakeJob(t)
    PROVE  AsyncInv' /\ LockInv' /\ TokenInv' /\ Quiet
  <1>0. /\ PlacesInv /\ StateInv /\ Alone(t) /\ at[t] = "wait" /\ at'[t] = "find" /\ jobs # <<>>
        /\ on'[t] = Head(jobs) /\ jobs' = Tail(jobs) /\ t \in ConfigThreads
    BY TakeJobKeeps DEF KindsInv
  <1>1. \A u \in Threads : u # t => Same(u)
    BY <1>0, AloneSame
  <1>2. ~Walking(t) /\ local' = local /\ flags' = flags /\ lock' = lock /\ busy' = busy /\ todo' = todo
    BY DEF TakeJob, At, services
  <1>3. AsyncInv'
    <2>1. \A s \in Services : flags'[s] \cap {"SyncPub", "Synchronous"} = {}
      BY <1>2 DEF AsyncInv, Has
    <2> QED
      BY <1>0, <1>1, <1>2, <2>1, AsyncKept, MatchAssumption
  <1>4. LockInv'
    BY <1>0, <1>1, <1>2, LockKept DEF Locking, Walking
  <1>5. Quiet
    BY <1>1, <1>2 DEF Quiet, Walking, NeedsConfig, Has
  <1>6. /\ jobs \in Seq(Services) /\ Len(jobs) \in Nat \ {0}
        /\ DOMAIN jobs = 1..Len(jobs) /\ DOMAIN jobs' = 1..(Len(jobs) - 1)
        /\ \A i \in DOMAIN jobs' : jobs'[i] = jobs[i + 1] /\ i + 1 \in DOMAIN jobs
        /\ Head(jobs) = jobs[1] /\ 1 \in DOMAIN jobs
    BY <1>0 DEF PoolInv
  <1>7. /\ ~NeedsConfig(jobs[1])
        /\ \A i \in DOMAIN jobs' : jobs'[i] # jobs[1]
        /\ \A u \in Threads : at[u] \in Responsible => on[u] # jobs[1]
        /\ \A i \in DOMAIN jobs' : i \in Int
    BY <1>6 DEF TokenInv
  <1>8. TokenInv'
    <2>1. \A u, v \in Threads : at'[u] \in Responsible /\ at'[v] \in Responsible /\ u # v => on'[u] # on'[v]
      BY <1>0, <1>1, <1>6, <1>7 DEF TokenInv, Same
    <2>2. \A u \in Threads : at'[u] \in Responsible => ~NeedsConfig(on[u])'
      BY <1>0, <1>1, <1>2, <1>6, <1>7 DEF TokenInv, Same, NeedsConfig
    <2>3. \A u \in Threads : at'[u] \in Responsible => \A i \in DOMAIN jobs' : jobs'[i] # on'[u]
      BY <1>0, <1>1, <1>6, <1>7 DEF TokenInv, Same
    <2>4. \A i \in DOMAIN jobs' : ~NeedsConfig(jobs[i])'
      BY <1>2, <1>6 DEF TokenInv, NeedsConfig
    <2>5. \A i, j \in DOMAIN jobs' : jobs'[i] = jobs'[j] => i = j
      <3> SUFFICES ASSUME NEW i \in DOMAIN jobs', NEW j \in DOMAIN jobs', jobs'[i] = jobs'[j]
                   PROVE  i = j
        OBVIOUS
      <3>1. i + 1 = j + 1
        BY <1>6 DEF TokenInv
      <3> QED
        BY <1>7, <3>1
    <2>6. \A u \in Threads : at'[u] \in Configuring => Configured(on[u])'
      BY <1>0, <1>1, <1>2 DEF TokenInv, Same, Configured, Configuring
    <2>7. \A u \in Threads : at'[u] = "matched" => NeedsConfig(on[u])'
      BY <1>0, <1>1, <1>2 DEF TokenInv, Same, NeedsConfig
    <2> QED
      BY <2>1, <2>2, <2>3, <2>4, <2>5, <2>6, <2>7 DEF TokenInv
  <1> QED
    BY <1>3, <1>4, <1>5, <1>8

\* A thread of the pool has matched its service.
LEMMA MatchedTokens ==
    ASSUME KindsInv, PoolInv, AsyncInv, LockInv, TokenInv, KindsInv', NEW t \in Threads, Matched(t)
    PROVE  AsyncInv' /\ LockInv' /\ TokenInv' /\ Quiet
  <1>0. PlacesInv /\ StateInv /\ Alone(t) /\ jobs' = jobs
    BY MatchersMove DEF KindsInv, pool
  <1>1. \A u \in Threads : u # t => Same(u)
    BY <1>0, AloneSame
  <1>2. /\ at[t] = "matched" /\ ~Walking(t) /\ on[t] \in Services /\ t \notin Clients
    BY <1>0 DEF Matched, At, PlacesInv, Serving, InServiceMatch, AsyncInv
  <1>3. t \in ConfigThreads
    BY <1>2 DEF Threads
  <1>4. /\ at'[t] = "jobDone" /\ local'[t].next = NoService
        /\ lock' = [lock EXCEPT ![on[t]] = Nobody] /\ flags' = flags /\ busy' = busy /\ todo' = todo
    BY <1>0, <1>3 DEF Matched, Leave, Goto, Unlock, PlacesInv, NoLocals
  <1>5. AsyncInv'
    <2>1. \A s \in Services : flags'[s] \cap {"SyncPub", "Synchronous"} = {}
      BY <1>4 DEF AsyncInv, Has
    <2> QED
      BY <1>1, <1>2, <1>4, <2>1, AsyncKept
  <1>6. LockInv'
    <2>1. \A x \in Services : lock'[x] = lock[x] \/ lock[x] \in {t, Nobody}
      BY <1>0, <1>2, <1>4 DEF LockInv, Locking, StateInv
    <2> QED
      BY <1>1, <1>4, <2>1, LockKept DEF Locking
  <1>7. Quiet
    BY <1>1, <1>2, <1>4 DEF Quiet, Walking, NeedsConfig, Has
  <1>8. \A u \in Threads : at'[u] \in Engaged => u # t /\ Same(u)
    BY <1>1, <1>4 DEF Engaged, Responsible, InServiceMatch
  <1>9. TokenInv'
    <2>1. \A u \in Threads : at'[u] \in Responsible => at'[u] \in Engaged
      BY DEF Engaged
    <2>2. \A u, v \in Threads : at'[u] \in Responsible /\ at'[v] \in Responsible /\ u # v => on'[u] # on'[v]
      BY <1>8, <2>1 DEF TokenInv, Same
    <2>3. \A u \in Threads : at'[u] \in Responsible => ~NeedsConfig(on[u])'
      BY <1>4, <1>8, <2>1 DEF TokenInv, Same, NeedsConfig
    <2>4. \A u \in Threads : at'[u] \in Responsible => \A i \in DOMAIN jobs' : jobs'[i] # on'[u]
      BY <1>0, <1>8, <2>1 DEF TokenInv, Same
    <2>5. \A i \in DOMAIN jobs' : ~NeedsConfig(jobs[i])'
      BY <1>0, <1>4 DEF TokenInv, NeedsConfig
    <2>6. \A i, j \in DOMAIN jobs' : jobs'[i] = jobs'[j] => i = j
      BY <1>0 DEF TokenInv
    <2>7. \A u \in Threads : at'[u] \in Configuring => Configured(on[u])'
      <3>1. \A u \in Threads : at'[u] \in Configuring => at'[u] \in Engaged
        BY DEF Engaged, Configuring, Responsible, InServiceMatch
      <3> QED
        BY <1>4, <1>8, <3>1 DEF TokenInv, Same, Configured
    <2>8. \A u \in Threads : at'[u] = "matched" => NeedsConfig(on[u])'
      BY <1>4, <1>8 DEF TokenInv, Same, NeedsConfig, Engaged
    <2> QED
      BY <2>2, <2>3, <2>4, <2>5, <2>6, <2>7, <2>8 DEF TokenInv
  <1> QED
    BY <1>5, <1>6, <1>7, <1>9

\* One step of a walk: the count of the next service changes, to go on from it
\* if it was or becomes zero.
Climbs(t) ==
    LET s == local[t].next
        d == local[t].delta
        count == IF BadBusyCount(s, d) THEN busy[s] ELSE busy[s] + d
        turns == busy[s] = 0 \/ count = 0
    IN  /\ s \in Services /\ d \in {-1, 1} /\ Lockable(t, s)
        /\ busy' = [busy EXCEPT ![s] = count]
        /\ local'[t].next = IF turns THEN Provider[s] ELSE NoService
        /\ local'[t].delta = IF ~turns THEN 0 ELSE IF count = 0 THEN -1 ELSE 1
        /\ on' = on /\ at' = at /\ lock' = lock
        /\ \A u \in Threads : u # t => Same(u)
        /\ \A x \in Services : SameMarks(x)

\* A step of _adjustBusy keeps the requests and the locks.
LEMMA AdjustBusyTokens ==
    ASSUME KindsInv, PoolInv, AsyncInv, LockInv, TokenInv, KindsInv', NEW t \in Threads, AdjustBusy(t)
    PROVE  AsyncInv' /\ LockInv' /\ TokenInv' /\ Climbs(t)
  <1>0. PlacesInv /\ StateInv /\ Alone(t) /\ jobs' = jobs
    BY MatchersMove DEF KindsInv, pool
  <1>1. \A u \in Threads : u # t => Same(u)
    BY <1>0, AloneSame
  <1>2. /\ local[t].next \in Services /\ local[t].delta \in {-1, 1} /\ at[t] \in Locking
        /\ local[t] \in Locals
    BY <1>0 DEF AdjustBusy, Walking, LockInv, PlacesInv, Locals
  <1> DEFINE s == local[t].next
             d == local[t].delta
             count == IF BadBusyCount(s, d) THEN busy[s] ELSE busy[s] + d
             turns == busy[s] = 0 \/ count = 0
             n == IF turns THEN Provider[s] ELSE NoService
             e == IF ~turns THEN 0 ELSE IF count = 0 THEN -1 ELSE 1
  <1>3. /\ Lockable(t, s)
        /\ local' = [local EXCEPT ![t].next = n, ![t].delta = e]
        /\ at' = at /\ on' = on /\ lock' = lock /\ todo' = todo
        /\ busy' = [busy EXCEPT ![s] = count]
        /\ flags' = [flags EXCEPT ![s] = @ \ {"BusyWaiter"}]
    BY DEF AdjustBusy
  <1>4. n # NoService => e \in {-1, 1}
    OBVIOUS
  <1> HIDE DEF n, e, count, turns
  <1>5. local'[t].next = n /\ local'[t].delta = e
    BY <1>0, <1>2, <1>3 DEF PlacesInv, Locals
  <1>6. \A x \in Services : flags'[x] \ {"BusyWaiter"} = flags[x] \ {"BusyWaiter"}
    BY <1>0, <1>2, <1>3 DEF StateInv
  <1>7. \A x \in Services : SameMarks(x)
    BY <1>6, SameFlags DEF FlagNames
  <1>8. AsyncInv'
    <2>1. \A x \in Services : flags'[x] \cap {"SyncPub", "Synchronous"} = {}
      BY <1>6 DEF AsyncInv, Has
    <2>2. local'[t].option = local[t].option
      BY <1>0, <1>2, <1>3 DEF PlacesInv, Locals
    <2> QED
      BY <1>1, <1>3, <2>1, <2>2, AsyncKept DEF AsyncInv
  <1>9. LockInv'
    BY <1>1, <1>2, <1>3, <1>4, <1>5, LockKept DEF LockInv
  <1>10. TokenInv'
    BY <1>0, <1>3, <1>7, TokensStay
  <1>11. Climbs(t)
    BY <1>1, <1>2, <1>3, <1>5, <1>7 DEF Climbs, n, e, count, turns
  <1> QED
    BY <1>8, <1>9, <1>10, <1>11

AsyncAll == KindsInv /\ PoolInv /\ AsyncInv /\ LockInv /\ TokenInv

\* What a step can be for the counts.
CountStep ==
    \/ Quiet
    \/ \E t \in Threads : \/ \E s \in Services : Begun(t, s)
                          \/ Stalled(t) \/ Unstalled(t) \/ Finished(t) \/ Climbs(t)

\* Every step keeps the requests and the locks, and is one of a few kinds for
\* the counts.
LEMMA AsyncSteps ==
    ASSUME AsyncAll, [Next]_vars
    PROVE  AsyncAll' /\ CountStep
  <1>0. KindsInv /\ PoolInv /\ AsyncInv /\ LockInv /\ TokenInv /\ KindsInv' /\ PoolInv'
    BY NextKinds DEF AsyncAll
  <1>1. CASE UNCHANGED vars
    <2>1. Outside /\ AsyncInv'
      <3>1. \A s \in Services : SameMarks(s)
        BY <1>1 DEF SameMarks, NeedsConfig, Configured, Has, vars, services
      <3>2. \A u \in Threads : Same(u)
        BY <1>1 DEF Same, vars, frames
      <3>3. UNCHANGED <<busy, driver, lock, jobs>>
        BY <1>1 DEF vars, services, pool
      <3>4. AsyncInv'
        BY <1>0, <1>1 DEF AsyncInv, Has, vars, services, frames
      <3> QED
        BY <3>1, <3>2, <3>3, <3>4 DEF Outside
    <2> QED
      BY <1>0, <2>1, OutsideKeeps, OutsideQuiet DEF AsyncAll, CountStep
  <1>2. ASSUME NEW t \in Threads, Runs(t) \/ WaitTimesOut(t) \/ (t \in Clients /\ Request(t))
        PROVE  AsyncAll' /\ CountStep
    <2>0. /\ t \notin ConfigThreads => t \in Clients
          /\ at[t] \in Synchronously \cup {"catalog"} => t \in Clients
      <3>1. at[t] \in Synchronously \cup {"catalog"} => at[t] \notin ConfigPlaces
        BY DEF Synchronously, ConfigPlaces, InServiceMatch
      <3> QED
        BY <1>0, <3>1, ClientOrConfig DEF KindsInv, Threads
    <2>1. CASE WakePublisher(t) \/ Publish(t) \/ PublishWait(t)
      <3>1. at[t] \in Synchronously
        BY <2>1 DEF WakePublisher, Publish, PublishWait, At, Synchronously
      <3> QED
        BY <1>0, <2>0, <3>1 DEF AsyncInv
    <2>2. CASE WaitLook(t) \/ AssertWait(t) \/ Awakened(t) \/ WaitMatchIdle(t) \/ WaitTimesOut(t)
      <3>1. AsyncInv' /\ Outside
        BY <1>0, <2>2, WaitersOutside
      <3> QED
        BY <1>0, <3>1, OutsideKeeps, OutsideQuiet DEF AsyncAll, CountStep
    <2>3. CASE \/ CreateThread(t) \/ SemaphoreSignal(t) \/ JobDone(t)
               \/ ModuleHasLoaded(t) \/ CatalogDone(t)
      <3>1. AsyncInv' /\ Outside
        BY <1>0, <2>3, ServersOutside
      <3> QED
        BY <1>0, <3>1, OutsideKeeps, OutsideQuiet DEF AsyncAll, CountStep
    <2>4. CASE TellService(t) \/ (t \in Clients /\ Request(t))
      <3>1. t \in Clients
        BY <2>0, <2>4 DEF TellService, At
      <3>2. AsyncInv' /\ (Outside \/ \E s \in Services : Begun(t, s))
        BY <1>0, <2>4, <3>1, RequestsAsync
      <3> QED
        BY <1>0, <3>2, OutsideKeeps, OutsideQuiet, BegunKeeps DEF AsyncAll, CountStep
    <2>5. CASE AfterPublish(t)
      BY <1>0, <2>5, AfterPublishKeeps DEF AsyncAll, CountStep
    <2>6. CASE \/ FindDrivers(t) \/ BeginConfig(t) \/ ProbeCandidates(t)
               \/ AdjustStall(t) \/ StallDone(t) \/ MatchAgain(t)
      BY <1>0, <2>6, MatchersKeep DEF AsyncAll, CountStep
    <2>7. CASE PingConfig(t)
      BY <1>0, <2>7, PingConfigTokens DEF AsyncAll, CountStep
    <2>8. CASE TakeJob(t)
      BY <1>0, <2>8, TakeJobTokens DEF AsyncAll, CountStep
    <2>9. CASE Matched(t)
      BY <1>0, <2>9, MatchedTokens DEF AsyncAll, CountStep
    <2>10. CASE AdjustBusy(t)
      BY <1>0, <2>10, AdjustBusyTokens DEF AsyncAll, CountStep
    <2> QED
      BY <1>2, <2>1, <2>2, <2>3, <2>4, <2>5, <2>6, <2>7, <2>8, <2>9, <2>10 DEF Runs
  <1> QED
    BY <1>1, <1>2 DEF Next

\* At first nothing is asked for and nothing is locked.
LEMMA InitAsync ==
    ASSUME AllAsynchronous, Init
    PROVE  AsyncAll
  <1>1. KindsInv /\ PoolInv
    BY InitKinds
  <1>2. \A t \in Threads : at[t] \in {"idle", "none"} /\ local[t] = NoLocals
    BY DEF Init
  <1>3. \A s \in Services : flags[s] \subseteq {"Registered"}
    BY DEF Init
  <1>4. jobs = <<>> /\ todo \in Scenarios
    BY DEF Init
  <1>5. AsyncInv
    BY <1>2, <1>3, <1>4
       DEF AllAsynchronous, AsyncInv, Has, Synchronously, InServiceMatch, Threads
  <1>6. LockInv
    BY <1>2 DEF LockInv, Locking, Walking, NoLocals
  <1>7. \A t \in Threads : at[t] \notin Engaged /\ at[t] \notin Configuring
    BY <1>2 DEF Engaged, Configuring, Responsible, InServiceMatch
  <1>8. DOMAIN jobs = {}
    BY <1>4
  <1>9. TokenInv
    BY <1>7, <1>8 DEF TokenInv, Engaged
  <1> QED
    BY <1>1, <1>5, <1>6, <1>9 DEF AsyncAll

\* When no client registers synchronously, every request is with one thread or
\* once in the queue, and every walk holds the lock it began with.
LEMMA AsyncHolds == ASSUME AllAsynchronous PROVE Spec => []AsyncAll
  <1>1. Init => AsyncAll
    BY InitAsync
  <1>2. AsyncAll /\ [Next]_vars => AsyncAll'
    BY AsyncSteps
  <1> QED
    BY <1>1, <1>2, PTL DEF Spec

\* When no client registers synchronously, at most one thread is in
\* doServiceMatch of a service, as the comment of IOService.h says.
THEOREM MatchingIsSingleThreaded ==
    ASSUME AllAsynchronous
    PROVE  Spec => []SingleThreadedPerProvider
  <1>1. AsyncAll => SingleThreadedPerProvider
    <2> SUFFICES ASSUME AsyncAll, NEW t \in Threads, NEW u \in Threads, t # u,
                        at[t] \in InServiceMatch, at[u] \in InServiceMatch, on[t] = on[u]
                 PROVE  FALSE
      BY DEF SingleThreadedPerProvider
    <2>1. /\ at[t] = "matched" \/ at[t] \in Responsible
          /\ at[u] = "matched" \/ at[u] \in Responsible
      BY DEF Responsible
    <2>2. CASE at[t] = "matched" /\ at[u] = "matched"
      BY <2>2 DEF AsyncAll, LockInv, Locking
    <2>3. CASE at[t] \in Responsible /\ at[u] \in Responsible
      BY <2>3 DEF AsyncAll, TokenInv
    <2>4. CASE at[t] = "matched" /\ at[u] \in Responsible
      BY <2>4 DEF AsyncAll, TokenInv
    <2>5. CASE at[t] \in Responsible /\ at[u] = "matched"
      BY <2>5 DEF AsyncAll, TokenInv
    <2> QED
      BY <2>1, <2>2, <2>3, <2>4, <2>5
  <1> QED
    BY <1>1, AsyncHolds, PTL

-----------------------------------------------------------------------------
(* The providers above a service *)

Closed(S) == \A z \in S : Provider[z] \in Services => Provider[z] \in S

\* a service and the providers above it
Above(x) == {y \in Services : \A S \in SUBSET Services : x \in S /\ Closed(S) => y \in S}

\* A service is above itself, and with a service so is its provider.
LEMMA AboveIsClosed ==
    ASSUME NEW x \in Services
    PROVE  x \in Above(x) /\ Above(x) \in SUBSET Services /\ Closed(Above(x))
  <1>1. x \in Above(x) /\ Above(x) \in SUBSET Services
    BY DEF Above
  <1>2. ASSUME NEW z \in Above(x), Provider[z] \in Services
        PROVE  Provider[z] \in Above(x)
    <2>1. ASSUME NEW S \in SUBSET Services, x \in S, Closed(S)
          PROVE  Provider[z] \in S
      <3>1. z \in S
        BY <2>1 DEF Above
      <3> QED
        BY <1>2, <2>1, <3>1 DEF Closed
    <2> QED
      BY <1>2, <2>1 DEF Above
  <1> QED
    BY <1>1, <1>2 DEF Closed

\* What has a service, and with each its provider, has all that is above it.
LEMMA AboveIsLeast ==
    ASSUME NEW x \in Services, NEW S \in SUBSET Services, x \in S, Closed(S)
    PROVE  Above(x) \subseteq S
  BY DEF Above

\* What is above one that is above x is above x.
LEMMA AboveIsTransitive ==
    ASSUME NEW x \in Services, NEW y \in Above(x)
    PROVE  Above(y) \subseteq Above(x)
  <1>1. y \in Services /\ Above(x) \in SUBSET Services /\ Closed(Above(x))
    BY AboveIsClosed
  <1> QED
    BY <1>1, AboveIsLeast

\* From a service to its provider.
LEMMA AboveProvider ==
    ASSUME NEW x \in Services
    PROVE  /\ Provider[x] \in Services => Above(x) = {x} \cup Above(Provider[x])
           /\ Provider[x] \notin Services => Above(x) = {x}
  <1>1. CASE Provider[x] \in Services
    <2> DEFINE S == {x} \cup Above(Provider[x])
    <2>1. S \in SUBSET Services /\ x \in S
      BY <1>1, AboveIsClosed
    <2>2. Provider[x] \in Above(Provider[x]) /\ Closed(Above(Provider[x]))
      BY <1>1, AboveIsClosed
    <2>3. Closed(S)
      BY <2>2 DEF Closed
    <2> HIDE DEF S
    <2>4. Above(x) \subseteq S
      BY <2>1, <2>3, AboveIsLeast
    <2>5. x \in Above(x) /\ Closed(Above(x))
      BY AboveIsClosed
    <2>6. Provider[x] \in Above(x)
      BY <1>1, <2>5 DEF Closed
    <2>7. Above(Provider[x]) \subseteq Above(x)
      BY <2>6, AboveIsTransitive
    <2> QED
      BY <1>1, <2>4, <2>5, <2>7 DEF S
  <1>2. CASE Provider[x] \notin Services
    <2>1. {x} \in SUBSET Services /\ x \in {x} /\ Closed({x})
      BY <1>2 DEF Closed
    <2>2. Above(x) \subseteq {x}
      BY <2>1, AboveIsLeast
    <2>3. x \in Above(x)
      BY AboveIsClosed
    <2> QED
      BY <1>2, <2>2, <2>3
  <1> QED
    BY <1>1, <1>2

\* There is a service below each but the first.
LEMMA AboveFrom ==
    ASSUME NEW x \in Services, NEW y \in Above(x), y # x
    PROVE  \E z \in Above(x) : Provider[z] = y
  <1> DEFINE S == Above(x) \ {y}
  <1>1. x \in Above(x) /\ Above(x) \in SUBSET Services /\ Closed(Above(x))
    BY AboveIsClosed
  <1>2. S \in SUBSET Services /\ x \in S /\ y \notin S
    BY <1>1
  <1>3. ~Closed(S)
    <2> HIDE DEF S
    <2> SUFFICES ASSUME Closed(S) PROVE FALSE
      OBVIOUS
    <2>1. Above(x) \subseteq S
      BY <1>2, AboveIsLeast
    <2> QED
      BY <1>2, <2>1
  <1>4. PICK z \in S : Provider[z] \in Services /\ Provider[z] \notin S
    BY <1>3 DEF Closed
  <1>5. Provider[z] \in Above(x)
    BY <1>1, <1>4 DEF Closed
  <1> QED
    BY <1>4, <1>5

\* No service is above its provider.
LEMMA AboveIsAcyclic ==
    ASSUME NEW x \in Services, Provider[x] \in Services
    PROVE  x \notin Above(Provider[x])
  <1> SUFFICES ASSUME x \in Above(Provider[x]) PROVE FALSE
    OBVIOUS
  <1> DEFINE C == {z \in Services : x \in Above(z)}
  <1>1. x \in C
    BY AboveIsClosed
  <1>2. ASSUME NEW z \in C
        PROVE  Provider[z] \in C
    <2>1. z \in Services /\ x \in Above(z)
      OBVIOUS
    <2>2. CASE z = x
      BY <2>2
    <2>3. CASE z # x
      <3>1. Provider[z] \in Services
        BY <2>1, <2>3, AboveProvider
      <3>2. x \in Above(Provider[z])
        BY <2>1, <2>3, <3>1, AboveProvider
      <3> QED
        BY <3>1, <3>2
    <2> QED
      BY <2>2, <2>3
  <1>3. C \in SUBSET Services /\ C # {}
    BY <1>1
  <1> HIDE DEF C
  <1> QED
    BY <1>2, <1>3, MatchAssumption

\* Of two services above one, one is above the other.
LEMMA AboveIsLinear ==
    ASSUME NEW x \in Services, NEW y \in Above(x), NEW z \in Above(x)
    PROVE  y \in Above(z) \/ z \in Above(y)
  <1> DEFINE S == {w \in Above(x) : y \in Above(w) \/ w \in Above(y)}
  <1>1. x \in Above(x) /\ Above(x) \in SUBSET Services /\ Closed(Above(x)) /\ y \in Services
    BY AboveIsClosed
  <1>2. Closed(Above(y)) /\ y \in Above(y)
    BY <1>1, AboveIsClosed
  <1>3. ASSUME NEW w \in S, Provider[w] \in Services
        PROVE  Provider[w] \in S
    <2>1. w \in Services /\ Provider[w] \in Above(x)
      BY <1>1, <1>3 DEF Closed
    <2>2. CASE w \in Above(y)
      BY <1>2, <1>3, <2>1, <2>2 DEF Closed
    <2>3. CASE y \in Above(w)
      <3>1. y = w \/ y \in Above(Provider[w])
        BY <1>3, <2>1, <2>3, AboveProvider
      <3> QED
        BY <1>2, <1>3, <2>1, <2>2, <3>1
    <2> QED
      BY <2>2, <2>3
  <1>4. S \in SUBSET Services /\ x \in S
    BY <1>1
  <1>5. Closed(S)
    BY <1>3 DEF Closed
  <1> HIDE DEF S
  <1>6. Above(x) \subseteq S
    BY <1>4, <1>5, AboveIsLeast
  <1> QED
    BY <1>6 DEF S

\* what a walk from a to n has passed
Between(a, n) == Above(a) \ Above(n)

\* A walk from a goes on from n to the provider of n: it has passed n too, and
\* nothing it passed before had that provider.
LEMMA WalkOn ==
    ASSUME NEW a \in Services, NEW n \in Above(a), Provider[n] \in Services
    PROVE  /\ Between(a, Provider[n]) = Between(a, n) \cup {n}
           /\ Provider[n] \in Above(a) /\ Provider[n] # a
           /\ \A p \in Between(a, n) : Provider[p] # Provider[n]
  <1>1. n \in Services /\ Provider[n] \in Above(a)
    BY AboveIsClosed DEF Closed
  <1>2. Above(n) = {n} \cup Above(Provider[n]) /\ n \notin Above(Provider[n])
    BY <1>1, AboveProvider, AboveIsAcyclic
  <1>3. Above(n) \subseteq Above(a) /\ Above(Provider[n]) \subseteq Above(a)
    BY <1>1, AboveIsTransitive
  <1>4. Between(a, Provider[n]) = Between(a, n) \cup {n}
    BY <1>2, <1>3 DEF Between
  <1>5. Provider[n] # a
    BY <1>2
  <1>6. ASSUME NEW p \in Between(a, n), Provider[p] = Provider[n]
        PROVE  FALSE
    <2>1. p \in Above(a) /\ p \notin Above(n) /\ p \in Services
      BY AboveIsClosed DEF Between
    <2>2. n \in Above(p) /\ n # p
      BY <2>1, <1>1, AboveIsLinear, AboveIsClosed
    <2>3. n \in Above(Provider[n])
      BY <1>6, <2>1, <2>2, AboveProvider
    <2> QED
      BY <1>2, <2>3
  <1> QED
    BY <1>1, <1>4, <1>5, <1>6

\* A walk has passed nothing where it begins, comes to a service from a client
\* of it that it has passed, and has passed a client of each before.
LEMMA WalkFrom ==
    ASSUME NEW a \in Services, NEW n \in Above(a)
    PROVE  /\ Between(a, a) = {} /\ Between(a, n) \subseteq Services /\ n \notin Between(a, n)
           /\ n # a => \E c \in Between(a, n) : Provider[c] = n
           /\ \A p \in Between(a, n) : p # a => \E q \in Between(a, n) : Provider[q] = p
  <1>1. n \in Services /\ n \in Above(n)
    BY AboveIsClosed
  <1>2. Between(a, a) = {} /\ Between(a, n) \subseteq Services /\ n \notin Between(a, n)
    BY <1>1, AboveIsClosed DEF Between
  <1>3. ASSUME n # a
        PROVE  \E c \in Between(a, n) : Provider[c] = n
    <2>1. PICK c \in Above(a) : Provider[c] = n
      BY <1>3, AboveFrom
    <2>2. c \in Services
      BY AboveIsClosed
    <2>3. c \notin Above(n)
      BY <1>1, <2>1, <2>2, AboveIsAcyclic
    <2> QED
      BY <2>1, <2>3 DEF Between
  <1>4. ASSUME NEW p \in Between(a, n), p # a
        PROVE  \E q \in Between(a, n) : Provider[q] = p
    <2>1. p \in Above(a) /\ p \notin Above(n) /\ p \in Services
      BY AboveIsClosed DEF Between
    <2>2. PICK q \in Above(a) : Provider[q] = p
      BY <1>4, <2>1, AboveFrom
    <2>3. q \notin Above(n)
      BY <1>1, <2>1, <2>2, AboveIsClosed DEF Closed
    <2> QED
      BY <2>2, <2>3 DEF Between
  <1> QED
    BY <1>2, <1>3, <1>4

-----------------------------------------------------------------------------
(* The busy counts *)

\* Providers have fewer clients, with the threads, than a count can count.
CountsFit ==
    \A s \in Services : Cardinality({c \in Services : Provider[c] = s}) + Cardinality(Threads)
                            < kIOServiceBusyMax

Plus(s) == {t \in Threads : local[t].next = s /\ local[t].delta = 1}
Minus(s) == {t \in Threads : local[t].next = s /\ local[t].delta = -1}
Kids(s) == {c \in Services : Provider[c] = s /\ busy[c] > 0}
Own(s) == Count(~NeedsConfig(s)) + Count(Has(s, "ModuleStall"))

\* The first part of BusyConserved, without a difference.
Balanced(s) == busy[s] + Cardinality(Plus(s)) = Own(s) + Cardinality(Kids(s)) + Cardinality(Minus(s))

Adds(t) == Walking(t) /\ local[t].delta = 1
Passed(t) == Between(on[t], local[t].next)
ArrivesFrom(t, c) == c \in Passed(t) /\ Provider[c] = local[t].next

\* A walk that adds has a reason where it begins; what it has passed is busy
\* until it arrives, and two of them never come from the same service.
WalkInv ==
    /\ \A t \in Threads : Walking(t) => local[t].next \in Above(on[t])
    /\ \A t \in Threads : Adds(t) /\ local[t].next = on[t] =>
            \/ at[t] = "published" /\ ~NeedsConfig(on[t])
            \/ at[t] = "stallDone" /\ Has(on[t], "ModuleStall")
    /\ \A t \in Threads : Adds(t) => \A p \in Passed(t) : busy[p] > 0
    /\ \A t, u \in Threads : Adds(t) /\ Adds(u) /\ t # u =>
            \A p \in Passed(t) : ~ArrivesFrom(u, p)
    /\ \A s \in Services : Balanced(s)

\* The sets that are counted are finite, and a service counts two at most of
\* its own.
LEMMA CountsAreNumbers ==
    ASSUME NEW s
    PROVE  /\ IsFiniteSet(Plus(s)) /\ IsFiniteSet(Minus(s)) /\ IsFiniteSet(Kids(s))
           /\ Cardinality(Plus(s)) \in Nat /\ Cardinality(Minus(s)) \in Nat
           /\ Cardinality(Kids(s)) \in Nat /\ Own(s) \in 0..2
  <1>1. IsFiniteSet(Threads) /\ IsFiniteSet(Services)
    BY MatchAssumption
  <1>2. Plus(s) \subseteq Threads /\ Minus(s) \subseteq Threads /\ Kids(s) \subseteq Services
    BY DEF Plus, Minus, Kids
  <1>3. IsFiniteSet(Plus(s)) /\ IsFiniteSet(Minus(s)) /\ IsFiniteSet(Kids(s))
    BY <1>1, <1>2, FS_Subset
  <1>4. Own(s) \in 0..2
    BY DEF Own, Count
  <1> QED
    BY <1>3, <1>4, FS_CardinalityType

\* Where a walk adds, the count is not at its limit.
LEMMA NoOverflow ==
    ASSUME CountsFit, NEW s \in Services, Balanced(s), busy[s] \in Nat, NEW t \in Plus(s)
    PROVE  busy[s] < kIOServiceBusyMax
  <1> DEFINE K == {c \in Services : Provider[c] = s}
  <1>1. IsFiniteSet(Threads) /\ IsFiniteSet(K)
    <2>1. K \subseteq Services /\ IsFiniteSet(Services) /\ IsFiniteSet(Threads)
      BY MatchAssumption
    <2> HIDE DEF K
    <2> QED
      BY <2>1, FS_Subset
  <1>2. t \in Threads /\ Minus(s) \subseteq Threads \ {t} /\ Kids(s) \subseteq K
    BY DEF Plus, Minus, Kids
  <1>3. IsFiniteSet(Threads \ {t}) /\ Cardinality(Threads \ {t}) = Cardinality(Threads) - 1
    BY <1>1, <1>2, FS_RemoveElement
  <1>4. Cardinality(Threads) \in Nat /\ Cardinality(K) \in Nat
    BY <1>1, FS_CardinalityType
  <1> HIDE DEF K
  <1>5. Cardinality(Minus(s)) <= Cardinality(Threads) - 1
    BY <1>2, <1>3, FS_Subset
  <1>6. Cardinality(Kids(s)) <= Cardinality(K)
    BY <1>1, <1>2, FS_Subset
  <1>7. Cardinality(Plus(s)) >= 1
    <2>1. {t} \subseteq Plus(s) /\ Cardinality({t}) = 1
      BY FS_Singleton
    <2> QED
      BY <2>1, CountsAreNumbers, FS_Subset
  <1>8. Cardinality(K) + Cardinality(Threads) < kIOServiceBusyMax
    BY DEF CountsFit, K
  <1>9. /\ Cardinality(Plus(s)) \in Nat /\ Cardinality(Minus(s)) \in Nat
        /\ Cardinality(Kids(s)) \in Nat /\ Own(s) \in 0..2
    BY CountsAreNumbers
  <1> QED
    BY <1>4, <1>5, <1>6, <1>7, <1>8, <1>9 DEF Balanced, kIOServiceBusyMax

\* The walks that are about to add to s come from its own matching or from
\* busy clients of it, Q at most, each from another.
LEMMA PlusFits ==
    ASSUME KindsInv, LockInv, WalkInv, NEW s \in Services, NEW Q, IsFiniteSet(Q),
           \A v \in Plus(s) : \A c \in Kids(s) : ArrivesFrom(v, c) => c \in Q
    PROVE  Cardinality(Plus(s)) <= Own(s) + Cardinality(Q)
  <1> DEFINE P1 == {t \in Plus(s) : on[t] = s}
             P2 == {t \in Plus(s) : on[t] # s}
             f == [t \in P2 |-> CHOOSE c \in Q : ArrivesFrom(t, c)]
  <1>0. /\ \A t \in Plus(s) : t \in Threads /\ Walking(t) /\ Adds(t) /\ local[t].next = s
        /\ s # NoService
    BY MatchAssumption DEF Plus, Adds, Walking
  <1>1. \A t \in Plus(s) : at[t] \in Locking /\ lock[on[t]] = t /\ on[t] \in Services
    BY <1>0, EngagedServe DEF LockInv
  <1>2. \A t \in P2 : \E c \in Q : ArrivesFrom(t, c)
    <2> SUFFICES ASSUME NEW t \in P2
                 PROVE  \E c \in Q : ArrivesFrom(t, c)
      OBVIOUS
    <2>1. t \in Threads /\ Adds(t) /\ local[t].next = s /\ on[t] \in Services /\ on[t] # s
      BY <1>0, <1>1
    <2>2. s \in Above(on[t])
      BY <1>0, <2>1 DEF WalkInv
    <2>3. PICK c \in Between(on[t], s) : Provider[c] = s
      BY <2>1, <2>2, WalkFrom
    <2>4. ArrivesFrom(t, c) /\ c \in Services
      BY <2>1, <2>2, <2>3, WalkFrom DEF ArrivesFrom, Passed
    <2>5. busy[c] > 0
      BY <2>1, <2>4 DEF WalkInv, ArrivesFrom
    <2>6. c \in Kids(s)
      BY <2>3, <2>4, <2>5 DEF Kids
    <2> QED
      BY <2>4, <2>6
  <1>3. \A t \in P2 : f[t] \in Q /\ ArrivesFrom(t, f[t])
    BY <1>2
  <1>4. \A t, u \in P2 : t # u => f[t] # f[u]
    <2> HIDE DEF f
    <2> QED
      BY <1>0, <1>3 DEF WalkInv, ArrivesFrom
  <1>5. f \in Injection(P2, Q)
    <2>1. f \in [P2 -> Q]
      BY <1>3
    <2> HIDE DEF f
    <2> QED
      BY <1>4, <2>1 DEF Injection, IsInjective
  <1> HIDE DEF f
  <1>6. IsFiniteSet(P2) /\ Cardinality(P2) <= Cardinality(Q)
    BY <1>5, FS_Injection
  <1>7. IsFiniteSet(P1) /\ Cardinality(P1) <= Own(s)
    <2>1. CASE P1 = {}
      <3>1. IsFiniteSet({}) /\ Cardinality({}) = 0 /\ Own(s) \in 0..2
        BY FS_EmptySet, CountsAreNumbers
      <3> HIDE DEF P1
      <3> QED
        BY <2>1, <3>1
    <2>2. CASE P1 # {}
      <3>1. PICK t \in P1 : TRUE
        BY <2>2
      <3>2. P1 = {t}
        BY <1>1
      <3>3. t \in Threads /\ Adds(t) /\ local[t].next = on[t] /\ on[t] = s
        BY <1>0
      <3>4. ~NeedsConfig(s) \/ Has(s, "ModuleStall")
        BY <3>3 DEF WalkInv
      <3>5. Own(s) >= 1
        BY <3>4 DEF Own, Count
      <3>6. IsFiniteSet({t}) /\ Cardinality({t}) = 1
        BY FS_Singleton
      <3> HIDE DEF P1
      <3>7. IsFiniteSet(P1) /\ Cardinality(P1) = 1
        BY <3>2, <3>6
      <3> QED
        BY <3>5, <3>7, CountsAreNumbers
    <2> QED
      BY <2>1, <2>2
  <1>8. Plus(s) = P1 \cup P2 /\ P1 \cap P2 = {}
    OBVIOUS
  <1> HIDE DEF P1, P2
  <1>9. Cardinality(P1 \cup P2) = Cardinality(P1) + Cardinality(P2) - Cardinality(P1 \cap P2)
    BY <1>6, <1>7, FS_Union
  <1>10. Cardinality(P1 \cap P2) = 0
    BY <1>8, FS_EmptySet
  <1>11. Cardinality(Plus(s)) = Cardinality(P1) + Cardinality(P2)
    <2>1. Cardinality(P1) \in Nat /\ Cardinality(P2) \in Nat
      BY <1>6, <1>7, FS_CardinalityType
    <2> QED
      BY <1>8, <1>9, <1>10, <2>1
  <1>12. Cardinality(P1) \in Nat /\ Cardinality(P2) \in Nat /\ Cardinality(Q) \in Nat /\ Own(s) \in 0..2
    BY <1>6, <1>7, FS_CardinalityType, CountsAreNumbers
  <1> QED
    BY <1>6, <1>7, <1>11, <1>12

\* Where a walk takes, there is something to take, and more than that if
\* another walk has passed.
LEMMA NoUnderflow ==
    ASSUME KindsInv, LockInv, WalkInv, NEW s \in Services, NEW t \in Minus(s)
    PROVE  /\ busy[s] >= 1
           /\ Lockable(t, s) => \A u \in Threads : Adds(u) /\ s \in Passed(u) => busy[s] >= 2
  <1>0. busy[s] \in Nat /\ Balanced(s) /\ t \in Threads
    BY DEF KindsInv, StateInv, kIOServiceBusyMax, WalkInv, Minus
  <1>1. /\ Cardinality(Plus(s)) \in Nat /\ Cardinality(Minus(s)) \in Nat
        /\ Cardinality(Kids(s)) \in Nat /\ Own(s) \in 0..2 /\ IsFiniteSet(Kids(s)) /\ IsFiniteSet(Minus(s))
    BY CountsAreNumbers
  <1>2. Cardinality(Minus(s)) >= 1
    <2>1. {t} \subseteq Minus(s) /\ Cardinality({t}) = 1
      BY FS_Singleton
    <2> QED
      BY <1>1, <2>1, FS_Subset
  <1>3. Cardinality(Plus(s)) <= Own(s) + Cardinality(Kids(s))
    BY <1>1, PlusFits
  <1>4. busy[s] >= 1
    BY <1>0, <1>1, <1>2, <1>3 DEF Balanced
  <1>5. ASSUME Lockable(t, s), NEW u \in Threads, Adds(u), s \in Passed(u)
        PROVE  busy[s] >= 2
    <2>1. Walking(u) /\ local[u].next \in Above(on[u]) /\ at[u] \in Locking /\ lock[on[u]] = u
      BY <1>5 DEF Adds, WalkInv, LockInv
    <2>2. on[u] \in Services
      BY <2>1, EngagedServe
    <2>3. u # t /\ u # Nobody
      BY <1>5, MatchAssumption DEF Adds, Minus
    <2>4. s # on[u]
      BY <1>5, <2>1, <2>3 DEF Lockable
    <2>5. PICK q \in Passed(u) : Provider[q] = s
      BY <1>5, <2>1, <2>2, <2>4, WalkFrom DEF Passed
    <2>6. q \in Services /\ s # local[u].next
      BY <1>5, <2>1, <2>2, <2>5, WalkFrom DEF Passed
    <2>7. q \in Kids(s)
      BY <1>5, <2>5, <2>6 DEF WalkInv, Kids
    <2>8. \A v \in Plus(s) : ~ArrivesFrom(v, q)
      <3> SUFFICES ASSUME NEW v \in Plus(s), ArrivesFrom(v, q)
                   PROVE  FALSE
        OBVIOUS
      <3>1. v \in Threads /\ Adds(v) /\ local[v].next = s
        BY MatchAssumption DEF Plus, Adds, Walking
      <3>2. v # u
        BY <2>6, <3>1
      <3> QED
        BY <1>5, <2>5, <3>1, <3>2 DEF WalkInv
    <2>9. IsFiniteSet(Kids(s) \ {q}) /\ Cardinality(Kids(s) \ {q}) = Cardinality(Kids(s)) - 1
      BY <1>1, <2>7, FS_RemoveElement
    <2>10. Cardinality(Plus(s)) <= Own(s) + Cardinality(Kids(s) \ {q})
      <3>1. \A v \in Plus(s) : \A c \in Kids(s) : ArrivesFrom(v, c) => c \in Kids(s) \ {q}
        BY <2>8
      <3> QED
        BY <2>9, <3>1, PlusFits
    <2> QED
      BY <1>0, <1>1, <1>2, <2>9, <2>10 DEF Balanced
  <1> QED
    BY <1>4, <1>5

\* Two sets that differ in t at most.
LEMMA OneDiffers ==
    ASSUME NEW S, IsFiniteSet(S), NEW T, NEW t, \A u : u # t => (u \in S <=> u \in T)
    PROVE  /\ (t \in S <=> t \in T) => Cardinality(T) = Cardinality(S)
           /\ t \in S /\ t \notin T => Cardinality(T) = Cardinality(S) - 1
           /\ t \notin S /\ t \in T => Cardinality(T) = Cardinality(S) + 1
           /\ Cardinality(S) \in Nat
  <1>1. (t \in S <=> t \in T) => S = T
    OBVIOUS
  <1>2. t \in S /\ t \notin T => T = S \ {t}
    OBVIOUS
  <1>3. t \notin S /\ t \in T => T = S \cup {t}
    OBVIOUS
  <1> QED
    BY <1>1, <1>2, <1>3, OneMore

\* A step that begins no walk and takes no step of one keeps the counts.
LEMMA QuietWalks ==
    ASSUME KindsInv, LockInv, WalkInv, Quiet
    PROVE  WalkInv'
  <1>1. \A u \in Threads : Walking(u)' => Same(u) /\ Walking(u)
    BY DEF Quiet, Walking, Same
  <1>2. \A u \in Threads : Walking(u)' => /\ Passed(u)' = Passed(u) /\ (Adds(u)' <=> Adds(u))
                                          /\ at'[u] \in Locking
    BY <1>1 DEF Passed, Adds, Same, Walking, LockInv
  <1>3. \A u \in Threads : at[u] \in Locking => on[u] \in Services
    BY EngagedServe
  <1>4. \A u \in Threads : Adds(u)' => Walking(u)'
    BY DEF Adds
  <1>5. \A u \in Threads : Walking(u)' => local'[u].next \in Above(on'[u])
    BY <1>1 DEF WalkInv, Same
  <1>6. \A u \in Threads : Adds(u)' /\ local'[u].next = on'[u] =>
            \/ at'[u] = "published" /\ ~NeedsConfig(on[u])'
            \/ at'[u] = "stallDone" /\ Has(on[u], "ModuleStall")'
    <2> SUFFICES ASSUME NEW u \in Threads, Adds(u)', local'[u].next = on'[u]
                 PROVE  \/ at'[u] = "published" /\ ~NeedsConfig(on[u])'
                        \/ at'[u] = "stallDone" /\ Has(on[u], "ModuleStall")'
      OBVIOUS
    <2>1. Same(u) /\ Adds(u) /\ local[u].next = on[u] /\ at[u] \in Locking /\ on[u] \in Services
      BY <1>1, <1>2, <1>3, <1>4 DEF Same
    <2>2. \/ at[u] = "published" /\ ~NeedsConfig(on[u])
          \/ at[u] = "stallDone" /\ Has(on[u], "ModuleStall")
      BY <2>1 DEF WalkInv
    <2>3. /\ NeedsConfig(on[u])' <=> NeedsConfig(on[u])
          /\ Has(on[u], "ModuleStall")' <=> Has(on[u], "ModuleStall")
      BY <2>1 DEF Quiet, Same, NeedsConfig, Has
    <2> QED
      BY <2>1, <2>2, <2>3 DEF Same
  <1>7. \A u \in Threads : Adds(u)' => \A p \in Passed(u)' : busy'[p] > 0
    BY <1>2, <1>4 DEF WalkInv, Quiet
  <1>8. \A u, v \in Threads : Adds(u)' /\ Adds(v)' /\ u # v => \A p \in Passed(u)' : ~ArrivesFrom(v, p)'
    <2> SUFFICES ASSUME NEW u \in Threads, NEW v \in Threads, Adds(u)', Adds(v)', u # v,
                        NEW p \in Passed(u)', ArrivesFrom(v, p)'
                 PROVE  FALSE
      OBVIOUS
    <2>1. Adds(u) /\ Adds(v) /\ p \in Passed(u) /\ Passed(v)' = Passed(v) /\ Same(v)
      BY <1>1, <1>2, <1>4
    <2>2. ArrivesFrom(v, p)
      BY <2>1 DEF ArrivesFrom, Same
    <2> QED
      BY <2>1, <2>2 DEF WalkInv
  <1>9. \A s \in Services : Balanced(s)'
    <2> SUFFICES ASSUME NEW s \in Services
                 PROVE  Balanced(s)'
      OBVIOUS
    <2>1. Plus(s)' = Plus(s) /\ Minus(s)' = Minus(s)
      BY MatchAssumption DEF Quiet, Plus, Minus, Walking, Same
    <2>2. Kids(s)' = Kids(s) /\ busy' = busy
      BY DEF Quiet, Kids
    <2>3. Own(s)' = Own(s)
      BY DEF Quiet, Own, Count
    <2> QED
      BY <2>1, <2>2, <2>3 DEF Balanced, WalkInv
  <1> QED
    BY <1>5, <1>6, <1>7, <1>8, <1>9 DEF WalkInv

\* A walk begins, with a change of what its service counts of itself.
LEMMA DepartureWalks ==
    ASSUME KindsInv, LockInv, WalkInv, NEW t \in Threads, NEW s \in Services, NEW d \in {-1, 1},
           ~Walking(t), lock[s] = Nobody, busy' = busy, on'[t] = s,
           local'[t].next = s, local'[t].delta = d,
           \A u \in Threads : u # t => Same(u),
           \A x \in Services : x # s => flags'[x] = flags[x],
           Own(s)' = Own(s) + d,
           d = 1 => \/ at'[t] = "published" /\ ~NeedsConfig(s)'
                    \/ at'[t] = "stallDone" /\ Has(s, "ModuleStall")'
    PROVE  WalkInv'
  <1>1. Passed(t)' = {} /\ s \in Above(s)
    BY AboveIsClosed, WalkFrom DEF Passed
  <1>2. \A u \in Threads : u # t /\ Walking(u) => at[u] \in Locking /\ on[u] \in Services /\ on[u] # s
    BY EngagedServe, MatchAssumption DEF LockInv
  <1>3. \A u \in Threads : u # t => /\ Passed(u)' = Passed(u) /\ (Adds(u)' <=> Adds(u))
                                    /\ (Walking(u)' <=> Walking(u))
    BY DEF Passed, Adds, Same, Walking
  <1>4. \A u \in Threads : Adds(u) => Walking(u)
    BY DEF Adds
  <1>5. \A u \in Threads : Walking(u)' => local'[u].next \in Above(on'[u])
    BY <1>1, <1>3 DEF WalkInv, Same
  <1>6. \A u \in Threads : Adds(u)' /\ local'[u].next = on'[u] =>
            \/ at'[u] = "published" /\ ~NeedsConfig(on[u])'
            \/ at'[u] = "stallDone" /\ Has(on[u], "ModuleStall")'
    <2> SUFFICES ASSUME NEW u \in Threads, Adds(u)', local'[u].next = on'[u]
                 PROVE  \/ at'[u] = "published" /\ ~NeedsConfig(on[u])'
                        \/ at'[u] = "stallDone" /\ Has(on[u], "ModuleStall")'
      OBVIOUS
    <2>1. CASE u = t
      BY <2>1 DEF Adds, NeedsConfig, Has
    <2>2. CASE u # t
      <3>1. Same(u) /\ Adds(u) /\ local[u].next = on[u] /\ on[u] \in Services /\ on[u] # s
        BY <1>2, <1>3, <1>4, <2>2 DEF Same
      <3>2. \/ at[u] = "published" /\ ~NeedsConfig(on[u])
            \/ at[u] = "stallDone" /\ Has(on[u], "ModuleStall")
        BY <3>1 DEF WalkInv
      <3> QED
        BY <3>1, <3>2 DEF Same, NeedsConfig, Has
    <2> QED
      BY <2>1, <2>2
  <1>7. \A u \in Threads : Adds(u)' => \A p \in Passed(u)' : busy'[p] > 0
    BY <1>1, <1>3 DEF WalkInv
  <1>8. \A u, v \in Threads : Adds(u)' /\ Adds(v)' /\ u # v => \A p \in Passed(u)' : ~ArrivesFrom(v, p)'
    <2> SUFFICES ASSUME NEW u \in Threads, NEW v \in Threads, Adds(u)', Adds(v)', u # v,
                        NEW p \in Passed(u)', ArrivesFrom(v, p)'
                 PROVE  FALSE
      OBVIOUS
    <2>1. u # t /\ v # t
      BY <1>1 DEF ArrivesFrom
    <2>2. Adds(u) /\ Adds(v) /\ p \in Passed(u) /\ Passed(v)' = Passed(v) /\ Same(v)
      BY <1>3, <2>1
    <2>3. ArrivesFrom(v, p)
      BY <2>2 DEF ArrivesFrom, Same
    <2> QED
      BY <2>2, <2>3 DEF WalkInv
  <1>9. \A x \in Services : Balanced(x)'
    <2> SUFFICES ASSUME NEW x \in Services
                 PROVE  Balanced(x)'
      OBVIOUS
    <2>0. t \notin Plus(x) /\ t \notin Minus(x)
      BY MatchAssumption DEF Plus, Minus, Walking
    <2>1. Kids(x)' = Kids(x) /\ busy' = busy /\ Balanced(x)
      BY DEF Kids, WalkInv
    <2>2. /\ \A u : u # t => (u \in Plus(x) <=> u \in Plus(x)')
          /\ \A u : u # t => (u \in Minus(x) <=> u \in Minus(x)')
      BY DEF Plus, Minus, Same
    <2>3. /\ Cardinality(Plus(x)) \in Nat /\ Cardinality(Minus(x)) \in Nat
          /\ Cardinality(Kids(x)) \in Nat /\ Own(x) \in 0..2
          /\ IsFiniteSet(Plus(x)) /\ IsFiniteSet(Minus(x)) /\ busy[x] \in Nat
      BY CountsAreNumbers DEF KindsInv, StateInv, kIOServiceBusyMax
    <2>4. CASE x # s
      <3>1. t \notin Plus(x)' /\ t \notin Minus(x)'
        BY <2>4 DEF Plus, Minus
      <3>2. Cardinality(Plus(x)') = Cardinality(Plus(x)) /\ Cardinality(Minus(x)') = Cardinality(Minus(x))
        BY <2>0, <2>2, <2>3, <3>1, OneDiffers
      <3>3. Own(x)' = Own(x)
        BY <2>4 DEF Own, NeedsConfig, Has
      <3> QED
        BY <2>1, <3>2, <3>3 DEF Balanced
    <2>5. CASE x = s /\ d = 1
      <3>1. t \in Plus(x)' /\ t \notin Minus(x)'
        BY <2>5 DEF Plus, Minus
      <3>2. Cardinality(Plus(x)') = Cardinality(Plus(x)) + 1 /\ Cardinality(Minus(x)') = Cardinality(Minus(x))
        BY <2>0, <2>2, <2>3, <3>1, OneDiffers
      <3>3. Own(x)' = Own(x) + 1
        BY <2>5
      <3> QED
        BY <2>1, <2>3, <3>2, <3>3 DEF Balanced
    <2>6. CASE x = s /\ d = -1
      <3>1. t \notin Plus(x)' /\ t \in Minus(x)'
        BY <2>6 DEF Plus, Minus
      <3>2. Cardinality(Plus(x)') = Cardinality(Plus(x)) /\ Cardinality(Minus(x)') = Cardinality(Minus(x)) + 1
        BY <2>0, <2>2, <2>3, <3>1, OneDiffers
      <3>3. Own(x)' = Own(x) - 1
        BY <2>3, <2>6
      <3> QED
        BY <2>1, <2>3, <3>2, <3>3 DEF Balanced
    <2> QED
      BY <2>4, <2>5, <2>6
  <1> QED
    BY <1>5, <1>6, <1>7, <1>8, <1>9 DEF WalkInv

\* A step of a walk as it is when the counts are true: it changes the count by
\* delta and goes on exactly if the service becomes busy or quiet.
ClimbsFrom(t, s, d) ==
    /\ local[t].next = s /\ local[t].delta = d /\ busy[s] \in Nat /\ busy[s] + d \in Nat
    /\ busy' = [busy EXCEPT ![s] = busy[s] + d]
    /\ \/ /\ busy[s] > 0 <=> busy[s] + d = 0
          /\ local'[t].next = Provider[s] /\ local'[t].delta = d
       \/ busy[s] > 0 /\ busy[s] + d > 0 /\ local'[t].next = NoService

\* A step of a walk finds neither an empty count to take from nor a full one
\* to add to; one that takes leaves a service busy that a walk has passed.
LEMMA ClimbIs ==
    ASSUME CountsFit, KindsInv, LockInv, WalkInv, NEW t \in Threads, Walking(t), Climbs(t)
    PROVE  \E s \in Services, d \in {-1, 1} :
            /\ ClimbsFrom(t, s, d)
            /\ d = -1 => \A u \in Threads : Adds(u) /\ s \in Passed(u) => busy[s] + d > 0
  <1>0. PICK s \in Services, d \in {-1, 1} : s = local[t].next /\ d = local[t].delta
    BY DEF Climbs
  <1> DEFINE count == IF BadBusyCount(s, d) THEN busy[s] ELSE busy[s] + d
             turns == busy[s] = 0 \/ count = 0
  <1>1. /\ Lockable(t, s)
        /\ busy' = [busy EXCEPT ![s] = count]
        /\ local'[t].next = IF turns THEN Provider[s] ELSE NoService
        /\ local'[t].delta = IF ~turns THEN 0 ELSE IF count = 0 THEN -1 ELSE 1
    BY <1>0 DEF Climbs
  <1>2. busy[s] \in Nat /\ Balanced(s)
    BY DEF KindsInv, StateInv, kIOServiceBusyMax, WalkInv
  <1>3. CASE d = 1
    <2>1. t \in Plus(s)
      BY <1>0, <1>3 DEF Plus
    <2>2. busy[s] < kIOServiceBusyMax
      BY <1>2, <2>1, NoOverflow
    <2>3. ~BadBusyCount(s, d)
      BY <1>2, <1>3, <2>2 DEF BadBusyCount
    <2>4. count = busy[s] + d /\ count > 0 /\ count \in Nat
      BY <1>2, <1>3, <2>3
    <2>5. turns <=> busy[s] = 0
      BY <2>4
    <2> HIDE DEF count, turns
    <2>6. ClimbsFrom(t, s, d)
      BY <1>0, <1>1, <1>2, <1>3, <2>4, <2>5 DEF ClimbsFrom
    <2> QED
      BY <1>3, <2>6
  <1>4. CASE d = -1
    <2>1. t \in Minus(s)
      BY <1>0, <1>4 DEF Minus
    <2>2. busy[s] >= 1 /\ \A u \in Threads : Adds(u) /\ s \in Passed(u) => busy[s] >= 2
      BY <1>1, <2>1, NoUnderflow
    <2>3. ~BadBusyCount(s, d)
      BY <1>2, <1>4, <2>2 DEF BadBusyCount
    <2>4. count = busy[s] + d /\ count \in Nat /\ busy[s] > 0
      BY <1>2, <1>4, <2>2, <2>3
    <2>5. turns <=> count = 0
      BY <2>4
    <2>6. \A u \in Threads : Adds(u) /\ s \in Passed(u) => busy[s] + d > 0
      BY <1>2, <1>4, <2>2
    <2> HIDE DEF count, turns
    <2>7. ClimbsFrom(t, s, d)
      BY <1>0, <1>1, <1>2, <1>4, <2>4, <2>5 DEF ClimbsFrom
    <2> QED
      BY <2>6, <2>7
  <1> QED
    BY <1>3, <1>4

\* A step of a walk keeps every count in balance: what it settles at a service
\* is due at the provider.
LEMMA ClimbBalances ==
    ASSUME KindsInv, WalkInv, NEW t \in Threads, NEW s \in Services, NEW d \in {-1, 1},
           ClimbsFrom(t, s, d), \A u \in Threads : u # t => Same(u), \A x \in Services : SameMarks(x)
    PROVE  \A x \in Services : Balanced(x)'
  <1> SUFFICES ASSUME NEW x \in Services
               PROVE  Balanced(x)'
    OBVIOUS
  <1> USE DEF ClimbsFrom
  <1>0. Own(x)' = Own(x) /\ Balanced(x) /\ NoService \notin Services
        /\ busy \in [Services -> 0..kIOServiceBusyMax]
    BY MatchAssumption DEF SameMarks, Own, Count, WalkInv, KindsInv, StateInv
  <1>1. Provider[s] # s
    BY AboveIsAcyclic, AboveIsClosed
  <1>2. /\ \A u : u # t => (u \in Plus(x) <=> u \in Plus(x)')
        /\ \A u : u # t => (u \in Minus(x) <=> u \in Minus(x)')
    BY DEF Plus, Minus, Same
  <1>3. \A c : c # s => (c \in Kids(x) <=> c \in Kids(x)')
    BY <1>0 DEF Kids
  <1>4. /\ Cardinality(Plus(x)) \in Nat /\ Cardinality(Minus(x)) \in Nat
        /\ Cardinality(Kids(x)) \in Nat /\ Own(x) \in 0..2 /\ busy[x] \in Nat
        /\ IsFiniteSet(Plus(x)) /\ IsFiniteSet(Minus(x)) /\ IsFiniteSet(Kids(x))
    BY <1>0, CountsAreNumbers DEF kIOServiceBusyMax
  <1>5. CASE x = s
    <2>1. s \notin Kids(x) /\ s \notin Kids(x)'
      BY <1>1, <1>5 DEF Kids
    <2>2. Cardinality(Kids(x)') = Cardinality(Kids(x))
      BY <1>3, <1>4, <2>1, OneDiffers
    <2>3. busy'[x] = busy[x] + d
      BY <1>0, <1>5
    <2>4. t \notin Plus(x)' /\ t \notin Minus(x)'
      BY <1>0, <1>1, <1>5 DEF Plus, Minus
    <2>5. CASE d = 1
      <3>1. t \in Plus(x) /\ t \notin Minus(x)
        BY <1>5, <2>5 DEF Plus, Minus
      <3>2. Cardinality(Plus(x)') = Cardinality(Plus(x)) - 1 /\ Cardinality(Minus(x)') = Cardinality(Minus(x))
        BY <1>2, <1>4, <2>4, <3>1, OneDiffers
      <3> QED
        BY <1>0, <1>4, <2>2, <2>3, <2>5, <3>2 DEF Balanced
    <2>6. CASE d = -1
      <3>1. t \notin Plus(x) /\ t \in Minus(x)
        BY <1>5, <2>6 DEF Plus, Minus
      <3>2. Cardinality(Plus(x)') = Cardinality(Plus(x)) /\ Cardinality(Minus(x)') = Cardinality(Minus(x)) - 1
        BY <1>2, <1>4, <2>4, <3>1, OneDiffers
      <3> QED
        BY <1>0, <1>4, <2>2, <2>3, <2>6, <3>2 DEF Balanced
    <2> QED
      BY <2>5, <2>6
  <1>6. CASE x # s
    <2>1. busy'[x] = busy[x] /\ busy'[s] = busy[s] + d
      BY <1>0, <1>6
    <2>2. t \notin Plus(x) /\ t \notin Minus(x)
      BY <1>6 DEF Plus, Minus
    <2>3. CASE local'[t].next = x
      <3>1. Provider[s] = x /\ local'[t].delta = d /\ (busy[s] > 0 <=> busy[s] + d = 0)
        BY <1>0, <2>3
      <3>2. CASE d = 1
        <4>1. s \notin Kids(x) /\ s \in Kids(x)'
          BY <2>1, <3>1, <3>2 DEF Kids
        <4>2. t \in Plus(x)' /\ t \notin Minus(x)'
          BY <2>3, <3>1, <3>2 DEF Plus, Minus
        <4>3. Cardinality(Plus(x)') = Cardinality(Plus(x)) + 1 /\ Cardinality(Minus(x)') = Cardinality(Minus(x))
          BY <1>2, <1>4, <2>2, <4>2, OneDiffers
        <4>4. Cardinality(Kids(x)') = Cardinality(Kids(x)) + 1
          BY <1>3, <1>4, <4>1, OneDiffers
        <4> QED
          BY <1>0, <1>4, <2>1, <4>3, <4>4 DEF Balanced
      <3>3. CASE d = -1
        <4>1. s \in Kids(x) /\ s \notin Kids(x)'
          BY <2>1, <3>1, <3>3 DEF Kids
        <4>2. t \notin Plus(x)' /\ t \in Minus(x)'
          BY <2>3, <3>1, <3>3 DEF Plus, Minus
        <4>3. Cardinality(Plus(x)') = Cardinality(Plus(x)) /\ Cardinality(Minus(x)') = Cardinality(Minus(x)) + 1
          BY <1>2, <1>4, <2>2, <4>2, OneDiffers
        <4>4. Cardinality(Kids(x)') = Cardinality(Kids(x)) - 1
          BY <1>3, <1>4, <4>1, OneDiffers
        <4> QED
          BY <1>0, <1>4, <2>1, <4>3, <4>4 DEF Balanced
      <3> QED
        BY <3>2, <3>3
    <2>4. CASE local'[t].next # x
      <3>1. t \notin Plus(x)' /\ t \notin Minus(x)'
        BY <2>4 DEF Plus, Minus
      <3>2. Cardinality(Plus(x)') = Cardinality(Plus(x)) /\ Cardinality(Minus(x)') = Cardinality(Minus(x))
        BY <1>2, <1>4, <2>2, <3>1, OneDiffers
      <3>3. s \in Kids(x) <=> s \in Kids(x)'
        <4>1. CASE Provider[s] = x
          BY <2>1, <2>4, <4>1 DEF Kids
        <4>2. CASE Provider[s] # x
          BY <4>2 DEF Kids
        <4> QED
          BY <4>1, <4>2
      <3>4. Cardinality(Kids(x)') = Cardinality(Kids(x))
        BY <1>3, <1>4, <3>3, OneDiffers
      <3> QED
        BY <1>0, <2>1, <3>2, <3>4 DEF Balanced
    <2> QED
      BY <2>3, <2>4
  <1> QED
    BY <1>5, <1>6

\* A step of a walk keeps the walks and the counts.
LEMMA ClimbWalks ==
    ASSUME CountsFit, KindsInv, LockInv, WalkInv, NEW t \in Threads, Walking(t), Climbs(t)
    PROVE  WalkInv'
  <1>0. PICK s \in Services, d \in {-1, 1} :
            /\ ClimbsFrom(t, s, d)
            /\ d = -1 => \A u \in Threads : Adds(u) /\ s \in Passed(u) => busy[s] + d > 0
    BY ClimbIs
  <1>1. /\ on' = on /\ at' = at /\ \A u \in Threads : u # t => Same(u)
        /\ \A x \in Services : SameMarks(x)
    BY DEF Climbs
  <1>2. \A x \in Services : Balanced(x)'
    BY <1>0, <1>1, ClimbBalances
  <1>3. /\ local[t].next = s /\ local[t].delta = d /\ busy[s] \in Nat /\ busy[s] + d \in Nat
        /\ \A x \in Services : x # s => busy'[x] = busy[x]
        /\ busy'[s] = busy[s] + d
    BY <1>0 DEF ClimbsFrom, KindsInv, StateInv
  <1>4. \A u \in Threads : u # t => /\ Passed(u)' = Passed(u) /\ (Adds(u)' <=> Adds(u))
                                    /\ (Walking(u)' <=> Walking(u))
    BY <1>1 DEF Passed, Adds, Same, Walking
  <1>5. \A u \in Threads : Walking(u) => on[u] \in Services /\ local[u].next \in Above(on[u])
    BY EngagedServe DEF LockInv, WalkInv
  <1>6. on[t] \in Services /\ s \in Above(on[t])
    BY <1>3, <1>5
  <1>7. ASSUME Walking(t)'
        PROVE  /\ local'[t].next = Provider[s] /\ Provider[s] \in Services /\ local'[t].delta = d
               /\ (busy[s] > 0 <=> busy[s] + d = 0)
    BY <1>0, <1>7, MatchAssumption DEF ClimbsFrom, Walking
  <1>8. ASSUME Walking(t)'
        PROVE  /\ Passed(t)' = Passed(t) \cup {s}
               /\ Provider[s] \in Above(on[t]) /\ Provider[s] # on[t]
               /\ \A p \in Passed(t) : Provider[p] # Provider[s]
    <2>1. local'[t].next = Provider[s] /\ Provider[s] \in Services
      BY <1>7, <1>8
    <2>2. /\ Between(on[t], Provider[s]) = Between(on[t], s) \cup {s}
          /\ Provider[s] \in Above(on[t]) /\ Provider[s] # on[t]
          /\ \A p \in Between(on[t], s) : Provider[p] # Provider[s]
      BY <1>6, <2>1, WalkOn
    <2> QED
      BY <1>1, <1>3, <2>1, <2>2 DEF Passed
  <1>9. \A u \in Threads : Walking(u)' => local'[u].next \in Above(on'[u])
    BY <1>1, <1>4, <1>5, <1>7, <1>8 DEF Same
  <1>10. \A u \in Threads : Adds(u)' /\ local'[u].next = on'[u] =>
            \/ at'[u] = "published" /\ ~NeedsConfig(on[u])'
            \/ at'[u] = "stallDone" /\ Has(on[u], "ModuleStall")'
    <2> SUFFICES ASSUME NEW u \in Threads, Adds(u)', local'[u].next = on'[u]
                 PROVE  \/ at'[u] = "published" /\ ~NeedsConfig(on[u])'
                        \/ at'[u] = "stallDone" /\ Has(on[u], "ModuleStall")'
      OBVIOUS
    <2>1. u # t
      BY <1>1, <1>7, <1>8 DEF Adds
    <2>2. Same(u) /\ Adds(u) /\ local[u].next = on[u] /\ on[u] \in Services
      BY <1>1, <1>4, <1>5, <2>1 DEF Same, Adds
    <2>3. \/ at[u] = "published" /\ ~NeedsConfig(on[u])
          \/ at[u] = "stallDone" /\ Has(on[u], "ModuleStall")
      BY <2>2 DEF WalkInv
    <2>4. /\ NeedsConfig(on[u])' <=> NeedsConfig(on[u])
          /\ Has(on[u], "ModuleStall")' <=> Has(on[u], "ModuleStall")
      BY <1>1, <2>2 DEF SameMarks, Same, NeedsConfig, Has
    <2> QED
      BY <2>2, <2>3, <2>4 DEF Same
  <1>11. \A u \in Threads : Walking(u) => Passed(u) \subseteq Services
    BY <1>5, WalkFrom DEF Passed
  <1>12. \A u \in Threads : Adds(u) /\ s \in Passed(u) => busy[s] > 0 /\ busy[s] + d > 0
    <2>1. \A u \in Threads : Adds(u) /\ s \in Passed(u) => busy[s] > 0
      BY DEF WalkInv
    <2>2. d = 1 => busy[s] + d > 0
      BY <1>3
    <2> QED
      BY <1>0, <2>1, <2>2
  <1>13. \A u \in Threads : Adds(u) => Walking(u)
    BY DEF Adds
  <1>14. Adds(t)' => /\ Walking(t)' /\ d = 1 /\ Adds(t) /\ busy[s] = 0 /\ busy'[s] > 0
    <2> SUFFICES ASSUME Adds(t)'
                 PROVE  Walking(t)' /\ d = 1 /\ Adds(t) /\ busy[s] = 0 /\ busy'[s] > 0
      OBVIOUS
    <2>1. Walking(t)' /\ local'[t].delta = 1
      BY DEF Adds
    <2>2. d = 1 /\ (busy[s] > 0 <=> busy[s] + d = 0)
      BY <1>7, <2>1
    <2>3. busy[s] = 0
      BY <1>3, <2>2
    <2> QED
      BY <1>3, <2>1, <2>2, <2>3 DEF Adds
  <1>15. \A u \in Threads : Adds(u)' => \A p \in Passed(u)' : busy'[p] > 0
    <2> SUFFICES ASSUME NEW u \in Threads, Adds(u)', NEW p \in Passed(u)'
                 PROVE  busy'[p] > 0
      OBVIOUS
    <2>1. CASE p = s /\ u = t
      BY <1>14, <2>1
    <2>2. CASE p = s /\ u # t
      BY <1>3, <1>4, <1>12, <2>2
    <2>3. CASE p # s
      <3>1. p \in Passed(u) /\ Adds(u)
        BY <1>4, <1>8, <1>14, <2>3
      <3>2. p \in Services /\ busy[p] > 0
        BY <1>11, <1>13, <3>1 DEF WalkInv
      <3> QED
        BY <1>3, <2>3, <3>2
    <2> QED
      BY <2>1, <2>2, <2>3
  <1>16. \A u, v \in Threads : Adds(u)' /\ Adds(v)' /\ u # v => \A p \in Passed(u)' : ~ArrivesFrom(v, p)'
    <2> SUFFICES ASSUME NEW u \in Threads, NEW v \in Threads, Adds(u)', Adds(v)', u # v,
                        NEW p \in Passed(u)', ArrivesFrom(v, p)'
                 PROVE  FALSE
      OBVIOUS
    <2>1. Adds(u) /\ Adds(v)
      BY <1>4, <1>14
    <2>2. p \in Passed(v)' /\ Provider[p] = local'[v].next
      BY DEF ArrivesFrom
    <2>3. CASE u # t /\ v # t
      <3>1. p \in Passed(u) /\ ArrivesFrom(v, p)
        BY <1>1, <1>4, <2>2, <2>3 DEF ArrivesFrom, Same
      <3> QED
        BY <2>1, <3>1 DEF WalkInv
    <2>4. CASE u = t
      <3>1. v # t /\ p \in Passed(v) /\ ArrivesFrom(v, p)
        BY <1>1, <1>4, <2>2, <2>4 DEF ArrivesFrom, Same
      <3>2. p # s
        BY <1>12, <1>14, <2>1, <2>4, <3>1
      <3>3. p \in Passed(u)
        BY <1>8, <1>14, <2>4, <3>2
      <3> QED
        BY <2>1, <3>1, <3>3 DEF WalkInv
    <2>5. CASE v = t
      <3>1. u # t /\ p \in Passed(u)
        BY <1>4, <2>5
      <3>2. p # s
        BY <1>12, <1>14, <2>1, <2>5, <3>1
      <3>3. p \in Passed(t) /\ Provider[p] = Provider[s]
        BY <1>7, <1>8, <1>14, <2>2, <2>5, <3>2
      <3> QED
        BY <1>8, <1>14, <2>5, <3>3
    <2> QED
      BY <2>3, <2>4, <2>5
  <1> QED
    BY <1>2, <1>9, <1>10, <1>15, <1>16 DEF WalkInv

\* Every step keeps the walks and the counts.
LEMMA WalkSteps ==
    ASSUME CountsFit, AsyncAll, WalkInv, [Next]_vars
    PROVE  WalkInv'
  <1>0. KindsInv /\ LockInv /\ CountStep /\ StateInv /\ NoService \notin Services
    BY AsyncSteps, MatchAssumption DEF AsyncAll, KindsInv
  <1>1. CASE Quiet
    BY <1>0, <1>1, QuietWalks
  <1>2. ASSUME NEW t \in Threads, NEW s \in Services, Begun(t, s)
        PROVE  WalkInv'
    <2>1. /\ ~Walking(t) /\ lock[s] = Nobody /\ busy' = busy /\ on'[t] = s
          /\ local'[t].next = s /\ local'[t].delta = 1
          /\ \A u \in Threads : u # t => Same(u)
          /\ flags' = [flags EXCEPT ![s] = flags[s] \cup {"NeedConfig"}]
          /\ at'[t] = "published" /\ NeedsConfig(s)
      BY <1>0, <1>2 DEF Begun, LockInv, Locking
    <2>2. /\ \A x \in Services : x # s => flags'[x] = flags[x]
          /\ ~NeedsConfig(s)' /\ (Has(s, "ModuleStall")' <=> Has(s, "ModuleStall"))
      BY <1>0, <2>1 DEF StateInv, NeedsConfig, Has
    <2>3. Own(s)' = Own(s) + 1
      BY <2>1, <2>2 DEF Own, Count
    <2> QED
      BY <1>0, <2>1, <2>2, <2>3, DepartureWalks
  <1>3. ASSUME NEW t \in Threads, Stalled(t)
        PROVE  WalkInv'
    <2>1. /\ Departs(t, 1) /\ at'[t] = "stallDone" /\ on'[t] = on[t] /\ on[t] \in Services
          /\ ~Has(on[t], "ModuleStall") /\ Has(on[t], "ModuleStall")'
          /\ ~NeedsConfig(on[t]) /\ ~NeedsConfig(on[t])'
      BY <1>3 DEF Stalled, Departs
    <2>2. PICK s \in Services : s = on[t]
      BY <2>1
    <2>3. Own(s)' = Own(s) + 1 /\ Has(s, "ModuleStall")'
      BY <2>1, <2>2 DEF Own, Count, NeedsConfig, Has
    <2> QED
      BY <1>0, <2>1, <2>2, <2>3, DepartureWalks DEF Departs
  <1>4. ASSUME NEW t \in Threads, Unstalled(t) \/ Finished(t)
        PROVE  WalkInv'
    <2>1. /\ Departs(t, -1) /\ on'[t] = on[t] /\ on[t] \in Services
          /\ \/ /\ Has(on[t], "ModuleStall") /\ ~Has(on[t], "ModuleStall")'
                /\ ~NeedsConfig(on[t]) /\ ~NeedsConfig(on[t])'
             \/ /\ Has(on[t], "ModuleStall")' <=> Has(on[t], "ModuleStall")
                /\ ~NeedsConfig(on[t]) /\ NeedsConfig(on[t])'
      BY <1>4 DEF Unstalled, Finished, Departs
    <2>2. PICK s \in Services : s = on[t]
      BY <2>1
    <2>3. Own(s)' = Own(s) + (-1)
      BY <2>1, <2>2 DEF Own, Count, NeedsConfig, Has
    <2> QED
      BY <1>0, <2>1, <2>2, <2>3, DepartureWalks DEF Departs
  <1>5. ASSUME NEW t \in Threads, Climbs(t)
        PROVE  WalkInv'
    <2>1. Walking(t)
      BY <1>0, <1>5 DEF Climbs, Walking
    <2> QED
      BY <1>0, <1>5, <2>1, ClimbWalks
  <1> QED
    BY <1>0, <1>1, <1>2, <1>3, <1>4, <1>5 DEF CountStep

\* At first no walk is under way and all counts are zero.
LEMMA InitWalks ==
    ASSUME Init
    PROVE  WalkInv
  <1>1. \A t \in Threads : local[t].next = NoService /\ local[t].delta = 0 /\ ~Walking(t) /\ ~Adds(t)
    BY DEF Init, NoLocals, Walking, Adds
  <1>2. ASSUME NEW s \in Services
        PROVE  Balanced(s)
    <2>1. Plus(s) = {} /\ Minus(s) = {}
      BY <1>1 DEF Plus, Minus
    <2>2. Kids(s) = {} /\ busy[s] = 0
      BY DEF Init, Kids
    <2>3. Own(s) = 0
      <3>1. flags[s] \subseteq {"Registered"}
        BY DEF Init
      <3>2. NeedsConfig(s) /\ ~Has(s, "ModuleStall")
        BY <3>1 DEF NeedsConfig, Has
      <3> QED
        BY <3>2 DEF Own, Count
    <2>4. Cardinality(Plus(s)) = 0 /\ Cardinality(Minus(s)) = 0 /\ Cardinality(Kids(s)) = 0
      BY <2>1, <2>2, FS_EmptySet
    <2> QED
      BY <2>2, <2>3, <2>4 DEF Balanced
  <1> QED
    BY <1>1, <1>2 DEF WalkInv

\* When no client registers synchronously, the busy count of every service is
\* its own matching, its stalled module and its busy clients, up to the walks
\* in progress, in every tree of services whose counts fit their byte.
THEOREM CountsAreTrue ==
    ASSUME AllAsynchronous, CountsFit
    PROVE  Spec => []BusyConserved
  <1>1. Init => WalkInv /\ AsyncAll
    BY InitWalks, InitAsync
  <1>2. WalkInv /\ AsyncAll /\ [Next]_vars => (WalkInv /\ AsyncAll)'
    BY WalkSteps, AsyncSteps
  <1>3. WalkInv /\ AsyncAll => BusyConserved
    <2> SUFFICES ASSUME WalkInv, AsyncAll
                 PROVE  BusyConserved
      OBVIOUS
    <2>0. KindsInv /\ LockInv /\ PlacesInv
      BY DEF AsyncAll, KindsInv
    <2>1. ASSUME NEW s \in Services
          PROVE  busy[s] + Due(s) = Count(~NeedsConfig(s)) + Count(Has(s, "ModuleStall"))
                    + Cardinality({c \in Services : Provider[c] = s /\ busy[c] > 0})
      <3>1. Balanced(s) /\ busy[s] \in Nat
        BY <2>0 DEF WalkInv, KindsInv, StateInv, kIOServiceBusyMax
      <3>2. Due(s) = Cardinality(Plus(s)) - Cardinality(Minus(s))
        BY DEF Due, Plus, Minus
      <3>3. /\ Cardinality(Plus(s)) \in Nat /\ Cardinality(Minus(s)) \in Nat
            /\ Cardinality(Kids(s)) \in Nat /\ Own(s) \in 0..2
        BY CountsAreNumbers
      <3>4. busy[s] + Due(s) = Own(s) + Cardinality(Kids(s))
        BY <3>1, <3>2, <3>3 DEF Balanced
      <3> QED
        BY <3>4 DEF Own, Kids
    <2>2. ASSUME NEW t \in Threads, Walking(t)
          PROVE  ~BadBusyCount(local[t].next, local[t].delta)
      <3>1. PICK s \in Services, d \in {-1, 1} : s = local[t].next /\ d = local[t].delta
        BY <2>0, <2>2 DEF LockInv, Walking, PlacesInv, Locals
      <3>2. Balanced(s) /\ busy[s] \in Nat
        BY <2>0 DEF WalkInv, KindsInv, StateInv, kIOServiceBusyMax
      <3>3. CASE d = 1
        <4>1. t \in Plus(s)
          BY <3>1, <3>3 DEF Plus
        <4>2. busy[s] < kIOServiceBusyMax
          BY <3>2, <4>1, NoOverflow
        <4> QED
          BY <3>1, <3>2, <3>3, <4>2 DEF BadBusyCount
      <3>4. CASE d = -1
        <4>1. t \in Minus(s)
          BY <3>1, <3>4 DEF Minus
        <4>2. busy[s] >= 1
          BY <2>0, <4>1, NoUnderflow
        <4> QED
          BY <3>1, <3>2, <3>4, <4>2 DEF BadBusyCount
      <3> QED
        BY <3>3, <3>4
    <2> QED
      BY <2>1, <2>2 DEF BusyConserved
  <1> QED
    BY <1>1, <1>2, <1>3, PTL DEF Spec

-----------------------------------------------------------------------------
(* Drivers are found, when the catalogue itself stays as it is *)

\* Modules are loaded and announced, but no client adds a driver to the
\* catalogue or removes one.
CatalogueStays ==
    \A scenario \in Scenarios : \A t \in Clients : \A op \in scenario[t] :
        op.what \notin {"add", "remove"}

\* the drivers of the catalogue that would drive s
Fitting(s) == {d \in Listed : s \in Matches[d]}

\* The module of d is missing, or s is still to be told that it is not.
Unannounced(s, d) ==
    \/ d \notin loaded
    \/ \E t \in Clients : at[t] = "moduleHasLoaded" /\ d \in local[t].found
    \/ s \in toTell

\* s needs no matching now: no driver is there for it, it has one and does not
\* stall, or it will be told.
Settled(s) ==
    \/ Fitting(s) = {}
    \/ driver[s] # NoDriver /\ ~Has(s, "ModuleStall")
    \/ \E d \in Fitting(s) : Unannounced(s, d)

\* where a thread has seen the catalogue
Informed == {"begin", "probe", "stall", "unstall", "stallDone", "again"}

\* What t knows of the drivers for its service is true, or it will look again.
Knows(t) ==
    /\ at[t] \in {"begin", "probe", "stall", "unstall"} => local[t].found = Fitting(on[t])
    /\ at[t] \in {"probe", "stall", "unstall"} => local[t].found # {}
    /\ at[t] \in {"stallDone", "again"} /\ ~Has(on[t], "NeedConfig") => Settled(on[t])
    /\ at[t] = "unstall" => driver[on[t]] # NoDriver
    /\ at[t] = "stall" /\ ~Has(on[t], "NeedConfig")
            => \E d \in Fitting(on[t]) : Unannounced(on[t], d)

\* Nobody is told of drivers without the lock of the catalogue, and kextd
\* announces one module at a time.
CatalogueInv ==
    /\ catalogue = Listed
    /\ \A t \in Clients : \A op \in todo[t] : op.what \notin {"add", "remove"}
    /\ catalogLock = Nobody => toTell = {}
    /\ \A t \in Clients : at[t] = "moduleHasLoaded" => \E d \in Drivers : local[t].found = {d}

\* A service for which nothing is under way is settled.
FoundInv ==
    /\ CatalogueInv
    /\ \A s \in Services : Has(s, "Registered") /\ NeedsConfig(s) => Settled(s)
    /\ \A t \in Threads : Knows(t)

\* A step asks for s, or leaves it as it is and forgets no announcement.
Undisturbed(s) ==
    /\ driver'[s] = driver[s]
    /\ \/ Has(s, "NeedConfig")'
       \/ /\ \A f \in {"NeedConfig", "Config", "Registered", "ModuleStall"} : f \in flags'[s] <=> f \in flags[s]
          /\ Has(s, "Registered") => \A d \in Fitting(s) : Unannounced(s, d) => Unannounced(s, d)'

\* An undisturbed service that nobody asks for was not asked for, and stays
\* settled.
LEMMA UndisturbedSettled ==
    ASSUME NEW s \in Services, Undisturbed(s)
    PROVE  /\ ~Has(s, "NeedConfig")' /\ Has(s, "Registered")
                => /\ ~Has(s, "NeedConfig")
                   /\ Settled(s) => Settled(s)'
                   /\ (\E d \in Fitting(s) : Unannounced(s, d)) => \E d \in Fitting(s) : Unannounced(s, d)'
           /\ Has(s, "Registered")' /\ NeedsConfig(s)' => Has(s, "Registered") /\ NeedsConfig(s)
           /\ NeedsConfig(s)' => ~Has(s, "NeedConfig")'
  <1>1. NeedsConfig(s)' => ~Has(s, "NeedConfig")'
    BY DEF NeedsConfig, Has
  <1>2. CASE Has(s, "NeedConfig")'
    BY <1>1, <1>2
  <1>3. CASE ~Has(s, "NeedConfig")'
    <2>1. /\ \A f \in {"NeedConfig", "Config", "Registered", "ModuleStall"} : f \in flags'[s] <=> f \in flags[s]
          /\ Has(s, "Registered") => \A d \in Fitting(s) : Unannounced(s, d) => Unannounced(s, d)'
      BY <1>3 DEF Undisturbed
    <2>2. ~Has(s, "NeedConfig") /\ (Has(s, "Registered")' <=> Has(s, "Registered"))
          /\ (NeedsConfig(s)' <=> NeedsConfig(s)) /\ (Has(s, "ModuleStall")' <=> Has(s, "ModuleStall"))
      BY <1>3, <2>1 DEF Has, NeedsConfig
    <2>3. Has(s, "Registered") /\ Settled(s) => Settled(s)'
      BY <2>1, <2>2 DEF Settled, Undisturbed
    <2> QED
      BY <1>1, <2>1, <2>2, <2>3
  <1> QED
    BY <1>2, <1>3

\* A thread that is where it was still knows, if its service is undisturbed.
LEMMA StillKnows ==
    ASSUME AsyncAll, NEW u \in Threads, Knows(u), at'[u] = at[u], on'[u] = on[u],
           local'[u].found = local[u].found, at[u] \in Informed => Undisturbed(on[u])
    PROVE  Knows(u)'
  <1>1. CASE at[u] \in Informed
    <2>1. on[u] \in Services
      BY <1>1, EngagedServe DEF AsyncAll, Informed, Engaged, Responsible, InServiceMatch
    <2>2. at[u] \in Configuring => Has(on[u], "Registered")
      BY DEF AsyncAll, TokenInv, Configured, Has
    <2>3. /\ (~Has(on[u], "NeedConfig"))' /\ Has(on[u], "Registered")
                => /\ ~Has(on[u], "NeedConfig")
                   /\ Settled(on[u]) => Settled(on[u])'
                   /\ (\E d \in Fitting(on[u]) : Unannounced(on[u], d))
                        => (\E d \in Fitting(on[u]) : Unannounced(on[u], d))'
          /\ driver'[on'[u]] = driver[on[u]]
      <3>1. PICK s \in Services : s = on[u] /\ s = on'[u]
        BY <2>1
      <3>2. Undisturbed(s)
        BY <1>1, <3>1
      <3>3. /\ ~Has(s, "NeedConfig")' /\ Has(s, "Registered")
                => /\ ~Has(s, "NeedConfig")
                   /\ Settled(s) => Settled(s)'
                   /\ (\E d \in Fitting(s) : Unannounced(s, d)) => \E d \in Fitting(s) : Unannounced(s, d)'
        BY <3>2, UndisturbedSettled
      <3>4. driver'[s] = driver[s]
        BY <3>2 DEF Undisturbed
      <3> QED
        BY <3>1, <3>3, <3>4 DEF Has, Settled, Unannounced, Fitting
    <2>4. Fitting(on[u])' = Fitting(on[u])
      BY DEF Fitting
    <2> QED
      BY <2>2, <2>3, <2>4 DEF Knows, Configuring
  <1>2. CASE at[u] \notin Informed
    BY <1>2 DEF Knows, Informed
  <1> QED
    BY <1>1, <1>2

\* Steps that disturb no service.
LEMMA FoundStays ==
    ASSUME AsyncAll, FoundInv, CatalogueInv', \A x \in Services : Undisturbed(x),
           \A u \in Threads : at'[u] \in Informed =>
                at'[u] = at[u] /\ on'[u] = on[u] /\ local'[u].found = local[u].found
    PROVE  FoundInv'
  <1>1. \A x \in Services : Has(x, "Registered")' /\ NeedsConfig(x)' => Settled(x)'
    BY UndisturbedSettled DEF FoundInv
  <1>2. ASSUME NEW u \in Threads
        PROVE  Knows(u)'
    <2>1. CASE at'[u] \in Informed
      <3>1. at[u] \in Informed => on[u] \in Services
        BY EngagedServe DEF AsyncAll, Informed, Engaged, Responsible, InServiceMatch
      <3> QED
        BY <2>1, <3>1, StillKnows DEF FoundInv
    <2>2. CASE at'[u] \notin Informed
      BY <2>2 DEF Knows, Informed
    <2> QED
      BY <2>1, <2>2
  <1> QED
    BY <1>1, <1>2 DEF FoundInv

\* Steps of doServiceMatch, which disturb the service that is matched alone.
LEMMA FoundMoves ==
    ASSUME AsyncAll, FoundInv, CatalogueInv', NEW t \in Threads, at[t] \in Responsible,
           \A u \in Threads : u # t => Same(u),
           \A x \in Services : x # on[t] => Undisturbed(x), Knows(t)',
           Has(on[t], "Registered")' /\ NeedsConfig(on[t])' => Settled(on[t])', on'[t] = on[t]
    PROVE  FoundInv'
  <1>0. on[t] \in Services
    BY EngagedServe DEF AsyncAll, Engaged
  <1>1. \A x \in Services : Has(x, "Registered")' /\ NeedsConfig(x)' => Settled(x)'
    <2> SUFFICES ASSUME NEW x \in Services, Has(x, "Registered")', NeedsConfig(x)'
                 PROVE  Settled(x)'
      OBVIOUS
    <2>1. CASE x = on[t]
      BY <2>1 DEF Has, NeedsConfig, Settled, Unannounced, Fitting
    <2>2. CASE x # on[t]
      BY <2>2, UndisturbedSettled DEF FoundInv
    <2> QED
      BY <2>1, <2>2
  <1>2. ASSUME NEW u \in Threads, u # t
        PROVE  Knows(u)'
    <2>1. at[u] \in Informed => on[u] # on[t] /\ on[u] \in Services
      <3>1. at[u] \in Informed => at[u] \in Responsible
        BY DEF Informed, Responsible, InServiceMatch
      <3> QED
        BY <1>2, <3>1, EngagedServe DEF AsyncAll, TokenInv, Engaged
    <2>2. Same(u)
      BY <1>2
    <2> QED
      BY <2>1, <2>2, StillKnows DEF FoundInv, Same
  <1> QED
    BY <1>1, <1>2 DEF FoundInv

\* The announcements stay when no module is loaded, announced or told.
SameAnnouncements ==
    /\ UNCHANGED <<catalogue, loaded, toTell, catalogLock>>
    /\ \A u \in Clients : /\ at'[u] = "moduleHasLoaded" <=> at[u] = "moduleHasLoaded"
                          /\ at[u] = "moduleHasLoaded" => local'[u].found = local[u].found
    /\ \A u \in Clients : todo'[u] \subseteq todo[u]

\* The catalogue and what is to be told stay when the announcements do.
LEMMA AnnouncementsStay ==
    ASSUME CatalogueInv, SameAnnouncements
    PROVE  CatalogueInv' /\ \A s, d : Unannounced(s, d)' <=> Unannounced(s, d)
  BY DEF CatalogueInv, SameAnnouncements, Unannounced

\* A service whose flags and driver stay is undisturbed then.
LEMMA UndisturbedStays ==
    ASSUME CatalogueInv, SameAnnouncements, NEW x \in Services, driver'[x] = driver[x],
           \A f \in {"NeedConfig", "Config", "Registered", "ModuleStall"} : f \in flags'[x] <=> f \in flags[x]
    PROVE  Undisturbed(x)
  BY AnnouncementsStay DEF Undisturbed

\* FindDrivers, BeginConfig and ProbeCandidates.
LEMMA FindersFound ==
    ASSUME AsyncAll, FoundInv, NEW t \in Threads,
           FindDrivers(t) \/ BeginConfig(t) \/ ProbeCandidates(t)
    PROVE  FoundInv'
  <1>0. KindsInv /\ PlacesInv /\ StateInv /\ Alone(t)
    BY MatchersMove DEF AsyncAll, KindsInv
  <1>1. \A u \in Threads : u # t => Same(u)
    BY <1>0, AloneSame
  <1>2. at[t] \in {"find", "begin", "probe"}
    BY DEF FindDrivers, BeginConfig, ProbeCandidates, At
  <1>3. /\ on[t] \in Services /\ at[t] \in Responsible /\ local[t] \in Locals
        /\ t \in ConfigThreads /\ t \notin Clients
    BY <1>0, <1>2, ClientOrConfig DEF PlacesInv, Serving, Responsible, InServiceMatch, AsyncInv, AsyncAll
  <1>4. SameAnnouncements
    <2>1. \A u \in Clients : u # t /\ u \in Threads
      BY <1>3 DEF Threads
    <2>2. UNCHANGED <<catalogue, loaded, toTell, catalogLock, todo>>
      BY DEF FindDrivers, BeginConfig, ProbeCandidates, catalog
    <2> QED
      BY <1>1, <2>1, <2>2 DEF SameAnnouncements, Same
  <1>5. CatalogueInv /\ CatalogueInv' /\ (\A s, d : Unannounced(s, d)' <=> Unannounced(s, d)) /\ Knows(t)
    BY <1>4, AnnouncementsStay DEF FoundInv
  <1>6. on'[t] = on[t] /\ on' = on
    BY DEF FindDrivers, BeginConfig, ProbeCandidates, frames
  <1>7. \A x \in Services : x # on[t] => flags'[x] = flags[x] /\ driver'[x] = driver[x]
    BY <1>0, <1>3 DEF FindDrivers, BeginConfig, ProbeCandidates, services, StateInv
  <1>8. \A x \in Services : x # on[t] => Undisturbed(x)
    BY <1>4, <1>5, <1>7, UndisturbedStays
  <1>9. ~NeedsConfig(on[t])'
    <2>1. ~NeedsConfig(on[t])
      BY <1>3 DEF AsyncAll, TokenInv
    <2>2. CASE BeginConfig(t)
      BY <1>0, <1>3, <1>6, <2>2 DEF BeginConfig, NeedsConfig, StateInv
    <2>3. CASE FindDrivers(t) \/ ProbeCandidates(t)
      BY <1>6, <2>1, <2>3 DEF FindDrivers, ProbeCandidates, NeedsConfig, services
    <2> QED
      BY <2>2, <2>3
  <1>10. Knows(t)'
    <2>1. CASE FindDrivers(t)
      <3>1. at'[t] = "begin" /\ local'[t].found = {d \in catalogue : on[t] \in Matches[d]}
        BY <1>0, <1>3, <2>1 DEF FindDrivers, Goto, PlacesInv, Locals
      <3>2. local'[t].found = Fitting(on[t])'
        BY <1>5, <1>6, <3>1 DEF Fitting, CatalogueInv
      <3> QED
        BY <3>1, <3>2 DEF Knows
    <2>2. CASE BeginConfig(t)
      <3>1. /\ at[t] = "begin" /\ local' = local
            /\ at'[t] = IF local[t].found = {} THEN "again" ELSE "probe"
        BY <1>0, <2>2 DEF BeginConfig, At, Goto, PlacesInv, frames
      <3>2. local[t].found = Fitting(on[t]) /\ Fitting(on[t])' = Fitting(on[t])
        BY <1>5, <1>6, <3>1 DEF Knows, Fitting
      <3>3. CASE local[t].found = {}
        BY <3>1, <3>2, <3>3 DEF Knows, Settled
      <3>4. CASE local[t].found # {}
        BY <3>1, <3>2, <3>4 DEF Knows
      <3> QED
        BY <3>3, <3>4
    <2>3. CASE ProbeCandidates(t)
      <3>1. at[t] = "probe" /\ local' = local /\ flags' = flags
        BY <2>3 DEF ProbeCandidates, At, frames
      <3>2. local[t].found = Fitting(on[t]) /\ Fitting(on[t])' = Fitting(on[t]) /\ local[t].found # {}
            /\ local[t].found \subseteq Drivers
        BY <1>3, <1>5, <1>6, <3>1 DEF Knows, Fitting, Locals
      <3>3. CASE Stalls(t)
        <4>1. at'[t] = "stall"
          BY <1>0, <2>3, <3>3 DEF ProbeCandidates, Goto, PlacesInv
        <4>2. \E d \in Fitting(on[t]) : d \notin loaded
          BY <3>2, <3>3 DEF Stalls
        <4>3. \E d \in Fitting(on[t]) : Unannounced(on[t], d)'
          BY <1>5, <1>6, <4>2 DEF Unannounced
        <4> QED
          BY <1>6, <3>1, <3>2, <4>1, <4>3 DEF Knows
      <3>4. CASE ~Stalls(t)
        <4>1. at'[t] = "unstall"
          BY <1>0, <2>3, <3>4 DEF ProbeCandidates, Goto, PlacesInv
        <4>2. driver'[on[t]] # NoDriver
          BY <1>0, <1>3, <2>3, <3>2, <3>4, MatchAssumption DEF ProbeCandidates, StateInv
        <4> QED
          BY <1>6, <3>1, <3>2, <4>1, <4>2 DEF Knows
      <3> QED
        BY <3>3, <3>4
    <2> QED
      BY <2>1, <2>2, <2>3
  <1> QED
    BY <1>1, <1>3, <1>5, <1>6, <1>8, <1>9, <1>10, FoundMoves

\* AdjustStall, StallDone and MatchAgain.
LEMMA EndersFound ==
    ASSUME AsyncAll, FoundInv, NEW t \in Threads,
           AdjustStall(t) \/ StallDone(t) \/ MatchAgain(t)
    PROVE  FoundInv'
  <1>0. KindsInv /\ PlacesInv /\ StateInv /\ Alone(t)
    BY MatchersMove DEF AsyncAll, KindsInv
  <1>1. \A u \in Threads : u # t => Same(u)
    BY <1>0, AloneSame
  <1>2. at[t] \in {"stall", "unstall", "stallDone", "again"}
    BY DEF AdjustStall, StallDone, MatchAgain, At
  <1>3. /\ on[t] \in Services /\ at[t] \in Responsible /\ local[t] \in Locals
        /\ t \in ConfigThreads /\ t \notin Clients
    BY <1>0, <1>2, ClientOrConfig DEF PlacesInv, Serving, Responsible, InServiceMatch, AsyncInv, AsyncAll
  <1>4. SameAnnouncements
    <2>1. \A u \in Clients : u # t /\ u \in Threads
      BY <1>3 DEF Threads
    <2>2. UNCHANGED <<catalogue, loaded, toTell, catalogLock, todo>>
      BY DEF AdjustStall, StallDone, MatchAgain, catalog
    <2> QED
      BY <1>1, <2>1, <2>2 DEF SameAnnouncements, Same
  <1>5. CatalogueInv /\ CatalogueInv' /\ (\A s, d : Unannounced(s, d)' <=> Unannounced(s, d)) /\ Knows(t)
    BY <1>4, AnnouncementsStay DEF FoundInv
  <1>6. on'[t] = on[t] /\ on' = on /\ driver' = driver /\ Fitting(on[t])' = Fitting(on[t])
    BY DEF AdjustStall, StallDone, MatchAgain, frames, Fitting
  <1>7. \A x \in Services : x # on[t] => flags'[x] = flags[x] /\ driver'[x] = driver[x]
    BY <1>0, <1>3 DEF AdjustStall, StallDone, MatchAgain, StartWalk, StateInv
  <1>8. \A x \in Services : x # on[t] => Undisturbed(x)
    BY <1>4, <1>5, <1>7, UndisturbedStays
  <1>9. /\ flags'[on[t]] \ {"ModuleStall", "Config"} = flags[on[t]] \ {"ModuleStall", "Config"}
    BY <1>0, <1>3 DEF AdjustStall, StallDone, MatchAgain, StartWalk, StateInv
  <1>10. Has(on[t], "NeedConfig")' <=> Has(on[t], "NeedConfig")
    BY <1>6, <1>9 DEF Has
  <1>11. ~NeedsConfig(on[t])
    BY <1>3 DEF AsyncAll, TokenInv
  <1>12. CASE AdjustStall(t)
    <2>1. /\ at[t] \in {"stall", "unstall"} /\ at'[t] \in {"again", "stallDone"}
          /\ at[t] = "unstall" => ~Has(on[t], "ModuleStall")'
      BY <1>0, <1>3, <1>6, <1>12 DEF AdjustStall, At, Goto, StartWalk, PlacesInv, StateInv, Has
    <2>2. ~Has(on[t], "NeedConfig") => Settled(on[t])'
      <3>1. CASE at[t] = "unstall"
        BY <1>5, <1>6, <2>1, <3>1 DEF Knows, Settled
      <3>2. CASE at[t] = "stall"
        BY <1>5, <1>6, <3>2 DEF Knows, Settled
      <3> QED
        BY <2>1, <3>1, <3>2
    <2>3. Knows(t)'
      BY <1>10, <2>1, <2>2 DEF Knows
    <2>4. ~NeedsConfig(on[t])'
      <3>1. flags'[on[t]] \ {"ModuleStall"} = flags[on[t]] \ {"ModuleStall"}
        BY <1>0, <1>3, <1>12 DEF AdjustStall, StartWalk, StateInv
      <3> QED
        BY <1>6, <1>11, <3>1 DEF NeedsConfig
    <2> QED
      BY <1>1, <1>3, <1>5, <1>6, <1>8, <2>3, <2>4, FoundMoves
  <1>13. CASE StallDone(t)
    <2>1. at[t] = "stallDone" /\ at'[t] = "again" /\ flags' = flags
      BY <1>0, <1>13 DEF StallDone, At, Goto, PlacesInv
    <2>2. ~Has(on[t], "NeedConfig") => Settled(on[t])'
      BY <1>5, <1>6, <2>1 DEF Knows, Settled, Has
    <2>3. Knows(t)'
      BY <1>10, <2>1, <2>2 DEF Knows
    <2>4. ~NeedsConfig(on[t])'
      BY <1>6, <1>11, <2>1 DEF NeedsConfig
    <2> QED
      BY <1>1, <1>3, <1>5, <1>6, <1>8, <2>3, <2>4, FoundMoves
  <1>14. CASE MatchAgain(t)
    <2>1. at[t] = "again" /\ at'[t] \in {"find", "matched"}
      BY <1>0, <1>14 DEF MatchAgain, At, Goto, StartWalk, PlacesInv
    <2>2. Has(on[t], "ModuleStall")' <=> Has(on[t], "ModuleStall")
      BY <1>0, <1>3, <1>6, <1>14 DEF MatchAgain, StartWalk, StateInv, Has
    <2>3. ~Has(on[t], "NeedConfig") => Settled(on[t])'
      BY <1>5, <1>6, <2>1, <2>2 DEF Knows, Settled
    <2>4. Knows(t)'
      BY <2>1 DEF Knows
    <2>5. NeedsConfig(on[t])' => ~Has(on[t], "NeedConfig")
      BY <1>10 DEF NeedsConfig, Has
    <2> QED
      BY <1>1, <1>3, <1>5, <1>6, <1>8, <2>3, <2>4, <2>5, FoundMoves
  <1> QED
    BY <1>12, <1>13, <1>14

\* A step that changes nothing a driver is found by: whoever moves has seen no
\* catalogue and has no module to announce.
Silent ==
    /\ UNCHANGED <<driver, catalogue, loaded, toTell, catalogLock>>
    /\ \A x \in Services : \A f \in {"NeedConfig", "Config", "Registered", "ModuleStall"} :
            f \in flags'[x] <=> f \in flags[x]
    /\ \A u \in Clients : todo'[u] \subseteq todo[u]
    /\ \A u \in Threads :
        \/ at'[u] = at[u] /\ on'[u] = on[u] /\ local'[u].found = local[u].found
        \/ at[u] # "moduleHasLoaded" /\ at'[u] \notin Informed \cup {"moduleHasLoaded"}

\* Such a step keeps what is known of the drivers.
LEMMA SilentFound ==
    ASSUME AsyncAll, FoundInv, Silent
    PROVE  FoundInv'
  <1>1. SameAnnouncements
    <2>1. Clients \subseteq Threads
      BY DEF Threads
    <2> QED
      BY <2>1 DEF Silent, SameAnnouncements
  <1>2. CatalogueInv /\ CatalogueInv'
    BY <1>1, AnnouncementsStay DEF FoundInv
  <1>3. \A x \in Services : Undisturbed(x)
    BY <1>1, <1>2, UndisturbedStays DEF Silent
  <1>4. \A u \in Threads : at'[u] \in Informed =>
            at'[u] = at[u] /\ on'[u] = on[u] /\ local'[u].found = local[u].found
    BY DEF Silent
  <1> QED
    BY <1>2, <1>3, <1>4, FoundStays

\* Clients that wait, and the end of startMatching, are silent.
LEMMA WaitersSilent ==
    ASSUME AsyncAll, NEW t \in Threads,
           \/ AfterPublish(t) \/ WaitLook(t) \/ AssertWait(t) \/ Awakened(t)
           \/ WaitMatchIdle(t) \/ WaitTimesOut(t)
    PROVE  Silent
  <1>0. PlacesInv /\ StateInv /\ Alone(t) /\ KindsInv
    BY WaitersMove DEF AsyncAll, KindsInv
  <1>1. \A u \in Threads : u # t => Same(u)
    BY <1>0, AloneSame
  <1>2. /\ at[t] \in {"published", "waitQuiet", "waitAssert", "publishAssert", "waitSleep",
                      "publishSleep", "matchIdle", "matchSleep"}
        /\ at[t] \in {"published", "waitQuiet"} => on[t] \in Services
    BY <1>0 DEF AfterPublish, WaitLook, AssertWait, Awakened, WaitMatchIdle,
         WaitTimesOut, At, PlacesInv, Serving
  <1>3. at'[t] \in {"wakePublisher", "publish", "ping", "waitAssert", "idle", "waitSleep",
                    "publishSleep", "waitQuiet", "matchIdle", "matchSleep"}
    BY <1>0 DEF AfterPublish, WaitLook, AssertWait, Awakened, WaitMatchIdle,
         WaitTimesOut, PlacesInv, Goto, Leave
  <1>4. UNCHANGED <<driver, catalogue, loaded, toTell, catalogLock, todo>>
    BY DEF AfterPublish, WaitLook, AssertWait, Awakened, WaitMatchIdle, WaitTimesOut,
         services, catalog
  <1>5. \A x \in Services : flags'[x] \ {"BusyWaiter", "Synchronous"} = flags[x] \ {"BusyWaiter", "Synchronous"}
    <2>1. CASE AfterPublish(t)
      BY <1>0, <1>2, <2>1 DEF AfterPublish, At, WithSynchronous, StateInv
    <2>2. CASE WaitLook(t)
      BY <1>0, <1>2, <2>2 DEF WaitLook, At, StateInv
    <2>3. CASE AssertWait(t) \/ Awakened(t) \/ WaitMatchIdle(t) \/ WaitTimesOut(t)
      BY <2>3 DEF AssertWait, Awakened, WaitMatchIdle, WaitTimesOut, services
    <2> QED
      BY <2>1, <2>2, <2>3
  <1>6. \A x \in Services : \A f \in {"NeedConfig", "Config", "Registered", "ModuleStall"} :
            f \in flags'[x] <=> f \in flags[x]
    BY <1>5
  <1>7. at[t] # "moduleHasLoaded" /\ at'[t] \notin Informed \cup {"moduleHasLoaded"}
    BY <1>2, <1>3 DEF Informed
  <1> QED
    BY <1>1, <1>4, <1>6, <1>7 DEF Silent, Same

\* The pool, the end of a matching and the walks of _adjustBusy are silent.
LEMMA ServersSilent ==
    ASSUME AsyncAll, NEW t \in Threads,
           \/ PingConfig(t) \/ CreateThread(t) \/ SemaphoreSignal(t) \/ TakeJob(t) \/ JobDone(t)
           \/ Matched(t) \/ AdjustBusy(t)
    PROVE  Silent
  <1>0. PlacesInv /\ StateInv /\ KindsInv /\ PoolInv /\ AsyncInv /\ LockInv /\ TokenInv
    BY DEF AsyncAll, KindsInv
  <1>1. UNCHANGED <<driver, catalogue, loaded, toTell, catalogLock, todo>>
    BY DEF PingConfig, CreateThread, SemaphoreSignal, TakeJob, JobDone, Matched, AdjustBusy, services, catalog
  <1>2. \A x \in Services : flags'[x] \ {"BusyWaiter"} = flags[x] \ {"BusyWaiter"}
    <2>1. CASE AdjustBusy(t)
      BY <1>0, <2>1 DEF AdjustBusy, StateInv
    <2>2. CASE \/ PingConfig(t) \/ CreateThread(t) \/ SemaphoreSignal(t) \/ TakeJob(t)
               \/ JobDone(t) \/ Matched(t)
      BY <2>2 DEF PingConfig, CreateThread, SemaphoreSignal, TakeJob, JobDone, Matched, services
    <2> QED
      BY <2>1, <2>2
  <1>3. \A x \in Services : \A f \in {"NeedConfig", "Config", "Registered", "ModuleStall"} :
            f \in flags'[x] <=> f \in flags[x]
    BY <1>2
  <1>4. ASSUME NEW u \in Threads
        PROVE  \/ at'[u] = at[u] /\ on'[u] = on[u] /\ local'[u].found = local[u].found
               \/ at[u] # "moduleHasLoaded" /\ at'[u] \notin Informed \cup {"moduleHasLoaded"}
    <2>1. CASE PingConfig(t)
      BY <1>0, <2>1 DEF PingConfig, At, Goto, PlacesInv, Informed, frames
    <2>2. CASE CreateThread(t) \/ SemaphoreSignal(t)
      BY <1>0, <2>2 DEF CreateThread, SemaphoreSignal, At, Leave, Goto, Returns, PlacesInv,
           Informed, frames
    <2>3. CASE TakeJob(t)
      BY <1>0, <2>3 DEF TakeJob, At, Goto, PlacesInv, Informed
    <2>4. CASE JobDone(t)
      BY <1>0, <2>4 DEF JobDone, At, Goto, PlacesInv, Informed, frames
    <2>5. CASE Matched(t)
      BY <1>0, <2>5 DEF Matched, At, Goto, Leave, PlacesInv, Informed, frames
    <2>6. CASE AdjustBusy(t)
      BY <1>0, <2>6 DEF AdjustBusy, PlacesInv, Locals
    <2> QED
      BY <2>1, <2>2, <2>3, <2>4, <2>5, <2>6
  <1> QED
    BY <1>1, <1>3, <1>4 DEF Silent

\* startMatching asks for its service and leaves the others as they are.
LEMMA StartMatchingAsks ==
    ASSUME KindsInv, NEW t \in Clients, NEW s \in Services, NEW option, StartMatching(t, s, option)
    PROVE  /\ Has(s, "NeedConfig")'
           /\ \A x \in Services : x # s => flags'[x] = flags[x]
           /\ at'[t] \notin Informed \cup {"moduleHasLoaded"}
           /\ \A u \in Threads : u # t => Same(u)
  <1>0. PlacesInv /\ StateInv /\ t \in Threads
    BY DEF KindsInv, Threads
  <1>1. CASE NeedsConfig(s)
    BY <1>0, <1>1 DEF StartMatching, Goto, PlacesInv, StateInv, Has, Informed, Same
  <1>2. CASE ~NeedsConfig(s)
    <2>1. /\ at' = [at EXCEPT ![t] = Returns(t)] /\ on' = [on EXCEPT ![t] = NoService]
          /\ local' = [local EXCEPT ![t] = NoLocals]
          /\ flags' = [flags EXCEPT ![s] = WithSynchronous(flags[s] \cup {"NeedConfig"}, IsSync(s, option))]
      BY <1>2 DEF StartMatching, Leave, Goto
    <2>2. at'[t] \in {"catalog", "idle"} /\ \A u \in Threads : u # t => Same(u)
      BY <1>0, <2>1 DEF Returns, PlacesInv, Same
    <2>3. /\ Has(s, "NeedConfig")'
          /\ \A x \in Services : x # s => flags'[x] = flags[x]
      BY <1>0, <2>1 DEF WithSynchronous, StateInv, Has
    <2> QED
      BY <2>2, <2>3 DEF Informed
  <1> QED
    BY <1>1, <1>2

\* A service is told, or asked to be registered: nothing else is forgotten.
LEMMA AskedFound ==
    ASSUME AsyncAll, FoundInv, NEW t \in Clients, NEW s \in Services, NEW option,
           StartMatching(t, s, option), at[t] # "moduleHasLoaded",
           UNCHANGED <<driver, catalogue, loaded, catalogLock>>,
           toTell' \in {toTell, toTell \ {s}}, \A u \in Clients : todo'[u] \subseteq todo[u]
    PROVE  FoundInv'
  <1>1. /\ Has(s, "NeedConfig")'
        /\ \A x \in Services : x # s => flags'[x] = flags[x]
        /\ at'[t] \notin Informed \cup {"moduleHasLoaded"}
        /\ \A u \in Threads : u # t => Same(u)
    BY StartMatchingAsks DEF AsyncAll
  <1>2. \A u \in Clients : /\ at'[u] = "moduleHasLoaded" <=> at[u] = "moduleHasLoaded"
                           /\ at[u] = "moduleHasLoaded" => local'[u].found = local[u].found
    BY <1>1 DEF Threads, Same
  <1>3. CatalogueInv'
    BY <1>2 DEF FoundInv, CatalogueInv
  <1>4. ASSUME NEW x \in Services
        PROVE  Undisturbed(x)
    <2>1. CASE x = s
      BY <1>1, <2>1 DEF Undisturbed, Has
    <2>2. CASE x # s
      <3>1. \A d : Unannounced(x, d) => Unannounced(x, d)'
        BY <1>2, <2>2 DEF Unannounced
      <3> QED
        BY <1>1, <2>2, <3>1 DEF Undisturbed
    <2> QED
      BY <2>1, <2>2
  <1>5. \A u \in Threads : at'[u] \in Informed =>
            at'[u] = at[u] /\ on'[u] = on[u] /\ local'[u].found = local[u].found
    BY <1>1 DEF Same
  <1> QED
    BY <1>3, <1>4, <1>5, FoundStays

\* A module is in, and is announced: who has to know is told.
LEMMA ModuleHasLoadedFound ==
    ASSUME AsyncAll, FoundInv, NEW t \in Threads, ModuleHasLoaded(t)
    PROVE  FoundInv'
  <1>0. PlacesInv /\ StateInv /\ Alone(t) /\ CatalogueInv
    BY CatalogueMoves DEF AsyncAll, KindsInv, FoundInv
  <1>1. \A u \in Threads : u # t => Same(u)
    BY <1>0, AloneSame
  <1>2. at[t] = "moduleHasLoaded" /\ catalogLock = Nobody /\ toTell = {} /\ t \in Clients
    <2>1. at[t] = "moduleHasLoaded" /\ catalogLock = Nobody
      BY DEF ModuleHasLoaded, At
    <2> QED
      BY <1>0, <2>1, ClientOrConfig DEF CatalogueInv, ConfigPlaces, InServiceMatch
  <1>3. PICK d \in Drivers : local[t].found = {d}
    BY <1>0, <1>2 DEF CatalogueInv
  <1>4. /\ at'[t] \in {"catalog", "idle"} /\ flags' = flags /\ driver' = driver
        /\ loaded' = loaded /\ catalogue' = Listed /\ todo' = todo
        /\ d \in Listed => toTell' = {s \in Matches[d] : Has(s, "Registered")} /\ catalogLock' = t
        /\ d \notin Listed => toTell' = toTell /\ catalogLock' = catalogLock
    BY <1>0, <1>3 DEF ModuleHasLoaded, CatalogNewDrivers, Goto, PlacesInv, CatalogueInv, services
  <1>5. \A u \in Clients : at'[u] = "moduleHasLoaded" => u # t /\ u \in Threads /\ Same(u)
    BY <1>1, <1>4 DEF Threads
  <1>6. CatalogueInv'
    <2>1. catalogLock' = Nobody => toTell' = {}
      BY <1>2, <1>4, MatchAssumption DEF Threads
    <2>2. \A u \in Clients : at'[u] = "moduleHasLoaded" => \E e \in Drivers : local'[u].found = {e}
      BY <1>0, <1>5 DEF CatalogueInv, Same
    <2> QED
      BY <1>0, <1>4, <2>1, <2>2 DEF CatalogueInv
  <1>7. ASSUME NEW x \in Services, Has(x, "Registered"), NEW e \in Fitting(x), Unannounced(x, e)
        PROVE  Unannounced(x, e)'
    <2>1. CASE e \notin loaded
      BY <1>4, <2>1 DEF Unannounced
    <2>2. CASE e = d
      BY <1>4, <1>7, <2>2 DEF Unannounced, Fitting
    <2>3. CASE e \in loaded /\ e # d
      <3>1. PICK u \in Clients : at[u] = "moduleHasLoaded" /\ e \in local[u].found
        BY <1>2, <1>7, <2>3 DEF Unannounced
      <3>2. u # t /\ u \in Threads
        BY <1>3, <2>3, <3>1 DEF Threads
      <3>3. at'[u] = "moduleHasLoaded" /\ e \in local'[u].found
        BY <1>1, <3>1, <3>2 DEF Same
      <3> QED
        BY <3>3 DEF Unannounced
    <2> QED
      BY <2>1, <2>2, <2>3
  <1>8. \A x \in Services : Undisturbed(x)
    BY <1>4, <1>7 DEF Undisturbed
  <1>9. \A u \in Threads : at'[u] \in Informed =>
            at'[u] = at[u] /\ on'[u] = on[u] /\ local'[u].found = local[u].found
    BY <1>1, <1>4 DEF Informed, Same
  <1> QED
    BY <1>6, <1>8, <1>9, FoundStays

\* Everyone has been told: the catalogue is unlocked.
LEMMA CatalogDoneFound ==
    ASSUME AsyncAll, FoundInv, NEW t \in Threads, CatalogDone(t)
    PROVE  FoundInv'
  <1>0. PlacesInv /\ StateInv /\ Alone(t) /\ CatalogueInv
    BY CatalogueMoves DEF AsyncAll, KindsInv, FoundInv
  <1>1. \A u \in Threads : u # t => Same(u)
    BY <1>0, AloneSame
  <1>2. /\ at[t] = "catalog" /\ at'[t] = "idle" /\ toTell = {} /\ toTell' = {} /\ flags' = flags
        /\ driver' = driver /\ loaded' = loaded /\ catalogue' = catalogue /\ todo' = todo
    BY <1>0 DEF CatalogDone, At, Goto, PlacesInv, services
  <1>3. \A u \in Clients : /\ at'[u] = "moduleHasLoaded" <=> at[u] = "moduleHasLoaded"
                           /\ at[u] = "moduleHasLoaded" => local'[u].found = local[u].found
    BY <1>1, <1>2 DEF Threads, Same
  <1>4. CatalogueInv'
    BY <1>0, <1>2, <1>3 DEF CatalogueInv
  <1>5. \A x, d : Unannounced(x, d) => Unannounced(x, d)'
    BY <1>2, <1>3 DEF Unannounced
  <1>6. \A x \in Services : Undisturbed(x)
    BY <1>2, <1>5 DEF Undisturbed
  <1>7. \A u \in Threads : at'[u] \in Informed =>
            at'[u] = at[u] /\ on'[u] = on[u] /\ local'[u].found = local[u].found
    BY <1>1, <1>2 DEF Informed, Same
  <1> QED
    BY <1>4, <1>6, <1>7, FoundStays

\* A service is told of a new driver.
LEMMA TellServiceFound ==
    ASSUME AsyncAll, FoundInv, NEW t \in Threads, TellService(t)
    PROVE  FoundInv'
  <1>1. at[t] = "catalog" /\ t \in Clients
    <2>1. at[t] = "catalog"
      BY DEF TellService, At
    <2> QED
      BY <2>1, ClientOrConfig DEF AsyncAll, KindsInv, ConfigPlaces, InServiceMatch
  <1>2. PICK s \in toTell : StartMatching(t, s, "async") /\ toTell' = toTell \ {s}
    BY DEF TellService
  <1>3. s \in Services
    BY DEF AsyncAll, KindsInv, StateInv
  <1>4. UNCHANGED <<driver, catalogue, loaded, catalogLock, todo>>
    BY DEF TellService
  <1> QED
    BY <1>1, <1>2, <1>3, <1>4, AskedFound

\* A client begins an operation, which is none that changes the catalogue.
LEMMA RequestFound ==
    ASSUME AsyncAll, FoundInv, NEW t \in Clients, Request(t)
    PROVE  FoundInv'
  <1>0. PlacesInv /\ StateInv /\ Alone(t) /\ CatalogueInv /\ KindsInv /\ t \in Threads
    BY RequestMoves DEF AsyncAll, KindsInv, FoundInv, Threads
  <1>1. \A u \in Threads : u # t => Same(u)
    BY <1>0, AloneSame
  <1>2. PICK op \in todo[t] :
        /\ Begins(t, op)
        /\ \/ /\ op.what = "register"
              /\ StartMatching(t, op.service, op.option)
              /\ UNCHANGED <<busy, driver, catalog, pool, sleep>>
           \/ op.what = "waitQuiet" /\ Waits(t, "waitQuiet", op.service)
           \/ op.what = "matchIdle" /\ Waits(t, "matchIdle", NoService)
           \/ op.what = "add" /\ AddDrivers(t, op.driver)
           \/ op.what = "remove" /\ RemoveDrivers(t, op.driver)
           \/ op.what = "load" /\ LoadModule(t, op.driver)
    BY DEF Request
  <1>3. /\ op \in Operations /\ at[t] = "idle" /\ op.what \notin {"add", "remove"}
        /\ \A u \in Clients : todo'[u] \subseteq todo[u]
    BY <1>0, <1>2 DEF StateInv, Begins, CatalogueInv
  <1>4. CASE op.what = "register"
    <2>1. op.service \in Services
      BY <1>3, <1>4 DEF Operations
    <2>2. /\ StartMatching(t, op.service, op.option)
          /\ UNCHANGED <<driver, catalogue, loaded, catalogLock, toTell>>
      BY <1>2, <1>4 DEF catalog
    <2> QED
      BY <1>3, <2>1, <2>2, AskedFound
  <1>5. CASE op.what \in {"waitQuiet", "matchIdle"}
    <2>1. /\ at'[t] \in {"waitQuiet", "matchIdle"} /\ flags' = flags
          /\ UNCHANGED <<driver, catalogue, loaded, toTell, catalogLock>>
      BY <1>0, <1>2, <1>5 DEF Waits, Goto, PlacesInv, services, catalog
    <2>2. Silent
      BY <1>1, <1>3, <2>1 DEF Silent, Same, Informed
    <2> QED
      BY <2>2, SilentFound
  <1>6. CASE op.what = "load"
    <2>1. op.driver \in Drivers /\ LoadModule(t, op.driver)
      BY <1>2, <1>3, <1>6 DEF Operations
    <2>2. /\ at'[t] = "moduleHasLoaded" /\ local'[t].found = {op.driver}
          /\ loaded' = loaded \cup {op.driver}
          /\ UNCHANGED <<flags, driver, catalogue, toTell, catalogLock>>
      BY <1>0, <2>1 DEF LoadModule, Goto, PlacesInv, Locals, services
    <2>3. \A u \in Clients : u # t => u \in Threads /\ Same(u)
      BY <1>1 DEF Threads
    <2>4. CatalogueInv'
      BY <1>0, <1>3, <2>1, <2>2, <2>3 DEF CatalogueInv, Same
    <2>5. \A x, d : Unannounced(x, d) => Unannounced(x, d)'
      <3> SUFFICES ASSUME NEW x, NEW d, Unannounced(x, d)
                   PROVE  Unannounced(x, d)'
        OBVIOUS
      <3>1. CASE d = op.driver
        BY <2>2, <3>1 DEF Unannounced
      <3>2. CASE d # op.driver /\ d \notin loaded
        BY <2>2, <3>2 DEF Unannounced
      <3>3. CASE x \in toTell
        BY <2>2, <3>3 DEF Unannounced
      <3>4. CASE \E u \in Clients : at[u] = "moduleHasLoaded" /\ d \in local[u].found
        BY <1>3, <2>3, <3>4 DEF Unannounced, Same
      <3> QED
        BY <3>1, <3>2, <3>3, <3>4 DEF Unannounced
    <2>6. \A x \in Services : Undisturbed(x)
      BY <2>2, <2>5 DEF Undisturbed
    <2>7. \A u \in Threads : at'[u] \in Informed =>
              at'[u] = at[u] /\ on'[u] = on[u] /\ local'[u].found = local[u].found
      BY <1>1, <2>2 DEF Informed, Same
    <2> QED
      BY <2>4, <2>6, <2>7, FoundStays
  <1> QED
    BY <1>2, <1>3, <1>4, <1>5, <1>6

\* No step of the program spoils what is known of the drivers.
LEMMA FoundSteps ==
    ASSUME AsyncAll, FoundInv, [Next]_vars
    PROVE  FoundInv'
  <1>0. KindsInv /\ PlacesInv /\ AsyncInv
    BY DEF AsyncAll, KindsInv
  <1>1. CASE UNCHANGED vars
    <2>1. Silent
      BY <1>1 DEF Silent, vars, services, catalog, frames
    <2> QED
      BY <2>1, SilentFound
  <1>2. ASSUME NEW t \in Threads, Runs(t) \/ WaitTimesOut(t) \/ (t \in Clients /\ Request(t))
        PROVE  FoundInv'
    <2>1. CASE WakePublisher(t) \/ Publish(t) \/ PublishWait(t)
      <3>1. at[t] \in Synchronously
        BY <2>1 DEF WakePublisher, Publish, PublishWait, At, Synchronously
      <3>2. t \in Clients
        BY <1>0, <3>1, ClientOrConfig DEF Synchronously, ConfigPlaces, InServiceMatch
      <3> QED
        BY <1>0, <3>1, <3>2 DEF AsyncInv
    <2>2. CASE \/ AfterPublish(t) \/ WaitLook(t) \/ AssertWait(t) \/ Awakened(t)
               \/ WaitMatchIdle(t) \/ WaitTimesOut(t)
      BY <2>2, WaitersSilent, SilentFound
    <2>3. CASE \/ PingConfig(t) \/ CreateThread(t) \/ SemaphoreSignal(t) \/ TakeJob(t) \/ JobDone(t)
               \/ Matched(t) \/ AdjustBusy(t)
      BY <2>3, ServersSilent, SilentFound
    <2>4. CASE FindDrivers(t) \/ BeginConfig(t) \/ ProbeCandidates(t)
      BY <2>4, FindersFound
    <2>5. CASE AdjustStall(t) \/ StallDone(t) \/ MatchAgain(t)
      BY <2>5, EndersFound
    <2>6. CASE ModuleHasLoaded(t)
      BY <2>6, ModuleHasLoadedFound
    <2>7. CASE TellService(t)
      BY <2>7, TellServiceFound
    <2>8. CASE CatalogDone(t)
      BY <2>8, CatalogDoneFound
    <2>9. CASE t \in Clients /\ Request(t)
      BY <2>9, RequestFound
    <2> QED
      BY <1>2, <2>1, <2>2, <2>3, <2>4, <2>5, <2>6, <2>7, <2>8, <2>9 DEF Runs
  <1> QED
    BY <1>1, <1>2 DEF Next

\* At first no module is loaded and no thread has looked at the catalogue.
LEMMA InitFound ==
    ASSUME Init, CatalogueStays
    PROVE  FoundInv
  <1>1. /\ \A t \in Clients : at[t] = "idle"
        /\ \A t \in Threads : at[t] \in {"idle", "none"}
    BY DEF Init, Threads
  <1>2. CatalogueInv
    BY <1>1 DEF Init, CatalogueStays, CatalogueInv
  <1>3. \A s \in Services : Settled(s)
    BY DEF Init, Settled, Unannounced
  <1>4. \A t \in Threads : Knows(t)
    BY <1>1 DEF Knows
  <1> QED
    BY <1>2, <1>3, <1>4 DEF FoundInv

\* When registrations are asynchronous and the set of drivers stays as it is,
\* a registered service for which nothing is under way has a driver if the
\* catalogue has one for it whose module is there, and stalls only for a module
\* that is missing, however modules are loaded and announced meanwhile.
THEOREM DriversGetFound ==
    ASSUME AllAsynchronous, CatalogueStays
    PROVE  Spec => []DriversAreFound
  <1>1. Init => FoundInv /\ AsyncAll
    BY InitFound, InitAsync
  <1>2. FoundInv /\ AsyncAll /\ [Next]_vars => (FoundInv /\ AsyncAll)'
    BY FoundSteps, AsyncSteps
  <1>3. FoundInv /\ AsyncAll => DriversAreFound
    <2> SUFFICES ASSUME FoundInv, AsyncAll, NEW s \in Services,
                        Has(s, "Registered"), NeedsConfig(s),
                        \A t \in Clients : at[t] # "moduleHasLoaded" /\ catalogLock # t,
                        {d \in catalogue : s \in Matches[d]} # {},
                        {d \in catalogue : s \in Matches[d]} \subseteq loaded
                 PROVE  driver[s] # NoDriver /\ ~Has(s, "ModuleStall")
      BY DEF DriversAreFound
    <2>1. catalogue = Listed /\ toTell = {}
      BY DEF FoundInv, CatalogueInv, AsyncAll, KindsInv, StateInv
    <2>2. Fitting(s) # {} /\ Fitting(s) \subseteq loaded
      BY <2>1 DEF Fitting
    <2>3. \A d \in Fitting(s) : ~Unannounced(s, d)
      BY <2>1, <2>2 DEF Unannounced
    <2> QED
      BY <2>2, <2>3 DEF FoundInv, Settled
  <1> QED
    BY <1>1, <1>2, <1>3, PTL DEF Spec
====
