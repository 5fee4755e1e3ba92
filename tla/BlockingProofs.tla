---------------------------- MODULE BlockingProofs ----------------------------
(***************************************************************************)
(* Proofs about Semaphore, GreenPool and LightQueue: for every set of      *)
(* threads, every initial value and any number of pending wake-ups; for    *)
(* every finite set of tasks and every sequence of sizes; and for all      *)
(* sizes of a queue, whether put_nowait() is interrupted or not.           *)
(***************************************************************************)
EXTENDS Semaphore, GreenPool, LightQueue, WaitQueueTheorems, FiniteSetTheorems

-----------------------------------------------------------------------------
(* Semaphore *)

\* The three invariants support one another: the deque loses exactly one
\* thread only because it holds each thread once, and wake-ups are counted
\* against the deque.
IInv == TypeOK /\ NoLostWakeup /\ WaitersExact

LEMMA InitIInv == Init => IInv
BY SemaphoreAssumption DEF Init, IInv, TypeOK, Loops, NoLostWakeup, WaitersExact,
  Suspended, Contains, IsInjective

\* A suspended thread leaves the wait loop, and takes a permit or not.
LEMMA LeaveKeepsWaitersExact ==
  ASSUME IInv, NEW t \in Threads, Suspended(t), Leave(waiters, t)
  PROVE  /\ waiters' \in Seq(Threads)
         /\ loop' \in [Threads -> Loops]
         /\ WaitersExact'
         /\ waiters # <<>>
<1>1. /\ waiters \in Seq(Threads) /\ IsInjective(waiters)
      /\ loop \in [Threads -> Loops]
      /\ \A u \in Threads : Suspended(u) <=> Contains(waiters, u)
  BY DEF IInv, TypeOK, WaitersExact
<1>2. waiters' = RemoveFirst(waiters, t) /\ loop' = [loop EXCEPT ![t] = "outside"]
  BY DEF Leave, Forget
<1>3. /\ waiters' \in Seq(Threads) /\ IsInjective(waiters')
      /\ \A u : Contains(waiters', u) <=> Contains(waiters, u) /\ u # t
  BY <1>1, <1>2, RemoveFirstOnce
<1>4. loop' \in [Threads -> Loops]
  BY <1>1, <1>2 DEF Loops
<1>5. \A u \in Threads : Suspended(u)' <=> Suspended(u) /\ u # t
  BY <1>1, <1>2 DEF Suspended
<1>6. waiters # <<>>
  BY <1>1 DEF Contains
<1> QED
  BY <1>1, <1>3, <1>4, <1>5, <1>6 DEF WaitersExact

\* A thread outside acquire joins the deque.
LEMMA SuspendKeepsWaitersExact ==
  ASSUME IInv, NEW t \in Threads, ~Suspended(t),
         NEW kind \in {"untimed", "timed"}, Suspend(t, kind)
  PROVE  /\ waiters' \in Seq(Threads)
         /\ loop' \in [Threads -> Loops]
         /\ WaitersExact'
<1>1. /\ waiters \in Seq(Threads) /\ IsInjective(waiters)
      /\ loop \in [Threads -> Loops]
      /\ \A u \in Threads : Suspended(u) <=> Contains(waiters, u)
  BY DEF IInv, TypeOK, WaitersExact
<1>2. waiters' = Append(waiters, t) /\ loop' = [loop EXCEPT ![t] = kind]
  BY <1>1 DEF Suspend
<1>3. /\ waiters' \in Seq(Threads) /\ IsInjective(waiters')
      /\ \A u : Contains(waiters', u) <=> Contains(waiters, u) \/ u = t
  BY <1>1, <1>2, AppendNew
<1>4. loop' \in [Threads -> Loops]
  BY <1>1, <1>2 DEF Loops
<1>5. \A u \in Threads : Suspended(u)' <=> Suspended(u) \/ u = t
  BY <1>1, <1>2 DEF Suspended
<1> QED
  BY <1>1, <1>3, <1>4, <1>5 DEF WaitersExact

\* No wake-up is missing after a step that gives out no permit without taking
\* a wake-up into account.
LEMMA TakeKeepsNoLostWakeup ==
  ASSUME IInv, counter > 0, TakePermit, UNCHANGED doAcquires,
         waiters' # <<>> => waiters # <<>>
  PROVE  counter' \in Nat /\ doAcquires' \in Nat /\ NoLostWakeup'
BY DEF IInv, TypeOK, TakePermit, NoLostWakeup

LEMMA StepIInv == IInv /\ [Next]_vars => IInv'
<1> SUFFICES ASSUME IInv, [Next]_vars PROVE IInv'
  OBVIOUS
<1> USE DEF IInv
<1>1. CASE DoAcquire
  <2>1. CASE MayWake /\ Leave(Tail(waiters), Head(waiters)) /\ TakePermit
    <3> DEFINE t == Head(waiters)
               q == Tail(waiters)
    <3>1. /\ waiters # <<>> /\ waiters \in Seq(Threads) /\ IsInjective(waiters)
      BY <2>1 DEF MayWake, TypeOK, WaitersExact
    <3>2. /\ t \in Threads /\ q \in Seq(Threads) /\ IsInjective(q)
          /\ Contains(waiters, t)
          /\ \A u : Contains(q, u) <=> Contains(waiters, u) /\ u # t
      BY <3>1, TailOnce
    <3> HIDE DEF t, q
    <3>3. /\ waiters' \in Seq(Threads) /\ IsInjective(waiters')
          /\ \A u : Contains(waiters', u) <=> Contains(waiters, u) /\ u # t
      <4>1. waiters' = RemoveFirst(q, t)
        BY <2>1 DEF Leave, Forget, t, q
      <4> QED
        BY <4>1, <3>2, RemoveFirstOnce
    <3>4. loop' = [loop EXCEPT ![t] = "outside"]
      BY <2>1 DEF Leave, t
    <3>5. loop' \in [Threads -> Loops]
      BY <3>4 DEF TypeOK, Loops
    <3>6. \A u \in Threads : Suspended(u)' <=> Suspended(u) /\ u # t
      BY <3>4 DEF TypeOK, Suspended
    <3>7. WaitersExact'
      BY <3>3, <3>6 DEF WaitersExact
    <3>8. /\ counter' \in Nat /\ doAcquires' \in Nat
          /\ counter' <= doAcquires'
      BY <1>1, <2>1, <3>1 DEF DoAcquire, MayWake, TakePermit, TypeOK, NoLostWakeup
    <3> QED
      BY <3>3, <3>5, <3>7, <3>8 DEF TypeOK, NoLostWakeup
  <2>2. CASE ~MayWake /\ UNCHANGED <<counter, waiters, loop>>
    <3>1. TypeOK'
      BY <1>1, <2>2 DEF DoAcquire, TypeOK
    <3>2. NoLostWakeup'
      BY <1>1, <2>2 DEF DoAcquire, MayWake, TypeOK, NoLostWakeup
    <3>3. WaitersExact'
      BY <2>2 DEF WaitersExact, Suspended
    <3> QED
      BY <3>1, <3>2, <3>3
  <2> QED
    BY <1>1, <2>1, <2>2 DEF DoAcquire
<1>2. ASSUME NEW t \in Threads, AcquireNonBlocking(t) PROVE IInv'
  <2>1. counter > 0 /\ TakePermit /\ UNCHANGED <<waiters, doAcquires, loop>>
    BY <1>2 DEF AcquireNonBlocking, locked, TypeOK
  <2> QED
    BY <2>1, TakeKeepsNoLostWakeup DEF TypeOK, WaitersExact, Suspended
<1>3. ASSUME NEW t \in Threads, AcquireTimed(t) PROVE IInv'
  <2>1. CASE ~locked /\ TakePermit /\ UNCHANGED <<waiters, doAcquires, loop>>
    <3>1. counter > 0
      BY <2>1 DEF locked, TypeOK
    <3> QED
      BY <2>1, <3>1, TakeKeepsNoLostWakeup DEF TypeOK, WaitersExact, Suspended
  <2>2. CASE locked /\ Suspend(t, "timed")
    <3>1. ~Suspended(t)
      BY <1>3 DEF AcquireTimed
    <3>2. /\ waiters' \in Seq(Threads) /\ loop' \in [Threads -> Loops]
          /\ WaitersExact'
      BY <2>2, <3>1, SuspendKeepsWaitersExact
    <3> QED
      BY <2>2, <3>2 DEF Suspend, locked, TypeOK, NoLostWakeup
  <2> QED
    BY <1>3, <2>1, <2>2 DEF AcquireTimed
<1>4. ASSUME NEW t \in Threads, Acquire(t) PROVE IInv'
  <2>1. CASE ~locked /\ TakePermit /\ UNCHANGED <<waiters, doAcquires, loop>>
    <3>1. counter > 0
      BY <2>1 DEF locked, TypeOK
    <3> QED
      BY <2>1, <3>1, TakeKeepsNoLostWakeup DEF TypeOK, WaitersExact, Suspended
  <2>2. CASE (locked \/ waiters # <<>>) /\ Suspend(t, "untimed")
    <3>1. ~Suspended(t)
      BY <1>4 DEF Acquire
    <3>2. /\ waiters' \in Seq(Threads) /\ loop' \in [Threads -> Loops]
          /\ WaitersExact'
      BY <2>2, <3>1, SuspendKeepsWaitersExact
    <3> QED
      BY <2>2, <3>2 DEF Suspend, locked, TypeOK, NoLostWakeup
  <2> QED
    BY <1>4, <2>1, <2>2 DEF Acquire
<1>5. ASSUME NEW t \in Threads, Release(t) PROVE IInv'
  BY <1>5 DEF Release, ScheduleWake, TypeOK, NoLostWakeup, WaitersExact, Suspended
<1>6. ASSUME NEW t \in Threads, TimeoutFires(t) \/ Interrupt(t) PROVE IInv'
  <2>1. Suspended(t) /\ Leave(waiters, t) /\ UNCHANGED <<counter, doAcquires>>
    BY <1>6 DEF TimeoutFires, Interrupt, Suspended
  <2>2. /\ waiters' \in Seq(Threads) /\ loop' \in [Threads -> Loops]
        /\ WaitersExact' /\ waiters # <<>>
    BY <2>1, LeaveKeepsWaitersExact
  <2> QED
    BY <2>1, <2>2 DEF TypeOK, NoLostWakeup
<1>7. ASSUME NEW t \in Threads, StraySwitch(t) PROVE IInv'
  <2>1. /\ Suspended(t) /\ Leave(waiters, t) /\ counter > 0
        /\ TakePermit /\ UNCHANGED doAcquires
    BY <1>7 DEF StraySwitch, LoopTest
  <2>2. /\ waiters' \in Seq(Threads) /\ loop' \in [Threads -> Loops]
        /\ WaitersExact' /\ waiters # <<>>
    BY <2>1, LeaveKeepsWaitersExact
  <2> QED
    BY <2>1, <2>2, TakeKeepsNoLostWakeup DEF TypeOK
<1>8. CASE UNCHANGED vars
  BY <1>8 DEF vars, TypeOK, NoLostWakeup, WaitersExact, Suspended
<1> QED
  BY <1>1, <1>2, <1>3, <1>4, <1>5, <1>6, <1>7, <1>8 DEF Next, ThreadStep

THEOREM InductiveInvariant == Safety => []IInv
BY InitIInv, StepIInv, PTL DEF Safety

\* The state stays well formed; in particular no order of calls, timeouts and
\* kills drives self.counter of a plain Semaphore below zero.
THEOREM TypeCorrect == Safety => []TypeOK
BY InductiveInvariant, PTL DEF IInv

\* However many threads queue, release, give up or overtake, a free permit is
\* covered by a pending _do_acquire as long as somebody waits.
THEOREM NoWakeupIsLost == Safety => []NoLostWakeup
BY InductiveInvariant, PTL DEF IInv

\* The deque never holds a thread that is not suspended in acquire, nor misses
\* one that is.
THEOREM WaitersAreExact == Safety => []WaitersExact
BY InductiveInvariant, PTL DEF IInv

-----------------------------------------------------------------------------
(* Semaphore implements PermitPool: its deque is the set of blocked threads. *)

LEMMA StepImplementsPool ==
  IInv /\ IInv' /\ [Next]_vars => [Permits!Next]_(Permits!vars)
<1> SUFFICES ASSUME IInv, IInv', [Next]_vars
             PROVE  [Permits!Next]_(Permits!vars)
  OBVIOUS
<1> DEFINE b == ToSet(waiters)
<1>1. /\ b = {t \in Threads : Suspended(t)}
      /\ b' = {t \in Threads : Suspended(t)'}
  BY ElementsOfQueue DEF IInv, TypeOK, WaitersExact
<1>2. /\ counter \in Nat /\ loop \in [Threads -> Loops]
      /\ waiters \in Seq(Threads) /\ (b = {} <=> waiters = <<>>)
  BY ElementsOfQueue DEF IInv, TypeOK
<1> HIDE DEF b
<1>3. ASSUME NEW t \in Threads, loop' = [loop EXCEPT ![t] = "outside"]
      PROVE  b' = b \ {t}
  BY <1>1, <1>2, <1>3 DEF Suspended
<1>4. ASSUME UNCHANGED loop PROVE b' = b
  BY <1>1, <1>4 DEF Suspended
<1> USE DEF Permits!Next, Permits!vars
<1>5. CASE DoAcquire
  <2>1. CASE MayWake /\ Leave(Tail(waiters), Head(waiters)) /\ TakePermit
    <3>1. Head(waiters) \in Threads /\ Head(waiters) \in b /\ counter > 0
      BY <2>1, <1>2 DEF MayWake, b, ToSet
    <3>2. Permits!Grant(Head(waiters))
      BY <2>1, <3>1, <1>3 DEF Permits!Grant, Leave, TakePermit, b
    <3> QED
      BY <3>1, <3>2 DEF b
  <2>2. CASE UNCHANGED <<counter, waiters, loop>>
    BY <2>2
  <2> QED
    BY <1>5, <2>1, <2>2 DEF DoAcquire
<1>6. ASSUME NEW t \in Threads, ~locked, TakePermit,
             UNCHANGED <<waiters, doAcquires, loop>>
      PROVE  Permits!Take
  BY <1>6, <1>2 DEF Permits!Take, locked, TakePermit
<1>7. ASSUME NEW t \in Threads, NEW kind \in {"untimed", "timed"},
             ~Suspended(t), locked \/ waiters # <<>>, Suspend(t, kind)
      PROVE  Permits!Block(t)
  <2>1. loop' = [loop EXCEPT ![t] = kind] /\ UNCHANGED counter
    BY <1>7 DEF Suspend
  <2>2. t \notin b /\ b' = b \cup {t}
    BY <2>1, <1>1, <1>2, <1>7 DEF Suspended
  <2> QED
    BY <2>1, <2>2, <1>2, <1>7 DEF Permits!Block, locked, b
<1>8. ASSUME NEW t \in Threads, ThreadStep(t)
      PROVE  Permits!Next \/ UNCHANGED Permits!vars
  <2>1. CASE AcquireNonBlocking(t)
    BY <2>1, <1>6 DEF AcquireNonBlocking
  <2>2. CASE AcquireTimed(t)
    BY <2>2, <1>6, <1>7 DEF AcquireTimed
  <2>3. CASE Acquire(t)
    BY <2>3, <1>6, <1>7 DEF Acquire
  <2>4. CASE Release(t)
    BY <2>4, <1>4 DEF Release, Permits!Put, b
  <2>5. CASE TimeoutFires(t) \/ Interrupt(t)
    <3>1. t \in b
      BY <2>5, <1>1 DEF TimeoutFires, Interrupt, Suspended
    <3> QED
      BY <2>5, <3>1, <1>3 DEF TimeoutFires, Interrupt, Leave, Permits!GiveUp, b
  <2>6. CASE StraySwitch(t)
    <3>1. t \in b
      BY <2>6, <1>1 DEF StraySwitch, Suspended
    <3> QED
      BY <2>6, <3>1, <1>3 DEF StraySwitch, LoopTest, TakePermit, Leave,
        Permits!Grant, b
  <2> QED
    BY <1>8, <2>1, <2>2, <2>3, <2>4, <2>5, <2>6 DEF ThreadStep
<1>9. CASE UNCHANGED vars
  BY <1>9 DEF vars
<1> QED
  BY <1>5, <1>8, <1>9 DEF Next

\* The safety half of ImplementsPermitPool: acquire and release, with their
\* deque, timers and timeouts, only ever take, put, block, grant or give up.
THEOREM ImplementsPool == Safety => Permits!Safety
<1>1. Init => Permits!Init
  BY DEF Init, Permits!Init, ToSet
<1> QED
  BY <1>1, InductiveInvariant, StepImplementsPool, PTL DEF Safety, Permits!Safety

-----------------------------------------------------------------------------
(* GreenPool *)

\* A task is with the pool, on its way in with one blocked thread, or unused.
TasksApart ==
  /\ \A t \in Spawners : spawns[t] \notin unused \cup running
  /\ \A t, u \in Spawners : spawns[t] = spawns[u] /\ spawns[t] # NoTask => t = u
  /\ unused \cap running = {}

\* The queue of the semaphore holds the threads blocked in spawn(), each once.
QueueExact ==
  /\ IsInjective(queue)
  /\ \A t \in Spawners : Contains(queue, t) <=> spawns[t] # NoTask

PoolIInv == PoolTypeOK /\ TasksApart /\ QueueExact /\ SlotsConserved /\ SentMeansIdle

LEMMA PoolInitIInv == PoolInit => PoolIInv
<1> SUFFICES ASSUME PoolInit PROVE PoolIInv
  OBVIOUS
<1> USE GreenPoolAssumption DEF PoolInit
<1>1. PoolTypeOK
  BY DEF PoolTypeOK
<1>2. TasksApart /\ QueueExact
  BY DEF TasksApart, QueueExact, IsInjective, Contains
<1>3. SlotsConserved /\ SentMeansIdle
  BY FS_EmptySet DEF SlotsConserved, SentMeansIdle
<1> QED
  BY <1>1, <1>2, <1>3 DEF PoolIInv

\* What every step can rely on.
LEMMA Facts ==
  ASSUME PoolIInv
  PROVE  /\ IsFiniteSet(running) /\ Cardinality(running) \in Nat
         /\ size \in Nat /\ permits \in Int /\ event \in Nat
         /\ Len(queue) \in Nat /\ wakes \in Nat
         /\ permits + Cardinality(running) = size
         /\ sent \subseteq 0..event
<1>1. IsFiniteSet(running) /\ Cardinality(running) \in Nat
  BY GreenPoolAssumption, FS_Subset, FS_CardinalityType DEF PoolIInv, PoolTypeOK
<1> QED
  BY <1>1, GreenPoolAssumption DEF PoolIInv, PoolTypeOK, SlotsConserved

\* A task enters the pool: one slot less is free, and the event that waitall()
\* will wait for has not been sent.
LEMMA LaunchKeeps ==
  ASSUME PoolIInv, NEW k \in Tasks, k \notin running, Launch(k), UNCHANGED <<size, sent>>
  PROVE  /\ permits' \in Int /\ running' \subseteq Tasks
         /\ event' \in Nat /\ event' >= event /\ sent' \subseteq 0..event'
         /\ SlotsConserved' /\ SentMeansIdle'
         /\ Cardinality(running') = Cardinality(running) + 1
<1>1. /\ permits' = permits - 1 /\ running' = running \cup {k}
      /\ event' = IF running = {} THEN event + 1 ELSE event
  BY DEF Launch, Renew
<1>2. Cardinality(running') = Cardinality(running) + 1
  BY <1>1, Facts, FS_AddElement
<1>3. /\ permits' \in Int /\ running' \subseteq Tasks
      /\ event' \in Nat /\ event' >= event /\ sent' \subseteq 0..event'
  BY <1>1, Facts DEF PoolIInv, PoolTypeOK
<1>4. SlotsConserved'
  BY <1>1, <1>2, Facts DEF SlotsConserved
<1>5. SentMeansIdle'
  <2>1. CASE running = {}
    BY <1>1, <2>1, Facts DEF SentMeansIdle
  <2>2. CASE running # {}
    BY <1>1, <2>2 DEF PoolIInv, SentMeansIdle
  <2> QED
    BY <2>1, <2>2
<1> QED
  BY <1>2, <1>3, <1>4, <1>5

\* A thread leaves the queue of the semaphore with its task.
LEMMA LeaveKeeps ==
  ASSUME PoolIInv, NEW t \in Spawners,
         queue' = RemoveFirst(queue, t) \/ (queue # <<>> /\ t = Head(queue) /\ queue' = Tail(queue)),
         spawns' = [spawns EXCEPT ![t] = NoTask]
  PROVE  /\ queue' \in Seq(Spawners)
         /\ spawns' \in [Spawners -> Tasks \cup {NoTask}]
         /\ QueueExact'
<1>1. /\ queue \in Seq(Spawners) /\ IsInjective(queue)
      /\ spawns \in [Spawners -> Tasks \cup {NoTask}]
      /\ \A u \in Spawners : Contains(queue, u) <=> spawns[u] # NoTask
  BY DEF PoolIInv, PoolTypeOK, QueueExact
<1>2. /\ queue' \in Seq(Spawners) /\ IsInjective(queue')
      /\ \A u : Contains(queue', u) <=> Contains(queue, u) /\ u # t
  <2>1. CASE queue' = RemoveFirst(queue, t)
    BY <1>1, <2>1, RemoveFirstOnce
  <2>2. CASE queue # <<>> /\ t = Head(queue) /\ queue' = Tail(queue)
    BY <1>1, <2>2, TailOnce
  <2> QED
    BY <2>1, <2>2
<1>3. \A u \in Spawners : spawns'[u] = IF u = t THEN NoTask ELSE spawns[u]
  BY <1>1
<1> QED
  BY <1>1, <1>2, <1>3 DEF QueueExact

-----------------------------------------------------------------------------

LEMMA SpawnNowKeepsIInv ==
  ASSUME PoolIInv, NEW t \in Spawners, NEW k \in Tasks, SpawnNow(t, k)
  PROVE  PoolIInv' /\ Cardinality(running') <= size
<1>1. /\ k \in unused /\ unused' = unused \ {k} /\ Launch(k) /\ permits > 0
      /\ UNCHANGED <<size, queue, wakes, spawns, sent, awaits>>
  BY Facts DEF SpawnNow, sem_locked
<1>2. k \notin running /\ k # NoTask
  BY <1>1, GreenPoolAssumption DEF PoolIInv, TasksApart
<1>3. /\ permits' \in Int /\ running' \subseteq Tasks
      /\ event' \in Nat /\ event' >= event /\ sent' \subseteq 0..event'
      /\ SlotsConserved' /\ SentMeansIdle'
      /\ Cardinality(running') = Cardinality(running) + 1
  BY <1>1, <1>2, LaunchKeeps
<1>4. PoolTypeOK'
  BY <1>1, <1>3, Facts DEF PoolIInv, PoolTypeOK
<1>5. running' = running \cup {k}
  BY <1>1 DEF Launch
<1>6. TasksApart'
  BY <1>1, <1>2, <1>5 DEF PoolIInv, TasksApart
<1>7. QueueExact'
  BY <1>1 DEF PoolIInv, QueueExact
<1> QED
  BY <1>1, <1>3, <1>4, <1>6, <1>7, Facts DEF PoolIInv

LEMMA SpawnBlocksKeepsIInv ==
  ASSUME PoolIInv, NEW t \in Spawners, NEW k \in Tasks, SpawnBlocks(t, k)
  PROVE  PoolIInv'
<1>1. /\ k \in unused /\ unused' = unused \ {k} /\ spawns[t] = NoTask
      /\ queue' = Append(queue, t) /\ spawns' = [spawns EXCEPT ![t] = k]
      /\ UNCHANGED <<size, permits, wakes, running, event, sent, awaits>>
  BY DEF SpawnBlocks, Free
<1>2. /\ queue \in Seq(Spawners) /\ IsInjective(queue) /\ ~Contains(queue, t)
      /\ spawns \in [Spawners -> Tasks \cup {NoTask}]
  BY <1>1 DEF PoolIInv, PoolTypeOK, QueueExact
<1>3. /\ queue' \in Seq(Spawners) /\ IsInjective(queue')
      /\ \A u : Contains(queue', u) <=> Contains(queue, u) \/ u = t
  BY <1>1, <1>2, AppendNew
<1>4. k # NoTask /\ k \notin running
      /\ \A u \in Spawners : spawns'[u] = IF u = t THEN k ELSE spawns[u]
  BY <1>1, <1>2, GreenPoolAssumption DEF PoolIInv, TasksApart
<1>5. PoolTypeOK'
  BY <1>1, <1>2, <1>3 DEF PoolIInv, PoolTypeOK
<1>6. TasksApart'
  BY <1>1, <1>4 DEF PoolIInv, TasksApart
<1>7. QueueExact'
  BY <1>3, <1>4 DEF PoolIInv, QueueExact
<1> QED
  BY <1>1, <1>5, <1>6, <1>7 DEF PoolIInv, SlotsConserved, SentMeansIdle

LEMMA DoAcquireKeepsIInv ==
  ASSUME PoolIInv, PoolDoAcquire
  PROVE  PoolIInv' /\ (running' \subseteq running \/ Cardinality(running') <= size)
<1>1. /\ wakes' \in 0..MaxWakes
      /\ UNCHANGED <<size, unused, sent, awaits>>
  BY GreenPoolAssumption DEF PoolDoAcquire, PoolIInv, PoolTypeOK
<1>2. CASE UNCHANGED <<permits, queue, running, spawns, event>>
  BY <1>1, <1>2 DEF PoolIInv, PoolTypeOK, TasksApart, QueueExact, SlotsConserved, SentMeansIdle
<1>3. CASE /\ queue # <<>> /\ ~sem_locked
           /\ queue' = Tail(queue)
           /\ spawns' = [spawns EXCEPT ![Head(queue)] = NoTask]
           /\ Launch(spawns[Head(queue)])
  <2> DEFINE t == Head(queue)
             k == spawns[t]
  <2>1. t \in Spawners /\ k # NoTask
    <3>1. queue \in Seq(Spawners) /\ IsInjective(queue)
      BY DEF PoolIInv, PoolTypeOK, QueueExact
    <3>2. t \in Spawners /\ Contains(queue, t)
      BY <1>3, <3>1, TailOnce
    <3> QED
      BY <3>2 DEF PoolIInv, QueueExact
  <2>2. k \in Tasks /\ k \notin running
    BY <2>1 DEF PoolIInv, PoolTypeOK, TasksApart
  <2>3. /\ permits' \in Int /\ running' \subseteq Tasks
        /\ event' \in Nat /\ event' >= event /\ sent' \subseteq 0..event'
        /\ SlotsConserved' /\ SentMeansIdle'
        /\ Cardinality(running') = Cardinality(running) + 1
    BY <1>1, <1>3, <2>2, LaunchKeeps
  <2>4. /\ queue' \in Seq(Spawners)
        /\ spawns' \in [Spawners -> Tasks \cup {NoTask}]
        /\ QueueExact'
    BY <1>3, <2>1, LeaveKeeps
  <2>5. PoolTypeOK'
    BY <1>1, <2>3, <2>4, Facts DEF PoolIInv, PoolTypeOK
  <2>6. running' = running \cup {k} /\ spawns' = [spawns EXCEPT ![t] = NoTask]
    BY <1>3 DEF Launch
  <2>7. \A u \in Spawners : spawns'[u] = IF u = t THEN NoTask ELSE spawns[u]
    BY <2>6 DEF PoolIInv, PoolTypeOK
  <2> HIDE DEF t, k
  <2>8. NoTask \notin unused \cup running \cup {k}
    BY <2>2, GreenPoolAssumption DEF PoolIInv, PoolTypeOK
  <2>9. k = spawns[t] /\ k \notin unused
    BY <2>1 DEF k, PoolIInv, TasksApart
  <2>10. TasksApart'
    <3>1. ASSUME NEW u \in Spawners PROVE spawns'[u] \notin unused' \cup running'
      BY <1>1, <2>1, <2>6, <2>7, <2>8, <2>9 DEF PoolIInv, TasksApart
    <3>2. ASSUME NEW u \in Spawners, NEW v \in Spawners,
                 spawns'[u] = spawns'[v], spawns'[u] # NoTask
          PROVE  u = v
      BY <2>7, <3>2 DEF PoolIInv, TasksApart
    <3>3. unused' \cap running' = {}
      BY <1>1, <2>6, <2>9 DEF PoolIInv, TasksApart
    <3> QED
      BY <3>1, <3>2, <3>3 DEF TasksApart
  <2>11. Cardinality(running') <= size
    BY <1>3, <2>3, Facts DEF sem_locked
  <2> QED
    BY <2>3, <2>4, <2>5, <2>10, <2>11 DEF PoolIInv
<1> QED
  BY <1>2, <1>3 DEF PoolDoAcquire

LEMMA SpawnFailsKeepsIInv ==
  ASSUME PoolIInv, NEW t \in Spawners, SpawnFails(t)
  PROVE  PoolIInv'
<1>1. /\ spawns[t] # NoTask
      /\ queue' = RemoveFirst(queue, t) /\ spawns' = [spawns EXCEPT ![t] = NoTask]
      /\ unused' = unused \cup {spawns[t]}
      /\ UNCHANGED <<size, permits, wakes, running, event, sent, awaits>>
  BY DEF SpawnFails, LeaveQueue
<1>2. /\ queue' \in Seq(Spawners)
      /\ spawns' \in [Spawners -> Tasks \cup {NoTask}]
      /\ QueueExact'
  BY <1>1, LeaveKeeps
<1>3. PoolTypeOK'
  BY <1>1, <1>2 DEF PoolIInv, PoolTypeOK
<1>4. \A u \in Spawners : spawns'[u] = IF u = t THEN NoTask ELSE spawns[u]
  BY <1>1 DEF PoolIInv, PoolTypeOK
<1>5. NoTask \notin unused \cup running
  BY GreenPoolAssumption DEF PoolIInv, PoolTypeOK
<1>6. TasksApart'
  BY <1>1, <1>4, <1>5 DEF PoolIInv, TasksApart
<1> QED
  BY <1>1, <1>2, <1>3, <1>6 DEF PoolIInv, SlotsConserved, SentMeansIdle

LEMMA FinishKeepsIInv ==
  ASSUME PoolIInv, NEW k \in Tasks, Finish(k)
  PROVE  PoolIInv'
<1>1. /\ k \in running /\ wakes < MaxWakes /\ permits' = permits + 1
      /\ wakes' = (IF queue = <<>> THEN wakes ELSE wakes + 1)
      /\ running' = running \ {k}
      /\ sent' = IF IsIdle(k) THEN sent \cup {event} ELSE sent
      /\ UNCHANGED <<size, queue, spawns, unused, event, awaits>>
  BY DEF Finish, WakesNow
<1>2. Cardinality(running') = Cardinality(running) - 1
      /\ IsFiniteSet(running')
  BY <1>1, Facts, FS_RemoveElement
<1>3. PoolTypeOK'
  BY <1>1, Facts, GreenPoolAssumption DEF PoolIInv, PoolTypeOK
<1>4. TasksApart' /\ QueueExact'
  BY <1>1 DEF PoolIInv, TasksApart, QueueExact
<1>5. SlotsConserved'
  BY <1>1, <1>2, Facts DEF SlotsConserved
<1>6. IsIdle(k) => running' = {}
  <2>1. IsIdle(k) => Cardinality(running') = 0 - Len(queue)
    BY <1>2, Facts DEF IsIdle
  <2>2. IsIdle(k) => Cardinality(running') = 0
    BY <1>2, <2>1, Facts, FS_CardinalityType
  <2> QED
    BY <1>2, <2>2, FS_EmptySet
<1>7. SentMeansIdle'
  BY <1>1, <1>6 DEF PoolIInv, SentMeansIdle
<1> QED
  BY <1>3, <1>4, <1>5, <1>7 DEF PoolIInv

LEMMA OthersKeepIInv ==
  ASSUME PoolIInv,
         \/ \E c \in Callers : Waitall(c) \/ WaitallReturns(c) \/ WaitallFails(c)
         \/ \E n \in Sizes : Resize(n)
  PROVE  PoolIInv' /\ running' = running
<1>1. ASSUME NEW c \in Callers, Waitall(c) \/ WaitallReturns(c) \/ WaitallFails(c)
      PROVE  PoolIInv' /\ running' = running
  <2>1. /\ awaits' \in [Callers -> -1..event]
        /\ UNCHANGED <<size, permits, queue, wakes, running, spawns, unused, event, sent>>
    BY <1>1, Facts DEF Waitall, WaitallReturns, WaitallFails, semaphore, PoolIInv, PoolTypeOK
  <2> QED
    BY <2>1 DEF PoolIInv, PoolTypeOK, TasksApart, QueueExact, SlotsConserved, SentMeansIdle
<1>2. ASSUME NEW n \in Sizes, Resize(n)
      PROVE  PoolIInv' /\ running' = running
  <2>1. /\ permits' = permits + (n - size) /\ size' = n /\ n \in Nat
        /\ UNCHANGED <<queue, wakes, running, spawns, unused, event, sent, awaits>>
    BY <1>2, GreenPoolAssumption DEF Resize, Resized
  <2>2. PoolTypeOK' /\ SlotsConserved'
    BY <2>1, Facts DEF PoolIInv, PoolTypeOK, SlotsConserved
  <2> QED
    BY <2>1, <2>2 DEF PoolIInv, TasksApart, QueueExact, SentMeansIdle
<1> QED
  BY <1>1, <1>2

\* One step, and what it says of the tasks in the pool.
LEMMA PoolStepKeepsIInv ==
  ASSUME PoolIInv, [PoolNext]_poolVars
  PROVE  PoolIInv' /\ (running' \subseteq running \/ Cardinality(running') <= size)
<1>1. CASE PoolDoAcquire
  BY <1>1, DoAcquireKeepsIInv
<1>2. ASSUME NEW t \in Spawners, NEW k \in Tasks, SpawnNow(t, k)
      PROVE  PoolIInv' /\ Cardinality(running') <= size
  BY <1>2, SpawnNowKeepsIInv
<1>3. ASSUME NEW t \in Spawners, NEW k \in Tasks, SpawnBlocks(t, k)
      PROVE  PoolIInv' /\ running' = running
  BY <1>3, SpawnBlocksKeepsIInv DEF SpawnBlocks
<1>4. ASSUME NEW t \in Spawners, SpawnFails(t)
      PROVE  PoolIInv' /\ running' = running
  BY <1>4, SpawnFailsKeepsIInv DEF SpawnFails
<1>5. ASSUME NEW k \in Tasks, Finish(k)
      PROVE  PoolIInv' /\ running' \subseteq running
  BY <1>5, FinishKeepsIInv DEF Finish
<1>6. CASE UNCHANGED poolVars
  BY <1>6 DEF poolVars, PoolIInv, PoolTypeOK, TasksApart, QueueExact, SlotsConserved, SentMeansIdle
<1> QED
  BY <1>1, <1>2, <1>3, <1>4, <1>5, <1>6, OthersKeepIInv DEF PoolNext

\* Everything below rests on this invariant of every behaviour of the pool.
THEOREM PoolInductiveInvariant == PoolSafety => []PoolIInv
<1>1. PoolIInv /\ [PoolNext]_poolVars => PoolIInv'
  BY PoolStepKeepsIInv
<1> QED
  BY <1>1, PoolInitIInv, PTL DEF PoolSafety

\* The state of the pool stays well formed.
THEOREM PoolTypeCorrect == PoolSafety => []PoolTypeOK
<1>1. PoolIInv => PoolTypeOK
  BY DEF PoolIInv
<1> QED
  BY <1>1, PoolInductiveInvariant, PTL

\* The permits of the semaphore and the set of running tasks always add up to
\* the size of the pool.
THEOREM SlotsAreConserved == PoolSafety => []SlotsConserved
<1>1. PoolIInv => SlotsConserved
  BY DEF PoolIInv
<1> QED
  BY <1>1, PoolInductiveInvariant, PTL

\* _spawn_done sends the event of waitall() only when the pool is empty, and
\* spawn() replaces it before a task runs again.
THEOREM SentEventsMeanIdle == PoolSafety => []SentMeansIdle
<1>1. PoolIInv => SentMeansIdle
  BY DEF PoolIInv
<1> QED
  BY <1>1, PoolInductiveInvariant, PTL

\* No spawn takes the pool over its size, whatever it was resized to.
THEOREM SpawnsStayWithinSize == PoolSafety => LaunchesWithinSize
<1>1. PoolIInv /\ [PoolNext]_poolVars => [running' \subseteq running \/ Cardinality(running') <= size]_poolVars
  BY PoolStepKeepsIInv
<1> QED
  BY <1>1, PoolInductiveInvariant, PTL DEF PoolSafety, LaunchesWithinSize

-----------------------------------------------------------------------------
(* LightQueue *)

\* The thread that runs is in no call; a putter whose item was passed on is the
\* one _unlock comes back to.
Places ==
  /\ \A t \in QueueUsers : actor = t => state[t] = "none"
  /\ \A t \in handed : then = t /\ state[t] \in {"put", "put_nowait"}

\* The bound of the model leaves room for the timers of RefusePutters.
FullsFit ==
  \A t \in putters : state[t] = "put_nowait" => fulls[t] < MaxPending

\* get_nowait() in a callback found the queue empty.  If it was not a channel and
\* _unlock was not due, there was no putter that waited, and nothing ran since.
AskedInVain ==
  then = Hub /\ unlock = "none" =>
    maxsize = 0 \/ (actor = Hub /\ putters = {} /\ qsize = 0)

\* The queue grows in a step only within its size.
Grows == qsize' > qsize => qsize' <= maxsize \/ then' = Hub

QueueIInv ==
  /\ QueueTypeOK /\ QueueWaitersExact /\ UnlockIsDue
  /\ Places /\ FullsFit /\ AskedInVain

LEMMA QueueInitIInv == QueueInit => QueueIInv
<1> SUFFICES ASSUME QueueInit PROVE QueueIInv
  OBVIOUS
<1> USE LightQueueAssumption DEF QueueInit
<1>1. QueueTypeOK
  BY DEF QueueTypeOK
<1>2. QueueWaitersExact /\ UnlockIsDue /\ Places /\ FullsFit /\ AskedInVain
  BY DEF QueueWaitersExact, UnlockIsDue, Places, FullsFit, AskedInVain
<1> QED
  BY <1>1, <1>2 DEF QueueIInv

LEMMA RunKeeps ==
  ASSUME QueueIInv, NEW t \in QueueUsers, Run(t) \/ Sleep(t)
  PROVE  QueueIInv' /\ Grows
<1> USE LightQueueAssumption DEF Run, Sleep
<1>1. QueueTypeOK'
  BY DEF QueueIInv, QueueTypeOK, QueueWaitersExact, FullsFit
<1>2. QueueWaitersExact'
  BY DEF QueueIInv, QueueTypeOK, QueueWaitersExact, Places
<1>3. UnlockIsDue'
  BY DEF QueueIInv, QueueTypeOK, UnlockIsDue, AskedInVain, HasRoom
<1>4. Places'
  BY DEF QueueIInv, QueueTypeOK, Places, QueueWaitersExact
<1>5. FullsFit'
  BY DEF QueueIInv, QueueTypeOK, FullsFit, QueueWaitersExact
<1>6. AskedInVain'
  BY DEF QueueIInv, QueueTypeOK, AskedInVain, UnlockIsDue, HasRoom
<1>7. Grows
  BY DEF QueueIInv, QueueTypeOK, Grows, HasRoom
<1> QED
  BY <1>1, <1>2, <1>3, <1>4, <1>5, <1>6, <1>7 DEF QueueIInv

LEMMA PutNowKeeps ==
  ASSUME QueueIInv, NEW t \in QueueUsers, PutNow(t)
  PROVE  QueueIInv' /\ Grows
<1> USE LightQueueAssumption DEF PutNow, TellsGetters, ScheduleUnlock, Resume
<1>1. QueueTypeOK'
  BY DEF QueueIInv, QueueTypeOK, QueueWaitersExact, FullsFit
<1>2. QueueWaitersExact'
  BY DEF QueueIInv, QueueTypeOK, QueueWaitersExact, Places
<1>3. UnlockIsDue'
  BY DEF QueueIInv, QueueTypeOK, UnlockIsDue, AskedInVain, HasRoom
<1>4. Places'
  BY DEF QueueIInv, QueueTypeOK, Places, QueueWaitersExact
<1>5. FullsFit'
  BY DEF QueueIInv, QueueTypeOK, FullsFit, QueueWaitersExact
<1>6. AskedInVain'
  BY DEF QueueIInv, QueueTypeOK, AskedInVain, UnlockIsDue, HasRoom
<1>7. Grows
  BY DEF QueueIInv, QueueTypeOK, Grows, HasRoom
<1> QED
  BY <1>1, <1>2, <1>3, <1>4, <1>5, <1>6, <1>7 DEF QueueIInv

LEMMA PutWaitsKeeps ==
  ASSUME QueueIInv, NEW t \in QueueUsers, PutWaits(t) \/ PutNowaitWaits(t)
  PROVE  QueueIInv' /\ Grows
<1> USE LightQueueAssumption DEF PutWaits, PutNowaitWaits, TellsGetters, ScheduleUnlock, QueueSuspend
<1>1. QueueTypeOK'
  BY DEF QueueIInv, QueueTypeOK, QueueWaitersExact, FullsFit
<1>2. QueueWaitersExact'
  BY DEF QueueIInv, QueueTypeOK, QueueWaitersExact, Places
<1>3. UnlockIsDue'
  BY DEF QueueIInv, QueueTypeOK, UnlockIsDue, AskedInVain, HasRoom
<1>4. Places'
  BY DEF QueueIInv, QueueTypeOK, Places, QueueWaitersExact
<1>5. FullsFit'
  BY DEF QueueIInv, QueueTypeOK, FullsFit, QueueWaitersExact
<1>6. AskedInVain'
  BY DEF QueueIInv, QueueTypeOK, AskedInVain, UnlockIsDue, HasRoom
<1>7. Grows
  BY DEF QueueIInv, QueueTypeOK, Grows, HasRoom
<1> QED
  BY <1>1, <1>2, <1>3, <1>4, <1>5, <1>6, <1>7 DEF QueueIInv

LEMMA GetNowKeeps ==
  ASSUME QueueIInv, NEW t \in QueueUsers, GetNow(t)
  PROVE  QueueIInv' /\ Grows
<1> USE LightQueueAssumption DEF GetNow, HasItem, TellsPutters, HasPutters, ScheduleUnlock, Resume
<1>1. QueueTypeOK'
  BY DEF QueueIInv, QueueTypeOK, QueueWaitersExact, FullsFit
<1>2. QueueWaitersExact'
  BY DEF QueueIInv, QueueTypeOK, QueueWaitersExact, Places
<1>3. UnlockIsDue'
  BY DEF QueueIInv, QueueTypeOK, UnlockIsDue, AskedInVain, HasRoom
<1>4. Places'
  BY DEF QueueIInv, QueueTypeOK, Places, QueueWaitersExact
<1>5. FullsFit'
  BY DEF QueueIInv, QueueTypeOK, FullsFit, QueueWaitersExact
<1>6. AskedInVain'
  BY DEF QueueIInv, QueueTypeOK, AskedInVain, UnlockIsDue, HasRoom
<1>7. Grows
  BY DEF QueueIInv, QueueTypeOK, Grows, HasRoom
<1> QED
  BY <1>1, <1>2, <1>3, <1>4, <1>5, <1>6, <1>7 DEF QueueIInv

LEMMA GetWaitsKeeps ==
  ASSUME QueueIInv, NEW t \in QueueUsers, GetWaits(t)
  PROVE  QueueIInv' /\ Grows
<1> USE LightQueueAssumption DEF GetWaits, TellsPutters, HasPutters, ScheduleUnlock, QueueSuspend
<1>1. QueueTypeOK'
  BY DEF QueueIInv, QueueTypeOK, QueueWaitersExact, FullsFit
<1>2. QueueWaitersExact'
  BY DEF QueueIInv, QueueTypeOK, QueueWaitersExact, Places
<1>3. UnlockIsDue'
  BY DEF QueueIInv, QueueTypeOK, UnlockIsDue, AskedInVain, HasRoom
<1>4. Places'
  BY DEF QueueIInv, QueueTypeOK, Places, QueueWaitersExact
<1>5. FullsFit'
  BY DEF QueueIInv, QueueTypeOK, FullsFit, QueueWaitersExact
<1>6. AskedInVain'
  BY DEF QueueIInv, QueueTypeOK, AskedInVain, UnlockIsDue, HasRoom
<1>7. Grows
  BY DEF QueueIInv, QueueTypeOK, Grows, HasRoom
<1> QED
  BY <1>1, <1>2, <1>3, <1>4, <1>5, <1>6, <1>7 DEF QueueIInv

LEMMA RefusedKeeps ==
  ASSUME QueueIInv, NEW t \in QueueUsers, PutNowaitFull(t) \/ GetNowaitEmpty(t)
  PROVE  QueueIInv' /\ Grows
<1> USE LightQueueAssumption DEF PutNowaitFull, GetNowaitEmpty, Resume
<1>1. QueueTypeOK'
  BY DEF QueueIInv, QueueTypeOK, QueueWaitersExact, FullsFit
<1>2. QueueWaitersExact'
  BY DEF QueueIInv, QueueTypeOK, QueueWaitersExact, Places
<1>3. UnlockIsDue'
  BY DEF QueueIInv, QueueTypeOK, UnlockIsDue, AskedInVain, HasRoom
<1>4. Places'
  BY DEF QueueIInv, QueueTypeOK, Places, QueueWaitersExact
<1>5. FullsFit'
  BY DEF QueueIInv, QueueTypeOK, FullsFit, QueueWaitersExact
<1>6. AskedInVain'
  BY DEF QueueIInv, QueueTypeOK, AskedInVain, UnlockIsDue, HasRoom
<1>7. Grows
  BY DEF QueueIInv, QueueTypeOK, Grows, HasRoom
<1> QED
  BY <1>1, <1>2, <1>3, <1>4, <1>5, <1>6, <1>7 DEF QueueIInv

LEMMA resizeKeeps ==
  ASSUME QueueIInv, NEW t \in QueueUsers, NEW n \in MaxSizes, resize(t, n)
  PROVE  QueueIInv' /\ Grows
<1> USE LightQueueAssumption DEF resize, ScheduleUnlock
<1>1. QueueTypeOK'
  BY DEF QueueIInv, QueueTypeOK, QueueWaitersExact, FullsFit
<1>2. QueueWaitersExact'
  BY DEF QueueIInv, QueueTypeOK, QueueWaitersExact, Places
<1>3. UnlockIsDue'
  BY DEF QueueIInv, QueueTypeOK, UnlockIsDue, AskedInVain, HasRoom
<1>4. Places'
  BY DEF QueueIInv, QueueTypeOK, Places, QueueWaitersExact
<1>5. FullsFit'
  BY DEF QueueIInv, QueueTypeOK, FullsFit, QueueWaitersExact
<1>6. AskedInVain'
  BY DEF QueueIInv, QueueTypeOK, AskedInVain, UnlockIsDue, HasRoom
<1>7. Grows
  BY DEF QueueIInv, QueueTypeOK, Grows, HasRoom
<1> QED
  BY <1>1, <1>2, <1>3, <1>4, <1>5, <1>6, <1>7 DEF QueueIInv

LEMMA TimeoutKeeps ==
  ASSUME QueueIInv, NEW t \in QueueUsers, QueueTimeoutFires(t)
  PROVE  QueueIInv' /\ Grows
<1> USE LightQueueAssumption DEF QueueTimeoutFires, Discard, ScheduleUnlock, Resume
<1>1. QueueTypeOK'
  BY DEF QueueIInv, QueueTypeOK, QueueWaitersExact, FullsFit
<1>2. QueueWaitersExact'
  BY DEF QueueIInv, QueueTypeOK, QueueWaitersExact, Places
<1>3. UnlockIsDue'
  BY DEF QueueIInv, QueueTypeOK, UnlockIsDue, AskedInVain, HasRoom
<1>4. Places'
  BY DEF QueueIInv, QueueTypeOK, Places, QueueWaitersExact
<1>5. FullsFit'
  BY DEF QueueIInv, QueueTypeOK, FullsFit, QueueWaitersExact
<1>6. AskedInVain'
  BY DEF QueueIInv, QueueTypeOK, AskedInVain, UnlockIsDue, HasRoom
<1>7. Grows
  BY DEF QueueIInv, QueueTypeOK, Grows, HasRoom
<1> QED
  BY <1>1, <1>2, <1>3, <1>4, <1>5, <1>6, <1>7 DEF QueueIInv

LEMMA InterruptKeeps ==
  ASSUME QueueIInv, NEW t \in QueueUsers, QueueInterrupt(t)
  PROVE  QueueIInv' /\ Grows
<1> USE LightQueueAssumption DEF QueueInterrupt, ThrownInto, Discard, ScheduleUnlock, Resume
<1>1. QueueTypeOK'
  BY DEF QueueIInv, QueueTypeOK, QueueWaitersExact, FullsFit
<1>2. QueueWaitersExact'
  BY DEF QueueIInv, QueueTypeOK, QueueWaitersExact, Places
<1>3. UnlockIsDue'
  BY DEF QueueIInv, QueueTypeOK, UnlockIsDue, AskedInVain, HasRoom
<1>4. Places'
  BY DEF QueueIInv, QueueTypeOK, Places, QueueWaitersExact
<1>5. FullsFit'
  BY DEF QueueIInv, QueueTypeOK, FullsFit, QueueWaitersExact
<1>6. AskedInVain'
  BY DEF QueueIInv, QueueTypeOK, AskedInVain, UnlockIsDue, HasRoom
<1>7. Grows
  BY DEF QueueIInv, QueueTypeOK, Grows, HasRoom
<1> QED
  BY <1>1, <1>2, <1>3, <1>4, <1>5, <1>6, <1>7 DEF QueueIInv

LEMMA ThrowFullKeeps ==
  ASSUME QueueIInv, NEW t \in QueueUsers, ThrowFull(t)
  PROVE  QueueIInv' /\ Grows
<1> USE LightQueueAssumption DEF ThrowFull, ThrownInto, Discard, ScheduleUnlock, Resume
<1>1. QueueTypeOK'
  BY DEF QueueIInv, QueueTypeOK, QueueWaitersExact, FullsFit
<1>2. QueueWaitersExact'
  BY DEF QueueIInv, QueueTypeOK, QueueWaitersExact, Places
<1>3. UnlockIsDue'
  BY DEF QueueIInv, QueueTypeOK, UnlockIsDue, AskedInVain, HasRoom
<1>4. Places'
  BY DEF QueueIInv, QueueTypeOK, Places, QueueWaitersExact
<1>5. FullsFit'
  BY DEF QueueIInv, QueueTypeOK, FullsFit, QueueWaitersExact
<1>6. AskedInVain'
  BY DEF QueueIInv, QueueTypeOK, AskedInVain, UnlockIsDue, HasRoom
<1>7. Grows
  BY DEF QueueIInv, QueueTypeOK, Grows, HasRoom
<1> QED
  BY <1>1, <1>2, <1>3, <1>4, <1>5, <1>6, <1>7 DEF QueueIInv

LEMMA UnlockTurnsKeep ==
  ASSUME QueueIInv, UnlockBegins \/ UnlockEnds
  PROVE  QueueIInv' /\ Grows
<1> USE LightQueueAssumption DEF UnlockBegins, UnlockEnds, Unlocking, HasPutters, NowaitPutters
<1>1. QueueTypeOK'
  BY DEF QueueIInv, QueueTypeOK, QueueWaitersExact, FullsFit
<1>2. QueueWaitersExact'
  BY DEF QueueIInv, QueueTypeOK, QueueWaitersExact, Places
<1>3. UnlockIsDue'
  BY DEF QueueIInv, QueueTypeOK, UnlockIsDue, AskedInVain, HasRoom
<1>4. Places'
  BY DEF QueueIInv, QueueTypeOK, Places, QueueWaitersExact
<1>5. FullsFit'
  BY DEF QueueIInv, QueueTypeOK, FullsFit, QueueWaitersExact
<1>6. AskedInVain'
  BY DEF QueueIInv, QueueTypeOK, AskedInVain, UnlockIsDue, HasRoom
<1>7. Grows
  BY DEF QueueIInv, QueueTypeOK, Grows, HasRoom
<1> QED
  BY <1>1, <1>2, <1>3, <1>4, <1>5, <1>6, <1>7 DEF QueueIInv

LEMMA ServeGetterKeeps ==
  ASSUME QueueIInv, ServeGetter
  PROVE  QueueIInv' /\ Grows
<1> USE LightQueueAssumption DEF ServeGetter, Unlocking, HasItem, Resume
<1>1. QueueTypeOK'
  BY DEF QueueIInv, QueueTypeOK, QueueWaitersExact, FullsFit
<1>2. QueueWaitersExact'
  BY DEF QueueIInv, QueueTypeOK, QueueWaitersExact, Places
<1>3. UnlockIsDue'
  BY DEF QueueIInv, QueueTypeOK, UnlockIsDue, AskedInVain, HasRoom
<1>4. Places'
  BY DEF QueueIInv, QueueTypeOK, Places, QueueWaitersExact
<1>5. FullsFit'
  BY DEF QueueIInv, QueueTypeOK, FullsFit, QueueWaitersExact
<1>6. AskedInVain'
  BY DEF QueueIInv, QueueTypeOK, AskedInVain, UnlockIsDue, HasRoom
<1>7. Grows
  BY DEF QueueIInv, QueueTypeOK, Grows, HasRoom
<1> QED
  BY <1>1, <1>2, <1>3, <1>4, <1>5, <1>6, <1>7 DEF QueueIInv

LEMMA DropStaleKeeps ==
  ASSUME QueueIInv, DropStale
  PROVE  QueueIInv' /\ Grows
<1> USE LightQueueAssumption DEF DropStale, Unlocking
<1>1. QueueTypeOK'
  BY DEF QueueIInv, QueueTypeOK, QueueWaitersExact, FullsFit
<1>2. QueueWaitersExact'
  BY DEF QueueIInv, QueueTypeOK, QueueWaitersExact, Places
<1>3. UnlockIsDue'
  BY DEF QueueIInv, QueueTypeOK, UnlockIsDue, AskedInVain, HasRoom
<1>4. Places'
  BY DEF QueueIInv, QueueTypeOK, Places, QueueWaitersExact
<1>5. FullsFit'
  BY DEF QueueIInv, QueueTypeOK, FullsFit, QueueWaitersExact
<1>6. AskedInVain'
  BY DEF QueueIInv, QueueTypeOK, AskedInVain, UnlockIsDue, HasRoom
<1>7. Grows
  BY DEF QueueIInv, QueueTypeOK, Grows, HasRoom
<1> QED
  BY <1>1, <1>2, <1>3, <1>4, <1>5, <1>6, <1>7 DEF QueueIInv

LEMMA PassItemKeeps ==
  ASSUME QueueIInv, PassItem
  PROVE  QueueIInv' /\ Grows
<1> USE LightQueueAssumption DEF PassItem, Unlocking, Hand, Resume
<1>1. QueueTypeOK'
  BY DEF QueueIInv, QueueTypeOK, QueueWaitersExact, FullsFit
<1>2. QueueWaitersExact'
  BY DEF QueueIInv, QueueTypeOK, QueueWaitersExact, Places
<1>3. UnlockIsDue'
  BY DEF QueueIInv, QueueTypeOK, UnlockIsDue, AskedInVain, HasRoom
<1>4. Places'
  BY DEF QueueIInv, QueueTypeOK, Places, QueueWaitersExact
<1>5. FullsFit'
  BY DEF QueueIInv, QueueTypeOK, FullsFit, QueueWaitersExact
<1>6. AskedInVain'
  BY DEF QueueIInv, QueueTypeOK, AskedInVain, UnlockIsDue, HasRoom
<1>7. Grows
  BY DEF QueueIInv, QueueTypeOK, Grows, HasRoom
<1> QED
  BY <1>1, <1>2, <1>3, <1>4, <1>5, <1>6, <1>7 DEF QueueIInv

LEMMA SwitchToPutterKeeps ==
  ASSUME QueueIInv, SwitchToPutter
  PROVE  QueueIInv' /\ Grows
<1> USE LightQueueAssumption DEF SwitchToPutter, Resume
<1>1. QueueTypeOK'
  BY DEF QueueIInv, QueueTypeOK, QueueWaitersExact, FullsFit
<1>2. QueueWaitersExact'
  BY DEF QueueIInv, QueueTypeOK, QueueWaitersExact, Places
<1>3. UnlockIsDue'
  BY DEF QueueIInv, QueueTypeOK, UnlockIsDue, AskedInVain, HasRoom
<1>4. Places'
  BY DEF QueueIInv, QueueTypeOK, Places, QueueWaitersExact
<1>5. FullsFit'
  BY DEF QueueIInv, QueueTypeOK, FullsFit, QueueWaitersExact
<1>6. AskedInVain'
  BY DEF QueueIInv, QueueTypeOK, AskedInVain, UnlockIsDue, HasRoom
<1>7. Grows
  BY DEF QueueIInv, QueueTypeOK, Grows, HasRoom
<1> QED
  BY <1>1, <1>2, <1>3, <1>4, <1>5, <1>6, <1>7 DEF QueueIInv

LEMMA AdmitPutterKeeps ==
  ASSUME QueueIInv, AdmitPutter
  PROVE  QueueIInv' /\ Grows
<1> USE LightQueueAssumption DEF AdmitPutter, Unlocking, RoomForPutter, WakePutter, Resume
<1>1. QueueTypeOK'
  BY DEF QueueIInv, QueueTypeOK, QueueWaitersExact, FullsFit
<1>2. QueueWaitersExact'
  BY DEF QueueIInv, QueueTypeOK, QueueWaitersExact, Places
<1>3. UnlockIsDue'
  BY DEF QueueIInv, QueueTypeOK, UnlockIsDue, AskedInVain, HasRoom
<1>4. Places'
  BY DEF QueueIInv, QueueTypeOK, Places, QueueWaitersExact
<1>5. FullsFit'
  BY DEF QueueIInv, QueueTypeOK, FullsFit, QueueWaitersExact
<1>6. AskedInVain'
  BY DEF QueueIInv, QueueTypeOK, AskedInVain, UnlockIsDue, HasRoom
<1>7. Grows
  BY DEF QueueIInv, QueueTypeOK, Grows, HasRoom
<1> QED
  BY <1>1, <1>2, <1>3, <1>4, <1>5, <1>6, <1>7 DEF QueueIInv

LEMMA RefusePuttersKeeps ==
  ASSUME QueueIInv, RefusePutters
  PROVE  QueueIInv' /\ Grows
<1> USE LightQueueAssumption DEF RefusePutters, Unlocking, NowaitPutters
<1>1. QueueTypeOK'
  BY DEF QueueIInv, QueueTypeOK, QueueWaitersExact, FullsFit
<1>2. QueueWaitersExact'
  BY DEF QueueIInv, QueueTypeOK, QueueWaitersExact, Places
<1>3. UnlockIsDue'
  BY DEF QueueIInv, QueueTypeOK, UnlockIsDue, AskedInVain, HasRoom
<1>4. Places'
  BY DEF QueueIInv, QueueTypeOK, Places, QueueWaitersExact
<1>5. FullsFit'
  BY DEF QueueIInv, QueueTypeOK, FullsFit, QueueWaitersExact
<1>6. AskedInVain'
  BY DEF QueueIInv, QueueTypeOK, AskedInVain, UnlockIsDue, HasRoom
<1>7. Grows
  BY DEF QueueIInv, QueueTypeOK, Grows, HasRoom
<1> QED
  BY <1>1, <1>2, <1>3, <1>4, <1>5, <1>6, <1>7 DEF QueueIInv

LEMMA HubPutKeeps ==
  ASSUME QueueIInv, HubPut
  PROVE  QueueIInv' /\ Grows
<1> USE LightQueueAssumption DEF HubPut, TellsGetters, ScheduleUnlock, Resume
<1>1. QueueTypeOK'
  BY DEF QueueIInv, QueueTypeOK, QueueWaitersExact, FullsFit
<1>2. QueueWaitersExact'
  BY DEF QueueIInv, QueueTypeOK, QueueWaitersExact, Places
<1>3. UnlockIsDue'
  BY DEF QueueIInv, QueueTypeOK, UnlockIsDue, AskedInVain, HasRoom
<1>4. Places'
  BY DEF QueueIInv, QueueTypeOK, Places, QueueWaitersExact
<1>5. FullsFit'
  BY DEF QueueIInv, QueueTypeOK, FullsFit, QueueWaitersExact
<1>6. AskedInVain'
  BY DEF QueueIInv, QueueTypeOK, AskedInVain, UnlockIsDue, HasRoom
<1>7. Grows
  BY DEF QueueIInv, QueueTypeOK, Grows, HasRoom
<1> QED
  BY <1>1, <1>2, <1>3, <1>4, <1>5, <1>6, <1>7 DEF QueueIInv

LEMMA HubGetKeeps ==
  ASSUME QueueIInv, HubGet
  PROVE  QueueIInv' /\ Grows
<1> USE LightQueueAssumption DEF HubGet, HasItem, TellsPutters, HasPutters, ScheduleUnlock
<1>1. QueueTypeOK'
  BY DEF QueueIInv, QueueTypeOK, QueueWaitersExact, FullsFit
<1>2. QueueWaitersExact'
  BY DEF QueueIInv, QueueTypeOK, QueueWaitersExact, Places
<1>3. UnlockIsDue'
  BY DEF QueueIInv, QueueTypeOK, UnlockIsDue, AskedInVain, HasRoom
<1>4. Places'
  BY DEF QueueIInv, QueueTypeOK, Places, QueueWaitersExact
<1>5. FullsFit'
  BY DEF QueueIInv, QueueTypeOK, FullsFit, QueueWaitersExact
<1>6. AskedInVain'
  BY DEF QueueIInv, QueueTypeOK, AskedInVain, UnlockIsDue, HasRoom
<1>7. Grows
  BY DEF QueueIInv, QueueTypeOK, Grows, HasRoom
<1> QED
  BY <1>1, <1>2, <1>3, <1>4, <1>5, <1>6, <1>7 DEF QueueIInv

LEMMA HubGetAsksKeeps ==
  ASSUME QueueIInv, HubGetAsks
  PROVE  QueueIInv' /\ Grows
<1> USE LightQueueAssumption DEF HubGetAsks, WakePutter, Resume
<1>1. QueueTypeOK'
  BY DEF QueueIInv, QueueTypeOK, QueueWaitersExact, FullsFit
<1>2. QueueWaitersExact'
  BY DEF QueueIInv, QueueTypeOK, QueueWaitersExact, Places
<1>3. UnlockIsDue'
  BY DEF QueueIInv, QueueTypeOK, UnlockIsDue, AskedInVain, HasRoom
<1>4. Places'
  BY DEF QueueIInv, QueueTypeOK, Places, QueueWaitersExact
<1>5. FullsFit'
  BY DEF QueueIInv, QueueTypeOK, FullsFit, QueueWaitersExact
<1>6. AskedInVain'
  BY DEF QueueIInv, QueueTypeOK, AskedInVain, UnlockIsDue, HasRoom
<1>7. Grows
  BY DEF QueueIInv, QueueTypeOK, Grows, HasRoom
<1> QED
  BY <1>1, <1>2, <1>3, <1>4, <1>5, <1>6, <1>7 DEF QueueIInv

LEMMA HubGetEndsKeeps ==
  ASSUME QueueIInv, HubGetEnds
  PROVE  QueueIInv' /\ Grows
<1> USE LightQueueAssumption DEF HubGetEnds, HasItem, HasPutters
<1>1. QueueTypeOK'
  BY DEF QueueIInv, QueueTypeOK, QueueWaitersExact, FullsFit
<1>2. QueueWaitersExact'
  BY DEF QueueIInv, QueueTypeOK, QueueWaitersExact, Places
<1>3. UnlockIsDue'
  BY DEF QueueIInv, QueueTypeOK, UnlockIsDue, AskedInVain, HasRoom
<1>4. Places'
  BY DEF QueueIInv, QueueTypeOK, Places, QueueWaitersExact
<1>5. FullsFit'
  BY DEF QueueIInv, QueueTypeOK, FullsFit, QueueWaitersExact
<1>6. AskedInVain'
  BY DEF QueueIInv, QueueTypeOK, AskedInVain, UnlockIsDue, HasRoom
<1>7. Grows
  BY DEF QueueIInv, QueueTypeOK, Grows, HasRoom
<1> QED
  BY <1>1, <1>2, <1>3, <1>4, <1>5, <1>6, <1>7 DEF QueueIInv

-----------------------------------------------------------------------------

LEMMA QueueStepKeepsIInv ==
  ASSUME QueueIInv, [QueueNext]_queueVars
  PROVE  QueueIInv' /\ (Grows \/ UNCHANGED queueVars)
<1>1. CASE Unlock
  BY <1>1, UnlockTurnsKeep, ServeGetterKeeps, DropStaleKeeps, PassItemKeeps,
    SwitchToPutterKeeps, AdmitPutterKeeps, RefusePuttersKeeps DEF Unlock
<1>2. CASE Callback
  BY <1>2, HubPutKeeps, HubGetKeeps, HubGetAsksKeeps, HubGetEndsKeeps DEF Callback
<1>3. ASSUME NEW t \in QueueUsers, Thread(t)
      PROVE  QueueIInv' /\ Grows
  BY <1>3, RunKeeps, PutNowKeeps, PutWaitsKeeps, GetNowKeeps, GetWaitsKeeps,
    RefusedKeeps, resizeKeeps, TimeoutKeeps, InterruptKeeps, ThrowFullKeeps DEF Thread
<1>4. CASE UNCHANGED queueVars
  BY <1>4 DEF queueVars, QueueIInv, QueueTypeOK, QueueWaitersExact, UnlockIsDue, HasRoom, Places,
    FullsFit, AskedInVain
<1> QED
  BY <1>1, <1>2, <1>3, <1>4 DEF QueueNext

LEMMA QueueInductiveInvariant == QueueSafety => []QueueIInv
<1>1. QueueIInv /\ [QueueNext]_queueVars => QueueIInv'
  BY QueueStepKeepsIInv
<1> QED
  BY <1>1, QueueInitIInv, PTL DEF QueueSafety

\* The state of a queue and of its waiters stays well formed.
THEOREM QueueTypeCorrect == QueueSafety => []QueueTypeOK
<1>1. QueueIInv => QueueTypeOK
  BY DEF QueueIInv
<1> QED
  BY <1>1, QueueInductiveInvariant, PTL

\* _unlock is scheduled whenever it has something to do, whatever _schedule_unlock
\* calls the threads, their timeouts, kills and the callbacks make, and even if
\* _unlock itself fails.
THEOREM UnlockIsAlwaysDue == QueueSafety => []UnlockIsDue
<1>1. QueueIInv => UnlockIsDue
  BY DEF QueueIInv
<1> QED
  BY <1>1, QueueInductiveInvariant, PTL

\* No waiter is lost and none is left behind, but those of put_nowait().
THEOREM QueueWaitersAreExact == QueueSafety => []QueueWaitersExact
<1>1. QueueIInv => QueueWaitersExact
  BY DEF QueueIInv
<1> QED
  BY <1>1, QueueInductiveInvariant, PTL

\* No put takes the queue over its size.
THEOREM QueueStaysWithinSize == QueueSafety => NeverOverfull
<1>1. QueueIInv /\ [QueueNext]_queueVars => [qsize' > qsize => qsize' <= maxsize \/ then' = Hub]_queueVars
  BY QueueStepKeepsIInv DEF Grows
<1> QED
  BY <1>1, QueueInductiveInvariant, PTL DEF QueueSafety, NeverOverfull

-----------------------------------------------------------------------------
(* LightQueue implements Buffer *)

\* What Buffer sees of a thread.
Doing(t) ==
  IF t \in handed \/ state[t] = "none" THEN "none"
  ELSE IF state[t] = "get" THEN "get" ELSE "put"

Ended(t) == IF t \in handed THEN "ok" ELSE result[t]

\* A step in which the call of one thread ends.
LEMMA OneCallEnds ==
  ASSUME QueueIInv, NEW t \in QueueUsers, NEW r, Resume(t, r), handed' = handed \ {t}
  PROVE  HandsOver!Done(t, r)
<1>1. /\ state \in [QueueUsers -> {"none", "put", "put_nowait", "get"}]
      /\ result \in [QueueUsers -> {"ok", "full", "empty", "interrupted"}]
  BY DEF QueueIInv, QueueTypeOK
<1>2. \A u \in QueueUsers : Doing(u)' = IF u = t THEN "none" ELSE Doing(u)
  BY <1>1 DEF Resume, Doing
<1>3. \A u \in QueueUsers : Ended(u)' = IF u = t THEN r ELSE Ended(u)
  BY <1>1 DEF Resume, Ended
<1> QED
  BY <1>2, <1>3 DEF HandsOver!Done, Doing, Ended

LEMMA OneCallBlocks ==
  ASSUME QueueIInv, NEW t \in QueueUsers, state[t] = "none",
         NEW call \in {"put", "put_nowait", "get"}, QueueSuspend(t, call),
         UNCHANGED <<qsize, handed>>
  PROVE  HandsOver!Block(t, IF call = "get" THEN "get" ELSE "put")
<1> DEFINE op == IF call = "get" THEN "get" ELSE "put"
<1>1. /\ state \in [QueueUsers -> {"none", "put", "put_nowait", "get"}]
      /\ t \notin handed
  BY DEF QueueIInv, QueueTypeOK, Places
<1>2. \A u \in QueueUsers : Doing(u)' = IF u = t THEN op ELSE Doing(u)
  BY <1>1 DEF QueueSuspend, Doing
<1>3. UNCHANGED result
  BY DEF QueueSuspend
<1> QED
  BY <1>1, <1>2, <1>3 DEF HandsOver!Block, Doing

LEMMA StepImplementsBuffer ==
  ASSUME QueueIInv, [QueueNext]_queueVars
  PROVE  HandsOver!Next \/ UNCHANGED HandsOver!vars
<1> USE DEF HandsOver!vars
<1>1. /\ state \in [QueueUsers -> {"none", "put", "put_nowait", "get"}]
      /\ \A t \in QueueUsers : actor = t => state[t] = "none"
      /\ \A t \in handed : t \in QueueUsers /\ then = t /\ state[t] \in {"put", "put_nowait"}
      /\ getters = {t \in QueueUsers : state[t] = "get"}
      /\ putters \subseteq QueueUsers
      /\ \A t \in putters : state[t] \in {"put", "put_nowait"} /\ t \notin handed
      /\ Hub \notin QueueUsers /\ NoOne \notin QueueUsers
  BY LightQueueAssumption DEF QueueIInv, QueueTypeOK, QueueWaitersExact, Places
<1>2. ASSUME UNCHANGED <<qsize, state, handed, result>>
      PROVE  UNCHANGED HandsOver!vars
  BY <1>2
\* A call of t ends: Put, Get or Fail.
<1>3. ASSUME NEW t \in QueueUsers, t \in putters \/ state[t] = "none", Resume(t, "ok"),
             qsize' = qsize + 1, UNCHANGED handed
      PROVE  HandsOver!Next
  <2>1. HandsOver!Done(t, "ok")
    BY <1>1, <1>3, OneCallEnds
  <2> QED
    BY <1>1, <1>3, <2>1 DEF HandsOver!Put, HandsOver!Next
<1>4. ASSUME NEW t \in QueueUsers, state[t] \in {"get", "none"}, Resume(t, "ok"),
             qsize > 0, qsize' = qsize - 1, UNCHANGED handed
      PROVE  HandsOver!Next
  <2>1. HandsOver!Done(t, "ok")
    BY <1>1, <1>4, OneCallEnds
  <2> QED
    BY <1>1, <1>4, <2>1 DEF HandsOver!Get, HandsOver!Next
<1>5. ASSUME NEW t \in QueueUsers, handed' = handed \ {t}, UNCHANGED qsize,
             NEW r, Resume(t, r),
             \/ r = "full" /\ state[t] # "get"
             \/ r = "empty" /\ state[t] \in {"get", "none"}
             \/ r = "interrupted"
      PROVE  HandsOver!Next
  <2>1. HandsOver!Done(t, r)
    BY <1>5, OneCallEnds
  <2> QED
    BY <1>1, <1>5, <2>1 DEF HandsOver!Fail, HandsOver!Next
<1>6. ASSUME NEW p \in putters, WakePutter(p), UNCHANGED handed
      PROVE  HandsOver!Next
  <2>1. CASE state[p] = "put" /\ qsize' = qsize + 1 /\ Resume(p, "ok")
    BY <1>1, <1>3, <1>6, <2>1
  <2>2. CASE state[p] = "put_nowait" /\ Resume(p, "full") /\ UNCHANGED qsize
    BY <1>1, <1>5, <1>6, <2>2
  <2> QED
    BY <1>6, <2>1, <2>2 DEF WakePutter
<1>7. ASSUME NEW t \in QueueUsers, Thread(t)
      PROVE  HandsOver!Next \/ UNCHANGED HandsOver!vars
  <2>1. CASE Run(t) \/ Sleep(t) \/ \E n \in MaxSizes : resize(t, n)
    BY <1>2, <2>1 DEF Run, Sleep, resize
  <2>2. CASE PutNow(t)
    BY <1>1, <1>3, <2>2 DEF PutNow
  <2>3. CASE PutWaits(t) \/ PutNowaitWaits(t)
    BY <1>1, <2>3, OneCallBlocks DEF PutWaits, PutNowaitWaits, HandsOver!Next
  <2>4. CASE PutNowaitFull(t) \/ GetNowaitEmpty(t)
    BY <1>1, <1>5, <2>4 DEF PutNowaitFull, GetNowaitEmpty
  <2>5. CASE GetNow(t)
    BY <1>1, <1>4, <2>5 DEF GetNow, HasItem
  <2>6. CASE GetWaits(t)
    BY <1>1, <2>6, OneCallBlocks DEF GetWaits, HandsOver!Next
  <2>7. CASE QueueTimeoutFires(t)
    BY <1>1, <1>5, <2>7 DEF QueueTimeoutFires
  <2>8. CASE QueueInterrupt(t)
    BY <1>5, <2>8 DEF QueueInterrupt, ThrownInto
  <2>9. CASE ThrowFull(t)
    BY <1>1, <1>5, <2>9 DEF ThrowFull, ThrownInto
  <2> QED
    BY <1>7, <2>1, <2>2, <2>3, <2>4, <2>5, <2>6, <2>7, <2>8, <2>9 DEF Thread
<1>8. CASE Unlock
  <2>1. CASE UnlockBegins \/ UnlockEnds \/ DropStale \/ RefusePutters
    BY <1>2, <2>1 DEF UnlockBegins, UnlockEnds, DropStale, RefusePutters
  <2>2. CASE ServeGetter
    BY <1>1, <1>4, <2>2 DEF ServeGetter, HasItem
  <2>3. CASE PassItem
    <3>1. PICK p \in putters, g \in getters :
            handed' = handed \cup {p} /\ Resume(g, "ok")
      BY <2>3 DEF PassItem, Hand
    <3>2. p \in QueueUsers /\ g \in QueueUsers /\ p # g /\ handed = {}
      BY <1>1, <2>3 DEF PassItem, Unlocking
    <3>3. \A u \in QueueUsers : Doing(u)' = IF u \in {p, g} THEN "none" ELSE Doing(u)
      BY <1>1, <3>1, <3>2 DEF Doing, Resume
    <3>4. \A u \in QueueUsers : Ended(u)' = IF u \in {p, g} THEN "ok" ELSE Ended(u)
      BY <1>1, <3>1, <3>2 DEF Ended, Resume, QueueIInv, QueueTypeOK
    <3>5. Doing(p) = "put" /\ Doing(g) = "get" /\ qsize = 0 /\ UNCHANGED qsize
      BY <1>1, <2>3, <3>1, <3>2 DEF Doing, PassItem
    <3>6. HandsOver!Pass(p, g)
      BY <3>2, <3>3, <3>4, <3>5 DEF HandsOver!Pass, Doing, Ended
    <3> QED
      BY <3>2, <3>6 DEF HandsOver!Next
  <2>4. CASE SwitchToPutter
    <3>1. \A u \in QueueUsers : Doing(u)' = Doing(u) /\ Ended(u)' = Ended(u)
      BY <1>1, <2>4 DEF SwitchToPutter, Resume, Doing, Ended, QueueIInv, QueueTypeOK
    <3> QED
      BY <2>4, <3>1 DEF SwitchToPutter, Doing, Ended
  <2>5. CASE AdmitPutter
    BY <1>6, <2>5 DEF AdmitPutter
  <2> QED
    BY <1>8, <2>1, <2>2, <2>3, <2>4, <2>5 DEF Unlock
<1>9. CASE Callback
  <2>1. ASSUME NEW g \in getters, Resume(g, "ok"), UNCHANGED <<qsize, handed>>
        PROVE  HandsOver!Next
    <3>1. HandsOver!Done(g, "ok")
      BY <1>1, <2>1, OneCallEnds
    <3> QED
      BY <1>1, <2>1, <3>1 DEF HandsOver!Callback, HandsOver!Next
  <2>2. ASSUME qsize' = qsize + 1 \/ (qsize > 0 /\ qsize' = qsize - 1),
               UNCHANGED <<state, handed, result>>
        PROVE  HandsOver!Next
    BY <2>2 DEF HandsOver!Callback, HandsOver!Next
  <2>3. CASE HubPut
    BY <2>1, <2>2, <2>3 DEF HubPut
  <2>4. CASE HubGet \/ HubGetEnds
    BY <1>2, <2>2, <2>4 DEF HubGet, HubGetEnds, HasItem
  <2>5. CASE HubGetAsks
    BY <1>2, <1>6, <2>5 DEF HubGetAsks
  <2> QED
    BY <1>9, <2>3, <2>4, <2>5 DEF Callback
<1>10. CASE UNCHANGED queueVars
  BY <1>2, <1>10 DEF queueVars
<1> QED
  BY <1>7, <1>8, <1>9, <1>10 DEF QueueNext

\* Whatever waits, is woken, times out or is thrown at, every item changes hands
\* as Buffer says: a put that returned put one item, one that raised put none.
THEOREM ImplementsTransfer == QueueSafety => IsBuffer
<1>1. QueueInit => HandsOver!Init
  BY DEF QueueInit, HandsOver!Init
<1> QED
  BY <1>1, QueueInductiveInvariant, StepImplementsBuffer, PTL
    DEF QueueSafety, IsBuffer, HandsOver!Safety
=============================================================================
