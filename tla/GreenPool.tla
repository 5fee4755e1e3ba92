------------------------------ MODULE GreenPool ------------------------------
(***************************************************************************)
(* eventlet/greenpool.py: GreenPool.                                       *)
(*                                                                         *)
(* A task is one function given to spawn() or spawn_n(), and the           *)
(* greenthread that runs it.  The semaphore of the pool is the one of      *)
(* module Semaphore, of which spawn() uses the untimed acquire; waitall()  *)
(* waits for an Event that spawn() replaces when it finds the pool empty.  *)
(* A spawn() that runs the function in the calling task, because the pool  *)
(* is full, changes nothing here and is no step.                           *)
(***************************************************************************)
EXTENDS Integers, Sequences, FiniteSets, SequencesExt

CONSTANTS
  Callers,    \* threads outside of the pool: they spawn, wait and resize
  Tasks,      \* what is spawned; a task may spawn others
  Sizes,      \* the sizes the pool is given
  NoTask,     \* what a thread that is not blocked in spawn() spawns
  MaxWakes    \* bound of the model: pending _do_acquire timers

ASSUME GreenPoolAssumption ==
  /\ IsFiniteSet(Tasks)
  /\ Callers \cap Tasks = {}
  /\ NoTask \notin Tasks
  /\ Sizes \subseteq Nat
  /\ MaxWakes \in Nat

Spawners == Callers \cup Tasks

VARIABLES
  size,      \* self.size
  permits,   \* self.sem.counter
  queue,     \* self.sem._waiters
  wakes,     \* _do_acquire timers with the hub
  running,   \* self.coroutines_running
  spawns,    \* the task with which each thread is blocked in spawn()
  unused,    \* tasks not given to the pool yet
  event,     \* self.no_coros_running: how many were made before this one
  sent,      \* the events that were sent
  awaits     \* the event each caller waits for in waitall(), or -1

poolVars == <<size, permits, queue, wakes, running, spawns, unused, event, sent, awaits>>

semaphore == <<permits, queue, wakes>>

PoolTypeOK ==
  /\ size \in Sizes
  /\ permits \in Int
  /\ queue \in Seq(Spawners)
  /\ wakes \in 0..MaxWakes
  /\ running \subseteq Tasks
  /\ spawns \in [Spawners -> Tasks \cup {NoTask}]
  /\ unused \subseteq Tasks
  /\ event \in Nat
  /\ sent \subseteq 0..event
  /\ awaits \in [Callers -> -1..event]

PoolInit ==
  /\ size \in Sizes
  /\ permits = size
  /\ queue = <<>>
  /\ wakes = 0
  /\ running = {}
  /\ spawns = [t \in Spawners |-> NoTask]
  /\ unused = Tasks
  /\ event = 0
  /\ sent = {}
  /\ awaits = [c \in Callers |-> -1]

\* The thread is not blocked in spawn() or waitall().
Free(t) ==
  /\ spawns[t] = NoTask
  /\ t \in running \/ (t \in Callers /\ awaits[t] = -1)

sem_locked == permits <= 0

-----------------------------------------------------------------------------
(* spawn() and spawn_n() *)

\* Faulty: an event that was sent is not replaced.
RenewNever == event

\* A new event for waitall() whenever the pool was empty.
Renew == IF running = {} THEN event + 1 ELSE event

\* spawn() once it has its permit.
Launch(k) ==
  /\ permits' = permits - 1
  /\ event' = Renew
  /\ running' = running \cup {k}

\* A task of a full pool runs the function itself.
RunsInline(t) == sem_locked /\ t \in running

SpawnNow(t, k) ==
  /\ Free(t)
  /\ k \in unused
  /\ ~sem_locked /\ queue = <<>>
  /\ unused' = unused \ {k}
  /\ Launch(k)
  /\ UNCHANGED <<size, queue, wakes, spawns, sent, awaits>>

\* acquire() queues behind the others, even when a permit is free.
SpawnBlocks(t, k) ==
  /\ Free(t)
  /\ k \in unused
  /\ ~RunsInline(t)
  /\ sem_locked \/ queue # <<>>
  /\ unused' = unused \ {k}
  /\ queue' = Append(queue, t)
  /\ spawns' = [spawns EXCEPT ![t] = k]
  /\ UNCHANGED <<size, permits, wakes, running, event, sent, awaits>>

\* The timer of release(): the first thread in the queue goes on.
PoolDoAcquire ==
  /\ wakes > 0
  /\ wakes' = wakes - 1
  /\ \/ /\ queue # <<>> /\ ~sem_locked
        /\ queue' = Tail(queue)
        /\ spawns' = [spawns EXCEPT ![Head(queue)] = NoTask]
        /\ Launch(spawns[Head(queue)])
     \/ /\ queue = <<>> \/ sem_locked
        /\ UNCHANGED <<permits, queue, running, spawns, event>>
  /\ UNCHANGED <<size, unused, sent, awaits>>

LeaveQueue(t) == RemoveFirst(queue, t)

\* An exception is thrown into a thread blocked in spawn().
SpawnFails(t) ==
  /\ spawns[t] # NoTask
  /\ queue' = LeaveQueue(t)
  /\ spawns' = [spawns EXCEPT ![t] = NoTask]
  /\ unused' = unused \cup {spawns[t]}
  /\ UNCHANGED <<size, permits, wakes, running, event, sent, awaits>>

-----------------------------------------------------------------------------
(* _spawn_done() *)

\* Faulty: those who wait for a slot are forgotten.
WakesLater == wakes

\* The timer of Semaphore.release()
WakesNow == IF queue = <<>> THEN wakes ELSE wakes + 1

\* Faulty: the balance is read before the release.
IsIdleBefore(k) == permits - Len(queue) = size

\* self.sem.balance == self.size, after the release
IsIdle(k) == permits + 1 - Len(queue) = size

\* A task returns, raises or is killed, started or not: the link of spawn(), or
\* the finally clause of _spawn_n_impl.
Finish(k) ==
  /\ k \in running /\ spawns[k] = NoTask
  /\ wakes < MaxWakes
  /\ permits' = permits + 1
  /\ wakes' = WakesNow
  /\ running' = running \ {k}
  /\ sent' = IF IsIdle(k) THEN sent \cup {event} ELSE sent
  /\ UNCHANGED <<size, queue, spawns, unused, event, awaits>>

-----------------------------------------------------------------------------
(* waitall() and resize() *)

\* waitall() of an empty pool returns at once; that of a task is refused.
Waitall(c) ==
  /\ Free(c)
  /\ running # {} /\ event \notin sent
  /\ awaits' = [awaits EXCEPT ![c] = event]
  /\ UNCHANGED <<size, running, spawns, unused, event, sent>> /\ UNCHANGED semaphore

WaitallReturns(c) ==
  /\ awaits[c] \in sent
  /\ awaits' = [awaits EXCEPT ![c] = -1]
  /\ UNCHANGED <<size, running, spawns, unused, event, sent>> /\ UNCHANGED semaphore

WaitallFails(c) ==
  /\ awaits[c] # -1
  /\ awaits' = [awaits EXCEPT ![c] = -1]
  /\ UNCHANGED <<size, running, spawns, unused, event, sent>> /\ UNCHANGED semaphore

\* Faulty: the new size takes effect at once, whoever is running.
ResizedCounter(n) == IF n > Cardinality(running) THEN n - Cardinality(running) ELSE 0

Resized(n) == permits + (n - size)

\* resize() changes the counter behind the semaphore's back.
Resize(n) ==
  /\ n # size
  /\ permits' = Resized(n)
  /\ size' = n
  /\ UNCHANGED <<queue, wakes, running, spawns, unused, event, sent, awaits>>

-----------------------------------------------------------------------------

PoolNext ==
  \/ PoolDoAcquire
  \/ \E t \in Spawners : SpawnFails(t) \/ \E k \in Tasks : SpawnNow(t, k) \/ SpawnBlocks(t, k)
  \/ \E k \in Tasks : Finish(k)
  \/ \E c \in Callers : Waitall(c) \/ WaitallReturns(c) \/ WaitallFails(c)
  \/ \E n \in Sizes : Resize(n)

PoolSafety == PoolInit /\ [][PoolNext]_poolVars

\* The hub calls its timers, an Event that was sent reaches its waiters, and
\* tasks come to an end unless they are blocked in spawn().
PoolFairness ==
  /\ WF_poolVars(PoolDoAcquire)
  /\ \A k \in Tasks : WF_poolVars(Finish(k))
  /\ \A c \in Callers : WF_poolVars(WaitallReturns(c))

PoolSpec == PoolSafety /\ PoolFairness

-----------------------------------------------------------------------------
(* Properties *)

\* Every permit of the semaphore is free or belongs to one running task, through
\* any order of spawns, ends, kills and resizes.
SlotsConserved == permits + Cardinality(running) = size

\* The event of waitall() is sent only when nothing runs, so that waitall() does
\* not return early, and is sent once (a second send() fails on an assertion).
SentMeansIdle == event \in sent => running = {}

\* The pool launches no task that takes it over its size, even just after it
\* was resized below what is running.
LaunchesWithinSize ==
  [][running' \subseteq running \/ Cardinality(running') <= size]_poolVars

\* When nothing runs and nothing is about to, nobody is left in waitall().
WaitallEnds ==
  running = {} /\ queue = <<>> => \A c \in Callers : awaits[c] \in sent \cup {-1}

\* A pool with a free slot, no task that could still give one back and no timer
\* pending has nobody blocked in spawn().
NobodyStuck ==
  permits > 0 /\ running = {} /\ wakes = 0 => queue = <<>>

\* As long as the size stays what it is, tasks that end let every blocked spawn()
\* go on, also those of tasks.
SpawnersProceed ==
  \A n \in Sizes \ {0}, t \in Spawners :
    [](size = n) => (spawns[t] # NoTask ~> spawns[t] = NoTask)

\* waitall() comes to an end if the tasks do, as long as the size stays what it
\* is and no other thread outside of the pool blocks in spawn().
WaitersProceed ==
  \A n \in Sizes \ {0}, c \in Callers :
    [](size = n /\ \A d \in Callers \ {c} : spawns[d] = NoTask)
      => (awaits[c] # -1 ~> awaits[c] = -1)

==============================================================================
