------------------------------ MODULE Semaphore ------------------------------
(***************************************************************************)
(* eventlet/semaphore.py: Semaphore and BoundedSemaphore.                  *)
(*                                                                         *)
(* Greenthreads are scheduled cooperatively, so what a thread does between *)
(* two switches to the hub is one action.  release() never runs a waiter:  *)
(* it leaves a zero-delay timer with the hub, and it is the timer, some    *)
(* loop iterations later, that pops a waiter and switches to it.  Between  *)
(* the two anything may happen: the waiter times out or is killed, another *)
(* thread takes the permit, more permits arrive.                           *)
(***************************************************************************)
EXTENDS Integers, Sequences, SequencesExt

CONSTANTS
  Threads,      \* the greenthreads that call the semaphore
  Value,        \* Semaphore(value)
  Bounded,      \* TRUE for BoundedSemaphore, FALSE for Semaphore
  MaxCounter,   \* bound of the model: release() is not called past it
  MaxTimers     \* bound of the model: _do_acquire timers pending at once

ASSUME SemaphoreAssumption ==
  /\ Value \in Nat
  /\ Bounded \in BOOLEAN
  /\ MaxCounter \in Nat
  /\ MaxTimers \in Nat

VARIABLES
  counter,      \* self.counter
  waiters,      \* self._waiters, a deque of greenthreads
  doAcquires,   \* how many _do_acquire timers the hub holds
  loop          \* where each thread is: outside acquire, or suspended in
                \* the untimed or in the timed wait loop of acquire

vars == <<counter, waiters, doAcquires, loop>>

Loops == {"outside", "untimed", "timed"}

TypeOK ==
  /\ counter \in Nat
  /\ waiters \in Seq(Threads)
  /\ doAcquires \in Nat
  /\ loop \in [Threads -> Loops]

Init ==
  /\ counter = Value
  /\ waiters = <<>>
  /\ doAcquires = 0
  /\ loop = [t \in Threads |-> "outside"]

Suspended(t) == loop[t] # "outside"

locked == counter <= 0

-----------------------------------------------------------------------------
(* Pieces of acquire() *)

\* The last two lines of acquire.
TakePermit == counter' = counter - 1

\* Join the waiters and switch to the hub, at lines 106-107 and 113 or 121.
Suspend(t, kind) ==
  /\ waiters' = IF Contains(waiters, t) THEN waiters ELSE Append(waiters, t)
  /\ loop' = [loop EXCEPT ![t] = kind]
  /\ UNCHANGED <<counter, doAcquires>>

\* Come out of the wait loop, by return or by exception: the finally clause
\* drops the thread from the deque, wherever it is.  q is the deque at the
\* moment the thread was switched to.
Forget(q, t) == RemoveFirst(q, t)

Leave(q, t) ==
  /\ waiters' = Forget(q, t)
  /\ loop' = [loop EXCEPT ![t] = "outside"]

\* acquire(blocking=False) on an unlocked semaphore.  With waiters queued it
\* still goes through the timed loop with timeout 0, finds a permit at once
\* and leaves: it overtakes them.  On a locked semaphore it returns False and
\* changes nothing.
AcquireNonBlocking(t) ==
  /\ ~Suspended(t)
  /\ ~locked
  /\ TakePermit
  /\ UNCHANGED <<waiters, doAcquires, loop>>

\* acquire(timeout=s): the timed loop tests the counter before it suspends,
\* so this call overtakes the waiters too.
AcquireTimed(t) ==
  /\ ~Suspended(t)
  /\ \/ /\ ~locked
        /\ TakePermit
        /\ UNCHANGED <<waiters, doAcquires, loop>>
     \/ /\ locked
        /\ Suspend(t, "timed")

\* acquire(): waits its turn behind every waiter, permit or no permit.
Acquire(t) ==
  /\ ~Suspended(t)
  /\ \/ /\ ~locked /\ waiters = <<>>
        /\ TakePermit
        /\ UNCHANGED <<waiters, doAcquires, loop>>
     \/ /\ locked \/ waiters # <<>>
        /\ Suspend(t, "untimed")

-----------------------------------------------------------------------------
(* release() and its timer *)

\* Faulty: wake only on the transition from zero.
ScheduleWakeFromZero ==
  doAcquires' = IF waiters # <<>> /\ counter = 0 THEN doAcquires + 1 ELSE doAcquires

ScheduleWake ==
  doAcquires' = IF waiters # <<>> THEN doAcquires + 1 ELSE doAcquires

\* A BoundedSemaphore raises ValueError instead of passing its initial value.
MayRelease == Bounded => counter < Value

Release(t) ==
  /\ ~Suspended(t)
  /\ counter < MaxCounter /\ doAcquires < MaxTimers
  /\ MayRelease
  /\ counter' = counter + 1
  /\ ScheduleWake
  /\ UNCHANGED <<waiters, loop>>

\* Faulty: give up on the wake-up when the head waiter has a timeout.
MayWakeUntimed == waiters # <<>> /\ counter > 0 /\ loop[Head(waiters)] = "untimed"

MayWake == waiters # <<>> /\ counter > 0

\* _do_acquire, run by the hub: pop the oldest waiter and switch to it.  The
\* waiter finds counter > 0, leaves its loop and takes the permit before the
\* hub runs anything else.
DoAcquire ==
  /\ doAcquires > 0
  /\ doAcquires' = doAcquires - 1
  /\ \/ /\ MayWake
        /\ Leave(Tail(waiters), Head(waiters))
        /\ TakePermit
     \/ /\ ~MayWake
        /\ UNCHANGED <<counter, waiters, loop>>

-----------------------------------------------------------------------------
(* What else can resume a suspended thread *)

\* The Timeout of acquire(timeout=s) goes off: acquire returns False.
TimeoutFires(t) ==
  /\ loop[t] = "timed"
  /\ Leave(waiters, t)
  /\ UNCHANGED <<counter, doAcquires>>

\* Another greenthread throws into t: kill(), or an enclosing Timeout.
Interrupt(t) ==
  /\ Suspended(t)
  /\ Leave(waiters, t)
  /\ UNCHANGED <<counter, doAcquires>>

\* A switch meant for something t waited for earlier, such as the wake-up
\* timer kill() leaves for its caller.  Both loops test the counter again and
\* go back to the hub when there is no permit.
LoopTest == counter > 0

StraySwitch(t) ==
  /\ Suspended(t)
  /\ LoopTest
  /\ Leave(waiters, t)
  /\ TakePermit
  /\ UNCHANGED doAcquires

-----------------------------------------------------------------------------

ThreadStep(t) ==
  \/ AcquireNonBlocking(t) \/ AcquireTimed(t) \/ Acquire(t)
  \/ Release(t)
  \/ TimeoutFires(t) \/ Interrupt(t) \/ StraySwitch(t)

Next == DoAcquire \/ \E t \in Threads : ThreadStep(t)

Safety == Init /\ [][Next]_vars

\* The hub calls every timer that is due; nothing obliges a thread to release.
Fairness == WF_vars(DoAcquire)

Spec == Safety /\ Fairness

-----------------------------------------------------------------------------
(* Properties *)

\* Every free permit is covered by a wake-up still to come as long as threads
\* wait for one.  release() schedules exactly one _do_acquire, and only when
\* it sees waiters, so permits released early, wake-ups that found nobody and
\* threads that overtake must never add up to a permit nobody is told about.
NoLostWakeup == waiters # <<>> => counter <= doAcquires

\* The deque holds exactly the threads suspended in acquire, each once: a
\* thread that timed out or was killed is gone from it, so _do_acquire never
\* switches into a thread that is by now waiting for something else.
WaitersExact ==
  /\ \A t \in Threads : Suspended(t) <=> Contains(waiters, t)
  /\ IsInjective(waiters)

\* A permit that stays free while threads are waiting reaches one of them:
\* together with the safety of the pool this is what acquire and release
\* promise.
Permits == INSTANCE PermitPool WITH permits <- counter, blocked <- ToSet(waiters)

ImplementsPermitPool == Permits!Spec

=============================================================================
