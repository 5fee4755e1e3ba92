--------------------------- MODULE CappedSemaphore ---------------------------
(***************************************************************************)
(* eventlet/semaphore.py, CappedSemaphore: a counter that stays between    *)
(* zero and a limit.                                                       *)
(*                                                                         *)
(* It is made of two Semaphores.  acquire() releases upper_bound and then  *)
(* acquires lower_bound, release() does it the other way round, and an     *)
(* exception in the second half takes the first half back.  Each bound is  *)
(* a counter, the threads that wait for it, and the timers for its         *)
(* _do_acquire; see Semaphore for the bounds themselves.                   *)
(***************************************************************************)
EXTENDS Integers, Sequences, SequencesExt, FiniteSets

CONSTANTS
  Threads,
  Limit,
  MaxTimers   \* bound of the model: timers of a bound

VARIABLES
  counter,    \* per bound: its counter
  waiters,    \* per bound: the threads that wait
  timers      \* per bound: the _do_acquire calls that are scheduled

cappedVars == <<counter, waiters, timers>>

Bounds == {"lower", "upper"}
Other(b) == IF b = "lower" THEN "upper" ELSE "lower"

CappedInit ==
  /\ \E count \in 0..Limit :
       counter = [b \in Bounds |-> IF b = "lower" THEN count ELSE Limit - count]
  /\ waiters = [b \in Bounds |-> <<>>]
  /\ timers = [b \in Bounds |-> 0]

Busy == ToSet(waiters["lower"]) \cup ToSet(waiters["upper"])

\* release() of a bound schedules _do_acquire if threads wait for it.
Released(b) == IF waiters[b] = <<>> THEN timers ELSE [timers EXCEPT ![b] = @ + 1]

\* acquire() for b = "lower", release() for b = "upper": release the other bound,
\* and take this one or wait for it.
Take(t, b) ==
  /\ t \notin Busy
  /\ timers[Other(b)] < MaxTimers
  /\ timers' = Released(Other(b))
  /\ IF counter[b] > 0 /\ waiters[b] = <<>>
       THEN /\ counter' = [counter EXCEPT ![Other(b)] = @ + 1, ![b] = @ - 1]
            /\ UNCHANGED waiters
       ELSE /\ counter' = [counter EXCEPT ![Other(b)] = @ + 1]
            /\ waiters' = [waiters EXCEPT ![b] = Append(@, t)]

\* The same with blocking=False looks at the counter alone, not at who waits:
\* it may wait nevertheless.
TakeNowait(t, b) == counter[b] > 0 /\ Take(t, b)

\* _do_acquire() of a bound: the first waiter goes on.
DoAcquire(b) ==
  /\ timers[b] > 0
  /\ timers' = [timers EXCEPT ![b] = @ - 1]
  /\ IF waiters[b] # <<>> /\ counter[b] > 0
       THEN /\ counter' = [counter EXCEPT ![b] = @ - 1]
            /\ waiters' = [waiters EXCEPT ![b] = Tail(@)]
       ELSE UNCHANGED <<counter, waiters>>

\* Faulty: what was released stays so.
UndoNothing(b) == counter

\* An exception ends the wait for bound b.
Undo(b) == [counter EXCEPT ![Other(b)] = @ - 1]

Interrupt(t, b) ==
  /\ Contains(waiters[b], t)
  /\ waiters' = [waiters EXCEPT ![b] = RemoveFirst(@, t)]
  /\ counter' = Undo(b)
  /\ UNCHANGED timers

CappedNext ==
  \/ \E t \in Threads, b \in Bounds : Take(t, b) \/ TakeNowait(t, b) \/ Interrupt(t, b)
  \/ \E b \in Bounds : DoAcquire(b)

CappedFairness == \A b \in Bounds : WF_cappedVars(DoAcquire(b))

CappedSpec == CappedInit /\ [][CappedNext]_cappedVars /\ CappedFairness

-----------------------------------------------------------------------------
\* semaphore.py:281-310.  The two counters add up to the limit, but for the
\* threads that are half-way; nobody waits for a bound that is free unless a
\* timer is on the way; and no thread waits for one bound while another waits
\* for the other, which would be a deadlock with the counter strictly between.
\* A counter may be negative: an exception undoes a release that was used.
Waiters(b) == Len(waiters[b])

CappedExact ==
  /\ counter["lower"] + counter["upper"] = Limit + Waiters("lower") + Waiters("upper")
  /\ \A b \in Bounds : waiters[b] # <<>> /\ counter[b] > 0 => timers[b] > 0
  /\ waiters["lower"] # <<>> /\ waiters["upper"] # <<>> =>
       \E b \in Bounds : counter[b] > 0 /\ timers[b] > 0
=============================================================================
