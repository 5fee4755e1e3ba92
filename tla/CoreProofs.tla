------------------------------ MODULE CoreProofs ------------------------------
(***************************************************************************)
(* Proofs about the three things every program rests on: HubTimers, for    *)
(* every set of timers, every choice of delays and every number of system  *)
(* exceptions and aborts; Event, for every set of threads, any number of   *)
(* resets and any number of timers left behind; and GreenThread, for every *)
(* set of users and of links.  The modules share no state: each theorem is *)
(* about the specification of one of them.                                 *)
(***************************************************************************)
EXTENDS HubTimers, Event, GreenThread, WaitQueueTheorems, FiniteSetTheorems,
        WellFoundedInduction

-----------------------------------------------------------------------------
(* HubTimers *)

\* Every non-empty set of naturals has a least element, and Min finds it.
LEMMA LeastNatural ==
  ASSUME NEW S, S \subseteq Nat, S # {}
  PROVE  Min(S) \in S /\ \A n \in S : Min(S) <= n
<1> DEFINE R == OpToRel(<, Nat)
<1>1. IsWellFoundedOn(R, Nat)
  BY NatLessThanWellFounded
<1> HIDE DEF R
<1>2. PICK m \in S : \A n \in S : <<n, m>> \notin R
  BY <1>1, WFMin
<1>3. \A n \in S : <<n, m>> \in R <=> n < m
  BY DEF R, OpToRel
<1>4. \A n \in S : m <= n
  <2> TAKE n \in S
  <2>1. ~(n < m)
    BY <1>2, <1>3
  <2> QED
    BY <2>1
<1>5. \E x \in S : \A y \in S : x <= y
  BY <1>4
<1> QED
  BY <1>5 DEF Min

\* What the loop knows of its own position.
Position ==
  /\ burst => phase \in {"close", "fire", "dispatch"}
  /\ rebound => phase = "fire"
  /\ ~rebound => swept = {}
  /\ when <= clock

\* Every entry of a list was scheduled and not thrown away by an abort, and a
\* live entry of the list a sweep holds is also in self.timers.
Entries ==
  /\ \A t \in timers \cup next_timers \cup swept :
       status[t] \in {"pending", "fired", "cancelled"}
  /\ \A t \in swept : status[t] = "pending" => t \in timers

IInv == TypeOK /\ Position /\ Entries /\ NoTimerLost /\ SweepComplete /\ NeverOversleeps

LEMMA InitIInv == Init => IInv
<1> SUFFICES ASSUME Init PROVE IInv
  OBVIOUS
<1>1. rebound = FALSE /\ burst = FALSE /\ stopping = FALSE
  BY DEF Init
<1>2. rebound \in BOOLEAN /\ burst \in BOOLEAN /\ stopping \in BOOLEAN
  BY <1>1, Zenon
<1>3. TypeOK
  BY <1>2 DEF Init, TypeOK, Statuses, Phases
<1>4. Position
  BY <1>1 DEF Init, Position
<1>5. Entries /\ NoTimerLost /\ SweepComplete /\ NeverOversleeps
  BY <1>1 DEF Init, Entries, NoTimerLost, SweepComplete, NeverOversleeps
<1> QED
  BY <1>3, <1>4, <1>5 DEF IInv

\* Collecting the new timers keeps every live one, and the count a number.
LEMMA PrepareKeepsTimers ==
  ASSUME TypeOK, NoTimerLost, Entries, prepare_timers
  PROVE  /\ timers' \subseteq Timers /\ next_timers' = {}
         /\ timers_canceled' \in Int
         /\ \A t \in Timers : status[t] = "pending" => t \in timers'
         /\ \A t \in timers' : t \in timers \/ t \in next_timers
<1> DEFINE C == {t \in next_timers : Called(t)}
<1>1. Cardinality(C) \in Nat
  <2>1. IsFiniteSet(C)
    BY FS_Subset, HubTimersAssumption DEF TypeOK
  <2> QED
    BY <2>1, FS_CardinalityType
<1>2. timers_canceled' \in Int
  BY <1>1 DEF prepare_timers, TypeOK
<1>3. \A t \in Timers : status[t] = "pending" => ~Called(t)
  BY DEF Called
<1> QED
  BY <1>2, <1>3 DEF prepare_timers, Prepared, TypeOK, NoTimerLost

LEMMA StepIInv == IInv /\ [Next]_vars => IInv'
<1> SUFFICES ASSUME IInv, [Next]_vars PROVE IInv'
  OBVIOUS
<1> USE DEF IInv
<1>1. ASSUME NEW t \in Timers, NEW seconds \in Delays, Schedule(t, seconds)
      PROVE  IInv'
  <2>1. TypeOK'
    BY <1>1, HubTimersAssumption DEF Schedule, Enqueue, TypeOK, Statuses, loop
  <2>2. Position' /\ SweepComplete' /\ NeverOversleeps'
    BY <1>1 DEF Schedule, Enqueue, TypeOK, Position, SweepComplete,
      NeverOversleeps, UserRuns, loop, Phases
  <2>3. Entries' /\ NoTimerLost'
    BY <1>1 DEF Schedule, Enqueue, TypeOK, Entries, NoTimerLost, loop
  <2> QED
    BY <2>1, <2>2, <2>3
<1>2. ASSUME NEW t \in Timers, Cancel(t) PROVE IInv'
  <2>1. /\ status' = [status EXCEPT ![t] = "cancelled"]
        /\ UNCHANGED <<clock, due, loop>>
    BY <1>2 DEF Cancel
  <2>2. \A u \in Timers : status'[u] = "pending" <=> status[u] = "pending" /\ u # t
    BY <2>1 DEF TypeOK
  <2>3. CASE Rebuild(t)
    <3>1. TypeOK'
      <4>1. rebound' \in BOOLEAN
        <5>1. rebound' = TRUE \/ rebound' = rebound
          BY <2>3 DEF Rebuild
        <5> QED
          BY <5>1, Zenon DEF TypeOK
      <4> QED
        BY <2>1, <2>3, <4>1 DEF Rebuild, Uncalled, TypeOK, Statuses, loop
    <3>2. Position'
      BY <2>1, <2>3 DEF Rebuild, Position, loop
    <3>3. Entries'
      BY <2>1, <2>2, <2>3 DEF Rebuild, Uncalled, Called, Entries, TypeOK
    <3>4. NoTimerLost'
      BY <2>1, <2>2, <2>3 DEF Rebuild, Uncalled, Called, NoTimerLost, TypeOK
    <3>5. SweepComplete'
      BY <2>1, <2>2, <2>3 DEF Rebuild, Uncalled, Called, SweepComplete, Position, TypeOK
    <3>6. NeverOversleeps'
      BY <2>1, <2>2 DEF NeverOversleeps, loop
    <3> QED
      BY <3>1, <3>2, <3>3, <3>4, <3>5, <3>6
  <2>4. CASE /\ timers_canceled' = timers_canceled + 1
             /\ UNCHANGED <<next_timers, timers, rebound, swept>>
    <3>1. TypeOK'
      BY <2>1, <2>4 DEF TypeOK, Statuses, loop
    <3>2. Position'
      BY <2>1, <2>4 DEF Position, loop
    <3>3. Entries'
      BY <2>1, <2>2, <2>4 DEF Entries, TypeOK
    <3>4. NoTimerLost' /\ SweepComplete' /\ NeverOversleeps'
      BY <2>1, <2>2, <2>4 DEF NoTimerLost, SweepComplete, NeverOversleeps, loop, TypeOK
    <3> QED
      BY <3>1, <3>2, <3>3, <3>4
  <2> QED
    BY <1>2, <2>3, <2>4 DEF Cancel
<1>3. CASE Abort
  BY <1>3 DEF Abort, lists, TypeOK, Position, Entries, NoTimerLost, SweepComplete,
    NeverOversleeps
<1>4. CASE BurstEnds
  BY <1>4 DEF BurstEnds, lists, TypeOK, Position, Entries, NoTimerLost,
    SweepComplete, NeverOversleeps
<1>5. CASE Escape
  <2>1. burst' = FALSE /\ stopping' = FALSE /\ rebound' = FALSE
    BY <1>5 DEF Escape
  <2>2. burst' \in BOOLEAN /\ stopping' \in BOOLEAN /\ rebound' \in BOOLEAN
    BY <2>1, Zenon
  <2>3. TypeOK'
    BY <1>5, <2>2 DEF Escape, TypeOK, Phases
  <2> QED
    BY <1>5, <2>3 DEF Escape, TypeOK, Position, Entries, NoTimerLost,
      SweepComplete, NeverOversleeps
<1>6. CASE Run \/ LoopAgain
  BY <1>6, HubTimersAssumption DEF Run, LoopAgain, lists, TypeOK, Phases, Position,
    Entries, NoTimerLost, SweepComplete, NeverOversleeps
<1>7. CASE CallListener
  BY <1>7 DEF CallListener, lists, TypeOK, Phases, Position, Entries, NoTimerLost,
    SweepComplete, NeverOversleeps
<1>8. CASE BeginSweep
  <2>1. /\ timers' \subseteq Timers /\ next_timers' = {}
        /\ timers_canceled' \in Int
        /\ \A t \in Timers : status[t] = "pending" => t \in timers'
        /\ \A t \in timers' : t \in timers \/ t \in next_timers
    BY <1>8, PrepareKeepsTimers DEF BeginSweep
  <2>2. ~rebound /\ swept = {}
    BY <1>8 DEF BeginSweep, Position
  <2>3. TypeOK' /\ Position'
    BY <1>8, <2>1, <2>2 DEF BeginSweep, TypeOK, Position, Phases
  <2>4. Entries' /\ NoTimerLost' /\ SweepComplete' /\ NeverOversleeps'
    BY <1>8, <2>1, <2>2 DEF BeginSweep, Entries, NoTimerLost, SweepComplete,
      NeverOversleeps
  <2> QED
    BY <2>3, <2>4
<1>9. ASSUME NEW t \in Timers, SkipCalled(t) PROVE IInv'
  <2>1. Called(t) /\ Pop(t) /\ UNCHANGED <<clock, status, due, next_timers, rebound, loop>>
    BY <1>9 DEF SkipCalled
  <2>2. TypeOK' /\ Position'
    BY <1>9, <2>1 DEF SkipCalled, Pop, TypeOK, Position, loop
  <2>3. \A u \in Timers : status[u] = "pending" =>
          (u \in timers' <=> u \in timers) /\ (u \in swept' <=> u \in swept)
    BY <2>1 DEF Pop, Called
  <2>4. timers' \subseteq timers /\ swept' \subseteq swept
    BY <2>1 DEF Pop
  <2>5. Entries' /\ NoTimerLost' /\ SweepComplete' /\ NeverOversleeps'
    BY <2>1, <2>2, <2>3, <2>4 DEF Entries, NoTimerLost, SweepComplete,
      NeverOversleeps, loop, TypeOK
  <2> QED
    BY <2>2, <2>5
<1>10. ASSUME NEW t \in Timers, Fire(t) PROVE IInv'
  <2>1. /\ Pop(t) /\ t \in Sweep /\ phase = "fire"
        /\ status' = [status EXCEPT ![t] = "fired"]
        /\ burst' \in BOOLEAN
        /\ UNCHANGED <<clock, due, next_timers, rebound, timers_canceled,
                       phase, ready, when, wakeup, stopping, escapes>>
    BY <1>10 DEF Fire, Earliest
  <2>2. \A u \in Timers : status'[u] = "pending" <=> status[u] = "pending" /\ u # t
    BY <2>1 DEF TypeOK
  <2>3. TypeOK' /\ Position'
    BY <2>1 DEF Pop, TypeOK, Position, Statuses
  <2>4. \A u \in Timers : u # t =>
          (u \in timers' <=> u \in timers) /\ (u \in swept' <=> u \in swept)
    BY <2>1 DEF Pop
  <2>5. timers' \subseteq timers /\ swept' \subseteq swept
    BY <2>1 DEF Pop
  <2>6. Entries' /\ NoTimerLost' /\ SweepComplete' /\ NeverOversleeps'
    BY <2>1, <2>2, <2>4, <2>5 DEF Entries, NoTimerLost, SweepComplete,
      NeverOversleeps, TypeOK
  <2> QED
    BY <2>3, <2>6
<1>11. CASE EndSweep
  <2>1. /\ timers' \subseteq Timers /\ next_timers' = {}
        /\ timers_canceled' \in Int
        /\ \A t \in Timers : status[t] = "pending" => t \in timers'
        /\ \A t \in timers' : t \in timers \/ t \in next_timers
    BY <1>11, PrepareKeepsTimers DEF EndSweep
  <2>2. wakeup' \in Nat /\ \A t \in timers' : wakeup' <= due[t]
    <3> DEFINE D == {due[t] : t \in timers'}
    <3>1. wakeup' = IF timers' = {} THEN clock + DefaultSleep ELSE Min(D)
      BY <1>11 DEF EndSweep, WakeupAt, prepare_timers
    <3>2. D \subseteq Nat
      BY <2>1 DEF TypeOK
    <3>3. CASE timers' = {}
      BY <3>1, <3>3, HubTimersAssumption DEF TypeOK
    <3>4. CASE timers' # {}
      <4>1. D # {}
        BY <3>4
      <4> HIDE DEF D
      <4>2. Min(D) \in D /\ \A n \in D : Min(D) <= n
        BY <3>2, <4>1, LeastNatural
      <4>3. \A t \in timers' : due[t] \in D
        BY DEF D
      <4> QED
        BY <3>1, <3>2, <3>4, <4>2, <4>3
    <3> QED
      BY <3>3, <3>4
  <2>3. TypeOK' /\ Position'
    <3>1. rebound' \in BOOLEAN
      <4>1. rebound' = FALSE
        BY <1>11 DEF EndSweep
      <4> QED
        BY <4>1, Zenon
    <3>2. TypeOK'
      BY <1>11, <2>1, <2>2, <3>1 DEF EndSweep, TypeOK, Phases
    <3> QED
      BY <1>11, <3>2 DEF EndSweep, TypeOK, Position
  <2>4. Entries' /\ NoTimerLost' /\ SweepComplete'
    BY <1>11, <2>1 DEF EndSweep, Entries, NoTimerLost, SweepComplete
  <2>5. NeverOversleeps'
    BY <1>11, <2>1, <2>2 DEF EndSweep, NeverOversleeps
  <2> QED
    BY <2>3, <2>4, <2>5
<1>12. CASE EndSleep
  BY <1>12, HubTimersAssumption DEF EndSleep, lists, TypeOK, Phases, Position,
    Entries, NoTimerLost, SweepComplete, NeverOversleeps
<1>13. CASE Stop
  <2>1. ~rebound /\ swept = {} /\ ~burst
    BY <1>13 DEF Stop, Position
  <2>2. \A t \in Timers : status'[t] # "pending" /\ status'[t] \in Statuses
    BY <1>13 DEF Stop, TypeOK, Statuses
  <2>3. TypeOK'
    <3>1. stopping' \in BOOLEAN
      <4>1. stopping' = FALSE
        BY <1>13 DEF Stop
      <4> QED
        BY <4>1, Zenon
    <3> QED
      BY <1>13, <2>2, <3>1 DEF Stop, TypeOK, Statuses, Phases
  <2> QED
    BY <1>13, <2>1, <2>2, <2>3 DEF Stop, Position, Entries, NoTimerLost, SweepComplete,
      NeverOversleeps
<1>14. CASE Tick
  BY <1>14 DEF Tick, lists, loop, TypeOK, Position, Entries, NoTimerLost,
    SweepComplete, NeverOversleeps
<1>15. CASE UNCHANGED vars
  BY <1>15 DEF vars, TypeOK, Position, Entries, NoTimerLost, SweepComplete,
    NeverOversleeps
<1> QED
  BY <1>1, <1>2, <1>3, <1>4, <1>5, <1>6, <1>7, <1>8, <1>9, <1>10, <1>11, <1>12,
     <1>13, <1>14, <1>15 DEF Next, User, Loop

THEOREM InductiveInvariant == Safety => []IInv
BY InitIInv, StepIInv, PTL DEF Safety

\* The state of the hub stays well formed, whatever is cancelled, aborted or
\* interrupted.
THEOREM TypeCorrect == Safety => []TypeOK
BY InductiveInvariant, PTL DEF IInv

\* However often the lists are rebuilt, also under a running sweep, and
\* wherever run() is interrupted, a pending timer stays in one of them.
THEOREM NoTimerIsLost == Safety => []NoTimerLost
BY InductiveInvariant, PTL DEF IInv

\* A sweep that works on a list of its own still sees every live timer of the
\* list that replaced it.
THEOREM SweepIsComplete == Safety => []SweepComplete
BY InductiveInvariant, PTL DEF IInv

\* The hub never waits past the earliest pending timer.
THEOREM HubNeverOversleeps == Safety => []NeverOversleeps
BY InductiveInvariant, PTL DEF IInv

\* A sweep calls its timers in the order in which they are due.
THEOREM SweepFiresInOrder == Safety => FiresInOrder
<1> DEFINE Ordered ==
      \A t \in Timers : Fire(t) =>
        \A u \in Timers : status[u] = "pending" /\ due[u] < due[t] => u \in next_timers
<1>1. IInv /\ [Next]_vars => [Ordered]_vars
  <2> SUFFICES ASSUME IInv, NEW t \in Timers, Fire(t), NEW u \in Timers,
                      status[u] = "pending", due[u] < due[t], u \notin next_timers
               PROVE  FALSE
    OBVIOUS
  <2>1. u \in Sweep
    BY DEF IInv, NoTimerLost, SweepComplete, Sweep
  <2>2. due[t] <= due[u]
    BY <2>1 DEF Fire, Earliest
  <2> QED
    BY <2>2 DEF IInv, TypeOK
<1> QED
  BY <1>1, InductiveInvariant, PTL DEF Safety, FiresInOrder

-----------------------------------------------------------------------------
(* The hub implements TimerService. *)

LEMMA StepImplementsService == IInv /\ [Next]_vars => [Service!Next]_(Service!vars)
<1> SUFFICES ASSUME IInv, [Next]_vars
             PROVE  Service!Next \/ UNCHANGED <<clock, status, due>>
  BY DEF Service!vars
<1>1. ASSUME NEW t \in Timers, NEW seconds \in Delays, Schedule(t, seconds)
      PROVE  Service!Schedule(t, seconds)
  BY <1>1 DEF Schedule, Service!Schedule
<1>2. ASSUME NEW t \in Timers, Cancel(t) PROVE Service!Cancel(t)
  BY <1>2 DEF Cancel, Service!Cancel
<1>3. ASSUME NEW t \in Timers, Fire(t) PROVE Service!Fire(t)
  <2>1. t \in Sweep /\ ~Called(t) /\ when >= due[t]
    BY <1>3 DEF Fire, Earliest, Due
  <2>2. status[t] = "pending"
    BY <2>1 DEF IInv, Entries, Sweep, Called
  <2>3. clock >= due[t]
    BY <2>1 DEF IInv, Position, TypeOK
  <2> QED
    BY <1>3, <2>2, <2>3 DEF Fire, Service!Fire
<1>4. CASE Stop
  BY <1>4 DEF Stop, Service!Abort, Service!Next
<1>5. CASE Tick
  BY <1>5 DEF Tick, Service!Tick, Service!Next
<1>6. CASE Abort \/ BurstEnds \/ Escape \/ Run
  BY <1>6 DEF Abort, BurstEnds, Escape, Run
<1>7. CASE BeginSweep \/ CallListener \/ EndSweep \/ EndSleep \/ LoopAgain
  BY <1>7 DEF BeginSweep, CallListener, EndSweep, EndSleep, LoopAgain
<1>8. ASSUME NEW t \in Timers, SkipCalled(t) PROVE UNCHANGED <<clock, status, due>>
  BY <1>8 DEF SkipCalled
<1>9. CASE UNCHANGED vars
  BY <1>9 DEF vars
<1> QED
  BY <1>1, <1>2, <1>3, <1>4, <1>5, <1>6, <1>7, <1>8, <1>9
  DEF Next, User, Loop, Service!Next

\* The safety half of ImplementsTimerService: a timer runs at most once, never
\* before it is due and never after it was cancelled or thrown away.
THEOREM ImplementsService == Safety => Service!Safety
<1>1. Init => Service!Init
  BY DEF Init, Service!Init
<1> QED
  BY <1>1, InductiveInvariant, StepImplementsService, PTL DEF Safety, Service!Safety

-----------------------------------------------------------------------------
(* Event *)

\* The timer of a wait(timeout) is pending as long as the wait lasts, so what
\* Return cancels is there.
TimerPending ==
  \A t \in Threads : state[t] = "waits_timed" => timeouts[t] > 0

\* A thread that never passes a timeout never leaves a timer behind.
PatientLeavesNothing == \A t \in Patient : timeouts[t] = 0

\* What is on its way is what was sent, as long as the event is not reset.
SendsCarryResult ==
  round = 0 => \A m \in sends : result # "unset" /\ m.outcome = result

\* reset() is called at most MaxResets times.
RoundBounded == round <= MaxResets

EventIInv ==
  /\ EventTypeOK
  /\ RoundBounded
  /\ NobodyForgotten
  /\ WaitersExact
  /\ TimerPending
  /\ PatientLeavesNothing
  /\ SendsCarryResult

LEMMA EventInitIInv == EventInit => EventIInv
<1> SUFFICES ASSUME EventInit PROVE EventIInv
  OBVIOUS
<1> USE EventAssumption DEF EventInit
<1>1. EventTypeOK
  BY DEF EventTypeOK, States, Outcomes
<1>2. RoundBounded /\ NobodyForgotten /\ SendsCarryResult
  BY DEF RoundBounded, NobodyForgotten, SendsCarryResult
<1>3. WaitersExact
  BY DEF WaitersExact, Waits
<1>4. TimerPending /\ PatientLeavesNothing
  BY DEF TimerPending, PatientLeavesNothing
<1> QED
  BY <1>1, <1>2, <1>3, <1>4 DEF EventIInv

-----------------------------------------------------------------------------
\* wait() of a thread that runs.
LEMMA WaitKeepsEventIInv ==
  ASSUME EventIInv, NEW t \in Threads, WaitReady(t) \/ Wait(t) \/ WaitTimed(t)
  PROVE  EventIInv'
<1> USE EventAssumption DEF EventIInv, EventTypeOK, States, Outcomes, Sends
<1>1. CASE WaitReady(t)
  BY <1>1 DEF WaitReady, NobodyForgotten, WaitersExact, Waits, TimerPending,
    PatientLeavesNothing, SendsCarryResult, RoundBounded
<1>2. CASE Wait(t)
  <2>1. EventTypeOK' /\ RoundBounded' /\ NobodyForgotten' /\ SendsCarryResult'
    BY <1>2 DEF Wait, RoundBounded, NobodyForgotten, SendsCarryResult
  <2>2. WaitersExact'
    BY <1>2 DEF Wait, WaitersExact, Waits
  <2>3. TimerPending' /\ PatientLeavesNothing'
    BY <1>2 DEF Wait, TimerPending, PatientLeavesNothing
  <2> QED
    BY <2>1, <2>2, <2>3
<1>3. CASE WaitTimed(t)
  <2>1. /\ timeouts[t] \in Nat /\ t \notin Patient
        /\ timeouts' = [timeouts EXCEPT ![t] = timeouts[t] + 1]
        /\ state' = [state EXCEPT ![t] = "waits_timed"]
        /\ waiters' = waiters \cup {t} /\ result = "unset"
        /\ UNCHANGED <<result, round, sends, got>>
    BY <1>3 DEF WaitTimed
  <2>2. EventTypeOK'
    BY <2>1
  <2>3. RoundBounded' /\ NobodyForgotten' /\ SendsCarryResult'
    BY <2>1 DEF RoundBounded, NobodyForgotten, SendsCarryResult
  <2>4. WaitersExact'
    BY <2>1 DEF WaitersExact, Waits
  <2>5. TimerPending'
    BY <2>1 DEF TimerPending
  <2>6. PatientLeavesNothing'
    BY <2>1 DEF PatientLeavesNothing
  <2> QED
    BY <2>2, <2>3, <2>4, <2>5, <2>6
<1> QED
  BY <1>1, <1>2, <1>3

\* A thread leaves its wait, by whichever way: it is no waiter any more, and
\* nothing else changes that the invariant is about, except for its own timers.
LEMMA LeaveKeepsEventIInv ==
  ASSUME EventIInv, NEW t \in Threads, NEW o \in Outcomes \cup {"nothing"},
         NEW left \in Nat, NEW next \in {"runs", "dead"},
         waiters' = waiters \ {t},
         state' = [state EXCEPT ![t] = next],
         got' = [got EXCEPT ![t] = o],
         timeouts' = [timeouts EXCEPT ![t] = left],
         t \in Patient => left = 0,
         UNCHANGED <<result, round>>,
         sends' \subseteq sends,
         \A m \in sends \ sends' : m.to = t
  PROVE  EventIInv'
<1> USE EventAssumption DEF EventIInv, EventTypeOK, States, Outcomes
<1>1. EventTypeOK' /\ RoundBounded' /\ SendsCarryResult'
  BY DEF RoundBounded, SendsCarryResult
<1>2. NobodyForgotten'
  BY DEF NobodyForgotten
<1>3. WaitersExact'
  BY DEF WaitersExact, Waits
<1>4. TimerPending' /\ PatientLeavesNothing'
  BY DEF TimerPending, PatientLeavesNothing
<1> QED
  BY <1>1, <1>2, <1>3, <1>4

\* send() and reset()
LEMMA SendKeepsEventIInv ==
  ASSUME EventIInv, (\E o \in Outcomes : Send(o)) \/ reset
  PROVE  EventIInv'
<1> USE EventAssumption DEF EventIInv, EventTypeOK, Outcomes, Sends
<1>1. ASSUME NEW o \in Outcomes, Send(o)
      PROVE  EventIInv'
  <2> DEFINE New == {[round |-> round, outcome |-> o, to |-> t] : t \in waiters}
  <2>1. sends' = sends \cup New /\ result' = o /\ result = "unset"
    BY <1>1 DEF Send, WakeAll, MaySend
  <2>2. New \subseteq Sends
    OBVIOUS
  <2>3. /\ EventTypeOK' /\ RoundBounded' /\ TimerPending' /\ PatientLeavesNothing'
        /\ WaitersExact'
    BY <1>1, <2>1, <2>2 DEF Send, RoundBounded, TimerPending,
      PatientLeavesNothing, WaitersExact, Waits
  <2>4. NobodyForgotten'
    <3>1. ASSUME NEW t \in waiters PROVE \E m \in sends' : m.to = t
      <4>1. [round |-> round, outcome |-> o, to |-> t] \in sends'
        BY <2>1
      <4> QED
        BY <4>1
    <3> QED
      BY <1>1, <3>1 DEF Send, NobodyForgotten
  <2>5. SendsCarryResult'
    <3>1. \A m \in New : m.outcome = o
      OBVIOUS
    <3> QED
      BY <1>1, <2>1, <3>1 DEF Send, SendsCarryResult
  <2> QED
    BY <2>3, <2>4, <2>5
<1>2. CASE reset
  <2>1. EventTypeOK' /\ RoundBounded' /\ SendsCarryResult' /\ NobodyForgotten'
    BY <1>2 DEF reset, RoundBounded, SendsCarryResult, NobodyForgotten
  <2>2. WaitersExact' /\ TimerPending' /\ PatientLeavesNothing'
    BY <1>2 DEF reset, WaitersExact, Waits, TimerPending, PatientLeavesNothing
  <2> QED
    BY <2>1, <2>2
<1> QED
  BY <1>1, <1>2

\* The timers of send() and of wait(timeout), and exceptions from elsewhere.
LEMMA WakeKeepsEventIInv ==
  ASSUME EventIInv, NEW t \in Threads,
         \/ \E m \in sends : m.to = t /\ DoSend(m)
         \/ TimeoutFires(t)
         \/ Interrupt(t)
  PROVE  EventIInv'
<1> USE EventAssumption DEF EventIInv
<1>1. /\ timeouts[t] \in Nat
      /\ timeouts \in [Threads -> Nat]
      /\ t \in waiters <=> Waits(t)
      /\ t \in Patient => timeouts[t] = 0
  BY DEF EventTypeOK, WaitersExact, PatientLeavesNothing
<1>1a. OwnTimers(t) \in {0, 1} /\ OwnTimers(t) <= timeouts[t]
  BY <1>1 DEF TimerPending, OwnTimers
<1>2. ASSUME NEW m \in sends, m.to = t, DoSend(m)
      PROVE  EventIInv'
  <2>1. m.outcome \in Outcomes /\ UNCHANGED <<result, round>> /\ sends' = sends \ {m}
    BY <1>2 DEF DoSend, EventTypeOK, Sends
  <2>2. CASE t \notin waiters
    <3>1. UNCHANGED <<waiters, state, timeouts, got>>
      BY <1>2, <2>2 DEF DoSend, IsWaiter
    <3>2. EventTypeOK' /\ RoundBounded' /\ NobodyForgotten' /\ SendsCarryResult'
      BY <1>2, <2>1, <2>2, <3>1 DEF EventTypeOK, RoundBounded, NobodyForgotten, SendsCarryResult
    <3>3. WaitersExact' /\ TimerPending' /\ PatientLeavesNothing'
      BY <1>2, <2>1, <2>2, <3>1 DEF EventTypeOK, WaitersExact, Waits, TimerPending,
        PatientLeavesNothing
    <3> QED
      BY <3>2, <3>3
  <2>3. CASE t \in waiters /\ m.outcome = "value"
    <3> DEFINE left == timeouts[t] - OwnTimers(t)
    <3>1. left \in Nat /\ (t \in Patient => left = 0)
      BY <1>1, <1>1a
    <3>2. Return(t, "value", left)
      BY <1>2, <2>3 DEF DoSend, IsWaiter
    <3> HIDE DEF left
    <3> QED
      BY <1>2, <2>1, <3>1, <3>2, LeaveKeepsEventIInv DEF Return, Discard, Outcomes
  <2>4. CASE t \in waiters /\ m.outcome = "error"
    <3>1. Raise(t, "error", "runs")
      BY <1>2, <2>4 DEF DoSend, IsWaiter
    <3>2. timeouts' = [timeouts EXCEPT ![t] = timeouts[t]]
      BY <1>1, <3>1 DEF Raise
    <3> QED
      BY <1>1, <1>2, <2>1, <3>1, <3>2, LeaveKeepsEventIInv DEF Raise, Discard, Outcomes
  <2> QED
    BY <2>1, <2>2, <2>3, <2>4 DEF Outcomes
<1>3. CASE TimeoutFires(t)
  <2>1. timeouts[t] > 0 /\ UNCHANGED <<result, round, sends>> /\ t \notin Patient
    BY <1>1, <1>3 DEF TimeoutFires
  <2>2. CASE t \notin waiters
    <3>1. timeouts' = [timeouts EXCEPT ![t] = @ - 1] /\ UNCHANGED <<waiters, state, got>>
      BY <1>3, <2>2 DEF TimeoutFires, IsWaiter
    <3>2. EventTypeOK' /\ RoundBounded' /\ NobodyForgotten' /\ SendsCarryResult'
      BY <1>1, <2>1, <2>2, <3>1 DEF EventTypeOK, RoundBounded, NobodyForgotten, SendsCarryResult
    <3>3. WaitersExact' /\ TimerPending' /\ PatientLeavesNothing'
      BY <1>1, <2>1, <2>2, <3>1 DEF EventTypeOK, WaitersExact, Waits, TimerPending,
        PatientLeavesNothing
    <3> QED
      BY <3>2, <3>3
  <2>3. CASE t \in waiters
    <3>1. PICK left \in {timeouts[t] - 1, timeouts[t] - 1 - OwnTimers(t)} :
            left >= 0 /\ Return(t, "nothing", left)
      BY <1>3, <2>3 DEF TimeoutFires, IsWaiter
    <3>2. left \in Nat
      BY <1>1, <1>1a, <3>1
    <3> QED
      BY <2>1, <3>1, <3>2, LeaveKeepsEventIInv DEF Return, Discard
  <2> QED
    BY <2>2, <2>3
<1>4. CASE Interrupt(t)
  <2>1. PICK next \in {"runs", "dead"} : Raise(t, "nothing", next)
    BY <1>4 DEF Interrupt
  <2>2. timeouts' = [timeouts EXCEPT ![t] = timeouts[t]]
    BY <1>1, <2>1 DEF Raise
  <2>3. UNCHANGED <<result, round>> /\ sends' \subseteq sends /\ sends \ sends' = {}
    BY <1>4 DEF Interrupt
  <2>4. /\ waiters' = waiters \ {t}
        /\ state' = [state EXCEPT ![t] = next]
        /\ got' = [got EXCEPT ![t] = "nothing"]
    BY <2>1 DEF Raise, Discard
  <2> QED
    BY <1>1, <2>2, <2>3, <2>4, LeaveKeepsEventIInv
<1> QED
  BY <1>2, <1>3, <1>4

\* Every step, by the thread it concerns.
LEMMA EventStepCases ==
  ASSUME EventTypeOK, EventNext
  PROVE  \/ (\E o \in Outcomes : Send(o)) \/ reset
         \/ \E t \in Threads :
              \/ WaitReady(t) \/ Wait(t) \/ WaitTimed(t)
              \/ (\E m \in sends : m.to = t /\ DoSend(m))
              \/ TimeoutFires(t)
              \/ Interrupt(t)
<1>1. \A m \in sends : m.to \in Threads
  BY DEF EventTypeOK, Sends
<1> QED
  BY <1>1 DEF EventNext, Waiter

LEMMA EventNextIInv == EventIInv /\ [EventNext]_eventVars => EventIInv'
<1> SUFFICES ASSUME EventIInv, [EventNext]_eventVars
             PROVE  EventIInv'
  OBVIOUS
<1>1. CASE EventNext
  BY <1>1, EventStepCases, WaitKeepsEventIInv, SendKeepsEventIInv, WakeKeepsEventIInv DEF EventIInv
<1>2. CASE UNCHANGED eventVars
  BY <1>2 DEF eventVars, EventIInv, EventTypeOK, NobodyForgotten, WaitersExact, Waits,
    TimerPending, PatientLeavesNothing, SendsCarryResult, RoundBounded
<1> QED
  BY <1>1, <1>2

\* Everything below rests on this invariant of every behaviour of the event.
THEOREM EventInductiveInvariant == EventSafety => []EventIInv
  BY EventInitIInv, EventNextIInv, PTL DEF EventSafety

\* The state of an event stays well formed: in particular no more timers are
\* cancelled than a thread has left with the hub.
THEOREM EventTypeCorrect == EventSafety => []EventTypeOK
<1>1. EventIInv => EventTypeOK
  BY DEF EventIInv
<1> QED
  BY <1>1, EventInductiveInvariant, PTL

\* send() leaves a wake-up for every thread that waits, and no timeout, kill or
\* return to wait() separates a waiter of a sent event from its wake-up.
THEOREM NobodyIsForgotten == EventSafety => []NobodyForgotten
<1>1. EventIInv => NobodyForgotten
  BY DEF EventIInv
<1> QED
  BY <1>1, EventInductiveInvariant, PTL

\* _waiters is exactly the set of threads suspended in wait().
THEOREM WaitersAreExact == EventSafety => []WaitersExact
<1>1. EventIInv => WaitersExact
  BY DEF EventIInv
<1> QED
  BY <1>1, EventInductiveInvariant, PTL

-----------------------------------------------------------------------------
\* Until it is reset every step is one of the future's.
LEMMA FirstRound ==
  ASSUME EventIInv, EventIInv', [EventNext]_eventVars, round = 0, round' = 0
  PROVE  Outcome!Next \/ UNCHANGED Outcome!vars
<1> USE DEF EventIInv, Outcome!vars
<1>1. \A t \in Threads : t \in waiters <=> Waits(t)
  BY DEF WaitersExact
<1>2. ~reset
  BY DEF reset
<1>3. ASSUME NEW t \in Threads, WaitReady(t) \/ Wait(t) \/ WaitTimed(t)
      PROVE  Outcome!Next \/ UNCHANGED Outcome!vars
  <2>1. CASE WaitReady(t)
    <3>1. Outcome!Leave(t)
      BY <2>1, <1>1 DEF WaitReady, Waits, Outcome!Leave, EventTypeOK
    <3> QED
      BY <3>1 DEF Outcome!Next
  <2>2. CASE Wait(t) \/ WaitTimed(t)
    <3>1. Outcome!Join(t)
      BY <2>2, <1>1 DEF Wait, WaitTimed, Waits, Outcome!Join
    <3> QED
      BY <3>1 DEF Outcome!Next
  <2> QED
    BY <1>3, <2>1, <2>2
<1>4. ASSUME NEW m \in sends, DoSend(m)
      PROVE  Outcome!Next \/ UNCHANGED Outcome!vars
  <2>1. m.to \in Threads /\ m.outcome = result /\ result \in Outcomes
    BY DEF EventTypeOK, Sends, SendsCarryResult
  <2>2. CASE m.to \notin waiters
    BY <1>4, <2>2 DEF DoSend, IsWaiter
  <2>3. CASE m.to \in waiters
    <3>1. Outcome!Leave(m.to)
      BY <1>4, <2>1, <2>3 DEF DoSend, IsWaiter, Return, Raise, Discard, Outcome!Leave
    <3> QED
      BY <2>1, <3>1 DEF Outcome!Next
  <2> QED
    BY <2>2, <2>3
<1>5. ASSUME NEW t \in Threads, TimeoutFires(t) \/ Interrupt(t)
      PROVE  Outcome!Next \/ UNCHANGED Outcome!vars
  <2>1. CASE TimeoutFires(t) /\ t \notin waiters
    BY <2>1 DEF TimeoutFires, IsWaiter
  <2>2. CASE TimeoutFires(t) /\ t \in waiters
    <3>1. t \notin Patient
      BY <2>2 DEF TimeoutFires, PatientLeavesNothing
    <3>2. Outcome!GiveUp(t)
      BY <2>2, <3>1 DEF TimeoutFires, IsWaiter, Return, Discard, Outcome!GiveUp
    <3> QED
      BY <3>2 DEF Outcome!Next
  <2>3. CASE Interrupt(t)
    <3>1. Outcome!GiveUp(t)
      BY <2>3, <1>1 DEF Interrupt, Raise, Discard, Outcome!GiveUp
    <3> QED
      BY <3>1 DEF Outcome!Next
  <2> QED
    BY <1>5, <2>1, <2>2, <2>3
<1>6. ASSUME NEW o \in Outcomes, Send(o)
      PROVE  Outcome!Next
  BY <1>6 DEF Send, MaySend, Outcome!Decide, Outcome!Next
<1>7. CASE UNCHANGED eventVars
  BY <1>7 DEF eventVars
<1> QED
  BY <1>2, <1>3, <1>4, <1>5, <1>6, <1>7 DEF EventNext, Waiter

\* reset() withdraws the future, and later rounds are not visible in it.
LEMMA StepImplementsFuture ==
  ASSUME EventIInv, EventIInv', [EventNext]_eventVars
  PROVE  Outcome!Next \/ UNCHANGED Outcome!vars
<1>1. round \in Nat /\ round' \in Nat /\ result \in Outcomes \cup {"unset"}
  BY DEF EventIInv, EventTypeOK
<1>2. round' = round \/ reset
  BY DEF eventVars, EventNext, Waiter, WaitReady, Wait, WaitTimed, Interrupt, DoSend,
         TimeoutFires, Send, Raise, Return
<1>3. CASE round = 0 /\ round' = 0
  BY <1>3, FirstRound
<1>4. CASE round = 0 /\ reset
  <2>1. Outcome!Withdraw
    BY <1>1, <1>4 DEF reset, Outcome!Withdraw
  <2> QED
    BY <2>1 DEF Outcome!Next
<1>5. CASE round # 0
  <2>1. round' # 0
    BY <1>1, <1>2, <1>5 DEF reset
  <2> QED
    BY <1>5, <2>1 DEF Outcome!vars
<1> QED
  BY <1>2, <1>3, <1>4, <1>5

\* The safety half of ImplementsFuture: until it is reset an event is decided
\* once, and nobody leaves it with anything else than the decision.
THEOREM ImplementsDecision == EventSafety => Outcome!Safety
<1>1. EventInit => Outcome!Init
  BY DEF EventInit, Outcome!Init
<1>2. EventIInv /\ EventIInv' /\ [EventNext]_eventVars => [Outcome!Next]_(Outcome!vars)
  BY StepImplementsFuture
<1> QED
  BY <1>1, <1>2, EventInductiveInvariant, PTL DEF EventSafety, Outcome!Safety

-----------------------------------------------------------------------------
(* GreenThread *)

\* The links still to be called are there once, and were linked.
QueueOK ==
  /\ funcs \in Seq(Links)
  /\ IsInjective(funcs)
  /\ fresh \subseteq Links
  /\ \A f \in fresh : ~Contains(funcs, f)

\* The rest of the type invariant.
Typed ==
  /\ g \in {"scheduled", "running", "exits", "dead"}
  /\ run \in {"main", "just_raise"}
  /\ starting \in BOOLEAN
  /\ exit \in {"unset", "value", "error"}
  /\ resolver \in Users \cup {G, NoOne}
  /\ calling \in Links \cup {NoLink}
  /\ user \in [Users -> UserStates]
  /\ switches \in [Users -> Nat]

\* A linked function is called by a resolver, and a started thread has used up
\* the timer of spawn().
CallerKnown == calling # NoLink => resolver # NoOne

\* The links that may still be called; what is called is none of them.
Queued == {f \in Links : f \in fresh \/ Contains(funcs, f)}

CalledOnce == calling \in Links => calling \notin Queued

StartedOnce == starting => g \in {"scheduled", "dead"}

\* A killer replaces the run method only of a thread that has not started, and
\* links are resolved only when the outcome is known.
ReplacedUnstarted == run = "just_raise" => g \in {"scheduled", "dead"}

ResolvesDecided == resolver # NoOne => exit # "unset"

Control ==
  /\ DeadIsDecided
  /\ OneResolver
  /\ CallerKnown
  /\ StartedOnce
  /\ ReplacedUnstarted
  /\ ResolvesDecided

ThreadIInv == QueueOK /\ CalledOnce /\ Typed /\ Control /\ NothingStranded

LEMMA ThreadInitIInv == ThreadInit => ThreadIInv
<1> SUFFICES ASSUME ThreadInit PROVE ThreadIInv
  OBVIOUS
<1> USE GreenThreadAssumption DEF ThreadInit
<1>1. QueueOK
  BY DEF QueueOK, IsInjective, Contains
<1>2. Typed
  BY DEF Typed, UserStates
<1>3. Control
  BY DEF Control, DeadIsDecided, OneResolver, CallerKnown, StartedOnce,
    ReplacedUnstarted, ResolvesDecided
<1>4. CalledOnce /\ NothingStranded
  BY DEF CalledOnce, NothingStranded
<1> QED
  BY <1>1, <1>2, <1>3, <1>4 DEF ThreadIInv

-----------------------------------------------------------------------------
\* The queue: it grows by a new link, shrinks at its head or by an unlink(), and
\* what left it does not come back.
LEMMA QueueKept ==
  ASSUME QueueOK, [ThreadNext]_threadVars
  PROVE  QueueOK' /\ Queued' \subseteq Queued
<1> USE DEF QueueOK, Queued
<1>1. CASE UNCHANGED <<funcs, fresh>>
  BY <1>1
<1>2. ASSUME NEW u \in Users, NEW f \in Links, Link(u, f)
      PROVE  QueueOK' /\ Queued' \subseteq Queued
  <2>1. f \in fresh /\ funcs' = Append(funcs, f) /\ fresh' = fresh \ {f}
    BY <1>2 DEF Link
  <2>2. /\ Append(funcs, f) \in Seq(Links) /\ IsInjective(Append(funcs, f))
        /\ \A h : Contains(Append(funcs, f), h) <=> Contains(funcs, h) \/ h = f
    BY <2>1, AppendNew
  <2> QED
    BY <2>1, <2>2
<1>3. ASSUME NEW u \in Users, NEW f \in Links, Unlink(u, f)
      PROVE  QueueOK' /\ Queued' \subseteq Queued
  <2>1. funcs' = RemoveFirst(funcs, f) /\ fresh' = fresh
    BY <1>3 DEF Unlink
  <2>2. /\ RemoveFirst(funcs, f) \in Seq(Links) /\ IsInjective(RemoveFirst(funcs, f))
        /\ \A h : Contains(RemoveFirst(funcs, f), h) <=> Contains(funcs, h) /\ h # f
    BY RemoveFirstOnce
  <2> QED
    BY <2>1, <2>2
<1>4. CASE CallLink
  <2>1. funcs # <<>> /\ funcs' = Tail(funcs) /\ fresh' = fresh
    BY <1>4 DEF CallLink
  <2>2. /\ Tail(funcs) \in Seq(Links) /\ IsInjective(Tail(funcs))
        /\ \A h : Contains(Tail(funcs), h) <=> Contains(funcs, h) /\ h # Head(funcs)
    BY <2>1, TailOnce
  <2> QED
    BY <2>1, <2>2
<1>5. CASE Start \/ \E o \in {"value", "error"} : Finish(o)
  BY <1>1, <1>5 DEF Start, Finish, lvars
<1>6. CASE LinkReturns \/ LinksDone \/ LinkRaises
  BY <1>1, <1>6 DEF LinkReturns, LinksDone, LinkRaises, Resolved
<1>7. ASSUME NEW u \in Users,
             Kill(u) \/ Wake(u) \/ Sleep(u) \/ SleepOver(u) \/ ThrowInto(u)
      PROVE  QueueOK' /\ Queued' \subseteq Queued
  BY <1>1, <1>7 DEF Kill, KillUnstarted, KillAgain, KillRunning, KillExiting,
    Wake, Sleep, SleepOver, ThrowInto, lvars
<1>8. CASE UNCHANGED threadVars
  BY <1>1, <1>8 DEF threadVars
<1> QED
  BY <1>2, <1>3, <1>4, <1>5, <1>6, <1>7, <1>8 DEF ThreadNext, Resolving

\* What CallLink takes from the queue is a link.
LEMMA HeadIsLink ==
  ASSUME QueueOK, funcs # <<>>
  PROVE  Head(funcs) \in Links
BY TailOnce DEF QueueOK

\* A function that was taken out of the queue is not called again.
LEMMA CalledOnceKept ==
  ASSUME QueueOK, QueueOK', CalledOnce, [ThreadNext]_threadVars
  PROVE  CalledOnce'
<1> USE DEF CalledOnce
<1>1. CASE calling' = calling
  BY <1>1, QueueKept
<1>2. CASE CallLink
  <2>1. /\ Contains(funcs, Head(funcs))
        /\ \A h : Contains(Tail(funcs), h) <=> Contains(funcs, h) /\ h # Head(funcs)
    BY <1>2, TailOnce DEF CallLink, QueueOK
  <2> QED
    BY <1>2, <2>1 DEF CallLink, QueueOK, Queued
<1>3. CASE calling' = NoLink
  BY <1>3, GreenThreadAssumption
<1> QED
  BY <1>1, <1>2, <1>3 DEF threadVars, ThreadNext, Resolving, Kill, Start, Finish, LinkReturns,
    LinksDone, LinkRaises, KillUnstarted, KillAgain, KillRunning, KillExiting, Link,
    Unlink, Wake, Sleep, SleepOver, ThrowInto, lvars

\* The types of everything else.
LEMMA TypedKept ==
  ASSUME QueueOK, Typed, [ThreadNext]_threadVars
  PROVE  Typed'
<1> USE DEF Typed, UserStates
<1>1. ASSUME NEW u \in Users, Yield(u)
      PROVE  user' \in [Users -> UserStates] /\ switches' \in [Users -> Nat]
  BY <1>1 DEF Yield, WakeCaller
<1>2. CASE Start
  <2>1. starting' \in BOOLEAN
    <3>1. starting' = FALSE
      BY <1>2 DEF Start
    <3> QED
      BY <3>1, Zenon
  <2> QED
    BY <1>2, <2>1 DEF Start, lvars, uvars
<1>3. CASE \E o \in {"value", "error"} : Finish(o)
  BY <1>3 DEF Finish, Exit, uvars
<1>4. CASE CallLink
  BY <1>4, HeadIsLink DEF CallLink, gvars, uvars
<1>5. CASE LinkReturns
  BY <1>5 DEF LinkReturns, gvars, uvars
<1>6. ASSUME Resolved
      PROVE  /\ resolver' = NoOne /\ g' \in {"scheduled", "running", "exits", "dead"}
             /\ user' \in [Users -> UserStates] /\ switches' \in [Users -> Nat]
             /\ UNCHANGED <<run, starting, exit>>
  <2>1. CASE resolver = G /\ g' = "dead" /\ UNCHANGED uvars
    BY <1>6, <2>1 DEF Resolved, uvars
  <2>2. CASE resolver \in Users /\ g' = "dead" /\ Yield(resolver)
    BY <1>1, <1>6, <2>2 DEF Resolved
  <2>3. CASE /\ user' = [user EXCEPT ![resolver] = "runs"]
             /\ UNCHANGED <<g, switches>>
    BY <1>6, <2>3 DEF Resolved
  <2> QED
    BY <1>6, <2>1, <2>2, <2>3 DEF Resolved
<1>7. CASE LinksDone \/ LinkRaises
  BY <1>6, <1>7 DEF LinksDone, LinkRaises
<1>8. ASSUME NEW u \in Users, Kill(u)
      PROVE  Typed'
  <2>1. CASE KillUnstarted(u)
    BY <2>1 DEF KillUnstarted, ReplaceRun, ExitKilled
  <2>2. CASE KillAgain(u)
    BY <1>1, <2>2 DEF KillAgain, ReplaceRun, lvars
  <2>3. CASE KillRunning(u)
    BY <1>1, <2>3 DEF KillRunning, Exit
  <2>4. CASE KillExiting(u)
    BY <1>1, <2>4 DEF KillExiting
  <2> QED
    BY <1>8, <2>1, <2>2, <2>3, <2>4 DEF Kill
<1>9. ASSUME NEW u \in Users, NEW f \in Links, Link(u, f) \/ Unlink(u, f)
      PROVE  Typed'
  BY <1>9 DEF Link, Unlink, gvars, uvars
<1>10. ASSUME NEW u \in Users, Wake(u)
       PROVE  Typed'
  <2>1. switches[u] \in Nat /\ switches[u] > 0
    BY <1>10 DEF Wake, Pending
  <2> QED
    BY <1>10, <2>1 DEF Wake, gvars, lvars
<1>11. ASSUME NEW u \in Users, Sleep(u) \/ SleepOver(u) \/ ThrowInto(u)
       PROVE  Typed'
  BY <1>11 DEF Sleep, SleepOver, ThrowInto, gvars, lvars
<1>12. CASE UNCHANGED threadVars
  BY <1>12 DEF threadVars
<1> QED
  BY <1>2, <1>3, <1>4, <1>5, <1>7, <1>8, <1>9, <1>10, <1>11, <1>12
    DEF ThreadNext, Resolving

-----------------------------------------------------------------------------
\* The control state: who resolves the links, and what that says of the rest.
LEMMA ControlKept ==
  ASSUME ThreadIInv, [ThreadNext]_threadVars
  PROVE  Control'
<1> USE GreenThreadAssumption
    DEF ThreadIInv, Control, DeadIsDecided, OneResolver, CallerKnown, StartedOnce,
        ReplacedUnstarted, ResolvesDecided
<1>0. \A u \in Users : u # G /\ u # NoOne /\ G # NoOne
  OBVIOUS
<1>1. CASE Start
  <2>1. /\ g' \in {"running", "dead"} /\ (g' = "running" <=> exit = "unset")
        /\ g # "exits" /\ starting' = FALSE
        /\ UNCHANGED <<run, exit, funcs, resolver, calling, user>>
    BY <1>1 DEF Start, lvars, uvars, Typed
  <2> QED
    BY <2>1
<1>2. ASSUME NEW o \in {"value", "error"}, Finish(o)
      PROVE  Control'
  <2>1. /\ g = "running" /\ ~starting /\ exit = "unset" /\ run # "just_raise"
        /\ resolver = NoOne
    BY <1>0, <1>2 DEF Finish, Quiet, Typed
  <2> QED
    BY <1>0, <1>2, <2>1 DEF Finish, Exit, uvars, Typed
<1>3. CASE CallLink
  BY <1>3 DEF CallLink, gvars, uvars
<1>4. CASE LinkReturns
  BY <1>4 DEF LinkReturns, gvars, uvars
<1>5. CASE LinksDone \/ LinkRaises
  BY <1>0, <1>5 DEF LinksDone, LinkRaises, Resolved, Yield, uvars, Typed
<1>6. ASSUME NEW u \in Users, KillUnstarted(u)
      PROVE  Control'
  BY <1>0, <1>6 DEF KillUnstarted, MayKill, Quiet, ReplaceRun, ExitKilled, Typed
<1>7. ASSUME NEW u \in Users, KillAgain(u)
      PROVE  Control'
  BY <1>0, <1>7 DEF KillAgain, MayKill, Yield, ReplaceRun, Typed, lvars
<1>8. ASSUME NEW u \in Users, KillRunning(u)
      PROVE  Control'
  <2>1. /\ g = "running" /\ ~starting /\ exit = "unset" /\ run # "just_raise"
        /\ resolver = NoOne
    BY <1>0, <1>8 DEF KillRunning, MayKill, Quiet, Typed
  <2> QED
    BY <1>0, <1>8, <2>1 DEF KillRunning, MayKill, Yield, Exit, Typed
<1>9. ASSUME NEW u \in Users, KillExiting(u)
      PROVE  Control'
  BY <1>0, <1>9 DEF KillExiting, MayKill, Yield, Typed
<1>10. ASSUME NEW u \in Users, NEW f \in Links, Link(u, f)
       PROVE  Control'
  BY <1>0, <1>10 DEF Link, MustResolve, Typed, gvars
<1>11. ASSUME NEW u \in Users, NEW f \in Links, Unlink(u, f)
       PROVE  Control'
  <2>1. funcs # <<>>
    BY <1>11 DEF Unlink, Contains
  <2> QED
    BY <1>11, <2>1 DEF Unlink, gvars, uvars
<1>12. ASSUME NEW u \in Users, Wake(u) \/ Sleep(u) \/ SleepOver(u) \/ ThrowInto(u)
       PROVE  Control'
  <2>1. /\ UNCHANGED <<g, run, starting, exit, funcs, resolver, calling>>
        /\ \A v \in Users : \/ user'[v] = user[v]
                            \/ /\ user[v] \notin {"killing", "linking"}
                               /\ user'[v] \notin {"killing", "linking"}
    BY <1>12 DEF Wake, Sleep, SleepOver, ThrowInto, gvars, lvars, Typed
  <2> QED
    BY <2>1
<1>13. CASE UNCHANGED threadVars
  BY <1>13 DEF threadVars
<1> QED
  BY <1>1, <1>2, <1>3, <1>4, <1>5, <1>6, <1>7, <1>8, <1>9, <1>10, <1>11, <1>12,
    <1>13 DEF ThreadNext, Resolving, Kill

\* The links are left over only by a resolver that a raising function ended.
LEMMA StrandedKept ==
  ASSUME ThreadIInv, [ThreadNext]_threadVars
  PROVE  NothingStranded'
<1> DEFINE Gone == \E f \in Raising : f \notin Queued
<1>1. NothingStranded' <=> (exit' # "unset" /\ resolver' = NoOne /\ funcs' # <<>> => Gone')
  BY GreenThreadAssumption DEF NothingStranded, Queued
<1>2. NothingStranded <=> (exit # "unset" /\ resolver = NoOne /\ funcs # <<>> => Gone)
  BY GreenThreadAssumption DEF NothingStranded, Queued
<1>3. Gone => Gone'
  BY QueueKept DEF ThreadIInv
<1>4. CASE UNCHANGED <<exit, resolver, funcs>>
  BY <1>1, <1>2, <1>3, <1>4 DEF ThreadIInv
<1>5. CASE LinkRaises \/ \E u \in Users : KillExiting(u) /\ calling \in Raising
  <2>1. calling \in Raising /\ calling \notin Queued
    BY <1>5, GreenThreadAssumption DEF LinkRaises, ThreadIInv, CalledOnce
  <2> QED
    BY <1>1, <1>3, <2>1
<1>6. CASE LinksDone
  BY <1>1, <1>6 DEF LinksDone
<1>7. CASE resolver' # NoOne
  BY <1>1, <1>7
<1>8. CASE CallLink \/ \E u \in Users : KillUnstarted(u)
  BY <1>1, <1>8, GreenThreadAssumption DEF CallLink, KillUnstarted
<1>9. ASSUME NEW u \in Users, NEW f \in Links, Link(u, f), resolver' = NoOne
      PROVE  NothingStranded'
  BY <1>1, <1>9, GreenThreadAssumption DEF Link, MustResolve, gvars
<1>10. ASSUME NEW u \in Users, NEW f \in Links, Unlink(u, f)
       PROVE  NothingStranded'
  <2>1. funcs # <<>> /\ UNCHANGED <<exit, resolver>>
    BY <1>10 DEF Unlink, Contains, gvars
  <2> QED
    BY <1>1, <1>2, <1>3, <2>1 DEF ThreadIInv
<1>11. ASSUME NEW o \in {"value", "error"}, Exit(o)
       PROVE  NothingStranded'
  BY <1>1, <1>11, GreenThreadAssumption DEF Exit
<1>12. CASE Start \/ LinkReturns
  BY <1>4, <1>12 DEF Start, LinkReturns, lvars, gvars
<1>13. ASSUME NEW u \in Users,
              Wake(u) \/ Sleep(u) \/ SleepOver(u) \/ ThrowInto(u) \/ KillAgain(u)
       PROVE  NothingStranded'
  BY <1>4, <1>13 DEF Wake, Sleep, SleepOver, ThrowInto, KillAgain, lvars, gvars
<1>14. ASSUME NEW u \in Users, KillRunning(u) \/ KillExiting(u)
       PROVE  NothingStranded'
  BY <1>4, <1>5, <1>11, <1>14 DEF KillRunning, KillExiting
<1>15. CASE UNCHANGED threadVars
  BY <1>4, <1>15 DEF threadVars
<1> QED
  BY <1>5, <1>6, <1>7, <1>8, <1>9, <1>10, <1>11, <1>12, <1>13, <1>14, <1>15
    DEF ThreadNext, Resolving, Kill, Finish

LEMMA ThreadNextIInv == ThreadIInv /\ [ThreadNext]_threadVars => ThreadIInv'
<1>1. ASSUME ThreadIInv, [ThreadNext]_threadVars
      PROVE  (QueueOK /\ CalledOnce /\ Typed /\ Control)'
  BY <1>1, QueueKept, CalledOnceKept, TypedKept, ControlKept DEF ThreadIInv
<1> QED
  BY <1>1, StrandedKept DEF ThreadIInv

\* Everything below rests on this invariant of every behaviour of the thread.
THEOREM ThreadInductiveInvariant == ThreadSafety => []ThreadIInv
BY ThreadInitIInv, ThreadNextIInv, PTL DEF ThreadSafety

\* The state of a greenthread, its links and its killers stays well formed.
THEOREM ThreadTypeCorrect == ThreadSafety => []ThreadTypeOK
<1>1. ThreadIInv => ThreadTypeOK
  BY DEF ThreadIInv, QueueOK, Typed, ThreadTypeOK
<1> QED
  BY <1>1, ThreadInductiveInvariant, PTL

\* A greenthread that is dead, or that was killed before it started, has its
\* outcome sent, and no other has: nobody waits for it in vain.
THEOREM DeadThreadsAreDecided == ThreadSafety => []DeadIsDecided
<1>1. ThreadIInv => DeadIsDecided
  BY DEF ThreadIInv, Control
<1> QED
  BY <1>1, ThreadInductiveInvariant, PTL

\* At most one thread is in _resolve_links.
THEOREM LinksHaveOneResolver == ThreadSafety => []OneResolver
<1>1. ThreadIInv => OneResolver
  BY DEF ThreadIInv, Control
<1> QED
  BY <1>1, ThreadInductiveInvariant, PTL

\* Unless one that may raise was called, no linked function is left over when the
\* thread is done, however link, unlink, kill and the end of the thread interleave.
THEOREM NoLinkIsStranded == ThreadSafety => []NothingStranded
<1>1. ThreadIInv => NothingStranded
  BY DEF ThreadIInv
<1> QED
  BY <1>1, ThreadInductiveInvariant, PTL

-----------------------------------------------------------------------------
\* Every step of the greenthread is one of the task's, or none.
LEMMA StepImplementsTask ==
  ASSUME ThreadIInv, [ThreadNext]_threadVars
  PROVE  LifeOfTask!Next \/ UNCHANGED LifeOfTask!vars
<1> USE DEF LifeOfTask!vars
<1>1. /\ DeadIsDecided /\ OneResolver /\ CallerKnown /\ StartedOnce /\ Typed
      /\ ReplacedUnstarted /\ ResolvesDecided
  BY DEF ThreadIInv, Control
<1>2. CASE Start
  <2>1. CASE exit = "unset"
    <3>1. g = "scheduled" /\ run = "main"
      BY <1>1, <1>2, <2>1 DEF Start, DeadIsDecided, StartedOnce, Typed
    <3>2. LifeOfTask!Start
      BY <1>2, <2>1, <3>1 DEF Start, lvars, LifeOfTask!Start
    <3> QED
      BY <3>2 DEF LifeOfTask!Next
  <2>2. CASE exit # "unset"
    BY <1>2, <2>2 DEF Start, lvars
  <2> QED
    BY <2>1, <2>2
<1>3. ASSUME NEW o \in {"value", "error"}, g = "running", Exit(o),
             UNCHANGED <<funcs, calling>>
      PROVE  LifeOfTask!Next
  <2>1. exit = "unset"
    BY <1>1, <1>3 DEF DeadIsDecided, ReplacedUnstarted
  <2> QED
    BY <1>3, <2>1 DEF Exit, LifeOfTask!Finish, LifeOfTask!Next
<1>4. CASE \E o \in {"value", "error"} : Finish(o)
  BY <1>3, <1>4 DEF Finish
<1>5. CASE CallLink
  <2>1. exit # "unset"
    BY <1>1, <1>5 DEF CallLink, ResolvesDecided
  <2> QED
    BY <1>5, <2>1 DEF CallLink, gvars, LifeOfTask!Call, LifeOfTask!Next
<1>6. CASE LinkReturns
  BY <1>6 DEF LinkReturns, gvars, LifeOfTask!Return, LifeOfTask!Next
<1>7. ASSUME exit # "unset", UNCHANGED <<exit, funcs, calling>>
      PROVE  UNCHANGED LifeOfTask!vars
  BY <1>7
<1>8. CASE LinksDone
  BY <1>1, <1>7, <1>8 DEF LinksDone, Resolved, ResolvesDecided
<1>9. CASE LinkRaises
  <2>1. exit # "unset" /\ UNCHANGED <<exit, funcs>> /\ calling # NoLink /\ calling' = NoLink
    BY <1>1, <1>9, GreenThreadAssumption
      DEF LinkRaises, Resolved, ResolvesDecided, CallerKnown
  <2> QED
    BY <2>1 DEF LifeOfTask!Return, LifeOfTask!Next
<1>10. ASSUME NEW u \in Users, KillUnstarted(u)
       PROVE  LifeOfTask!Next
  <2>1. exit = "unset" /\ exit' = "error" /\ g = "scheduled"
        /\ UNCHANGED <<funcs, calling>>
    BY <1>10 DEF KillUnstarted, ExitKilled
  <2> QED
    BY <2>1 DEF LifeOfTask!Abandon, LifeOfTask!Next
<1>11. ASSUME NEW u \in Users, KillAgain(u)
       PROVE  UNCHANGED LifeOfTask!vars
  BY <1>7, <1>11 DEF KillAgain, lvars
<1>12. ASSUME NEW u \in Users, KillRunning(u)
       PROVE  LifeOfTask!Next \/ UNCHANGED LifeOfTask!vars
  BY <1>3, <1>12 DEF KillRunning
<1>13. ASSUME NEW u \in Users, KillExiting(u)
       PROVE  LifeOfTask!Next \/ UNCHANGED LifeOfTask!vars
  <2>1. exit # "unset" /\ UNCHANGED <<exit, funcs>>
    BY <1>1, <1>13 DEF KillExiting, DeadIsDecided
  <2>2. CASE UNCHANGED calling
    BY <1>7, <2>1, <2>2
  <2>3. CASE calling # NoLink /\ calling' = NoLink
    BY <2>1, <2>3 DEF LifeOfTask!Return, LifeOfTask!Next
  <2> QED
    BY <1>13, <2>2, <2>3 DEF KillExiting
<1>14. ASSUME NEW u \in Users, NEW f \in Links, Link(u, f) \/ Unlink(u, f)
       PROVE  LifeOfTask!Next
  <2>1. UNCHANGED <<g, exit, calling>>
    BY <1>14 DEF Link, Unlink, gvars
  <2>2. funcs' = Append(funcs, f) \/ funcs' = RemoveFirst(funcs, f)
    BY <1>14 DEF Link, Unlink
  <2>3. RemoveFirst(funcs, f) = LifeOfTask!RemoveFirst(funcs, f)
    BY DEF RemoveFirst, LifeOfTask!RemoveFirst, RemoveAt, LifeOfTask!RemoveAt,
      SelectInSeq, LifeOfTask!SelectInSeq, Min, LifeOfTask!Min
  <2> QED
    BY <2>1, <2>2, <2>3 DEF LifeOfTask!Link, LifeOfTask!Unlink, LifeOfTask!Next
<1>15. ASSUME NEW u \in Users, Wake(u) \/ Sleep(u) \/ SleepOver(u) \/ ThrowInto(u)
       PROVE  UNCHANGED LifeOfTask!vars
  BY <1>15 DEF Wake, Sleep, SleepOver, ThrowInto, gvars, lvars
<1>16. CASE UNCHANGED threadVars
  BY <1>16 DEF threadVars
<1> QED
  BY <1>2, <1>4, <1>5, <1>6, <1>8, <1>9, <1>10, <1>11, <1>12, <1>13, <1>14,
    <1>15, <1>16 DEF ThreadNext, Resolving, Kill

\* IsTask: a greenthread is a task whatever its users and its links do.
THEOREM ImplementsLifeOfTask == ThreadSafety => IsTask
<1>1. ThreadInit => LifeOfTask!Init
  BY DEF ThreadInit, LifeOfTask!Init
<1> QED
  BY <1>1, ThreadInductiveInvariant, StepImplementsTask, PTL
    DEF ThreadSafety, IsTask, LifeOfTask!Safety

==============================================================================
