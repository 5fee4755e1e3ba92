------------------------------ MODULE HubTimers ------------------------------
(***************************************************************************)
(* eventlet/hubs/hub.py and timer.py: the run loop of the hub and its      *)
(* timers.                                                                 *)
(*                                                                         *)
(* New timers go to the list next_timers and reach the heap self.timers    *)
(* only between two sweeps of fire_timers.  Cancelling leaves the entry    *)
(* where it is and counts it; when half of the entries are cancelled both  *)
(* lists are rebuilt, and self.timers becomes a new list object, even if a *)
(* sweep is under way: the sweep goes on with the list it holds.           *)
(*                                                                         *)
(* Greenthreads run in bursts, from the moment the hub switches to them    *)
(* until they switch back.  In a burst they schedule and cancel timers,    *)
(* abort the hub, or let KeyboardInterrupt or SystemExit escape, which     *)
(* kills the loop until the main greenthread switches to the hub again.    *)
(***************************************************************************)
EXTENDS Integers, FiniteSets, FiniteSetsExt

CONSTANTS
  Timers,        \* timer objects; one that left the lists may be used again
  LocalTimers,   \* those made by schedule_call_local
  Delays,        \* the seconds a timer is scheduled with
  CleanAbove,    \* the lists are never rebuilt below this size (1000)
  DefaultSleep,  \* default_sleep()
  Abortable,     \* whether abort() is ever called
  MaxReady,      \* bound of the model: listeners called in one round
  MaxTime,       \* bound of the model: the clock stops there
  MaxEscapes,    \* bound of the model: escaping system exceptions
  MaxDrift       \* bound of the model: no cancel() once the count is this
                 \* far below zero

ASSUME HubTimersAssumption ==
  /\ IsFiniteSet(Timers)
  /\ LocalTimers \subseteq Timers
  /\ Delays \subseteq Nat
  /\ CleanAbove \in Nat
  /\ DefaultSleep \in Nat \ {0}
  /\ Abortable \in BOOLEAN
  /\ MaxReady \in Nat
  /\ MaxTime \in Nat
  /\ MaxEscapes \in Nat
  /\ MaxDrift \in Nat

VARIABLES
  clock,            \* self.clock()
  status,           \* free, pending, fired, cancelled, or dropped by abort
  due,              \* the scheduled_time of each timer
  next_timers,      \* self.next_timers
  timers,           \* self.timers
  rebound,          \* whether the sweep holds another list than self.timers
  swept,            \* the list it holds then
  timers_canceled,  \* self.timers_canceled
  phase,            \* where run() is; "main" when it is not running
  burst,            \* whether run() has called into a greenthread
  ready,            \* listeners run() has yet to call in this round: those in
                    \* self.closed, then those wait() found ready
  when,             \* the argument of the sweep, 0 when there is none
  wakeup,           \* when the wait times out, 0 outside of it
  stopping,         \* self.stopping
  escapes           \* system exceptions so far

vars == <<clock, status, due, next_timers, timers, rebound, swept,
          timers_canceled, phase, burst, ready, when, wakeup, stopping, escapes>>

lists == <<next_timers, timers, rebound, swept, timers_canceled>>
loop == <<phase, burst, ready, when, wakeup, stopping, escapes>>

Statuses == {"free", "pending", "fired", "cancelled", "dropped"}
Phases == {"main", "close", "fire", "sleep", "dispatch"}

TypeOK ==
  /\ clock \in Nat
  /\ status \in [Timers -> Statuses]
  /\ due \in [Timers -> Nat]
  /\ next_timers \subseteq Timers
  /\ timers \subseteq Timers
  /\ rebound \in BOOLEAN
  /\ swept \subseteq Timers
  /\ timers_canceled \in Int
  /\ phase \in Phases
  /\ burst \in BOOLEAN
  /\ ready \in Nat
  /\ when \in Nat
  /\ wakeup \in Nat
  /\ stopping \in BOOLEAN
  /\ escapes \in Nat

Init ==
  /\ clock = 0
  /\ status = [t \in Timers |-> "free"]
  /\ due = [t \in Timers |-> 0]
  /\ next_timers = {}
  /\ timers = {}
  /\ rebound = FALSE
  /\ swept = {}
  /\ timers_canceled = 0
  /\ phase = "main"
  /\ burst = FALSE
  /\ ready = 0
  /\ when = 0
  /\ wakeup = 0
  /\ stopping = FALSE
  /\ escapes = 0

\* timer.called
Called(t) == status[t] \in {"fired", "cancelled"}

\* get_timers_count()
Count == Cardinality(timers) + Cardinality(next_timers)

\* Code other than the hub's is running.
UserRuns == burst \/ phase = "main"

Running == phase # "main"

-----------------------------------------------------------------------------
(* What greenthreads do to the timers *)

\* Faulty: push the new timer on the heap at once.
EnqueueOnHeap(t) ==
  /\ timers' = timers \cup {t}
  /\ UNCHANGED next_timers

\* add_timer: the heap is left alone.
Enqueue(t) ==
  /\ next_timers' = next_timers \cup {t}
  /\ UNCHANGED timers

\* schedule_call_global and schedule_call_local
Schedule(t, seconds) ==
  /\ UserRuns
  /\ status[t] # "pending"
  /\ t \notin timers \cup next_timers \cup swept
  /\ clock + seconds <= MaxTime
  /\ status' = [status EXCEPT ![t] = "pending"]
  /\ due' = [due EXCEPT ![t] = clock + seconds]
  /\ Enqueue(t)
  /\ UNCHANGED <<clock, rebound, swept, timers_canceled, loop>>

\* Faulty: take the timers that are due for timers that were called.
UncalledLater(S, t) == {u \in S : ~Called(u) /\ u # t /\ due[u] > clock}

\* Rebuild both lists without the timers that were called, t among them.
Uncalled(S, t) == {u \in S : ~Called(u) /\ u # t}

Rebuild(t) ==
  /\ timers_canceled' = 0
  /\ timers' = Uncalled(timers, t)
  /\ next_timers' = Uncalled(next_timers, t)
  /\ IF phase = "fire" /\ ~rebound
     THEN /\ rebound' = TRUE
          /\ swept' = timers
     ELSE UNCHANGED <<rebound, swept>>

\* The test of timer_canceled, after the increment.
TooManyCanceled == Count > CleanAbove /\ Count <= 2 * (timers_canceled + 1)

\* Timer.cancel and timer_canceled.  A timer that abort() threw away does not
\* know it, so cancelling it counts as well.
Cancel(t) ==
  /\ UserRuns
  /\ status[t] \in {"pending", "dropped"}
  /\ timers_canceled > -MaxDrift
  /\ status' = [status EXCEPT ![t] = "cancelled"]
  /\ \/ /\ TooManyCanceled
        /\ Rebuild(t)
     \/ /\ ~TooManyCanceled
        /\ timers_canceled' = timers_canceled + 1
        /\ UNCHANGED <<next_timers, timers, rebound, swept>>
  /\ UNCHANGED <<clock, due, loop>>

\* abort() only raises a flag; run() looks at it at the head of the loop.
Abort ==
  /\ Abortable
  /\ UserRuns /\ Running
  /\ stopping' = TRUE
  /\ UNCHANGED <<clock, status, due, lists, phase, burst, ready, when, wakeup, escapes>>

\* The burst ends: the greenthread switches to the hub, dies, or raises an
\* exception the hub swallows.
BurstEnds ==
  /\ burst
  /\ burst' = FALSE
  /\ UNCHANGED <<clock, status, due, lists, phase, ready, when, wakeup, stopping, escapes>>

\* KeyboardInterrupt or SystemExit passes through run(): its finally clause
\* resets the flags, and neither list is touched.
Escape ==
  /\ burst
  /\ escapes < MaxEscapes
  /\ escapes' = escapes + 1
  /\ burst' = FALSE
  /\ phase' = "main"
  /\ ready' = 0
  /\ stopping' = FALSE
  /\ rebound' = FALSE
  /\ swept' = {}
  /\ when' = 0
  /\ UNCHANGED <<clock, status, due, next_timers, timers, timers_canceled, wakeup>>

-----------------------------------------------------------------------------
(* The run loop *)

\* The main greenthread switches to the hub: ensure_greenlet, then run().
Run ==
  /\ phase = "main"
  /\ phase' = "close"
  /\ ready' \in 0..MaxReady
  /\ UNCHANGED <<clock, status, due, lists, burst, when, wakeup, stopping, escapes>>

\* close_one throws into a greenthread, or wait() calls the callback of a
\* file descriptor that is ready.
CallListener ==
  /\ phase \in {"close", "dispatch"} /\ ~burst
  /\ ready > 0
  /\ ready' = ready - 1
  /\ burst' = TRUE
  /\ UNCHANGED <<clock, status, due, lists, phase, when, wakeup, stopping, escapes>>

\* prepare_timers moves the new timers to the heap, but for those that were
\* cancelled already.
Prepared == timers \cup {t \in next_timers : ~Called(t)}

prepare_timers ==
  /\ timers' = Prepared
  /\ timers_canceled' =
       timers_canceled - Cardinality({t \in next_timers : Called(t)})
  /\ next_timers' = {}

\* prepare_timers() at line 349, and fire_timers begins.
BeginSweep ==
  /\ phase = "close" /\ ~burst /\ ready = 0
  /\ prepare_timers
  /\ phase' = "fire"
  /\ when' = clock
  /\ UNCHANGED <<clock, status, due, rebound, swept, burst, ready, wakeup, stopping, escapes>>

\* The list fire_timers works on: self.timers as it was when it began.
Sweep == IF rebound THEN swept ELSE timers

\* Faulty: take any timer that is due.
EarliestAny(S, t) == t \in S

Earliest(S, t) == t \in S /\ \A u \in S : due[t] <= due[u]

\* Faulty: fire a timer one unit ahead of time.
DueSoon(t) == when + 1 >= due[t]

Due(t) == when >= due[t]

Pop(t) ==
  IF rebound
  THEN swept' = swept \ {t} /\ UNCHANGED timers
  ELSE timers' = timers \ {t} /\ UNCHANGED swept

\* The sweep meets a timer that was called already.
SkipCalled(t) ==
  /\ phase = "fire" /\ ~burst
  /\ Earliest(Sweep, t) /\ Due(t)
  /\ Called(t)
  /\ Pop(t)
  /\ timers_canceled' = timers_canceled - 1
  /\ UNCHANGED <<clock, status, due, next_timers, rebound, loop>>

\* The sweep calls a timer.  The callback of a local timer does not run when
\* the greenthread that made the timer is dead.
Fire(t) ==
  /\ phase = "fire" /\ ~burst
  /\ Earliest(Sweep, t) /\ Due(t)
  /\ ~Called(t)
  /\ Pop(t)
  /\ status' = [status EXCEPT ![t] = "fired"]
  /\ burst' \in (IF t \in LocalTimers THEN BOOLEAN ELSE {TRUE})
  /\ UNCHANGED <<clock, due, next_timers, rebound, timers_canceled,
                 phase, ready, when, wakeup, stopping, escapes>>

\* Faulty: look at the heap as it was before the timers of this sweep.
WakeupAtHeap(S) ==
  IF timers = {} THEN clock + DefaultSleep ELSE Min({due[t] : t \in timers})

\* The second prepare_timers, at line 355, then sleep_until.
WakeupAt(S) ==
  IF S = {} THEN clock + DefaultSleep ELSE Min({due[t] : t \in S})

\* Nothing in the list is due any more: collect the new timers and wait.
EndSweep ==
  /\ phase = "fire" /\ ~burst
  /\ \A t \in Sweep : ~Due(t)
  /\ prepare_timers
  /\ wakeup' = WakeupAt(Prepared)
  /\ phase' = "sleep"
  /\ rebound' = FALSE
  /\ swept' = {}
  /\ when' = 0
  /\ UNCHANGED <<clock, status, due, burst, ready, stopping, escapes>>

\* wait() returns from the system call, on an event or because it is time.
EndSleep ==
  /\ phase = "sleep"
  /\ phase' = "dispatch"
  /\ wakeup' = 0
  /\ ready' \in 0..MaxReady
  /\ UNCHANGED <<clock, status, due, lists, burst, when, stopping, escapes>>

\* The head of the loop, with and without a call of abort().
LoopAgain ==
  /\ phase = "dispatch" /\ ~burst /\ ready = 0
  /\ ~stopping
  /\ phase' = "close"
  /\ ready' \in 0..MaxReady
  /\ UNCHANGED <<clock, status, due, lists, burst, when, wakeup, stopping, escapes>>

Stop ==
  /\ phase = "dispatch" /\ ~burst /\ ready = 0
  /\ stopping
  /\ phase' = "main"
  /\ stopping' = FALSE
  /\ timers' = {}
  /\ next_timers' = {}
  /\ timers_canceled' = 0
  /\ status' = [t \in Timers |-> IF status[t] = "pending" THEN "dropped" ELSE status[t]]
  /\ UNCHANGED <<clock, due, rebound, swept, burst, ready, when, wakeup, escapes>>

\* Time passes, but the system call does not outlast its timeout.
Tick ==
  /\ clock < MaxTime
  /\ phase = "sleep" => clock < wakeup
  /\ clock' = clock + 1
  /\ UNCHANGED <<status, due, lists, loop>>

-----------------------------------------------------------------------------

User ==
  \/ \E t \in Timers, seconds \in Delays : Schedule(t, seconds)
  \/ \E t \in Timers : Cancel(t)
  \/ Abort

Loop ==
  \/ BeginSweep
  \/ CallListener
  \/ \E t \in Timers : SkipCalled(t) \/ Fire(t)
  \/ EndSweep \/ EndSleep \/ LoopAgain \/ Stop

Next == User \/ BurstEnds \/ Escape \/ Run \/ Loop \/ Tick

Safety == Init /\ [][Next]_vars

\* The hub runs on by itself; time passes; greenthreads are cooperative, so
\* every burst ends; and the main greenthread always comes back to the hub.
Fairness ==
  /\ WF_vars(Loop)
  /\ WF_vars(Tick)
  /\ WF_vars(BurstEnds)
  /\ WF_vars(Run)

Spec == Safety /\ Fairness

-----------------------------------------------------------------------------
(* Properties *)

\* A timer nobody cancelled is in exactly one of the two lists of the hub,
\* whatever was rebuilt, collected or interrupted in between.
NoTimerLost ==
  \A t \in Timers :
    status[t] = "pending" => (t \in timers) # (t \in next_timers)

\* While a sweep holds a list of its own, it misses no timer of the new
\* self.timers that could be due.
SweepComplete ==
  rebound => \A t \in timers : status[t] = "pending" => t \in swept

\* A timer runs before another that is due earlier only if the other was
\* scheduled since the sweep began.
FiresInOrder ==
  [][\A t \in Timers : Fire(t) =>
       \A u \in Timers : status[u] = "pending" /\ due[u] < due[t] => u \in next_timers]_vars

\* run() never sleeps past a timer, those of the last sweep included.
NeverOversleeps ==
  phase = "sleep" => \A t \in Timers : status[t] = "pending" => wakeup <= due[t]

\* Timers that schedule timers with no delay, for ever, do not keep the hub
\* from looking at its file descriptors.
ReachesWait == []<>(phase = "sleep")

Service == INSTANCE TimerService

ImplementsTimerService == Service!Spec

=============================================================================
