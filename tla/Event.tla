-------------------------------- MODULE Event --------------------------------
(***************************************************************************)
(* eventlet/event.py: Event.                                               *)
(*                                                                         *)
(* send() does not run the waiters: for each of them it leaves a timer     *)
(* that calls _do_send, with the result of that send.  wait(timeout) adds  *)
(* a timer that calls _do_send with None.  _do_send switches to the thread *)
(* if it finds it among the waiters, whichever wait it is in by then.      *)
(***************************************************************************)
EXTENDS Integers, FiniteSets

CONSTANTS
  Threads,     \* the greenthreads that wait
  Patient,     \* those that only call wait() with no timeout; nobody
               \* interrupts those of them that do not survive it
  Survivors,   \* those that catch an exception thrown into their wait and
               \* go on; the others die of it
  MaxResets,   \* bound of the model: calls of reset()
  MaxTimers    \* bound of the model: timers of wait(timeout) left by a thread

ASSUME EventAssumption ==
  /\ Patient \subseteq Threads
  /\ Survivors \subseteq Threads
  /\ MaxResets \in Nat
  /\ MaxTimers \in Nat

Outcomes == {"value", "error"}

VARIABLES
  result,     \* _result and _exc: "unset", or one of the outcomes
  round,      \* calls of reset() so far
  waiters,    \* self._waiters
  state,      \* what each thread is doing
  sends,      \* the _do_send timers of send(), each with its round
  timeouts,   \* how many _do_send timers of wait(timeout) each thread left
  got         \* how the last wait of each thread ended

eventVars == <<result, round, waiters, state, sends, timeouts, got>>

States == {"runs", "waits", "waits_timed", "dead"}

Sends == [round : Nat, outcome : Outcomes, to : Threads]

EventTypeOK ==
  /\ result \in Outcomes \cup {"unset"}
  /\ round \in Nat
  /\ waiters \subseteq Threads
  /\ state \in [Threads -> States]
  /\ sends \subseteq Sends
  /\ timeouts \in [Threads -> Nat]
  /\ got \in [Threads -> Outcomes \cup {"nothing"}]

EventInit ==
  /\ result = "unset"
  /\ round = 0
  /\ waiters = {}
  /\ state = [t \in Threads |-> "runs"]
  /\ sends = {}
  /\ timeouts = [t \in Threads |-> 0]
  /\ got = [t \in Threads |-> "nothing"]

Waits(t) == state[t] \in {"waits", "waits_timed"}

-----------------------------------------------------------------------------
(* wait() *)

\* wait() on an event that was sent returns or raises at once.
WaitReady(t) ==
  /\ state[t] = "runs"
  /\ result # "unset"
  /\ got' = [got EXCEPT ![t] = result]
  /\ UNCHANGED <<result, round, waiters, state, sends, timeouts>>

Wait(t) ==
  /\ state[t] = "runs"
  /\ result = "unset"
  /\ waiters' = waiters \cup {t}
  /\ state' = [state EXCEPT ![t] = "waits"]
  /\ UNCHANGED <<result, round, sends, timeouts, got>>

\* wait(timeout)
WaitTimed(t) ==
  /\ t \notin Patient
  /\ state[t] = "runs"
  /\ result = "unset"
  /\ timeouts[t] < MaxTimers
  /\ waiters' = waiters \cup {t}
  /\ state' = [state EXCEPT ![t] = "waits_timed"]
  /\ timeouts' = [timeouts EXCEPT ![t] = @ + 1]
  /\ UNCHANGED <<result, round, sends, got>>

\* The finally clause of wait.
Discard(t) == waiters \ {t}

\* The switch returned: a timer of this wait that is still pending is
\* cancelled.  left is what is pending at that moment.
Return(t, o, left) ==
  /\ waiters' = Discard(t)
  /\ state' = [state EXCEPT ![t] = "runs"]
  /\ got' = [got EXCEPT ![t] = o]
  /\ timeouts' = [timeouts EXCEPT ![t] = left]

\* The switch raised: the timer of this wait stays with the hub.
Raise(t, o, next) ==
  /\ waiters' = Discard(t)
  /\ state' = [state EXCEPT ![t] = next]
  /\ got' = [got EXCEPT ![t] = o]
  /\ UNCHANGED timeouts

\* if timer is not None: timer.cancel()
OwnTimers(t) == IF state[t] = "waits_timed" THEN 1 ELSE 0

-----------------------------------------------------------------------------
(* send(), its timers, and reset() *)

\* Faulty: wake one of the waiters.
WakeOne == {t \in waiters : t = CHOOSE u \in waiters : TRUE}

WakeAll == waiters

\* Faulty: the assertion that the event was not sent is dropped.
MaySendAlways == TRUE

MaySend == result = "unset"

\* send() and send_exception()
Send(o) ==
  /\ MaySend
  /\ result' = o
  /\ sends' = sends \cup {[round |-> round, outcome |-> o, to |-> t] : t \in WakeAll}
  /\ UNCHANGED <<round, waiters, state, timeouts, got>>

reset ==
  /\ result # "unset"
  /\ round < MaxResets
  /\ round' = round + 1
  /\ result' = "unset"
  /\ UNCHANGED <<waiters, state, sends, timeouts, got>>

IsWaiter(t) == t \in waiters

\* _do_send as called by a timer of send()
DoSend(m) ==
  /\ m \in sends
  /\ sends' = sends \ {m}
  /\ \/ /\ ~IsWaiter(m.to)
        /\ UNCHANGED <<waiters, state, timeouts, got>>
     \/ /\ IsWaiter(m.to) /\ m.outcome = "value"
        /\ Return(m.to, "value", timeouts[m.to] - OwnTimers(m.to))
     \/ /\ IsWaiter(m.to) /\ m.outcome = "error"
        /\ Raise(m.to, "error", "runs")
  /\ UNCHANGED <<result, round>>

\* A timer of wait(timeout) is due: the one of the wait the thread is in, or
\* one that an earlier wait left behind.  In the second case a timer of the
\* present wait is cancelled, too.
TimeoutFires(t) ==
  /\ timeouts[t] > 0
  /\ \/ /\ ~IsWaiter(t)
        /\ timeouts' = [timeouts EXCEPT ![t] = @ - 1]
        /\ UNCHANGED <<waiters, state, got>>
     \/ /\ IsWaiter(t)
        /\ \E left \in {timeouts[t] - 1, timeouts[t] - 1 - OwnTimers(t)} :
             left >= 0 /\ Return(t, "nothing", left)
  /\ UNCHANGED <<result, round, sends>>

\* An exception that has nothing to do with the event is thrown into the
\* waiting thread: an enclosing Timeout, or kill().
Interrupt(t) ==
  /\ Waits(t)
  /\ t \in Survivors \/ t \notin Patient
  /\ Raise(t, "nothing", IF t \in Survivors THEN "runs" ELSE "dead")
  /\ UNCHANGED <<result, round, sends>>

-----------------------------------------------------------------------------

Waiter(t) == WaitReady(t) \/ Wait(t) \/ WaitTimed(t) \/ Interrupt(t)

EventNext ==
  \/ \E t \in Threads : Waiter(t) \/ TimeoutFires(t)
  \/ \E o \in Outcomes : Send(o)
  \/ reset
  \/ \E m \in sends : DoSend(m)

EventSafety == EventInit /\ [][EventNext]_eventVars

\* The hub calls the timers of send(); whether an event is ever sent is up to
\* the program.
EventFairness == \A t \in Threads : WF_eventVars(\E m \in sends : m.to = t /\ DoSend(m))

EventSpec == EventSafety /\ EventFairness

-----------------------------------------------------------------------------
(* Properties *)

\* Once the event is sent every waiter has its wake-up on the way, also those
\* that joined before a reset, and those that timed out and came back.
NobodyForgotten ==
  result # "unset" => \A t \in waiters : \E m \in sends : m.to = t

\* _waiters is the set of threads suspended in wait(): _do_send never switches
\* to a thread that is by now doing something else.
WaitersExact == waiters = {t \in Threads : Waits(t)}

\* A thread that waits when the event is sent gets out, even if the event is
\* reset before its turn comes.
SentReaches ==
  \A t \in Threads : (result # "unset" /\ t \in waiters) ~> (t \notin waiters)

\* A wait with no timeout that comes to an end, without an exception from
\* elsewhere, ends with what was sent.
PatientWaitGetsResult ==
  [][\A t \in Threads :
       state[t] = "waits" /\ state'[t] = "runs" /\ ~Interrupt(t) => got'[t] # "nothing"]_eventVars

\* Until it is reset, an event is a future: decided once, and whoever waits for
\* it leaves with the decision, or because it gives up.
Outcome == INSTANCE Future
  WITH outcome <- IF round = 0 THEN result ELSE "withdrawn",
       waiting <- IF round = 0 THEN waiters ELSE {},
       got <- IF round = 0 THEN got ELSE [t \in Threads |-> "nothing"],
       Impatient <- (Threads \ Patient) \cup Survivors

ImplementsFuture == Outcome!Spec

=============================================================================
