---------------------------- MODULE TimerService ----------------------------
(***************************************************************************)
(* What the hub promises about timers, with no heap, no lists and no loop: *)
(* a timer runs at most once, never before it is due, never after it was   *)
(* cancelled, and it does run unless it is cancelled or the hub is         *)
(* aborted.  HubTimers is shown to implement it.                           *)
(***************************************************************************)
EXTENDS Integers

CONSTANTS Timers,    \* timer objects
          Delays     \* the seconds a timer may be scheduled with

VARIABLES clock,     \* the time
          status,    \* what became of each timer
          due        \* when each timer is to run

vars == <<clock, status, due>>

Init ==
  /\ clock = 0
  /\ status = [t \in Timers |-> "free"]
  /\ due = [t \in Timers |-> 0]

Tick ==
  /\ clock' = clock + 1
  /\ UNCHANGED <<status, due>>

\* A timer object that ended is free to stand for another one.
Schedule(t, seconds) ==
  /\ status[t] # "pending"
  /\ status' = [status EXCEPT ![t] = "pending"]
  /\ due' = [due EXCEPT ![t] = clock + seconds]
  /\ UNCHANGED clock

Fire(t) ==
  /\ status[t] = "pending"
  /\ clock >= due[t]
  /\ status' = [status EXCEPT ![t] = "fired"]
  /\ UNCHANGED <<clock, due>>

Cancel(t) ==
  /\ status[t] \in {"pending", "dropped"}
  /\ status' = [status EXCEPT ![t] = "cancelled"]
  /\ UNCHANGED <<clock, due>>

Abort ==
  /\ status' = [t \in Timers |-> IF status[t] = "pending" THEN "dropped" ELSE status[t]]
  /\ UNCHANGED <<clock, due>>

Next ==
  \/ Tick
  \/ \E t \in Timers, seconds \in Delays : Schedule(t, seconds)
  \/ \E t \in Timers : Fire(t) \/ Cancel(t)
  \/ Abort

Safety == Init /\ [][Next]_vars

\* A timer that stays pending past its time is run.
Spec == Safety /\ \A t \in Timers : WF_vars(Fire(t))

=============================================================================
