------------------------------- MODULE Future -------------------------------
(***************************************************************************)
(* What an event promises: it is decided once, a thread that waits for it  *)
(* leaves with what was decided or because it gives up, and once it is     *)
(* decided nobody is left waiting.  What was decided may be withdrawn:     *)
(* that ends the promise.  Event is shown to implement it.                 *)
(***************************************************************************)
CONSTANTS Threads,    \* the greenthreads that wait
          Outcomes,   \* what the event can be decided to
          Impatient   \* the threads that may give up

VARIABLES outcome,    \* "unset", the decision, or "withdrawn"
          waiting,    \* the threads that wait for it
          got         \* how the last wait of each thread ended

vars == <<outcome, waiting, got>>

Init ==
  /\ outcome = "unset"
  /\ waiting = {}
  /\ got = [t \in Threads |-> "nothing"]

Decide(o) ==
  /\ outcome = "unset"
  /\ outcome' = o
  /\ UNCHANGED <<waiting, got>>

Join(t) ==
  /\ outcome = "unset"
  /\ t \notin waiting
  /\ waiting' = waiting \cup {t}
  /\ UNCHANGED <<outcome, got>>

\* A thread leaves with the outcome, whether it had to wait or not.
Leave(t) ==
  /\ outcome \in Outcomes
  /\ waiting' = waiting \ {t}
  /\ got' = [got EXCEPT ![t] = outcome]
  /\ UNCHANGED outcome

GiveUp(t) ==
  /\ t \in waiting /\ t \in Impatient
  /\ waiting' = waiting \ {t}
  /\ got' = [got EXCEPT ![t] = "nothing"]
  /\ UNCHANGED outcome

Withdraw ==
  /\ outcome \in Outcomes
  /\ outcome' = "withdrawn"
  /\ waiting' = {}
  /\ got' = [t \in Threads |-> "nothing"]

Next ==
  \/ Withdraw
  \/ \E o \in Outcomes : Decide(o)
  \/ \E t \in Threads : Join(t) \/ Leave(t) \/ GiveUp(t)

Safety == Init /\ [][Next]_vars

Spec == Safety /\ \A t \in Threads : WF_vars(t \in waiting /\ Leave(t))

=============================================================================
