----------------------------- MODULE PermitPool -----------------------------
(***************************************************************************)
(* What a semaphore promises, with no queue, no timers and no hub: a pool  *)
(* of permits, threads that are blocked because they found none, and the   *)
(* promise that a permit does not lie unused for ever while a thread is    *)
(* blocked.  Semaphore is shown to implement it.                           *)
(***************************************************************************)
EXTENDS Integers

CONSTANTS Threads,   \* the greenthreads that use the semaphore
          Value      \* permits in the pool at the start

VARIABLES permits,   \* permits nobody has taken
          blocked    \* the threads waiting for one

vars == <<permits, blocked>>

Init ==
  /\ permits = Value
  /\ blocked = {}

Take ==
  /\ permits > 0
  /\ permits' = permits - 1
  /\ UNCHANGED blocked

Put ==
  /\ permits' = permits + 1
  /\ UNCHANGED blocked

\* A thread may join the blocked ones even when a permit is there: those that
\* were blocked before it are served first.
Block(t) ==
  /\ t \notin blocked
  /\ permits <= 0 \/ blocked # {}
  /\ blocked' = blocked \cup {t}
  /\ UNCHANGED permits

Grant(t) ==
  /\ t \in blocked
  /\ permits > 0
  /\ permits' = permits - 1
  /\ blocked' = blocked \ {t}

GiveUp(t) ==
  /\ t \in blocked
  /\ blocked' = blocked \ {t}
  /\ UNCHANGED permits

Next ==
  \/ Take
  \/ Put
  \/ \E t \in Threads : Block(t) \/ Grant(t) \/ GiveUp(t)

Safety == Init /\ [][Next]_vars

\* A permit and a blocked thread that stay together are eventually matched.
Spec == Safety /\ WF_vars(\E t \in Threads : Grant(t))

=============================================================================
