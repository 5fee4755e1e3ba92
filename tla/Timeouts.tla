------------------------------ MODULE Timeouts ------------------------------
(***************************************************************************)
(* eventlet/timeout.py: blocks of threads under Timeouts, one in the       *)
(* other, of programs with handlers and with cleanups that wait.           *)
(*                                                                         *)
(* A Timeout is a timer of the hub that throws into the thread that        *)
(* started it.  A thread runs until it waits or ends, also when the hub    *)
(* throws into it between two timers that are due.  with_timeout() is a    *)
(* block too: with a timeout_value it takes the exception of its Timeout   *)
(* like one whose exception is False.                                      *)
(***************************************************************************)
EXTENDS Integers, Sequences, SequencesExt

CONSTANTS
  Threads, Timeouts,
  Silent,       \* the Timeouts with exception False, or of a timeout_value
  Delays,       \* seconds, or None
  MaxTime,      \* bound of the model
  None

VARIABLES
  now,
  current,   \* the thread that runs, None for the hub
  awaits,    \* per thread: it waits
  blocks,    \* per thread: the Timeouts of the blocks it is in, the innermost first
  raised,    \* per thread: the Timeout whose exception unwinds it, or None
  due,       \* per Timeout: when its timer fires, None without a pending timer
  target     \* per Timeout: the thread its timer throws into

timeoutVars == <<now, current, awaits, blocks, raised, due, target>>

TimeoutInit ==
  /\ now = 0 /\ current = None
  /\ awaits = [t \in Threads |-> TRUE]
  /\ blocks = [t \in Threads |-> <<>>]
  /\ raised = [t \in Threads |-> None]
  /\ due = [o \in Timeouts |-> None]
  /\ target = [o \in Timeouts |-> None]

Runs(t) == current = t /\ raised[t] = None
Unwinds(t) == current = t /\ raised[t] # None

-----------------------------------------------------------------------------
(* A thread *)

\* start(): without seconds there is no timer.
Start(o, t, seconds) ==
  /\ due' = [due EXCEPT ![o] = IF seconds = None THEN None ELSE now + seconds]
  /\ target' = [target EXCEPT ![o] = t]

Enter(t, o, seconds) ==
  /\ Runs(t) /\ \A u \in Threads : ~Contains(blocks[u], o)
  /\ Start(o, t, seconds)
  /\ blocks' = [blocks EXCEPT ![t] = <<o>> \o @]
  /\ UNCHANGED <<now, current, awaits, raised>>

\* cancel() and start() again, of any of its blocks.
Restart(t, o, seconds) ==
  /\ Runs(t) /\ Contains(blocks[t], o)
  /\ Start(o, t, seconds)
  /\ UNCHANGED <<now, current, awaits, blocks, raised>>

\* Faulty: after an exception the timer is left to the hub.
CancelledOnReturn(t) == IF raised[t] = None THEN [due EXCEPT ![Head(blocks[t])] = None] ELSE due

\* __exit__(), the finally of with_timeout().
Cancelled(t) == [due EXCEPT ![Head(blocks[t])] = None]

Suppresses(o, value) == value = o /\ o \in Silent

Exit(t) ==
  /\ current = t /\ blocks[t] # <<>>
  /\ due' = Cancelled(t)
  /\ blocks' = [blocks EXCEPT ![t] = Tail(@)]
  /\ raised' = [raised EXCEPT ![t] = IF Suppresses(Head(blocks[t]), @) THEN None ELSE @]
  /\ UNCHANGED <<now, current, awaits, target>>

\* A handler of the program, which may go on inside the block.
Handle(t) ==
  /\ Unwinds(t)
  /\ raised' = [raised EXCEPT ![t] = None]
  /\ UNCHANGED <<now, current, awaits, blocks, due, target>>

\* It waits, in a block or in the cleanup of one that an exception leaves.
Wait(t) ==
  /\ current = t
  /\ current' = None
  /\ awaits' = [awaits EXCEPT ![t] = TRUE]
  /\ UNCHANGED <<now, blocks, raised, due, target>>

\* It ends, by an exception or not.
End(t) ==
  /\ current = t /\ blocks[t] = <<>>
  /\ current' = None
  /\ UNCHANGED <<now, awaits, blocks, raised, due, target>>

-----------------------------------------------------------------------------
(* The hub *)

Resume(t) ==
  /\ current = None /\ awaits[t]
  /\ current' = t
  /\ awaits' = [awaits EXCEPT ![t] = FALSE]
  /\ UNCHANGED <<now, blocks, raised, due, target>>

Due(o) == due[o] # None /\ due[o] <= now
First(o) == \A p \in Timeouts : Due(p) => due[o] <= due[p]

\* The timer throws: what unwound the thread before is replaced.  Into a thread that
\* has ended it throws nothing.
Fire(o) ==
  LET t == target[o]
  IN /\ current = None /\ Due(o) /\ First(o)
     /\ due' = [due EXCEPT ![o] = None]
     /\ IF awaits[t]
        THEN /\ current' = t
             /\ awaits' = [awaits EXCEPT ![t] = FALSE]
             /\ raised' = [raised EXCEPT ![t] = o]
        ELSE UNCHANGED <<current, awaits, raised>>
     /\ UNCHANGED <<now, blocks, target>>

Tick ==
  /\ now < MaxTime /\ now' = now + 1
  /\ UNCHANGED <<current, awaits, blocks, raised, due, target>>

TimeoutNext ==
  \/ \E t \in Threads :
       \/ Exit(t) \/ Handle(t) \/ Wait(t) \/ End(t) \/ Resume(t)
       \/ \E o \in Timeouts, seconds \in Delays : Enter(t, o, seconds) \/ Restart(t, o, seconds)
  \/ \E o \in Timeouts : Fire(o)
  \/ Tick

TimeoutSpec == TimeoutInit /\ [][TimeoutNext]_timeoutVars

-----------------------------------------------------------------------------
(* Properties *)

\* timeout.py:57-89, 124-154.  A timer is pending only for a block its thread is in,
\* so that a Timeout is never raised after its block; one that is silent is never seen
\* outside of it, whatever the blocks around and inside it.
TimeoutsExact ==
  /\ \A o \in Timeouts : due[o] # None => Contains(blocks[target[o]], o)
  /\ \A t \in Threads : raised[t] \in Silent => Contains(blocks[t], raised[t])

=============================================================================
