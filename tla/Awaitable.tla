----------------------------- MODULE Awaitable -----------------------------
(***************************************************************************)
(* eventlet/asyncio.py, spawn_for_awaitable(), and GreenThread.__await__   *)
(* of greenthread.py: a greenthread that waits for a future, and asyncio   *)
(* tasks that wait for the greenthread.                                    *)
(*                                                                         *)
(* Each side follows the other: the end of the greenthread, or its kill,   *)
(* ends or cancels futures through functions linked to it, and the end of  *)
(* a future goes through a callback of the loop and an Event.              *)
(***************************************************************************)
EXTENDS Sequences, SequencesExt, FiniteSets

CONSTANTS Tasks   \* asyncio tasks that may await the greenthread

VARIABLES
  future,    \* what the greenthread waits for: "coroutine" before it is one,
             \* "pending", "result", "error", "cancelled"
  asked,     \* whether future.cancel() was called
  thread,    \* the greenthread: "new", "waiting", "dead", "unborn" if it was killed
             \* before it started
  outcome,   \* what its _exit_event holds: "none", "result", "error", "cancelled",
             \* or "exit" of a kill
  links,     \* its _exit_funcs: "wrapped", or the task that awaits
  soon,      \* callbacks of the loop: "done", or a task's got_future_result
  wake,      \* whether the timer of has_result.send() is scheduled
  awaits     \* per task: "out", "pending", "result", "error", "cancelled"

awaitVars == <<future, asked, thread, outcome, links, soon, wake, awaits>>

Ended == {"result", "error", "cancelled"}
Over == thread \in {"dead", "unborn"}

AwaitInit ==
  /\ future \in {"coroutine", "pending"} \cup Ended
  /\ asked = FALSE
  /\ thread = "new" /\ outcome = "none" /\ links = <<>>
  /\ soon = {} /\ wake = FALSE
  /\ awaits = [a \in Tasks |-> "out"]

-----------------------------------------------------------------------------
(* Links *)

\* got_gthread_result(): what a task's future gets, if it is not done.
Told(with) == CASE with = "result" -> "result"
                [] with = "exit" -> "cancelled"
                [] OTHER -> "error"

\* _got_result() takes only GreenletExit from gthread.wait(): the exception of a
\* future that failed or was cancelled goes on, and ends _resolve_links().
Stops(with) == with \in {"error", "cancelled"}

\* _resolve_links(): calls the functions up to one that raises.
Called(funcs, with) ==
  IF Stops(with) /\ Contains(funcs, "wrapped")
  THEN SubSeq(funcs, 1, CHOOSE i \in 1..Len(funcs) : funcs[i] = "wrapped")
  ELSE funcs

Resolve(funcs, with, callback) ==
  LET called == Called(funcs, with)
      answered == {a \in ToSet(called) \cap Tasks : awaits[a] = "pending"}
  IN /\ links' = SubSeq(funcs, Len(called) + 1, Len(funcs))
     /\ asked' = (asked \/ ("wrapped" \in ToSet(called) /\ with = "exit" /\ future \notin Ended))
     /\ awaits' = [a \in Tasks |-> IF a \in answered THEN Told(with) ELSE awaits[a]]
     /\ soon' = (soon \ callback) \cup answered

-----------------------------------------------------------------------------
(* The greenthread *)

\* _run(): links the function that cancels, and waits for the Event.  A future
\* that is done already calls its callback soon.
Start ==
  /\ thread = "new"
  /\ thread' = "waiting"
  /\ links' = Append(links, "wrapped")
  /\ future' = IF future = "coroutine" THEN "pending" ELSE future
  /\ soon' = IF future \in Ended THEN soon \cup {"done"} ELSE soon
  /\ UNCHANGED <<asked, outcome, wake, awaits>>

\* main() ends, in a callback of the loop or not.
Ends(with, callback) ==
  /\ thread' = IF thread = "new" THEN "unborn" ELSE "dead"
  /\ outcome' = with
  /\ wake' = FALSE
  /\ Resolve(links, with, callback)
  /\ UNCHANGED future

\* The timer of the Event: future.result() is returned or raised.
Wakes ==
  /\ thread = "waiting" /\ wake
  /\ Ends(future, {})

\* kill(), by a greenthread or by got_future_result(): before the start main()
\* is called with a function that raises.
Kill ==
  /\ ~Over
  /\ Ends("exit", {})

-----------------------------------------------------------------------------
(* The loop *)

\* The future ends; to be cancelled somebody has to ask.
FutureEnds(with) ==
  /\ future = "pending"
  /\ future' = with
  /\ soon' = IF thread = "new" THEN soon ELSE soon \cup {"done"}
  /\ UNCHANGED <<asked, thread, outcome, links, wake, awaits>>

CancelFuture ==
  /\ future = "pending" /\ ~asked
  /\ asked' = TRUE
  /\ UNCHANGED <<future, thread, outcome, links, soon, wake, awaits>>

\* has_result.send(): a greenthread that waits is scheduled.
DoneCallback ==
  /\ "done" \in soon
  /\ soon' = soon \ {"done"}
  /\ wake' = (thread = "waiting")
  /\ UNCHANGED <<future, asked, thread, outcome, links, awaits>>

\* __await__(): a link, which is called at once if the greenthread has ended.
Await(a) ==
  /\ awaits[a] = "out"
  /\ LET funcs == Append(links, a)
         waiting == [awaits EXCEPT ![a] = "pending"]
     IN IF Over
        THEN /\ links' = <<>>
             /\ awaits' = [b \in Tasks |->
                  IF Contains(funcs, b) /\ waiting[b] = "pending" THEN Told(outcome) ELSE waiting[b]]
             /\ soon' = soon \cup {b \in ToSet(funcs) : waiting[b] = "pending"}
        ELSE links' = funcs /\ awaits' = waiting /\ UNCHANGED soon
  /\ UNCHANGED <<future, asked, thread, outcome, wake>>

\* The task is cancelled, and its future with it.
CancelTask(a) ==
  /\ awaits[a] = "pending"
  /\ awaits' = [awaits EXCEPT ![a] = "cancelled"]
  /\ soon' = soon \cup {a}
  /\ UNCHANGED <<future, asked, thread, outcome, links, wake>>

\* Faulty: the greenthread is not killed.
KillsNever(a) == FALSE

Kills(a) == awaits[a] = "cancelled" /\ ~Over

GotFutureResult(a) ==
  /\ a \in soon
  /\ IF Kills(a)
     THEN Ends("exit", {a})
     ELSE soon' = soon \ {a} /\ UNCHANGED <<future, asked, thread, outcome, links, wake, awaits>>

AwaitNext ==
  \/ Start \/ Wakes \/ Kill \/ CancelFuture \/ DoneCallback
  \/ \E with \in {"result", "error"} : FutureEnds(with)
  \/ asked /\ FutureEnds("cancelled")
  \/ \E a \in Tasks : Await(a) \/ CancelTask(a) \/ GotFutureResult(a)

AwaitSpec == AwaitInit /\ [][AwaitNext]_awaitVars

-----------------------------------------------------------------------------
(* Properties *)

\* asyncio.py:35-54.  A greenthread that waits for a future that is done will be
\* woken; one that was killed while it waited has asked for the cancellation of
\* its future; and a greenthread outlives a cancelled task only until the loop
\* has called back.
NoNewsLost == thread = "waiting" /\ future \in Ended => "done" \in soon \/ wake
KillCancels == thread = "dead" /\ outcome = "exit" /\ future = "pending" => asked
CancelKills == \A a \in Tasks : awaits[a] = "cancelled" => Over \/ a \in soon

\* The end of the greenthread, unless it is an exception, reaches who awaits it.
EndReaches == outcome \in {"result", "exit"} => \A a \in Tasks : awaits[a] # "pending"

\* tests/asyncio_test.py:162: "``await`` on a ``GreenThread`` raises its eventual
\* exception."
AwaitsAnswered == outcome # "none" => \A a \in Tasks : awaits[a] # "pending"
=============================================================================
