----------------------------- MODULE GreenThread -----------------------------
(***************************************************************************)
(* eventlet/greenthread.py: the life of one GreenThread (spawn, kill, link *)
(* and unlink), and the threads that act on it.                            *)
(*                                                                         *)
(* The linked functions run in the context of whoever finds the thread     *)
(* finished: the thread itself at the end of main, a killer that finds it  *)
(* not started, or a caller of link().  A linked function may switch away, *)
(* so that others meet the thread half way through its links.              *)
(*                                                                         *)
(* kill() of a dead thread does nothing and is not modelled as a step.     *)
(***************************************************************************)
EXTENDS Naturals, Sequences, SequencesExt

CONSTANTS
  Users,        \* the greenthreads that kill, link and unlink
  Links,        \* calls of link(), each with a function of its own
  G,            \* the GreenThread
  NoOne,        \* no thread
  NoLink,       \* no function
  Raising,      \* those whose function may raise, or be killed, when called
  MaxSwitches   \* bound of the model: timers of kill() left by a thread

ASSUME GreenThreadAssumption ==
  /\ G \notin Users
  /\ NoOne \notin Users \cup {G}
  /\ NoLink \notin Links
  /\ Raising \subseteq Links
  /\ MaxSwitches \in Nat

VARIABLES
  g,          \* the greenlet
  run,        \* g.run: "main", or "just_raise" once a killer replaced it
  starting,   \* whether the timer of spawn() is pending
  exit,       \* _exit_event: "unset", "value" or "error"
  funcs,      \* _exit_funcs
  fresh,      \* the calls of link() still to come
  resolver,   \* the thread that is in _resolve_links (_resolving_links)
  calling,    \* the linked function it is in
  user,       \* what each user is doing
  switches    \* timers of kill() that will switch to each user

threadVars == <<g, run, starting, exit, funcs, fresh, resolver, calling, user, switches>>

gvars == <<g, run, starting, exit>>
lvars == <<funcs, fresh, resolver, calling>>
uvars == <<user, switches>>

UserStates == {"runs", "linking", "killing", "yields", "sleeps"}

ThreadTypeOK ==
  /\ g \in {"scheduled", "running", "exits", "dead"}
  /\ run \in {"main", "just_raise"}
  /\ starting \in BOOLEAN
  /\ exit \in {"unset", "value", "error"}
  /\ funcs \in Seq(Links)
  /\ fresh \subseteq Links
  /\ resolver \in Users \cup {G, NoOne}
  /\ calling \in Links \cup {NoLink}
  /\ user \in [Users -> UserStates]
  /\ switches \in [Users -> Nat]

\* spawn()
ThreadInit ==
  /\ g = "scheduled" /\ run = "main" /\ starting = TRUE /\ exit = "unset"
  /\ funcs = <<>> /\ fresh = Links /\ resolver = NoOne /\ calling = NoLink
  /\ user = [u \in Users |-> "runs"]
  /\ switches = [u \in Users |-> 0]

\* A thread between two linked functions does not switch: nobody else moves.
Quiet == resolver = NoOne \/ calling # NoLink

-----------------------------------------------------------------------------
(* The greenlet *)

\* The timer of spawn() switches to the greenlet, which runs g.run.
Start ==
  /\ Quiet
  /\ starting
  /\ starting' = FALSE
  /\ g' = IF g = "scheduled" /\ run = "main" THEN "running" ELSE "dead"
  /\ UNCHANGED <<run, exit>> /\ UNCHANGED lvars /\ UNCHANGED uvars

\* main() after function: the outcome is sent and the links are resolved.
Exit(o) ==
  /\ exit' = o
  /\ g' = "exits"
  /\ resolver' = G

Finish(o) ==
  /\ Quiet
  /\ g = "running"
  /\ Exit(o)
  /\ UNCHANGED <<run, starting, funcs, fresh, calling>> /\ UNCHANGED uvars

-----------------------------------------------------------------------------
(* kill() *)

\* Faulty: nobody wakes the caller of kill() back up.
WakeCallerNever(u) == switches

\* hub.schedule_call_global(0, current.switch)
WakeCaller(u) == [switches EXCEPT ![u] = @ + 1]

\* The end of kill(): the caller is suspended by g.throw() until the hub
\* switches back to it.
Yield(u) ==
  /\ user' = [user EXCEPT ![u] = "yields"]
  /\ switches' = WakeCaller(u)

MayKill(u) ==
  /\ Quiet
  /\ user[u] = "runs"
  /\ switches[u] < MaxSwitches

\* Faulty: the thread is told that it was killed, but its run method stays.
KeepRun == run

ReplaceRun == "just_raise"

ExitKilled == "error"

\* The greenlet has not started: the killer calls main() in its place.
KillUnstarted(u) ==
  /\ MayKill(u)
  /\ g = "scheduled" /\ exit = "unset"
  /\ run' = ReplaceRun
  /\ exit' = ExitKilled
  /\ resolver' = u
  /\ user' = [user EXCEPT ![u] = "killing"]
  /\ UNCHANGED <<g, starting, funcs, fresh, calling, switches>>

\* Another killer is in a linked function: its send_exception raised already,
\* a second one fails on the assertion of Event.send, which kill() swallows.
KillAgain(u) ==
  /\ MayKill(u)
  /\ g = "scheduled" /\ exit # "unset"
  /\ run' = ReplaceRun
  /\ g' = "dead"
  /\ Yield(u)
  /\ UNCHANGED <<starting, exit>> /\ UNCHANGED lvars

\* The function of the thread catches the exception, or dies of it.
KillRunning(u) ==
  /\ MayKill(u)
  /\ g = "running"
  /\ Yield(u)
  /\ \/ UNCHANGED <<g, exit, resolver>>
     \/ Exit("error")
  /\ UNCHANGED <<run, starting, funcs, fresh, calling>>

\* The thread is in a linked function, which catches the exception or takes
\* the thread down with it.
KillExiting(u) ==
  /\ MayKill(u)
  /\ g = "exits"
  /\ Yield(u)
  /\ \/ UNCHANGED <<g, resolver, calling>>
     \/ calling \in Raising /\ g' = "dead" /\ resolver' = NoOne /\ calling' = NoLink
  /\ UNCHANGED <<run, starting, exit, funcs, fresh>>

-----------------------------------------------------------------------------
(* link(), unlink() and _resolve_links() *)

\* Faulty: link() only queues the function.
MustResolveNever == FALSE

\* link() of a thread that has finished resolves the links itself, unless
\* somebody does so already.
MustResolve == exit # "unset" /\ resolver = NoOne

Link(u, f) ==
  /\ Quiet
  /\ user[u] = "runs"
  /\ f \in fresh
  /\ fresh' = fresh \ {f}
  /\ funcs' = Append(funcs, f)
  /\ \/ /\ MustResolve
        /\ resolver' = u
        /\ user' = [user EXCEPT ![u] = "linking"]
     \/ /\ ~MustResolve
        /\ UNCHANGED <<resolver, user>>
  /\ UNCHANGED <<calling, switches>> /\ UNCHANGED gvars

Unlink(u, f) ==
  /\ Quiet
  /\ user[u] = "runs"
  /\ Contains(funcs, f)
  /\ funcs' = RemoveFirst(funcs, f)
  /\ UNCHANGED <<fresh, resolver, calling>> /\ UNCHANGED gvars /\ UNCHANGED uvars

CallLink ==
  /\ resolver # NoOne /\ calling = NoLink /\ funcs # <<>>
  /\ calling' = Head(funcs)
  /\ funcs' = Tail(funcs)
  /\ UNCHANGED <<fresh, resolver>> /\ UNCHANGED gvars /\ UNCHANGED uvars

LinkReturns ==
  /\ calling # NoLink
  /\ calling' = NoLink
  /\ UNCHANGED <<funcs, fresh, resolver>> /\ UNCHANGED gvars /\ UNCHANGED uvars

\* What the thread does after _resolve_links, whether it returned or raised:
\* the greenthread is over, a killer goes on to g.throw(), which finds the
\* greenlet not started or dead, and a caller of link() is done.
Resolved ==
  /\ resolver' = NoOne
  /\ \/ /\ resolver = G
        /\ g' = "dead"
        /\ UNCHANGED uvars
     \/ /\ resolver \in Users /\ user[resolver] = "killing"
        /\ g' = "dead"
        /\ Yield(resolver)
     \/ /\ resolver \in Users /\ user[resolver] = "linking"
        /\ user' = [user EXCEPT ![resolver] = "runs"]
        /\ UNCHANGED <<g, switches>>
  /\ UNCHANGED <<run, starting, exit, fresh>>

LinksDone ==
  /\ resolver # NoOne /\ calling = NoLink /\ funcs = <<>>
  /\ Resolved
  /\ UNCHANGED <<funcs, calling>>

\* The linked function raises, or an exception is thrown into it.  kill() also
\* swallows that one.
LinkRaises ==
  /\ calling \in Raising
  /\ calling' = NoLink
  /\ Resolved
  /\ UNCHANGED funcs

-----------------------------------------------------------------------------
(* The users elsewhere *)

Pending(u) == switches[u] > 0

\* The timer of kill() switches to its caller, wherever it is by then.
Wake(u) ==
  /\ Quiet
  /\ Pending(u)
  /\ switches' = [switches EXCEPT ![u] = @ - 1]
  /\ user' = [user EXCEPT ![u] = IF @ \in {"yields", "sleeps"} THEN "runs" ELSE @]
  /\ UNCHANGED gvars /\ UNCHANGED lvars

\* sleep(seconds)
Sleep(u) ==
  /\ Quiet
  /\ user[u] = "runs"
  /\ user' = [user EXCEPT ![u] = "sleeps"]
  /\ UNCHANGED switches /\ UNCHANGED gvars /\ UNCHANGED lvars

SleepOver(u) ==
  /\ Quiet
  /\ user[u] = "sleeps"
  /\ user' = [user EXCEPT ![u] = "runs"]
  /\ UNCHANGED switches /\ UNCHANGED gvars /\ UNCHANGED lvars

\* An exception is thrown into a suspended user, which survives it: sleep()
\* cancels its timer, kill() does not.
ThrowInto(u) ==
  /\ Quiet
  /\ user[u] \in {"yields", "sleeps"}
  /\ user' = [user EXCEPT ![u] = "runs"]
  /\ UNCHANGED switches /\ UNCHANGED gvars /\ UNCHANGED lvars

-----------------------------------------------------------------------------

Kill(u) == KillUnstarted(u) \/ KillAgain(u) \/ KillRunning(u) \/ KillExiting(u)

Resolving == CallLink \/ LinkReturns \/ LinksDone \/ LinkRaises

ThreadNext ==
  \/ Start
  \/ \E o \in {"value", "error"} : Finish(o)
  \/ Resolving
  \/ \E u \in Users :
       \/ Kill(u)
       \/ \E f \in Links : Link(u, f) \/ Unlink(u, f)
       \/ Wake(u) \/ Sleep(u) \/ SleepOver(u) \/ ThrowInto(u)

ThreadSafety == ThreadInit /\ [][ThreadNext]_threadVars

\* The hub calls its timers, a thread that can run goes on, and linked
\* functions come to an end; whether the function of the thread does is up to
\* the program.
ThreadFairness ==
  /\ WF_threadVars(Start)
  /\ WF_threadVars(Resolving)
  /\ \A u \in Users : WF_threadVars(Wake(u))

ThreadSpec == ThreadSafety /\ ThreadFairness

-----------------------------------------------------------------------------
(* Properties *)

\* Whoever finds the greenthread dead, or killed before it started, also finds
\* its outcome, so that nobody waits for it in vain; and as long as the function
\* can still run there is none.
DeadIsDecided ==
  exit # "unset" <=> g \in {"exits", "dead"} \/ run = "just_raise"

\* When the thread has finished and nobody is calling its links, a linked
\* function is left over, whoever linked it and when, only if one that may raise
\* was called before (or unlinked).
NothingStranded ==
  exit # "unset" /\ resolver = NoOne /\ funcs # <<>>
    => \E f \in Raising : f \notin fresh /\ ~Contains(funcs, f)

\* The thread that is calling the links is really in kill(), in link() or at
\* the end of main, and no other thread is.
OneResolver ==
  /\ g = "exits" <=> resolver = G
  /\ \A u \in Users : user[u] \in {"killing", "linking"} <=> resolver = u

\* The caller of kill() gets to run again.
KillerReturns ==
  \A u \in Users : user[u] = "yields" ~> user[u] # "yields"

\* sleep() lasts until its own timer ends it, or an exception.
SleepsFully ==
  [][\A u \in Users :
       user[u] = "sleeps" /\ user'[u] = "runs" => switches[u] = switches'[u]]_threadVars

\* The greenthread, its killers and its links are a task: its function runs
\* once or never, and each link is called once, in order, after the outcome.
LifeOfTask == INSTANCE Task
  WITH phase <- IF exit # "unset" THEN "done"
                ELSE IF g = "scheduled" THEN "pending" ELSE "running",
       outcome <- exit, linked <- funcs, busy <- calling

IsTask == LifeOfTask!Safety

\* Every linked function of a finished thread is called in the end, unless one
\* that may raise is called: that one leaves the others uncalled.
LinksAreCalled == [](calling \notin Raising) => LifeOfTask!CallsLinks

==============================================================================
