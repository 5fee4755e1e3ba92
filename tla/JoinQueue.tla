------------------------------ MODULE JoinQueue ------------------------------
(***************************************************************************)
(* eventlet/queue.py, the part that Queue adds to LightQueue: task_done()  *)
(* and join().                                                             *)
(*                                                                         *)
(* The items that were put and not declared done are counted.  join()      *)
(* waits on an Event; task_done() sends it when the count reaches zero,    *)
(* and the next put() resets it.  A send schedules a wake-up for everybody *)
(* who waits, which acts if the thread waits when it fires (see Event).    *)
(***************************************************************************)
EXTENDS Integers

CONSTANTS
  Threads,
  MaxTasks,   \* bound of the model: unfinished tasks
  MaxWakes    \* bound of the model: wake-ups of a thread on the way

VARIABLES
  unfinished_tasks,
  cond,       \* the event: "unset" or "sent"
  joining,    \* the threads in join()
  wakes,      \* per thread: wake-ups on the way
  zeros       \* history, per thread in join(): whether the count was zero since

joinVars == <<unfinished_tasks, cond, joining, wakes, zeros>>

JoinInit ==
  /\ unfinished_tasks = 0
  /\ cond = "unset"
  /\ joining = {}
  /\ wakes = [t \in Threads |-> 0]
  /\ zeros = [t \in Threads |-> FALSE]

\* Faulty: the event stays sent.
CondKept == cond

CondReset == "unset"

\* _put() and _put_bookkeeping()
JoinPut ==
  /\ unfinished_tasks < MaxTasks
  /\ unfinished_tasks' = unfinished_tasks + 1
  /\ cond' = CondReset
  /\ UNCHANGED <<joining, wakes, zeros>>

LastTask(n) == n = 0

task_done ==
  /\ unfinished_tasks > 0
  /\ unfinished_tasks' = unfinished_tasks - 1
  /\ IF LastTask(unfinished_tasks')
       THEN /\ \A t \in joining : wakes[t] < MaxWakes
            /\ cond' = "sent"
            /\ wakes' = [t \in Threads |-> IF t \in joining THEN wakes[t] + 1 ELSE wakes[t]]
       ELSE UNCHANGED <<cond, wakes>>
  /\ zeros' = [t \in Threads |-> zeros[t] \/ (t \in joining /\ unfinished_tasks' = 0)]
  /\ UNCHANGED joining

\* join() waits if there is something to wait for, and if the event is not set.
join(t) ==
  /\ t \notin joining
  /\ unfinished_tasks > 0 /\ cond = "unset"
  /\ joining' = joining \cup {t}
  /\ zeros' = [zeros EXCEPT ![t] = FALSE]
  /\ UNCHANGED <<unfinished_tasks, cond, wakes>>

\* _do_send(): t returns from join(), if it is there.
JoinWakes(t) ==
  /\ wakes[t] > 0
  /\ wakes' = [wakes EXCEPT ![t] = @ - 1]
  /\ joining' = joining \ {t}
  /\ UNCHANGED <<unfinished_tasks, cond, zeros>>

JoinInterrupted(t) ==
  /\ t \in joining
  /\ joining' = joining \ {t}
  /\ UNCHANGED <<unfinished_tasks, cond, wakes, zeros>>

JoinNext ==
  \/ JoinPut \/ task_done
  \/ \E t \in Threads : join(t) \/ JoinWakes(t) \/ JoinInterrupted(t)

JoinSpec == JoinInit /\ [][JoinNext]_joinVars /\ \A t \in Threads : WF_joinVars(JoinWakes(t))

-----------------------------------------------------------------------------
\* queue.py:436-465.  The event is sent only while nothing is unfinished: else
\* join() would not wait.  Who waits when the count is or was zero is going to
\* be woken; and who is woken for the first time since the count was zero has
\* waited for that.
JoinExact ==
  /\ cond = "sent" => unfinished_tasks = 0
  /\ \A t \in joining : zeros[t] \/ unfinished_tasks = 0 => wakes[t] > 0

\* queue.py:457-462, the docstring of join(): "When the count of unfinished tasks
\* drops to zero, join unblocks": nobody returns before it did.
JoinsFully == [][\A t \in Threads : JoinWakes(t) /\ t \in joining => zeros[t]]_joinVars
=============================================================================
