------------------------------ MODULE Listeners ------------------------------
(***************************************************************************)
(* eventlet/hubs/hub.py, poll.py, epolls.py, selects.py and trampoline():  *)
(* greenthreads that wait for descriptors.                                 *)
(*                                                                         *)
(* A waiter leaves a listener with the hub, and the hub leaves the number  *)
(* of the descriptor with the kernel.  Numbers are recycled: a thread may  *)
(* wait for a file that another thread has closed, when the number belongs *)
(* to a new file.  The hub polls and calls the listeners of what is ready, *)
(* one after the other: poll and epoll gather them first, select looks     *)
(* each up when its turn comes.  Each call runs a greenthread, which may   *)
(* close, open, wait, die or throw exceptions into others, until it        *)
(* switches back.  `current' is who runs.                                  *)
(***************************************************************************)
EXTENDS Integers, Sequences, SequencesExt, FiniteSets

CONSTANTS
  Threads,          \* greenthreads
  Fds,              \* descriptor numbers
  Hub,              \* the hub's own greenlet
  None,             \* no listener, no number
  Away,             \* a thread that runs or is suspended outside trampoline()
  Dead,             \* a thread that is dead
  Wanted,           \* what they wait for: of {"read", "write"}
  Backends,         \* which of "epoll", "poll", "select" the hub may be
  PreventMultiple,  \* hub.g_prevent_multiple_readers
  Throwing,         \* whether greenthreads throw into each other (kill)
  Readding,         \* whether a thread may wait for a number that
                    \* remove_descriptor is just dropping
  MaxFiles,         \* bound of the model: files opened in a run
  MaxSerial         \* bound of the model: listeners of a thread alive at once

Events == {"read", "write"}
Files == 1..MaxFiles

Listener == [th : Threads, ev : Events, fd : Fds, file : Files, n : 1..MaxSerial]

\* Values that stand for nobody are told from threads, numbers and listeners.
ValuesApart ==
  /\ Hub \notin Threads
  /\ None \notin Listener \cup Fds
  /\ Away \notin Listener /\ Dead \notin Listener /\ Away # Dead
  /\ MaxFiles \in Nat

VARIABLES
  backend,      \* which hub this is
  phase,        \* the place of run() in its loop
  current,      \* the greenlet that runs
  at,           \* per thread: Away, Dead, or the listener of the trampoline()
                \* it is suspended in
  files,        \* per number: the open file, 0 if there is none
  opened,       \* how many files were opened
  ready,        \* per number: what the file is ready for
  listeners,    \* self.listeners: per event and number, a listener or None
  secondaries,  \* self.secondaries: per event and number, a sequence
  spent,        \* the listeners that were defanged
  closed,       \* self.closed
  interest,     \* per number: the events the kernel was told to poll for
  result,       \* per number: what poll() returned and wait() has not looked at
  callbacks,    \* the listeners wait() has gathered and not called yet
  removing,     \* remove_descriptor in progress: its number, listeners to call
  cause         \* the number of the callback that runs

hubVars == <<phase, result, callbacks, removing, cause>>
tables == <<listeners, secondaries, spent, closed, interest>>
world == <<files, opened, ready>>
vars == <<backend, current, at, hubVars, tables, world>>

Phases == {"close", "timers", "wait", "gather", "dispatch"}
Idle == [fd |-> None, todo |-> <<>>]

TypeOK ==
  /\ backend \in Backends
  /\ phase \in Phases
  /\ current \in Threads \cup {Hub}
  /\ at \in [Threads -> {Away, Dead} \cup Listener]
  /\ files \in [Fds -> 0..MaxFiles] /\ opened \in 0..MaxFiles
  /\ ready \in [Fds -> SUBSET Events]
  /\ listeners \in [Events -> [Fds -> Listener \cup {None}]]
  /\ secondaries \in [Events -> [Fds -> Seq(Listener)]]
  /\ spent \subseteq Listener
  /\ closed \in Seq(Listener)
  /\ interest \in [Fds -> SUBSET Events]
  /\ result \in [Fds -> SUBSET (Events \cup {"invalid"})]
  /\ callbacks \subseteq Listener
  /\ removing \in [fd : Fds \cup {None}, todo : Seq(Listener)]
  /\ cause \in Fds \cup {None}

Init ==
  /\ backend \in Backends
  /\ phase = "close"
  /\ current = Hub
  /\ at = [t \in Threads |-> Away]
  /\ files = [f \in Fds |-> 0] /\ opened = 0
  /\ ready = [f \in Fds |-> {}]
  /\ listeners = [e \in Events |-> [f \in Fds |-> None]]
  /\ secondaries = [e \in Events |-> [f \in Fds |-> <<>>]]
  /\ spent = {} /\ closed = <<>>
  /\ interest = [f \in Fds |-> {}]
  /\ result = [f \in Fds |-> {}]
  /\ callbacks = {}
  /\ removing = Idle
  /\ cause = None

Waiting(t) == at[t] \notin {Away, Dead}

\* Everything that still refers to a listener.
Primaries == {listeners[e][f] : e \in Events, f \in Fds} \ {None}
Queued == UNION {ToSet(secondaries[e][f]) : e \in Events, f \in Fds}
Referenced ==
  Primaries \cup Queued \cup ToSet(closed) \cup callbacks \cup ToSet(removing.todo)
    \cup {at[t] : t \in {u \in Threads : Waiting(u)}}

-----------------------------------------------------------------------------
(* The tables and the kernel.  Each operator takes and gives a record of    *)
(* the three tables.                                                        *)

Tables == [l |-> listeners, s |-> secondaries, i |-> interest]

SetTables(T) ==
  /\ listeners' = T.l
  /\ secondaries' = T.s
  /\ interest' = T.i

Mask(T, f) == {e \in Events : T.l[e][f] # None}

\* register(): tell the kernel the mask.  epoll refuses a closed number, and
\* has forgotten it; poll and select take any.
Register(T, f) ==
  [T EXCEPT !.i[f] = IF backend = "epoll" /\ files[f] = 0 THEN {} ELSE Mask(T, f)]

\* Faulty: the epoll hub leaves a mask alone once the number is registered.
AddedOnce(l) ==
  LET T == [Tables EXCEPT !.l[l.ev][l.fd] = l]
      Q == [Tables EXCEPT !.s[l.ev][l.fd] = Append(@, l)]
  IN IF listeners[l.ev][l.fd] # None THEN Q
     ELSE IF interest[l.fd] = {} THEN Register(T, l.fd) ELSE T

\* add(): the first listener of a side is its primary, others queue.
Added(l) ==
  Register(IF listeners[l.ev][l.fd] # None
             THEN [Tables EXCEPT !.s[l.ev][l.fd] = Append(@, l)]
             ELSE [Tables EXCEPT !.l[l.ev][l.fd] = l], l.fd)

\* Faulty: a primary that leaves takes its queue with it.
WithoutNoMigration(l) ==
  IF l \in spent THEN Register(Tables, l.fd)
  ELSE IF listeners[l.ev][l.fd] = l
    THEN Register([Tables EXCEPT !.l[l.ev][l.fd] = None], l.fd)
    ELSE Register([Tables EXCEPT !.s[l.ev][l.fd] = RemoveFirst(@, l)], l.fd)

\* remove(): a spent listener is in no table; the head of the queue follows a
\* primary; the mask is set anew.  A listener that is in no table and not spent
\* gives KeyError, before the mask is set.
Without(l) ==
  LET queue == secondaries[l.ev][l.fd]
  IN IF l \in spent THEN Register(Tables, l.fd)
     ELSE IF listeners[l.ev][l.fd] = l
       THEN Register([Tables EXCEPT
              !.l[l.ev][l.fd] = IF queue = <<>> THEN None ELSE Head(queue),
              !.s[l.ev][l.fd] = IF queue = <<>> THEN <<>> ELSE Tail(queue)], l.fd)
     ELSE IF Contains(queue, l)
       THEN Register([Tables EXCEPT !.s[l.ev][l.fd] = RemoveFirst(@, l)], l.fd)
     ELSE Tables

First(e, f) == IF listeners[e][f] = None THEN <<>> ELSE <<listeners[e][f]>>

\* The listeners of a number, in the order remove_descriptor calls them.
ListenersOf(f) ==
  (First("read", f) \o First("write", f)) \o (secondaries["read"][f] \o secondaries["write"][f])

\* All tables without a number.
Cleared(f) ==
  [l |-> [e \in Events |-> [listeners[e] EXCEPT ![f] = None]],
   s |-> [e \in Events |-> [secondaries[e] EXCEPT ![f] = <<>>]],
   i |-> [interest EXCEPT ![f] = {}]]

\* _obsolete(): defang every listener of the number, the queued ones first,
\* and keep them for close_one.
Obsolete(f) ==
  LET told == (secondaries["read"][f] \o secondaries["write"][f])
                \o (First("read", f) \o First("write", f))
  IN /\ closed' = closed \o told
     /\ spent' = spent \cup ToSet(told)
     /\ SetTables(Cleared(f))

-----------------------------------------------------------------------------
(* Switching to a thread *)

\* Thread t gets control, by a switch or by an exception.  If it is in
\* trampoline(), the finally clause takes its own listener out: that is at[t],
\* whatever listener or timer has brought the switch.
Resume(t) ==
  /\ current' = t
  /\ at' = [at EXCEPT ![t] = Away]
  /\ IF Waiting(t)
       THEN SetTables(Without(at[t]))
       ELSE UNCHANGED <<listeners, secondaries, interest>>

\* listener.cb(): nothing for a defanged listener or a dead greenlet.
Call(l) ==
  IF l \in spent \/ at[l.th] = Dead
    THEN UNCHANGED <<current, at, listeners, secondaries, interest>>
    ELSE Resume(l.th)

HubRuns == current = Hub

-----------------------------------------------------------------------------
(* The loop of run() *)

\* close_one(): throw IOClosed into the greenlet of a defanged listener.
CloseOne ==
  /\ HubRuns /\ phase = "close" /\ closed # <<>>
  /\ LET l == Last(closed)
     IN /\ closed' = Front(closed)
        /\ IF at[l.th] = Dead
             THEN UNCHANGED <<current, at, listeners, secondaries, interest>>
             ELSE Resume(l.th)
  /\ UNCHANGED <<backend, hubVars, spent, world>>

NoneClosed ==
  /\ HubRuns /\ phase = "close" /\ closed = <<>>
  /\ phase' = "timers"
  /\ spent' = spent \cap Referenced
  /\ UNCHANGED <<backend, current, at, result, callbacks, removing, cause,
                 listeners, secondaries, closed, interest, world>>

\* A timer brings a thread back from something else, or its Timeout ends the
\* trampoline it is in.
TimerFires(t) ==
  /\ HubRuns /\ phase = "timers"
  /\ at[t] # Dead
  /\ Resume(t)
  /\ UNCHANGED <<backend, hubVars, spent, closed, world>>

TimersDone ==
  /\ HubRuns /\ phase = "timers"
  /\ phase' = "wait"
  /\ UNCHANGED <<backend, current, at, result, callbacks, removing, cause, tables, world>>

\* What the kernel says of a number.  A closed one is invalid to poll and
\* select; epoll does not know it.
Polled(f) ==
  IF files[f] = 0
    THEN IF interest[f] # {} /\ backend # "epoll" THEN {"invalid"} ELSE {}
    ELSE interest[f] \cap ready[f]

\* wait(): ask the kernel.  select fails as a whole when one number is bad, and
\* _remove_bad_fds goes through all of them.
Poll ==
  /\ HubRuns /\ phase = "wait"
  /\ LET bad == {f \in Fds : "invalid" \in Polled(f)}
     IN result' = [f \in Fds |->
          IF backend # "select" \/ bad = {} THEN Polled(f)
          ELSE IF interest[f] # {} THEN {"invalid"} ELSE {}]
  /\ phase' = "gather"
  /\ UNCHANGED <<backend, current, at, callbacks, removing, cause, tables, world>>

\* select calls what it finds under a number when it comes to it.
LooksUp == backend = "select" /\ \A f \in Fds : "invalid" \notin result[f]

\* One entry of the result: add its listeners to the callbacks, or start
\* remove_descriptor on an invalid number; _remove_bad_fds asks the kernel
\* again of each number.
Gather(f) ==
  /\ HubRuns /\ phase = "gather" /\ removing = Idle
  /\ result[f] # {} /\ ~LooksUp
  /\ result' = [result EXCEPT ![f] = {}]
  /\ callbacks' = callbacks \cup ({listeners[e][f] : e \in result[f] \cap Events} \ {None})
  /\ removing' = IF "invalid" \in result[f] /\ (backend = "select" => files[f] = 0)
                 THEN [fd |-> f, todo |-> ListenersOf(f)] ELSE Idle
  /\ UNCHANGED <<backend, current, at, phase, cause, tables, world>>

Gathered ==
  /\ HubRuns /\ phase = "gather" /\ removing = Idle
  /\ LooksUp \/ \A f \in Fds : result[f] = {}
  /\ phase' = "dispatch"
  /\ UNCHANGED <<backend, current, at, result, callbacks, removing, cause, tables, world>>

\* The select hub: the next number of the readers, and when they are done of the
\* writers.
LookUp(e, f) ==
  /\ HubRuns /\ phase = "dispatch" /\ removing = Idle
  /\ e \in result[f]
  /\ e = "write" => \A g \in Fds : "read" \notin result[g]
  /\ result' = [result EXCEPT ![f] = @ \ {e}]
  /\ cause' = f
  /\ IF listeners[e][f] = None
       THEN UNCHANGED <<current, at, listeners, secondaries, interest>>
       ELSE Call(listeners[e][f])
  /\ UNCHANGED <<backend, phase, callbacks, removing, spent, closed, world>>

\* One of the callbacks: they are a Python set, in no order.
Dispatch(l) ==
  /\ HubRuns /\ phase = "dispatch" /\ removing = Idle
  /\ l \in callbacks
  /\ callbacks' = callbacks \ {l}
  /\ cause' = l.fd
  /\ Call(l)
  /\ UNCHANGED <<backend, phase, result, removing, spent, closed, world>>

Dispatched ==
  /\ HubRuns /\ phase = "dispatch" /\ removing = Idle
  /\ callbacks = {} /\ \A f \in Fds : result[f] = {}
  /\ phase' = "close" /\ cause' = None
  /\ UNCHANGED <<backend, current, at, result, callbacks, removing, tables, world>>

\* remove_descriptor(): call every listener, then drop what is there.
RemoveCalls ==
  /\ HubRuns /\ removing.todo # <<>>
  /\ removing' = [removing EXCEPT !.todo = Tail(@)]
  /\ Call(Head(removing.todo))
  /\ UNCHANGED <<backend, phase, result, callbacks, cause, spent, closed, world>>

RemoveEnds ==
  /\ HubRuns /\ removing # Idle /\ removing.todo = <<>>
  /\ SetTables(Cleared(removing.fd))
  /\ removing' = Idle
  /\ UNCHANGED <<backend, current, at, phase, result, callbacks, cause, spent, closed, world>>

-----------------------------------------------------------------------------
(* What a greenthread may do while it runs *)

\* Its listener is a new one; the serial number tells it from those of the same
\* thread that are still around.
Joins(l) ==
  /\ l \notin Referenced
  /\ \A m \in 1..(l.n - 1) : [l EXCEPT !.n = m] \in Referenced
  /\ SetTables(Added(l))
  /\ at' = [at EXCEPT ![l.th] = l]
  /\ spent' = spent \ {l}

\* trampoline(): wait for an event of an open file.
Trampoline(t, e, f) ==
  /\ current = t
  /\ files[f] # 0
  /\ PreventMultiple => listeners[e][f] = None
  /\ removing.fd = f => Readding
  /\ \E n \in 1..MaxSerial : Joins([th |-> t, ev |-> e, fd |-> f, file |-> files[f], n |-> n])
  /\ current' = Hub
  /\ UNCHANGED <<backend, hubVars, closed, world>>

\* It waits for something that is not a descriptor.
SwitchAway(t) ==
  /\ current = t
  /\ current' = Hub
  /\ UNCHANGED <<backend, at, hubVars, tables, world>>

Exit(t) ==
  /\ current = t
  /\ at' = [at EXCEPT ![t] = Dead]
  /\ current' = Hub
  /\ UNCHANGED <<backend, hubVars, tables, world>>

\* An exception leaves the thread and arrives in the callback that woke it:
\* squelch_exception removes the descriptor.
ExitRaising(t) ==
  /\ current = t
  /\ phase = "dispatch" /\ removing = Idle /\ cause # None
  /\ at' = [at EXCEPT ![t] = Dead]
  /\ current' = Hub
  /\ removing' = [fd |-> cause, todo |-> ListenersOf(cause)]
  /\ UNCHANGED <<backend, phase, result, callbacks, cause, tables, world>>

\* kill() and throw() run the other thread at once; the caller comes back by
\* a timer.
Throw(t, u) ==
  /\ Throwing
  /\ current = t /\ u # t /\ at[u] # Dead
  /\ Resume(u)
  /\ UNCHANGED <<backend, hubVars, spent, closed, world>>

Close(t, f) ==
  /\ current = t
  /\ files[f] # 0
  /\ files' = [files EXCEPT ![f] = 0]
  /\ ready' = [ready EXCEPT ![f] = {}]
  /\ interest' = IF backend = "epoll" THEN [interest EXCEPT ![f] = {}] ELSE interest
  /\ UNCHANGED <<backend, current, at, hubVars, listeners, secondaries, spent, closed, opened>>

\* A new file gets a free number, and notify_opened tells the hub.
Open(t, f) ==
  /\ current = t
  /\ files[f] = 0 /\ opened < MaxFiles
  /\ opened' = opened + 1
  /\ files' = [files EXCEPT ![f] = opened + 1]
  /\ Obsolete(f)
  /\ UNCHANGED <<backend, current, at, hubVars, ready>>

\* It takes what the file had ready.
Consume(t, e, f) ==
  /\ current = t
  /\ e \in ready[f]
  /\ ready' = [ready EXCEPT ![f] = @ \ {e}]
  /\ UNCHANGED <<backend, current, at, hubVars, tables, files, opened>>

\* Data or space arrives, while the hub is in its system call.
Arrive(e, f) ==
  /\ HubRuns /\ phase = "wait"
  /\ files[f] # 0 /\ e \notin ready[f]
  /\ ready' = [ready EXCEPT ![f] = @ \cup {e}]
  /\ UNCHANGED <<backend, current, at, hubVars, tables, files, opened>>

-----------------------------------------------------------------------------
HubStep ==
  \/ CloseOne \/ NoneClosed \/ Poll \/ Gathered \/ Dispatched \/ RemoveCalls \/ RemoveEnds
  \/ \E f \in Fds : Gather(f)
  \/ \E l \in callbacks : Dispatch(l)
  \/ \E e \in Events, f \in Fds : LookUp(e, f)

Yields(t) == SwitchAway(t) \/ Exit(t)

Next ==
  \/ HubStep
  \/ TimersDone
  \/ \E t \in Threads : TimerFires(t) \/ Yields(t) \/ ExitRaising(t)
  \/ \E t, u \in Threads : Throw(t, u)
  \/ \E t \in Threads, f \in Fds : Close(t, f) \/ Open(t, f)
  \/ \E t \in Threads, e \in Wanted, f \in Fds : Trampoline(t, e, f) \/ Consume(t, e, f)
  \/ \E e \in Wanted, f \in Fds : Arrive(e, f)

\* run() goes on, and leaves its timers for the descriptors in the end
\* (ReachesWait of HubTimers); a thread that runs gives up control.
Fairness ==
  /\ WF_vars(HubStep)
  /\ SF_vars(TimersDone)
  /\ WF_vars(\E t \in Threads : Yields(t))

Spec == Init /\ [][Next]_vars /\ Fairness

-----------------------------------------------------------------------------
(* Properties *)

\* A thread waits for an event of a number, and was not told to give up.
WaitsFor(t, e, f) ==
  Waiting(t) /\ at[t].ev = e /\ at[t].fd = f /\ at[t] \notin spent

\* hub.py:153-241.  A thread in trampoline() is known to the hub: either its
\* listener is in the tables, and no other thread's is there, or it was defanged
\* and waits in `closed' to be told.  Nobody is forgotten when numbers are
\* recycled, queues migrate and descriptors are dropped.
WaitersKnown ==
  /\ Primaries \cup Queued = {at[t] : t \in {u \in Threads : Waiting(u)}} \ spent
  /\ \A t \in Threads : Waiting(t) /\ at[t] \in spent => Contains(closed, at[t])

\* poll.py:26-54.  The kernel polls an open file for exactly what the threads
\* that were not told of a recycled number wait for.
MaskExact ==
  \A f \in Fds : files[f] # 0 =>
    interest[f] = {e \in Events : \E t \in Threads : WaitsFor(t, e, f)}

\* hub.py:178-213, poll.py:91-118.  A listener in the tables is never one of
\* an old file while its number belongs to a new one.
NoneOutlivesItsFile ==
  \A l \in Primaries \cup Queued : files[l.fd] \in {0, l.file}

\* poll.py:68-112, selects.py:31-63.  Who alone waits for what a file is ready for is woken; who
\* waits for a file whose number was recycled is told.
Due(t) ==
  /\ Waiting(t)
  /\ \/ at[t] \in spent
     \/ /\ files[at[t].fd] = at[t].file /\ at[t].ev \in ready[at[t].fd]
        /\ \A u \in Threads \ {t} : ~WaitsFor(u, at[t].ev, at[t].fd)

EventReachesWaiter == \A t \in Threads : Due(t) ~> ~Due(t)
=============================================================================
