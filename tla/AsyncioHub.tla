----------------------------- MODULE AsyncioHub -----------------------------
(***************************************************************************)
(* eventlet/hubs/asyncio.py: the hub as a task of an asyncio loop.         *)
(*                                                                         *)
(* The loop has two ways to run greenthreads: the task of the hub fires    *)
(* timers, and a reader of the loop calls the listener it was added with.  *)
(* While the task sleeps, until a time or until sleep_event is set, the    *)
(* loop calls readers and coroutines; both may schedule timers.            *)
(*                                                                         *)
(* Only reading is modelled (a writer is registered and removed in the     *)
(* same way), and a greenthread has one timer at a time.  A cancelled      *)
(* timer leaves its list at once, where the code wakes up for it in vain.  *)
(***************************************************************************)
EXTENDS Integers, Sequences, SequencesExt, FiniteSets, FiniteSetsExt

CONSTANTS
  Threads, Fds,
  None,
  Hub,          \* the greenlet of the hub, in which the loop runs
  Multiple,     \* not hub.g_prevent_multiple_readers
  MaxTime,      \* bound of the model: the clock
  MaxOpens      \* bound of the model: how often a number is used again

VARIABLES
  phase,        \* of async_run(): "top", "fire", "sleep", "yield"
  current,      \* the greenlet that runs
  now, until,   \* the clock, and when the sleep ends
  timers,       \* per thread: when its timer is due, None without one
  fresh,        \* the threads whose timers are in next_timers
  sleep_event,
  at,           \* per thread: "new", "out", "asleep", "dead", or a number
  listeners,    \* per number: the thread that listens, or None
  secondaries,  \* per number: those that wait behind it
  closed,       \* threads whose listeners were found closed, the last first
  readers,      \* of the loop: per number the callback's thread, or None
  watched,      \* numbers the kernel watches for the loop
  open, ready,  \* numbers of open files; those that are ready
  opens

loopVars == <<phase, current, now, until, timers, fresh, sleep_event, at, listeners,
              secondaries, closed, readers, watched, open, ready, opens>>

\* default_sleep(): the end of a sleep without timers, which comes without the clock.
DefaultSleep == MaxTime + 1

LoopInit ==
  /\ phase = "top" /\ current = Hub
  /\ now = 0 /\ until = 0
  /\ timers = [t \in Threads |-> None] /\ fresh = {}
  /\ sleep_event = FALSE
  /\ at = [t \in Threads |-> "new"]
  /\ listeners = [f \in Fds |-> None] /\ secondaries = [f \in Fds |-> <<>>]
  /\ closed = <<>>
  /\ readers = [f \in Fds |-> None] /\ watched = {}
  /\ open = Fds /\ ready = {} /\ opens = 0

Scheduled == {t \in Threads : timers[t] # None}

\* The tables of the hub and of the loop as one value.
Tables == [first |-> listeners, rest |-> secondaries, reader |-> readers, kernel |-> watched]

SetTables(T) ==
  /\ listeners' = T.first /\ secondaries' = T.rest
  /\ readers' = T.reader /\ watched' = T.kernel

-----------------------------------------------------------------------------
(* Timers *)

\* add_timer().
AddTimer(t, due) ==
  /\ timers' = [timers EXCEPT ![t] = due]
  /\ fresh' = fresh \cup {t}
  /\ sleep_event' = TRUE

-----------------------------------------------------------------------------
(* Listeners *)

\* add(): the loop gets a reader with the callback of the first listener.
Added(T, t, f) ==
  IF T.first[f] # None
  THEN [T EXCEPT !.rest[f] = Append(@, t)]
  ELSE [T EXCEPT !.first[f] = t, !.reader[f] = t, !.kernel = @ \cup {f}]

\* What follows a removal: nobody listens any more.
ReaderRemoved(T, f) ==
  IF T.first[f] # None THEN T ELSE [T EXCEPT !.reader[f] = None, !.kernel = @ \ {f}]

\* remove(): one that waited behind takes the place of a first listener, but not
\* that of its callback in the loop.
Removed(T, t, f) ==
  IF T.first[f] = t
  THEN LET U == IF T.rest[f] = <<>>
                THEN [T EXCEPT !.first[f] = None]
                ELSE [T EXCEPT !.first[f] = Head(T.rest[f]), !.rest[f] = Tail(@)]
       IN ReaderRemoved(U, f)
  ELSE IF Contains(T.rest[f], t)
  THEN ReaderRemoved([T EXCEPT !.rest[f] = RemoveFirst(@, t)], f)
  ELSE T     \* it is spent

\* _obsolete(): the listeners are spent, and their threads will be told.
Obsolete(T, f) ==
  IF T.first[f] = None THEN [T EXCEPT !.rest[f] = <<>>]
  ELSE ReaderRemoved([T EXCEPT !.first[f] = None, !.rest[f] = <<>>], f)

Told(f) == secondaries[f] \o (IF listeners[f] = None THEN <<>> ELSE <<listeners[f]>>)

-----------------------------------------------------------------------------
(* A thread runs *)

\* It goes on behind the finally clause of trampoline(), or of sleep().
Resume(t) ==
  /\ current' = t
  /\ at' = [at EXCEPT ![t] = "out"]
  /\ timers' = [timers EXCEPT ![t] = None]
  /\ fresh' = fresh \ {t}
  /\ SetTables(IF at[t] \in Fds THEN Removed(Tables, t, at[t]) ELSE Tables)

\* trampoline(), with a timeout or without; the file must be open.
Trampoline(t, f) ==
  /\ current = t /\ f \in open
  /\ listeners[f] = None \/ Multiple
  /\ SetTables(Added(Tables, t, f))
  /\ at' = [at EXCEPT ![t] = f]
  /\ current' = Hub
  /\ \/ UNCHANGED <<timers, fresh, sleep_event>>
     \/ now < MaxTime /\ AddTimer(t, now + 1)
  /\ UNCHANGED <<phase, now, until, closed, open, ready, opens>>

Sleep(t, due) ==
  /\ current = t
  /\ AddTimer(t, due)
  /\ at' = [at EXCEPT ![t] = "asleep"]
  /\ current' = Hub
  /\ UNCHANGED <<phase, now, until, listeners, secondaries, closed, readers,
                 watched, open, ready, opens>>

Exit(t) ==
  /\ current = t
  /\ at' = [at EXCEPT ![t] = "dead"]
  /\ current' = Hub
  /\ UNCHANGED <<phase, now, until, timers, fresh, sleep_event, listeners,
                 secondaries, closed, readers, watched, open, ready, opens>>

\* It reads what there is, closes a file, with or without notify_close(), or
\* opens one, when the number may be in use with the hub.
Consume(t, f) ==
  /\ current = t /\ f \in ready
  /\ ready' = ready \ {f}
  /\ UNCHANGED <<phase, current, now, until, timers, fresh, sleep_event, at, listeners,
                 secondaries, closed, readers, watched, open, opens>>

\* The kernel forgets a closed number, and notify_close() tells the hub nothing.
Close(t, f) ==
  /\ current = t /\ f \in open
  /\ open' = open \ {f}
  /\ ready' = ready \ {f}
  /\ SetTables([Tables EXCEPT !.kernel = @ \ {f}])
  /\ UNCHANGED <<phase, current, now, until, timers, fresh, sleep_event, at, closed, opens>>

Open(t, f) ==
  /\ current = t /\ f \notin open /\ opens < MaxOpens
  /\ opens' = opens + 1
  /\ open' = open \cup {f}
  /\ SetTables(Obsolete(Tables, f))
  /\ closed' = closed \o Told(f)
  /\ UNCHANGED <<phase, current, now, until, timers, fresh, sleep_event, at, ready>>

-----------------------------------------------------------------------------
(* async_run() *)

Top ==
  /\ phase = "top" /\ current = Hub /\ closed = <<>>
  /\ fresh' = {}
  /\ phase' = "fire"
  /\ UNCHANGED <<current, now, until, timers, sleep_event, at, listeners, secondaries,
                 closed, readers, watched, open, ready, opens>>

\* close_one(): IOClosed is thrown into the thread, unless it is dead.
CloseOne ==
  /\ phase = "top" /\ current = Hub /\ closed # <<>>
  /\ closed' = Front(closed)
  /\ IF at[Last(closed)] = "dead"
     THEN UNCHANGED <<current, timers, fresh, at, listeners, secondaries, readers, watched>>
     ELSE Resume(Last(closed))
  /\ UNCHANGED <<phase, now, until, sleep_event, open, ready, opens>>

\* fire_timers(): those that are due and not new.
Fire(t) ==
  /\ phase = "fire" /\ current = Hub
  /\ t \in Scheduled \ fresh /\ timers[t] <= now
  /\ Resume(t)
  /\ UNCHANGED <<phase, now, until, sleep_event, closed, open, ready, opens>>

\* The next sleep is that of the earliest timer, the new ones included.
FireEnds ==
  /\ phase = "fire" /\ current = Hub
  /\ \A t \in Scheduled \ fresh : timers[t] > now
  /\ fresh' = {}
  /\ until' = Min({timers[t] : t \in Scheduled} \cup {DefaultSleep})
  /\ phase' = IF until' > now THEN "sleep" ELSE "yield"
  /\ UNCHANGED <<current, now, timers, sleep_event, at, listeners, secondaries,
                 closed, readers, watched, open, ready, opens>>

SleepOver ==
  /\ phase = "sleep" /\ current = Hub
  /\ sleep_event \/ now >= until \/ until = DefaultSleep
  /\ sleep_event' = FALSE
  /\ phase' = "top"
  /\ UNCHANGED <<current, now, until, timers, fresh, at, listeners, secondaries,
                 closed, readers, watched, open, ready, opens>>

\* asyncio.sleep(0) leaves the event as it is.
Yielded ==
  /\ phase = "yield" /\ current = Hub
  /\ phase' = "top"
  /\ UNCHANGED <<current, now, until, timers, fresh, sleep_event, at, listeners,
                 secondaries, closed, readers, watched, open, ready, opens>>

-----------------------------------------------------------------------------
(* The loop, while the task of the hub waits *)

\* _file_cb(): the callback of the reader, which is a switch to a thread.
FileCallback(f) ==
  /\ phase \in {"sleep", "yield"} /\ current = Hub
  /\ f \in ready \cap watched
  /\ sleep_event' = TRUE
  /\ IF at[readers[f]] = "dead"
     THEN UNCHANGED <<current, timers, fresh, at, listeners, secondaries, readers, watched>>
     ELSE Resume(readers[f])
  /\ UNCHANGED <<phase, now, until, closed, open, ready, opens>>

\* A coroutine, or a thread, spawns a greenthread.
Spawn(t) ==
  /\ \/ phase \in {"sleep", "yield"} /\ current = Hub
     \/ current \in Threads
  /\ at[t] = "new" /\ timers[t] = None
  /\ AddTimer(t, now)
  /\ UNCHANGED <<phase, current, now, until, at, listeners, secondaries, closed,
                 readers, watched, open, ready, opens>>

\* The world: files become ready, time passes.
Arrive(f) ==
  /\ f \in open \ ready
  /\ ready' = ready \cup {f}
  /\ UNCHANGED <<phase, current, now, until, timers, fresh, sleep_event, at, listeners,
                 secondaries, closed, readers, watched, open, opens>>

Tick ==
  /\ now < MaxTime
  /\ phase = "sleep" /\ current = Hub
  /\ now < until /\ ~sleep_event
  /\ now' = now + 1
  /\ UNCHANGED <<phase, current, until, timers, fresh, sleep_event, at, listeners,
                 secondaries, closed, readers, watched, open, ready, opens>>

HubStep == Top \/ CloseOne \/ FireEnds \/ SleepOver \/ Yielded \/ \E t \in Threads : Fire(t)

Yields(t) ==
  \/ Exit(t)
  \/ \E f \in Fds : Trampoline(t, f)
  \/ \E due \in now..MaxTime : Sleep(t, due)

LoopNext ==
  \/ HubStep \/ Tick
  \/ \E t \in Threads :
       \/ Yields(t) \/ Spawn(t)
       \/ \E f \in Fds : Consume(t, f) \/ Close(t, f) \/ Open(t, f)
  \/ \E f \in Fds : FileCallback(f) \/ Arrive(f)

\* The loop runs what is ready, each in its turn, and a greenthread switches in
\* the end.
LoopFairness ==
  /\ SF_loopVars(HubStep) /\ WF_loopVars(Tick)
  /\ \A f \in Fds : SF_loopVars(FileCallback(f))
  /\ \A t \in Threads : WF_loopVars(Yields(t))

LoopSpec == LoopInit /\ [][LoopNext]_loopVars /\ LoopFairness

-----------------------------------------------------------------------------
(* Properties *)

\* hubs/asyncio.py:94-141.  The loop calls exactly the listeners of the hub, and
\* watches exactly the open files among them.
ReadersExact ==
  /\ readers = listeners
  /\ watched = {f \in open : listeners[f] # None}

\* hubs/asyncio.py:153-178.  While the hub sleeps no timer, new ones included,
\* is due before it wakes.
NeverOversleeps ==
  phase = "sleep" /\ current = Hub /\ ~sleep_event =>
    \A t \in Scheduled : t \notin fresh /\ timers[t] >= until

\* hubs/asyncio.py:82-92, 143-187.  Who waits for a file that is ready, or for a
\* number that was opened anew, is resumed.
Due(t) ==
  \/ at[t] \in Fds /\ listeners[at[t]] = t /\ at[t] \in open \cap ready
  \/ Contains(closed, t)
Resumed(t) == Due(t) ~> ~Due(t)
=============================================================================
