----------------------------- MODULE LightQueue -----------------------------
(***************************************************************************)
(* eventlet/queue.py: LightQueue, with the waiters it makes of blocked     *)
(* threads and with _unlock, the timer that brings them together.          *)
(*                                                                         *)
(* _unlock runs in the hub and switches to the threads it wakes.  Such a   *)
(* thread runs on, and may put, get and kill, before it comes back to the  *)
(* hub and _unlock goes on where it was.  `actor' is who runs at the       *)
(* moment.  Items are counted, not told apart; maxsize=None is a size no    *)
(* number of items reaches.                                                *)
(***************************************************************************)
EXTENDS Integers, FiniteSets

CONSTANTS
  QueueUsers,      \* the greenthreads that use the queue
  Hub,             \* the main loop
  NoOne,           \* no thread
  MaxSizes,        \* the values of maxsize
  MaxPending       \* bound of the model: stale waiters, timers that throw Full

ASSUME LightQueueAssumption ==
  /\ Hub \notin QueueUsers /\ NoOne \notin QueueUsers \cup {Hub}
  /\ MaxSizes \subseteq Nat
  /\ MaxPending \in Nat

VARIABLES
  maxsize,
  qsize,      \* the number of items in the queue
  state,      \* "none", or the call in which a thread waits
  getters,    \* threads whose waiter is in self.getters
  putters,    \* threads whose waiter is in self.putters
  stale,      \* waiters in self.putters that nobody waits on any more
  handed,     \* waiting putters whose item was taken (item is _NONE)
  unlock,     \* _event_unlock: "none", "scheduled" or "runs"
  then,       \* what a callback of the hub does when the thread it switched
              \* to comes back: switch to a putter, or go on with its get()
  actor,
  fulls,      \* timers that will throw Full into each thread
  result      \* how the last call of each thread ended

queueVars == <<maxsize, qsize, state, getters, putters, stale, handed, unlock, then,
          actor, fulls, result>>

QueueTypeOK ==
  /\ maxsize \in MaxSizes
  /\ qsize \in Nat
  /\ state \in [QueueUsers -> {"none", "put", "put_nowait", "get"}]
  /\ getters \subseteq QueueUsers
  /\ putters \subseteq QueueUsers
  /\ stale \in 0..MaxPending
  /\ handed \subseteq QueueUsers
  /\ unlock \in {"none", "scheduled", "runs"}
  /\ then \in QueueUsers \cup {NoOne, Hub}
  /\ actor \in QueueUsers \cup {Hub}
  /\ fulls \in [QueueUsers -> 0..MaxPending]
  /\ result \in [QueueUsers -> {"ok", "full", "empty", "interrupted"}]

QueueInit ==
  /\ maxsize \in MaxSizes
  /\ qsize = 0
  /\ state = [t \in QueueUsers |-> "none"]
  /\ getters = {} /\ putters = {} /\ stale = 0 /\ handed = {}
  /\ unlock = "none" /\ then = NoOne /\ actor = Hub
  /\ fulls = [t \in QueueUsers |-> 0]
  /\ result = [t \in QueueUsers |-> "ok"]

HasRoom == qsize < maxsize

HasItem == qsize > 0

HasPutters == putters # {} \/ stale > 0

TellsGetters == getters # {}

\* Faulty: a getter does not look for putters.
TellsPuttersNever == FALSE

TellsPutters == HasPutters

\* _schedule_unlock() if the condition holds: nothing while a timer is pending
\* or _unlock is running.
ScheduleUnlock(condition) ==
  unlock' = IF condition /\ unlock = "none" THEN "scheduled" ELSE unlock

\* The call of t ends with r and t runs on.
Resume(t, r) ==
  /\ actor' = t
  /\ state' = [state EXCEPT ![t] = "none"]
  /\ result' = [result EXCEPT ![t] = r]

QueueSuspend(t, call) ==
  /\ actor' = Hub
  /\ state' = [state EXCEPT ![t] = call]
  /\ UNCHANGED result

-----------------------------------------------------------------------------
(* The threads *)

\* Something else than the queue resumes a thread, or suspends it.
Run(t) ==
  /\ actor = Hub /\ unlock # "runs" /\ then = NoOne
  /\ state[t] = "none"
  /\ actor' = t
  /\ UNCHANGED <<maxsize, qsize, state, getters, putters, stale, handed, unlock,
                 then, fulls, result>>

Sleep(t) ==
  /\ actor = t
  /\ actor' = Hub
  /\ UNCHANGED <<maxsize, qsize, state, getters, putters, stale, handed, unlock,
                 then, fulls, result>>

\* put() and put_nowait() with a free slot
PutNow(t) ==
  /\ actor = t
  /\ HasRoom
  /\ qsize' = qsize + 1
  /\ ScheduleUnlock(TellsGetters)
  /\ Resume(t, "ok")
  /\ UNCHANGED <<maxsize, getters, putters, stale, handed, then, fulls>>

\* put() of a full queue
PutWaits(t) ==
  /\ actor = t
  /\ ~HasRoom
  /\ putters' = putters \cup {t}
  /\ ScheduleUnlock(TellsGetters)
  /\ QueueSuspend(t, "put")
  /\ UNCHANGED <<maxsize, qsize, getters, stale, handed, then, fulls>>

\* put_nowait() of a full queue waits, too, if there are getters: _unlock will
\* decide.
PutNowaitWaits(t) ==
  /\ actor = t
  /\ ~HasRoom /\ getters # {}
  /\ fulls[t] < MaxPending
  /\ putters' = putters \cup {t}
  /\ ScheduleUnlock(TRUE)
  /\ QueueSuspend(t, "put_nowait")
  /\ UNCHANGED <<maxsize, qsize, getters, stale, handed, then, fulls>>

PutNowaitFull(t) ==
  /\ actor = t
  /\ ~HasRoom /\ getters = {}
  /\ Resume(t, "full")
  /\ UNCHANGED <<maxsize, qsize, getters, putters, stale, handed, unlock, then, fulls>>

\* get() and get_nowait() of a queue with items
GetNow(t) ==
  /\ actor = t
  /\ HasItem
  /\ qsize' = qsize - 1
  /\ ScheduleUnlock(TellsPutters)
  /\ Resume(t, "ok")
  /\ UNCHANGED <<maxsize, getters, putters, stale, handed, then, fulls>>

GetWaits(t) ==
  /\ actor = t
  /\ qsize = 0
  /\ getters' = getters \cup {t}
  /\ ScheduleUnlock(TellsPutters)
  /\ QueueSuspend(t, "get")
  /\ UNCHANGED <<maxsize, qsize, putters, stale, handed, then, fulls>>

GetNowaitEmpty(t) ==
  /\ actor = t
  /\ qsize = 0
  /\ Resume(t, "empty")
  /\ UNCHANGED <<maxsize, qsize, getters, putters, stale, handed, unlock, then, fulls>>

resize(t, size) ==
  /\ actor = t
  /\ size # maxsize
  /\ maxsize' = size
  /\ ScheduleUnlock(size > maxsize)
  /\ UNCHANGED <<qsize, state, getters, putters, stale, handed, then, actor, fulls, result>>

\* The finally clauses of get() and put()
Discard(t) ==
  /\ getters' = getters \ {t}
  /\ putters' = putters \ {t}

\* The Timeout of get(timeout) or put(timeout), which is in the hub's hands.
QueueTimeoutFires(t) ==
  /\ actor = Hub /\ unlock # "runs" /\ then = NoOne
  /\ \/ /\ state[t] = "get"
        /\ Resume(t, "empty")
        /\ ScheduleUnlock(TRUE)
     \/ /\ state[t] = "put"
        /\ Resume(t, "full")
        /\ UNCHANGED unlock
  /\ Discard(t)
  /\ UNCHANGED <<maxsize, qsize, stale, handed, then, fulls>>

\* An exception is thrown into t: by a callback of the hub, or by a thread that
\* runs, which is suspended for that.  put_nowait() leaves its waiter behind.
ThrownInto(t) ==
  /\ state[t] # "none"
  /\ state[t] = "put_nowait" => stale < MaxPending
  /\ Resume(t, "interrupted")
  /\ Discard(t)
  /\ stale' = IF state[t] = "put_nowait" /\ t \in putters THEN stale + 1 ELSE stale
  /\ handed' = handed \ {t}
  /\ ScheduleUnlock(state[t] = "get")

QueueInterrupt(t) ==
  /\ actor \in QueueUsers \/ (unlock # "runs" /\ then = NoOne)
  /\ ThrownInto(t)
  /\ UNCHANGED <<maxsize, qsize, then, fulls>>

-----------------------------------------------------------------------------
(* _unlock *)

UnlockBegins ==
  /\ actor = Hub /\ unlock = "scheduled" /\ then = NoOne
  /\ unlock' = "runs"
  /\ UNCHANGED <<maxsize, qsize, state, getters, putters, stale, handed, then,
                 actor, fulls, result>>

Unlocking == actor = Hub /\ unlock = "runs" /\ then = NoOne

\* An item of the queue goes to a getter.
ServeGetter ==
  /\ Unlocking
  /\ HasItem
  /\ \E g \in getters :
       /\ getters' = getters \ {g}
       /\ qsize' = qsize - 1
       /\ Resume(g, "ok")
  /\ UNCHANGED <<maxsize, putters, stale, handed, unlock, then, fulls>>

\* A waiter nobody waits on is dropped when _unlock comes across it.
DropStale ==
  /\ Unlocking
  /\ stale > 0
  /\ \/ getters # {} /\ qsize = 0
     \/ getters = {} /\ HasRoom
  /\ stale' = stale - 1
  /\ UNCHANGED <<maxsize, qsize, state, getters, putters, handed, unlock, then,
                 actor, fulls, result>>

\* Faulty: the putter is not told that its item is gone.
HandNever(p) == handed

\* putter.item = _NONE
Hand(p) == handed \cup {p}

\* The item of a putter goes to a getter; the putter is next.
PassItem ==
  /\ Unlocking
  /\ qsize = 0
  /\ \E p \in putters, g \in getters :
       /\ putters' = putters \ {p}
       /\ getters' = getters \ {g}
       /\ handed' = Hand(p)
       /\ Resume(g, "ok")
       /\ then' = p
  /\ UNCHANGED <<maxsize, qsize, stale, unlock, fulls>>

\* The putter whose item was passed may have been interrupted meanwhile.
SwitchToPutter ==
  /\ actor = Hub /\ then \in QueueUsers
  /\ then' = NoOne
  /\ handed' = handed \ {then}
  /\ \/ then \in handed /\ Resume(then, "ok")
     \/ then \notin handed /\ UNCHANGED <<state, actor, result>>
  /\ UNCHANGED <<maxsize, qsize, getters, putters, stale, unlock, fulls>>

\* Faulty: put_nowait() puts its item and raises Full, too.
WakePutterAnyhow(p) ==
  /\ putters' = putters \ {p}
  /\ qsize' = qsize + 1
  /\ \/ state[p] = "put" /\ Resume(p, "ok")
     \/ state[p] = "put_nowait" /\ Resume(p, "full")

\* A putter that has its item still is switched to: put() goes on and puts it,
\* or raises Full if it was not to block.
WakePutter(p) ==
  /\ putters' = putters \ {p}
  /\ \/ state[p] = "put" /\ qsize' = qsize + 1 /\ Resume(p, "ok")
     \/ state[p] = "put_nowait" /\ Resume(p, "full") /\ UNCHANGED qsize

\* Faulty: off by one.
RoomForPutterLoose == qsize <= maxsize

RoomForPutter == HasRoom

AdmitPutter ==
  /\ Unlocking
  /\ getters = {}
  /\ RoomForPutter
  /\ \E p \in putters : WakePutter(p)
  /\ UNCHANGED <<maxsize, getters, stale, handed, unlock, then, fulls>>

NowaitPutters == {p \in putters : state[p] = "put_nowait"}

\* The threads in put_nowait() get a timer that throws Full into them.  A stale
\* waiter among them raises AttributeError (its greenlet is None): the threads
\* that come after it in the list get none.
RefusePutters ==
  /\ Unlocking
  /\ getters = {} /\ ~HasRoom
  /\ \E refused \in SUBSET NowaitPutters :
       /\ putters' = putters \ refused
       /\ fulls' = [p \in QueueUsers |-> IF p \in refused THEN fulls[p] + 1 ELSE fulls[p]]
       /\ \/ /\ stale = 0 /\ refused = NowaitPutters /\ refused # {}
             /\ UNCHANGED <<stale, unlock>>
          \/ /\ stale > 0
             /\ stale' = stale - 1
             /\ unlock' = "none"
  /\ UNCHANGED <<maxsize, qsize, state, getters, handed, then, actor, result>>

UnlockEnds ==
  /\ Unlocking
  /\ \/ getters # {} /\ qsize = 0 /\ ~HasPutters
     \/ getters = {} /\ ~HasPutters
     \/ getters = {} /\ ~HasRoom /\ stale = 0 /\ NowaitPutters = {}
  /\ unlock' = "none"
  /\ UNCHANGED <<maxsize, qsize, state, getters, putters, stale, handed, then,
                 actor, fulls, result>>

\* A timer of RefusePutters: it throws Full at the thread whatever the thread
\* does by then.
ThrowFull(t) ==
  /\ actor = Hub /\ unlock # "runs" /\ then = NoOne
  /\ fulls[t] > 0
  /\ fulls' = [fulls EXCEPT ![t] = @ - 1]
  /\ \/ /\ state[t] = "put_nowait" /\ t \notin putters
        /\ Resume(t, "full")
        /\ UNCHANGED <<getters, putters, stale, handed, unlock>>
     \/ /\ state[t] # "put_nowait" \/ t \in putters
        /\ ThrownInto(t)
     \/ /\ state[t] = "none"
        /\ Resume(t, "interrupted")
        /\ UNCHANGED <<getters, putters, stale, handed, unlock>>
  /\ UNCHANGED <<maxsize, qsize, then>>

-----------------------------------------------------------------------------
(* put_nowait() and get_nowait() in a callback of the hub *)

HubPut ==
  /\ actor = Hub /\ unlock # "runs" /\ then = NoOne
  /\ \/ /\ HasRoom
        /\ qsize' = qsize + 1
        /\ ScheduleUnlock(TellsGetters)
        /\ UNCHANGED <<getters, state, actor, result>>
     \/ /\ ~HasRoom
        /\ \E g \in getters : getters' = getters \ {g} /\ Resume(g, "ok")
        /\ UNCHANGED <<qsize, unlock>>
  /\ UNCHANGED <<maxsize, putters, stale, handed, then, fulls>>

HubGet ==
  /\ actor = Hub /\ unlock # "runs" /\ then = NoOne
  /\ HasItem
  /\ qsize' = qsize - 1
  /\ ScheduleUnlock(TellsPutters)
  /\ UNCHANGED <<maxsize, state, getters, putters, stale, handed, then, actor,
                 fulls, result>>

\* The queue is empty: wake putters one by one until one leaves an item.
HubGetAsks ==
  /\ actor = Hub
  /\ then = Hub \/ (then = NoOne /\ unlock # "runs")
  /\ qsize = 0
  /\ \/ /\ stale > 0
        /\ stale' = stale - 1
        /\ then' = Hub
        /\ UNCHANGED <<qsize, putters, state, actor, result>>
     \/ /\ \E p \in putters : WakePutter(p)
        /\ then' = Hub
        /\ UNCHANGED stale
  /\ UNCHANGED <<maxsize, getters, handed, unlock, fulls>>

\* The item that turned up is taken, or Empty is raised.
HubGetEnds ==
  /\ actor = Hub /\ then = Hub
  /\ \/ HasItem /\ qsize' = qsize - 1
     \/ qsize = 0 /\ ~HasPutters /\ UNCHANGED qsize
  /\ then' = NoOne
  /\ UNCHANGED <<maxsize, state, getters, putters, stale, handed, unlock, actor,
                 fulls, result>>

-----------------------------------------------------------------------------

Thread(t) ==
  \/ Run(t) \/ Sleep(t)
  \/ PutNow(t) \/ PutWaits(t) \/ PutNowaitWaits(t) \/ PutNowaitFull(t)
  \/ GetNow(t) \/ GetWaits(t) \/ GetNowaitEmpty(t)
  \/ QueueTimeoutFires(t) \/ QueueInterrupt(t) \/ ThrowFull(t)
  \/ \E size \in MaxSizes : resize(t, size)

Unlock ==
  \/ UnlockBegins \/ UnlockEnds
  \/ ServeGetter \/ DropStale \/ PassItem \/ SwitchToPutter \/ AdmitPutter
  \/ RefusePutters

Callback == HubPut \/ HubGet \/ HubGetAsks \/ HubGetEnds

QueueNext == Unlock \/ Callback \/ \E t \in QueueUsers : Thread(t)

QueueSafety == QueueInit /\ [][QueueNext]_queueVars

\* The hub calls its timers in the order in which they are due, so that a timer
\* that is pending again and again is called; a callback that began goes on when
\* the thread it switched to comes back, and a thread suspends itself in the end.
QueueFairness ==
  /\ SF_queueVars(Unlock)
  /\ WF_queueVars(HubGetAsks \/ HubGetEnds)
  /\ \A t \in QueueUsers : WF_queueVars(Sleep(t)) /\ SF_queueVars(ThrowFull(t))

QueueSpec == QueueSafety /\ QueueFairness

-----------------------------------------------------------------------------
(* Properties *)

\* Whenever _unlock could bring two parties together it is scheduled or running:
\* no thread waits for an item or a slot that is already there.
UnlockIsDue ==
  (\/ getters # {} /\ (qsize > 0 \/ putters # {})
   \/ putters # {} /\ HasRoom)
  => unlock # "none"

\* The waiters in self.getters are those of the threads in get(), and every
\* thread in put() or put_nowait() has its waiter in self.putters, was taken out
\* of it by the _unlock that is about to switch to it, or has Full on its way.
QueueWaitersExact ==
  /\ getters = {t \in QueueUsers : state[t] = "get"}
  /\ \A t \in putters : state[t] \in {"put", "put_nowait"} /\ t \notin handed
  /\ \A t \in QueueUsers :
       /\ state[t] = "put" => t \in putters \/ (t \in handed /\ then = t)
       /\ state[t] = "put_nowait" =>
            t \in putters \/ (t \in handed /\ then = t) \/ fulls[t] > 0

\* put_nowait() does not block: while a thread is suspended in it, _unlock or a
\* timer that throws Full is about to decide it.
NowaitIsDecided ==
  \A t \in QueueUsers :
    state[t] = "put_nowait" =>
      unlock # "none" \/ then # NoOne \/ fulls[t] > 0

\* The queue grows only within its size; a callback that gets may let one item
\* in that it takes itself.
NeverOverfull ==
  [][qsize' > qsize => qsize' <= maxsize \/ then' = Hub]_queueVars

\* The queue hands items over, each once, whatever fails on the way.
HandsOver == INSTANCE Buffer
  WITH Threads <- QueueUsers,
       held <- qsize,
       doing <- [t \in QueueUsers |->
                   IF t \in handed \/ state[t] = "none" THEN "none"
                   ELSE IF state[t] = "get" THEN "get" ELSE "put"],
       result <- [t \in QueueUsers |-> IF t \in handed THEN "ok" ELSE result[t]]

IsBuffer == HandsOver!Safety

\* No item and no putter stays apart for ever from a thread in get().
BringsTogether == HandsOver!BringsTogether

=============================================================================
