-------------------------------- MODULE Pools --------------------------------
(***************************************************************************)
(* eventlet/pools.py and db_pool.py: items that threads take and give back.*)
(*                                                                         *)
(* Pool counts in current_size the items that exist: those in free_items,  *)
(* those that threads hold or are creating, and those on their way through *)
(* the channel, a LightQueue(0) on which get() waits when nothing is left. *)
(* put() hands an item to the channel without blocking: the thread is      *)
(* nevertheless suspended until the queue's _unlock finds it a getter or   *)
(* refuses it with Full.                                                   *)
(*                                                                         *)
(* BaseConnectionPool puts a flag (None in the code) in the place of a     *)
(* connection it has to give up while threads wait: whoever gets the flag  *)
(* makes a connection of its own.  "pool" is a Pool or a TokenPool, "db" a *)
(* connection pool, "limiter" one whose max_age or max_idle is 0, so that  *)
(* no connection is ever kept.                                             *)
(***************************************************************************)
EXTENDS Integers, Sequences, SequencesExt, FiniteSets, FiniteSetsExt, Functions

CONSTANTS
  Threads,
  Kinds,      \* which of "pool", "db" and "limiter" to study
  Sizes,      \* the values of max_size
  MinSize,    \* items made in __init__
  MaxLost     \* bound of the model: places lost to interrupted threads

VARIABLES
  kind,
  perils,        \* what may go wrong: "fail", "interrupt", "race"
  max_size,
  current_size,
  free_items,    \* a sequence of "conn" and "flag"
  state,         \* per thread: what it does with the pool
  item,          \* per thread: what it carries while it is in put()
  getters,       \* the threads in channel.get()
  putters,       \* the threads in channel.put(), not paired and not refused
  stale,         \* waiters that interrupted threads left among the putters
  refused,       \* the threads that a timer is going to throw Full into
  unlock,        \* the channel's _unlock is scheduled
  closing,       \* <<thread, n>>: the n-th last item its clear() has still to close
  timer,         \* the expiration timer is scheduled
  lost           \* history: places of interrupted threads nobody gives back

channel == <<getters, putters, stale, refused, unlock>>
shelf == <<current_size, free_items, timer>>
vars == <<kind, perils, max_size, shelf, state, item, channel, closing, lost>>

States == {"out", "creating", "recreating", "holding", "waiting", "cleaning",
           "putting", "passed", "clearing"}

Init ==
  /\ kind \in Kinds
  /\ perils \in {{}, {"fail", "interrupt", "race"}}
  /\ max_size \in Sizes
  /\ current_size = MinSize
  /\ free_items = [i \in 1..MinSize |-> "conn"]
  /\ state = [t \in Threads |-> "out"]
  /\ item = [t \in Threads |-> "conn"]
  /\ getters = {} /\ putters = {} /\ stale = 0 /\ refused = {} /\ unlock = FALSE
  /\ closing = {}
  /\ timer = FALSE
  /\ lost = 0

MaxSize == Max(Sizes \cup {MinSize})

In(s) == {t \in Threads : state[t] = s}

Goes(t, s) == state' = [state EXCEPT ![t] = s]

waiting == Max({0, Cardinality(getters) - Cardinality(putters) - stale})

-----------------------------------------------------------------------------
(* The shelf: free_items, current_size and the expiration timer as one value *)

Shelf == [free |-> free_items, size |-> current_size, timer |-> timer]

SetShelf(S) ==
  /\ free_items' = S.free
  /\ current_size' = S.size
  /\ timer' = S.timer

\* Faulty: the places of the expired connections are not given back.
ExpiredKeepsSize(S) ==
  {[S EXCEPT !.free = SubSeq(S.free, 1, n), !.timer = n > 0] : n \in 0..Len(S.free)}

\* _schedule_expiration(), unless it is scheduled: drop what has expired, and
\* come back if something is left.  Free connections lie in the order of their
\* use, but each has an age of its own: any of them may be too old.  A flag
\* among them is no tuple: TypeError, and nothing is done.
Expired(S) ==
  IF kind # "db" \/ S.timer \/ Contains(S.free, "flag") THEN {S}
  ELSE {[free |-> SubSeq(S.free, 1, n),
         size |-> S.size - (Len(S.free) - n),
         timer |-> n > 0] : n \in 0..Len(S.free)}

Store(x) ==
  IF kind = "pool" THEN [Shelf EXCEPT !.free = Append(@, x)]
                   ELSE [Shelf EXCEPT !.free = <<x>> \o @]

Drop == [Shelf EXCEPT !.size = @ - 1]

-----------------------------------------------------------------------------
(* get() *)

\* A flag from the shelf or from the channel sends a connection pool to create().
Received(x) == IF x = "flag" THEN "recreating" ELSE "holding"

GetFree(t) ==
  /\ state[t] = "out"
  /\ free_items # <<>>
  /\ SetShelf([Shelf EXCEPT !.free = Tail(@)])
  /\ Goes(t, Received(Head(free_items)))
  /\ UNCHANGED <<kind, perils, max_size, item, channel, closing, lost>>

GetCreates(t) ==
  /\ state[t] = "out"
  /\ free_items = <<>> /\ current_size < max_size
  /\ SetShelf([Shelf EXCEPT !.size = @ + 1])
  /\ Goes(t, "creating")
  /\ UNCHANGED <<kind, perils, max_size, item, channel, closing, lost>>

\* A get() may come between the decision of _unlock to refuse a putter and the
\* timer that tells it, when the item is neither on the shelf nor in the channel,
\* or while clear() closes connections and has not given back their places.
GetWaits(t) ==
  /\ state[t] = "out"
  /\ free_items = <<>> /\ current_size >= max_size
  /\ refused \cup In("clearing") = {} \/ "race" \in perils
  /\ getters' = getters \cup {t}
  /\ unlock' = (unlock \/ putters # {} \/ stale > 0)
  /\ Goes(t, "waiting")
  /\ UNCHANGED <<kind, perils, max_size, shelf, item, putters, stale, refused, closing, lost>>

Created(t) ==
  /\ state[t] \in {"creating", "recreating"}
  /\ Goes(t, "holding")
  /\ UNCHANGED <<kind, perils, max_size, shelf, item, channel, closing, lost>>

\* create() raises: the place is free again, and nobody who waits is told.
CreateFails(t) ==
  /\ "fail" \in perils
  /\ state[t] \in {"creating", "recreating"}
  /\ SetShelf(Drop)
  /\ Goes(t, "out")
  /\ UNCHANGED <<kind, perils, max_size, item, channel, closing, lost>>

\* A Timeout or a kill, which are no Exceptions, end it: Pool gives the place
\* back, the connection pool does so in its own create() only for Exceptions.
CreateInterrupted(t) ==
  /\ "interrupt" \in perils
  /\ \/ state[t] = "creating" /\ SetShelf(Drop) /\ UNCHANGED lost
     \/ state[t] = "recreating" /\ lost < MaxLost /\ lost' = lost + 1 /\ UNCHANGED shelf
  /\ Goes(t, "out")
  /\ UNCHANGED <<kind, perils, max_size, item, channel, closing>>

\* A Timeout or a kill ends channel.get().
WaitInterrupted(t) ==
  /\ state[t] = "waiting" /\ t \in getters
  /\ getters' = getters \ {t}
  /\ unlock' = TRUE
  /\ Goes(t, "out")
  /\ UNCHANGED <<kind, perils, max_size, shelf, item, putters, stale, refused, closing, lost>>

-----------------------------------------------------------------------------
(* put() *)

\* Faulty: an item is shelved although threads wait.
PutShelves(t, x) ==
  /\ \E S \in Expired(Store(x)) : SetShelf(S)
  /\ Goes(t, "out")
  /\ UNCHANGED <<item, channel>>

\* Pool.put(): give up what is too much, hand it to who waits, or shelve it.
\* When it is done the connection pool looks after its timer.
Put(t, x) ==
  \/ /\ current_size > max_size
     /\ \E S \in Expired(Drop) : SetShelf(S)
     /\ Goes(t, "out")
     /\ UNCHANGED <<item, channel>>
  \/ /\ current_size <= max_size /\ waiting > 0
     /\ putters' = putters \cup {t}
     /\ unlock' = TRUE
     /\ item' = [item EXCEPT ![t] = x]
     /\ Goes(t, "putting")
     /\ UNCHANGED <<shelf, getters, stale, refused>>
  \/ /\ current_size <= max_size /\ waiting = 0
     /\ \E S \in Expired(Store(x)) : SetShelf(S)
     /\ Goes(t, "out")
     /\ UNCHANGED <<item, channel>>

PutItem(t) ==
  /\ kind = "pool" /\ state[t] = "holding"
  /\ Put(t, "conn")
  /\ UNCHANGED <<kind, perils, max_size, closing, lost>>

\* The connection pool takes the connection out of its wrapper, and closes it
\* or rolls it back: both may switch.
PutCleans(t) ==
  /\ kind # "pool" /\ state[t] = "holding"
  /\ Goes(t, "cleaning")
  /\ UNCHANGED <<kind, perils, max_size, shelf, item, channel, closing, lost>>

PutConnection(t) ==
  /\ kind = "db" /\ state[t] = "cleaning"
  /\ Put(t, "conn")
  /\ UNCHANGED <<kind, perils, max_size, closing, lost>>

\* It was too old, or the rollback failed.
PutDead(t) ==
  /\ state[t] = "cleaning"
  /\ \/ waiting > 0 /\ Put(t, "flag")
     \/ /\ waiting = 0
        /\ \E S \in Expired(Drop) : SetShelf(S)
        /\ Goes(t, "out")
        /\ UNCHANGED <<item, channel>>
  /\ UNCHANGED <<kind, perils, max_size, closing, lost>>

CleanInterrupted(t) ==
  /\ "interrupt" \in perils /\ lost < MaxLost
  /\ state[t] = "cleaning"
  /\ lost' = lost + 1
  /\ Goes(t, "out")
  /\ UNCHANGED <<kind, perils, max_size, shelf, item, channel, closing>>

\* The thread is interrupted in channel.put(): its waiter stays, without it.
PutInterrupted(t) ==
  /\ "interrupt" \in perils /\ lost < MaxLost
  /\ t \in putters
  /\ putters' = putters \ {t}
  /\ stale' = stale + 1
  /\ lost' = lost + 1
  /\ Goes(t, "out")
  /\ UNCHANGED <<kind, perils, max_size, shelf, item, getters, refused, unlock, closing>>

\* The item has got to a getter: put() returns.
PutReturns(t) ==
  /\ state[t] = "passed"
  /\ \E S \in Expired(Shelf) : SetShelf(S)
  /\ Goes(t, "out")
  /\ UNCHANGED <<kind, perils, max_size, item, channel, closing, lost>>

\* Full: what the thread carries goes on the shelf.
PutRefused(t) ==
  /\ t \in refused
  /\ refused' = refused \ {t}
  /\ \E S \in Expired(Store(item[t])) : SetShelf(S)
  /\ Goes(t, "out")
  /\ UNCHANGED <<kind, perils, max_size, item, getters, putters, stale, unlock, closing, lost>>

-----------------------------------------------------------------------------
(* The channel's _unlock (see LightQueue) *)

Pair ==
  /\ unlock
  /\ \E p \in putters, g \in getters :
       /\ putters' = putters \ {p}
       /\ getters' = getters \ {g}
       /\ state' = [state EXCEPT ![p] = "passed", ![g] = Received(item[p])]
  /\ UNCHANGED <<kind, perils, max_size, shelf, item, stale, refused, unlock, closing, lost>>

\* A stale waiter is dropped when there is a getter.
DropStale ==
  /\ unlock /\ stale > 0 /\ getters # {}
  /\ stale' = stale - 1
  /\ UNCHANGED <<kind, perils, max_size, shelf, state, item, getters, putters,
                 refused, unlock, closing, lost>>

\* Nobody to get: the putters are refused, up to a stale one, on which it fails.
Refuse ==
  /\ unlock /\ getters = {} /\ (putters # {} \/ stale > 0)
  /\ \E some \in SUBSET putters :
       /\ stale = 0 => some = putters
       /\ refused' = refused \cup some
       /\ putters' = putters \ some
  /\ stale' = IF stale > 0 THEN stale - 1 ELSE 0
  /\ unlock' = FALSE
  /\ UNCHANGED <<kind, perils, max_size, shelf, state, item, getters, closing, lost>>

UnlockEnds ==
  /\ unlock /\ putters = {} /\ stale = 0
  /\ unlock' = FALSE
  /\ UNCHANGED <<kind, perils, max_size, shelf, state, item, getters, putters,
                 stale, refused, closing, lost>>

-----------------------------------------------------------------------------
resize(size) ==
  /\ size # max_size
  /\ max_size' = size
  /\ UNCHANGED <<kind, perils, shelf, state, item, channel, closing, lost>>

\* clear() takes the shelf, and counts its items down as it closes them.
ClearBegins(t) ==
  /\ kind # "pool" /\ state[t] = "out"
  /\ free_items # <<>>
  /\ closing' = closing \cup ({t} \X (1..Len(free_items)))
  /\ SetShelf([Shelf EXCEPT !.free = <<>>, !.timer = FALSE])
  /\ Goes(t, "clearing")
  /\ UNCHANGED <<kind, perils, max_size, item, channel, lost>>

ClearOne(t) ==
  /\ state[t] = "clearing"
  /\ \E n \in 1..MaxSize :
       /\ <<t, n>> \in closing /\ <<t, n + 1>> \notin closing
       /\ closing' = closing \ {<<t, n>>}
       /\ IF n = 1 THEN Goes(t, "out") ELSE UNCHANGED state
  /\ SetShelf(Drop)
  /\ UNCHANGED <<kind, perils, max_size, item, channel, lost>>

\* The expiration timer fires.
Expire ==
  /\ timer
  /\ \E S \in Expired([Shelf EXCEPT !.timer = FALSE]) : SetShelf(S)
  /\ UNCHANGED <<kind, perils, max_size, state, item, channel, closing, lost>>

Get(t) == GetFree(t) \/ GetCreates(t) \/ GetWaits(t)
GivesBack(t) ==
  \/ Created(t) \/ PutItem(t) \/ PutCleans(t) \/ PutConnection(t) \/ PutDead(t)
  \/ PutReturns(t) \/ PutRefused(t) \/ ClearOne(t)
Interrupted(t) ==
  CreateFails(t) \/ CreateInterrupted(t) \/ WaitInterrupted(t)
    \/ CleanInterrupted(t) \/ PutInterrupted(t)
Unlock == Pair \/ DropStale \/ Refuse \/ UnlockEnds

Next ==
  \/ \E t \in Threads : Get(t) \/ GivesBack(t) \/ Interrupted(t) \/ ClearBegins(t)
  \/ Unlock \/ Expire
  \/ \E size \in Sizes : resize(size)

\* Who holds an item gives it back in the end, and the hub runs its timers.
Fairness ==
  /\ \A t \in Threads : WF_vars(GivesBack(t))
  /\ WF_vars(Unlock)

Spec == Init /\ [][Next]_vars /\ Fairness

-----------------------------------------------------------------------------
(* Properties *)

TypeOK ==
  /\ kind \in Kinds /\ max_size \in Sizes
  /\ current_size \in Nat /\ free_items \in Seq({"conn", "flag"})
  /\ state \in [Threads -> States] /\ item \in [Threads -> {"conn", "flag"}]
  /\ getters = In("waiting") /\ putters \cup refused = In("putting")
  /\ stale \in 0..MaxLost /\ unlock \in BOOLEAN /\ timer \in BOOLEAN
  /\ closing \subseteq Threads \X (1..MaxSize) /\ lost \in 0..MaxLost

\* pools.py:85-130, db_pool.py:173-260.  current_size is what exists: every
\* counted item is on the shelf, with a thread, in the channel or being closed,
\* or it is one of those that an interrupt in the connection pool has lost; and
\* there are never more than the pool may have.
Existing ==
  Len(free_items) + Cardinality(UNION {In(s) : s \in
    {"creating", "recreating", "holding", "cleaning", "putting"}})
  + Cardinality(closing)

SizeExact ==
  /\ current_size = Existing + lost
  /\ current_size <= MaxSize

\* pools.py:81, 121-130.  No thread waits for an item while one lies on the
\* shelf, but for those that a putter is about to serve; a pool in which put()
\* is interrupted, or a get() comes between a refusal and its delivery, does
\* not keep to that.
NoIdleItem ==
  perils = {} /\ free_items # <<>> /\ getters # {} =>
    unlock /\ Cardinality(getters) <= Cardinality(putters)

\* db_pool.py:66-104.  A connection on the shelf has a timer that will look
\* after it.  A flag on the shelf stops that, but only until the thread that
\* takes it gives its connection back.
IdleExpires ==
  kind = "db" /\ MinSize = 0 /\ perils = {} /\ free_items # <<>> =>
    \/ timer
    \/ Contains(free_items, "flag")
    \/ \E t \in Threads : state[t] \in {"recreating", "holding", "cleaning", "putting", "passed"}

\* pools.py:81-95.  As long as threads wait, items keep coming: threads give
\* back what they hold, and what is given back goes to one that waits, unless
\* the pool is resized for ever.
WaitersServed ==
  perils = {} /\ <>[][UNCHANGED max_size]_vars =>
    []<>(getters = {}) \/ []<><<Pair>>_vars
=============================================================================
