----------------------------- MODULE MCResources -----------------------------
(***************************************************************************)
(* The components that hand out resources and work, each on a small        *)
(* instance: eventlet/pools.py and db_pool.py, dagpool.py, tpool.py, the   *)
(* CappedSemaphore of semaphore.py, the join() of queue.py, GreenPile and  *)
(* GreenMap of greenpool.py, the blocks under a Timeout of timeout.py.     *)
(* They share no state: a behaviour is one of one component, the subject.  *)
(***************************************************************************)
EXTENDS Integers, Sequences, FiniteSets

CONSTANTS
  Threads,                    \* of Pools, CappedSemaphore and JoinQueue
  Kinds, Sizes, MinSize, MaxLost,     \* of Pools
  Keys, Coros, Outsiders,             \* of DAGPool
  Calls, Workers, MaxSetups,          \* of Tpool
  Limit, MaxTimers,                   \* of CappedSemaphore
  MaxTasks, MaxWakes,                 \* of JoinQueue
  Size, Items,                        \* of GreenMap
  Sleepers, Timeouts, Silent, Delays, MaxTime,   \* of Timeouts
  None, Off

ASSUME ResourcesAssumption ==
  /\ Limit \in Nat
  /\ Size \in Nat \ {0} /\ Items \in Nat
  /\ IsFiniteSet(Threads)
  /\ Sizes \subseteq Nat /\ MinSize \in Nat
  /\ \E most \in Sizes : \A size \in Sizes : size <= most
  /\ IsFiniteSet(Workers) /\ Workers # {}
  /\ Calls \cap {None, "off", "idle", "signal"} = {}
  /\ Coros \cap Outsiders = {} /\ None \notin Coros \cup Keys \cup Silent

VARIABLES
  subject,   \* the component at work; the variables of the others are Off
  pools_kind, pools_perils, pools_max_size, pools_current_size,
  pools_free_items, pools_state, pools_item, pools_getters, pools_putters,
  pools_stale, pools_refused, pools_unlock, pools_closing, pools_timer,
  pools_lost,
  dag_values, dag_coros, dag_key, dag_pc, dag_pending, dag_scan,
  dag_victim, dag_missed, dag_raced,
  tpool_accidents, tpool_setups, tpool_up, tpool_reqq, tpool_rspq,
  tpool_bytes, tpool_worker, tpool_call, tpool_trampoline, tpool_killall,
  capped_counter, capped_waiters, capped_timers,
  join_unfinished_tasks, join_cond, join_joining, join_wakes, join_zeros,
  map_form, map_raises, map_producer, map_spawned, map_ended, map_held,
  map_queue, map_count, map_consumer, map_taken, map_results, map_skipped,
  timeout_now, timeout_current, timeout_awaits, timeout_blocks,
  timeout_raised, timeout_due, timeout_target

P == INSTANCE Pools WITH
  kind <- pools_kind, perils <- pools_perils, max_size <- pools_max_size,
  current_size <- pools_current_size, free_items <- pools_free_items,
  state <- pools_state, item <- pools_item, getters <- pools_getters,
  putters <- pools_putters, stale <- pools_stale, refused <- pools_refused,
  unlock <- pools_unlock, closing <- pools_closing, timer <- pools_timer,
  lost <- pools_lost

D == INSTANCE DAGPool WITH
  values <- dag_values, coros <- dag_coros,
  key <- dag_key, pc <- dag_pc, pending <- dag_pending, scan <- dag_scan,
  victim <- dag_victim, missed <- dag_missed, raced <- dag_raced

T == INSTANCE Tpool WITH
  accidents <- tpool_accidents, setups <- tpool_setups, up <- tpool_up,
  reqq <- tpool_reqq, rspq <- tpool_rspq, bytes <- tpool_bytes,
  worker <- tpool_worker, call <- tpool_call, trampoline <- tpool_trampoline,
  killall <- tpool_killall

C == INSTANCE CappedSemaphore WITH
  counter <- capped_counter, waiters <- capped_waiters,
  timers <- capped_timers

J == INSTANCE JoinQueue WITH
  unfinished_tasks <- join_unfinished_tasks, cond <- join_cond,
  joining <- join_joining, wakes <- join_wakes, zeros <- join_zeros

G == INSTANCE GreenMap WITH
  form <- map_form, raises <- map_raises, producer <- map_producer,
  spawned <- map_spawned, ended <- map_ended, held <- map_held,
  queue <- map_queue, count <- map_count, consumer <- map_consumer,
  taken <- map_taken, results <- map_results, skipped <- map_skipped

O == INSTANCE Timeouts WITH
  Threads <- Sleepers,
  now <- timeout_now, current <- timeout_current, awaits <- timeout_awaits,
  blocks <- timeout_blocks, raised <- timeout_raised, due <- timeout_due,
  target <- timeout_target

poolsVars == <<pools_kind, pools_perils, pools_max_size, pools_current_size,
  pools_free_items, pools_state, pools_item, pools_getters, pools_putters,
  pools_stale, pools_refused, pools_unlock, pools_closing, pools_timer,
  pools_lost>>
dagVars == <<dag_values, dag_coros, dag_key, dag_pc, dag_pending, dag_scan,
  dag_victim, dag_missed, dag_raced>>
tpoolVars == <<tpool_accidents, tpool_setups, tpool_up, tpool_reqq, tpool_rspq,
  tpool_bytes, tpool_worker, tpool_call, tpool_trampoline, tpool_killall>>
cappedVars == <<capped_counter, capped_waiters, capped_timers>>
joinVars == <<join_unfinished_tasks, join_cond, join_joining, join_wakes, join_zeros>>
mapVars == <<map_form, map_raises, map_producer, map_spawned, map_ended, map_held,
  map_queue, map_count, map_consumer, map_taken, map_results, map_skipped>>
timeoutVars == <<timeout_now, timeout_current, timeout_awaits, timeout_blocks,
  timeout_raised, timeout_due, timeout_target>>
vars == <<subject, poolsVars, dagVars, tpoolVars, cappedVars, joinVars, mapVars, timeoutVars>>

poolsOff ==
  /\ pools_kind = Off /\ pools_perils = Off /\ pools_max_size = Off
  /\ pools_current_size = Off /\ pools_free_items = Off
  /\ pools_state = Off /\ pools_item = Off /\ pools_getters = Off
  /\ pools_putters = Off /\ pools_stale = Off /\ pools_refused = Off
  /\ pools_unlock = Off /\ pools_closing = Off /\ pools_timer = Off
  /\ pools_lost = Off
dagOff ==
  /\ dag_values = Off /\ dag_coros = Off
  /\ dag_key = Off /\ dag_pc = Off /\ dag_pending = Off /\ dag_scan = Off
  /\ dag_victim = Off /\ dag_missed = Off /\ dag_raced = Off
tpoolOff ==
  /\ tpool_accidents = Off /\ tpool_setups = Off /\ tpool_up = Off
  /\ tpool_reqq = Off /\ tpool_rspq = Off /\ tpool_bytes = Off
  /\ tpool_worker = Off /\ tpool_call = Off /\ tpool_trampoline = Off
  /\ tpool_killall = Off
cappedOff ==
  /\ capped_counter = Off /\ capped_waiters = Off /\ capped_timers = Off
joinOff ==
  /\ join_unfinished_tasks = Off /\ join_cond = Off /\ join_joining = Off
  /\ join_wakes = Off /\ join_zeros = Off
mapOff ==
  /\ map_form = Off /\ map_raises = Off /\ map_producer = Off
  /\ map_spawned = Off /\ map_ended = Off /\ map_held = Off
  /\ map_queue = Off /\ map_count = Off /\ map_consumer = Off
  /\ map_taken = Off /\ map_results = Off /\ map_skipped = Off
timeoutOff ==
  /\ timeout_now = Off /\ timeout_current = Off /\ timeout_awaits = Off
  /\ timeout_blocks = Off /\ timeout_raised = Off /\ timeout_due = Off
  /\ timeout_target = Off

Init ==
  \/ /\ subject = "pools" /\ P!Init
     /\ dagOff /\ tpoolOff /\ cappedOff /\ joinOff /\ mapOff /\ timeoutOff
  \/ /\ subject = "dag" /\ D!DagInit
     /\ poolsOff /\ tpoolOff /\ cappedOff /\ joinOff /\ mapOff /\ timeoutOff
  \/ /\ subject = "tpool" /\ T!TpoolInit
     /\ poolsOff /\ dagOff /\ cappedOff /\ joinOff /\ mapOff /\ timeoutOff
  \/ /\ subject = "capped" /\ C!CappedInit
     /\ poolsOff /\ dagOff /\ tpoolOff /\ joinOff /\ mapOff /\ timeoutOff
  \/ /\ subject = "join" /\ J!JoinInit
     /\ poolsOff /\ dagOff /\ tpoolOff /\ cappedOff /\ mapOff /\ timeoutOff
  \/ /\ subject = "map" /\ G!MapInit
     /\ poolsOff /\ dagOff /\ tpoolOff /\ cappedOff /\ joinOff /\ timeoutOff
  \/ /\ subject = "timeout" /\ O!TimeoutInit
     /\ poolsOff /\ dagOff /\ tpoolOff /\ cappedOff /\ joinOff /\ mapOff
InPools(A) ==
  /\ subject = "pools" /\ A
  /\ UNCHANGED <<subject, dagVars, tpoolVars, cappedVars, joinVars, mapVars,
                 timeoutVars>>
InDag(A) ==
  /\ subject = "dag" /\ A
  /\ UNCHANGED <<subject, poolsVars, tpoolVars, cappedVars, joinVars, mapVars,
                 timeoutVars>>
InTpool(A) ==
  /\ subject = "tpool" /\ A
  /\ UNCHANGED <<subject, poolsVars, dagVars, cappedVars, joinVars, mapVars,
                 timeoutVars>>
InCapped(A) ==
  /\ subject = "capped" /\ A
  /\ UNCHANGED <<subject, poolsVars, dagVars, tpoolVars, joinVars, mapVars,
                 timeoutVars>>
InJoin(A) ==
  /\ subject = "join" /\ A
  /\ UNCHANGED <<subject, poolsVars, dagVars, tpoolVars, cappedVars, mapVars,
                 timeoutVars>>
InMap(A) ==
  /\ subject = "map" /\ A
  /\ UNCHANGED <<subject, poolsVars, dagVars, tpoolVars, cappedVars, joinVars,
                 timeoutVars>>
InTimeout(A) ==
  /\ subject = "timeout" /\ A
  /\ UNCHANGED <<subject, poolsVars, dagVars, tpoolVars, cappedVars, joinVars,
                 mapVars>>
Next ==
  \/ InPools(P!Next) \/ InDag(D!DagNext) \/ InTpool(T!TpoolNext)
  \/ InCapped(C!CappedNext) \/ InJoin(J!JoinNext) \/ InMap(G!MapNext)
  \/ InTimeout(O!TimeoutNext)

\* The fairness of each component, as its module explains it; a conjunct for the
\* steps of several is one for each, as a behaviour has one subject.
Fairness ==
  /\ \A t \in Threads : WF_vars(InPools(P!GivesBack(t)))
  /\ \A i \in D!Everybody : SF_vars(InDag(D!Progress(i)))
  /\ \A w \in Workers : WF_vars(InTpool(T!Works(w)))
  /\ WF_vars(InPools(P!Unlock) \/ InTpool(T!Trampoline) \/ InMap(G!Produce))
  /\ WF_vars(InTpool(T!Killall) \/ InMap(G!Consume))
  /\ WF_vars(InMap(\E i \in 1..G!Last : G!TaskEnds(i)))

Spec == Init /\ [][Next]_vars /\ Fairness

-----------------------------------------------------------------------------
(* Properties *)

\* pools.py:81-130, db_pool.py:66-104, 173-260.  current_size counts what
\* exists, nobody waits while an item lies on the shelf, and a connection there
\* has a timer that looks after it.
PoolsExact ==
  subject = "pools" => P!SizeExact /\ P!NoIdleItem /\ P!IdleExpires

\* dagpool.py:290-306, 331-408.  self.coros knows the greenthreads that have
\* not ended, and a loop that waits was handed every key with a value but one
\* that its scan had passed when its own body ran.
DagExact ==
  subject = "dag" => D!CorosExact /\ D!NoneOverlooked

\* tpool.py:46-92.  A reply on the queue is going to be seen, and each call is
\* in one place.
TpoolRepliesSeen ==
  subject = "tpool" => T!RepliesSeen

\* semaphore.py:256-305, queue.py:429-465, greenpool.py:184-254.  The bounds of
\* a CappedSemaphore add up to the limit, and nobody waits for a bound that is
\* free unless a timer is on its way; who is in join() when the count was zero
\* is on the way out; the results of a pile come in the order of spawn(), no more
\* of them than there is room for.
CountsExact ==
  /\ subject = "capped" => C!CappedExact
  /\ subject = "join" => J!JoinExact
  /\ subject = "map" => G!OrderKept

\* timeout.py:57-89, 124-154.  A timer of a Timeout is pending only for a block its
\* thread is in, and a silent one is not seen outside of its block.
TimeoutsExact == subject = "timeout" => O!TimeoutsExact

\* pools.py:81-95.  While threads wait for items of a pool, items keep being
\* handed over, unless the pool is resized for ever.
PoolServes ==
  subject = "pools" /\ pools_perils = {} /\ <>[][UNCHANGED pools_max_size]_vars =>
    []<>(subject = "pools" /\ pools_getters = {}) \/ []<><<InPools(P!Pair)>>_vars

\* dagpool.py:290-306, tpool.py:95-126, greenpool.py:219-254.  A key that gets
\* a value is handed to the loop over a DAGPool that waits for it; every execute()
\* ends, also when killall() comes in between; and so does an iteration over a pile
\* or a map.
Unanswered ==
  \/ subject = "dag" /\ \E i \in D!Everybody, k \in Keys : D!Due(i, k)
  \/ subject = "tpool" /\ \E c \in Calls : T!Calling(c)
  \/ subject = "map" /\ "iterable" \notin map_raises /\ map_consumer # "stop"
CallsEnd == Unanswered ~> ~Unanswered
=============================================================================
