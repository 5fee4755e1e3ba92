------------------------------- MODULE GreenMap -------------------------------
(***************************************************************************)
(* eventlet/greenpool.py, GreenPile and GreenMap: results of many tasks in *)
(* the order in which they were spawned.                                   *)
(*                                                                         *)
(* spawn() starts a task in a pool and puts its greenthread on a queue;    *)
(* next() takes a greenthread from the queue and waits for its result.     *)
(* "pile": one thread spawns and then iterates, the counter tells it when  *)
(* to stop.  "map": imap() and starmap() spawn from a thread of their own, *)
(* the queue is bounded, and a last task returns StopIteration.            *)
(*                                                                         *)
(* The pool, the queue and the tasks are taken for what GreenPool,         *)
(* LightQueue and GreenThread show of them: slots, places and results that *)
(* stay.                                                                   *)
(***************************************************************************)
EXTENDS Integers, Sequences, FiniteSets

CONSTANTS
  Size,     \* of the pool, and of the queue of a map
  Items     \* how many items the iterable has

VARIABLES
  form,     \* "pile" or "map"
  raises,   \* what goes wrong: "iterable", "task", "interrupt"
  producer, \* "next", "pool", "queue" or "ends"
  spawned,  \* tasks that spawn() has started
  ended,    \* the tasks that have a result
  held,     \* the task the producer is about to put on the queue
  queue,    \* self.waiters
  count,    \* self.counter
  consumer, \* "idle", "get", "wait" or "stop"
  taken,    \* the task whose result it waits for
  results,  \* the tasks whose results it got, in order
  skipped   \* history: tasks whose results it gave up

mapVars == <<form, raises, producer, spawned, ended, held, queue, count, consumer, taken, results, skipped>>

\* A map has one more task, for the StopIteration.
Last == IF form = "map" THEN Items + 1 ELSE Items

MapInit ==
  /\ form \in {"pile", "map"}
  /\ raises \in {{}, {"task"}, {"task", "interrupt", "iterable"}}
  /\ producer = "next"
  /\ spawned = 0 /\ ended = {} /\ held = 0
  /\ queue = <<>> /\ count = 0
  /\ consumer = "idle" /\ taken = 0 /\ results = <<>> /\ skipped = {}

Running == 1..spawned \ ended

-----------------------------------------------------------------------------
(* The producer *)

\* The next item, or for a map done_spawning() at the end.
SpawnBegins ==
  /\ producer = "next" /\ spawned < Last
  /\ count' = count + 1
  /\ producer' = "pool"
  /\ UNCHANGED <<form, raises, spawned, ended, held, queue, consumer, taken, results, skipped>>

\* Faulty: the pool takes one more.
HasSlotLoose == Cardinality(Running) <= Size

HasSlot == Cardinality(Running) < Size

SpawnStarts ==
  /\ producer = "pool" /\ HasSlot
  /\ spawned' = spawned + 1
  /\ held' = spawned + 1
  /\ producer' = "queue"
  /\ UNCHANGED <<form, raises, ended, queue, count, consumer, taken, results, skipped>>

SpawnEnds ==
  /\ producer = "queue"
  /\ form = "map" => Len(queue) < Size
  /\ queue' = Append(queue, held)
  /\ held' = 0
  /\ producer' = "next"
  /\ UNCHANGED <<form, raises, spawned, ended, count, consumer, taken, results, skipped>>

ProducerEnds ==
  /\ producer = "next" /\ spawned = Last
  /\ producer' = "ends"
  /\ UNCHANGED <<form, raises, spawned, ended, held, queue, count, consumer, taken, results, skipped>>

\* The iterable raises: the thread of a map ends, and done_spawning() is not
\* called; the caller of a pile goes on to iterate.
IterableRaises ==
  /\ "iterable" \in raises
  /\ producer = "next" /\ spawned < Items
  /\ producer' = "ends"
  /\ UNCHANGED <<form, raises, spawned, ended, held, queue, count, consumer, taken, results, skipped>>

TaskEnds(i) ==
  /\ i \in Running
  /\ ended' = ended \cup {i}
  /\ UNCHANGED <<form, raises, producer, spawned, held, queue, count, consumer, taken, results, skipped>>

-----------------------------------------------------------------------------
(* The consumer *)

\* A pile is iterated by the thread that spawned.
MayIterate == form = "map" \/ producer = "ends"

NextBegins ==
  /\ consumer = "idle" /\ MayIterate
  /\ consumer' = IF form = "pile" /\ count = 0 THEN "stop" ELSE "get"
  /\ UNCHANGED <<form, raises, producer, spawned, ended, held, queue, count, taken, results, skipped>>

NextGets ==
  /\ consumer = "get" /\ queue # <<>>
  /\ consumer' = "wait"
  /\ taken' = Head(queue)
  /\ queue' = Tail(queue)
  /\ UNCHANGED <<form, raises, producer, spawned, ended, held, count, results, skipped>>

\* The finally clause of _next()
CountDown(i) == count - 1

\* The result, or the exception of the task; the last task of a map stops it.
NextReturns ==
  /\ consumer = "wait" /\ taken \in ended
  /\ count' = CountDown(taken)
  /\ results' = Append(results, taken)
  /\ consumer' = IF form = "map" /\ taken = Items + 1 THEN "stop" ELSE "idle"
  /\ UNCHANGED <<form, raises, producer, spawned, ended, held, queue, taken, skipped>>

\* A Timeout around next() ends it in wait(): the result is lost.  (Ended in
\* get(), it counts down for nothing.)
NextInterrupted ==
  /\ "interrupt" \in raises
  /\ consumer = "wait"
  /\ count' = count - 1
  /\ skipped' = skipped \cup {taken}
  /\ consumer' = "idle"
  /\ UNCHANGED <<form, raises, producer, spawned, ended, held, queue, taken, results>>

Produce == SpawnBegins \/ SpawnStarts \/ SpawnEnds \/ ProducerEnds
Consume == NextBegins \/ NextGets \/ NextReturns

MapNext ==
  \/ Produce \/ Consume \/ NextInterrupted \/ IterableRaises
  \/ \E i \in 1..Last : TaskEnds(i)

\* Tasks end, the producer goes on, and the caller iterates to the end.
MapFairness ==
  /\ WF_mapVars(Produce) /\ WF_mapVars(Consume)
  /\ \A i \in 1..(Items + 1) : WF_mapVars(TaskEnds(i))

MapSpec == MapInit /\ [][MapNext]_mapVars /\ MapFairness

-----------------------------------------------------------------------------
\* greenpool.py:205-262.  Results come in the order of spawn(), each once, and
\* none is passed over; a map keeps no more than twice its size of tasks whose
\* results nobody took, and those it is handling; and the counter is what is
\* still to come, so that a pile ends when all was delivered.
Outstanding == spawned - Len(results) - Cardinality(skipped)

OrderKept ==
  /\ \A i, j \in 1..Len(results) : i < j => results[i] < results[j]
  /\ \A i \in 1..Len(results) : \A k \in 1..results[i] :
       k \in skipped \/ \E j \in 1..i : results[j] = k
  /\ Cardinality(Running) <= Size
  /\ form = "map" => Outstanding <= Size + 2
  /\ count = Outstanding + (IF producer = "pool" THEN 1 ELSE 0)
  /\ consumer = "stop" => Len(results) + Cardinality(skipped) = spawned

\* The iteration ends, unless the iterable of a map raises, or an interrupted
\* next() has taken the StopIteration from the queue.
IterationEnds == "iterable" \notin raises => <>(consumer = "stop")
=============================================================================
