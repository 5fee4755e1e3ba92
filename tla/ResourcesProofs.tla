--------------------------- MODULE ResourcesProofs ---------------------------
(***************************************************************************)
(* Proofs about what MCResources composes: Pools, DAGPool, Tpool,          *)
(* CappedSemaphore, JoinQueue, GreenMap and Timeouts, for all values of    *)
(* the constants that ResourcesAssumption allows.  Each component has an   *)
(* inductive invariant of its own, which its section states and proves     *)
(* step by step; the last section puts them together.                      *)
(***************************************************************************)
EXTENDS MCResources, WaitQueueTheorems, FiniteSetTheorems, TLAPS

\* Cardinality is the same in every instance.
LEMMA SameCardinality ==
  /\ \A S : P!Cardinality(S) = Cardinality(S)
  /\ \A S : G!Cardinality(S) = Cardinality(S)
  /\ \A S : T!Cardinality(S) = Cardinality(S)
<1>1. ASSUME NEW S PROVE P!Cardinality(S) = Cardinality(S)
  BY Zenon DEF P!Cardinality, Cardinality
<1>2. ASSUME NEW S PROVE G!Cardinality(S) = Cardinality(S)
  BY Zenon DEF G!Cardinality, Cardinality
<1>3. ASSUME NEW S PROVE T!Cardinality(S) = Cardinality(S)
  BY Zenon DEF T!Cardinality, Cardinality
<1> QED
  BY <1>1, <1>2, <1>3

\* The operators of the community modules are the same in every instance.
LEMMA SameOperators ==
  /\ \A q, t : C!Contains(q, t) <=> Contains(q, t)
  /\ \A q, t : C!RemoveFirst(q, t) = RemoveFirst(q, t)
  /\ \A q : C!ToSet(q) = ToSet(q)
<1>1. \A q, t : C!Contains(q, t) <=> Contains(q, t)
  BY DEF C!Contains, Contains
<1>2. \A q, t : C!RemoveFirst(q, t) = RemoveFirst(q, t)
  BY Zenon DEF C!RemoveFirst, RemoveFirst, C!SelectInSeq, SelectInSeq, C!RemoveAt, RemoveAt,
               C!Min, Min
<1>3. \A q : C!ToSet(q) = ToSet(q)
  BY DEF C!ToSet, ToSet
<1> QED
  BY <1>1, <1>2, <1>3

-----------------------------------------------------------------------------
(* CappedSemaphore *)

\* A thread waits for a bound once, and every unit of a bound for which threads
\* wait has a timer of its own: one timer for several units would leave the
\* second waiter behind.
CappedShape ==
  /\ capped_counter \in [C!Bounds -> Int]
  /\ capped_waiters \in [C!Bounds -> Seq(Threads)]
  /\ capped_timers \in [C!Bounds -> Nat]
  /\ \A b \in C!Bounds : IsInjective(capped_waiters[b])

SumOf(b) ==
  capped_counter[b] + capped_counter[C!Other(b)] =
    Limit + C!Waiters(b) + C!Waiters(C!Other(b))

CappedSum == \A b \in C!Bounds : SumOf(b)

CappedTimers ==
  \A b \in C!Bounds : capped_waiters[b] # <<>> => capped_timers[b] >= capped_counter[b]

CappedInv == CappedShape /\ CappedSum /\ CappedTimers

\* The sum of one bound and the other is the sum of the other and the one.
LEMMA SumOfBoth ==
  CappedShape => \A b \in C!Bounds : (SumOf(b) => CappedSum)
<1> SUFFICES ASSUME CappedShape, NEW b \in C!Bounds, SumOf(b), NEW x \in C!Bounds, x # b
             PROVE  SumOf(x)
  BY DEF CappedSum
<1>1. C!Other(b) = x /\ C!Other(x) = b
  BY DEF C!Bounds, C!Other
<1>2. /\ capped_counter[b] \in Int /\ capped_counter[x] \in Int
      /\ C!Waiters(b) \in Nat /\ C!Waiters(x) \in Nat /\ Limit \in Nat
  BY ResourcesAssumption DEF CappedShape, C!Waiters
<1> QED
  BY <1>1, <1>2 DEF SumOf

LEMMA CappedInvInit == C!CappedInit => CappedInv
<1> SUFFICES ASSUME C!CappedInit PROVE CappedInv
  OBVIOUS
<1>1. PICK count \in 0..Limit :
        capped_counter = [b \in C!Bounds |-> IF b = "lower" THEN count ELSE Limit - count]
  BY DEF C!CappedInit
<1>2. /\ capped_waiters = [b \in C!Bounds |-> <<>>]
      /\ capped_timers = [b \in C!Bounds |-> 0]
  BY DEF C!CappedInit
<1>3. count \in Int /\ Limit \in Int
  BY ResourcesAssumption
<1>4. CappedShape
  BY <1>1, <1>2, <1>3 DEF CappedShape, IsInjective, C!Bounds
<1>5. CappedSum
  BY <1>1, <1>2, <1>3 DEF CappedSum, SumOf, C!Waiters, C!Bounds, C!Other
<1>6. CappedTimers
  BY <1>2 DEF CappedTimers
<1> QED
  BY <1>4, <1>5, <1>6 DEF CappedInv

LEMMA CappedInvStep ==
  ASSUME CappedInv, [C!CappedNext]_(C!cappedVars)
  PROVE  CappedInv'
<1>0. (CappedShape => \A b \in C!Bounds : (SumOf(b) => CappedSum))'
  BY SumOfBoth, PTL
<1>9. Limit \in Int
  BY ResourcesAssumption
<1> USE <1>9 DEF CappedInv, CappedShape
<1>1. ASSUME NEW t \in Threads, NEW b \in C!Bounds, C!Take(t, b)
      PROVE  CappedInv'
  <2> DEFINE o == C!Other(b)
  <2>1. /\ o \in C!Bounds /\ o # b /\ C!Bounds = {b, o}
    BY DEF C!Bounds, C!Other
  <2>0. /\ C!Waiters(b) \in Nat /\ C!Waiters(o) \in Nat
        /\ capped_counter[b] \in Int /\ capped_counter[o] \in Int
        /\ capped_counter[b] + capped_counter[o] = Limit + C!Waiters(b) + C!Waiters(o)
    BY <2>1 DEF CappedSum, SumOf, C!Waiters, o
  <2>2. ~Contains(capped_waiters[b], t)
    <3>1. t \notin ToSet(capped_waiters[b])
      BY <1>1, SameOperators DEF C!Take, C!Busy, C!Bounds
    <3> QED
      BY <3>1, ElementsOfQueue
  <2>3. capped_timers' = IF capped_waiters[o] = <<>> THEN capped_timers
                         ELSE [capped_timers EXCEPT ![o] = @ + 1]
    BY <1>1 DEF C!Take, C!Released
  <2> HIDE DEF o
  <2>4. CASE capped_counter[b] > 0 /\ capped_waiters[b] = <<>>
    <3>1. /\ capped_counter' = [capped_counter EXCEPT ![o] = @ + 1, ![b] = @ - 1]
          /\ capped_waiters' = capped_waiters
      BY <1>1, <2>4 DEF C!Take, o
    <3>2. CappedShape'
      BY <2>1, <2>3, <3>1
    <3>3. CappedSum'
      <4>1. /\ capped_counter'[b] = capped_counter[b] - 1
            /\ capped_counter'[o] = capped_counter[o] + 1
        BY <2>1, <3>1
      <4>8. capped_counter'[b] + capped_counter'[o] =
              Limit + C!Waiters(b)' + C!Waiters(o)'
        BY <2>0, <2>1, <3>1, <4>1 DEF C!Waiters
      <4> QED
        BY <1>0, <2>1, <3>2, <4>8 DEF SumOf, o
    <3>4. CappedTimers'
      BY <2>1, <2>3, <2>4, <3>1 DEF CappedTimers
    <3> QED
      BY <3>2, <3>3, <3>4
  <2>5. CASE ~(capped_counter[b] > 0 /\ capped_waiters[b] = <<>>)
    <3>1. /\ capped_counter' = [capped_counter EXCEPT ![o] = @ + 1]
          /\ capped_waiters' = [capped_waiters EXCEPT ![b] = Append(@, t)]
      BY <1>1, <2>5 DEF C!Take, o
    <3>2. /\ Append(capped_waiters[b], t) \in Seq(Threads)
          /\ IsInjective(Append(capped_waiters[b], t))
          /\ Len(Append(capped_waiters[b], t)) = Len(capped_waiters[b]) + 1
      BY <2>2, AppendNew, AppendProperties
    <3>3. CappedShape'
      BY <2>1, <2>3, <3>1, <3>2
    <3>4. CappedSum'
      <4>1. capped_counter'[b] + capped_counter'[o] = capped_counter[b] + capped_counter[o] + 1
        BY <2>1, <3>1
      <4>2. C!Waiters(b)' = C!Waiters(b) + 1 /\ C!Waiters(o)' = C!Waiters(o)
        BY <2>1, <3>1, <3>2 DEF C!Waiters
      <4>8. capped_counter'[b] + capped_counter'[o] =
              Limit + C!Waiters(b)' + C!Waiters(o)'
        <5>1. \A l, m, n \in Int : (l + m + n) + 1 = l + (m + 1) + n
          OBVIOUS
        <5>2. C!Waiters(b) \in Int /\ C!Waiters(o) \in Int
          BY <2>0
        <5>3. (Limit + C!Waiters(b) + C!Waiters(o)) + 1 = Limit + (C!Waiters(b) + 1) + C!Waiters(o)
          BY ONLY <1>9, <5>1, <5>2
        <5> QED
          BY ONLY <2>0, <4>1, <4>2, <5>3
      <4> QED
        BY <1>0, <2>1, <3>3, <4>8 DEF SumOf, o
    <3>5. CappedTimers'
      BY <2>1, <2>3, <2>5, <3>1 DEF CappedTimers
    <3> QED
      BY <3>3, <3>4, <3>5
  <2> QED
    BY <2>4, <2>5
<1>2. ASSUME NEW t \in Threads, NEW b \in C!Bounds, C!Interrupt(t, b)
      PROVE  CappedInv'
  <2> DEFINE o == C!Other(b)
             q == RemoveFirst(capped_waiters[b], t)
  <2>1. /\ o \in C!Bounds /\ o # b /\ C!Bounds = {b, o}
    BY DEF C!Bounds, C!Other
  <2>0. /\ C!Waiters(b) \in Nat /\ C!Waiters(o) \in Nat
        /\ capped_counter[b] \in Int /\ capped_counter[o] \in Int
        /\ capped_counter[b] + capped_counter[o] = Limit + C!Waiters(b) + C!Waiters(o)
    BY <2>1 DEF CappedSum, SumOf, C!Waiters, o
  <2>2. /\ Contains(capped_waiters[b], t)
        /\ capped_waiters' = [capped_waiters EXCEPT ![b] = q]
        /\ capped_counter' = [capped_counter EXCEPT ![o] = @ - 1]
        /\ capped_timers' = capped_timers
    BY <1>2, SameOperators DEF C!Interrupt, C!Undo
  <2>3. /\ q \in Seq(Threads) /\ IsInjective(q)
        /\ Len(q) = Len(capped_waiters[b]) - 1
        /\ capped_waiters[b] # <<>>
    BY <2>2, RemoveFirstOnce DEF Contains
  <2> HIDE DEF o, q
  <2>4. CappedShape'
    BY <2>1, <2>2, <2>3
  <2>5. CappedSum'
    <3>1. capped_counter'[b] + capped_counter'[o] = (capped_counter[b] + capped_counter[o]) - 1
      BY <2>1, <2>2
    <3>2. C!Waiters(b)' = C!Waiters(b) - 1 /\ C!Waiters(o)' = C!Waiters(o)
      BY <2>1, <2>2, <2>3 DEF C!Waiters
    <3>8. capped_counter'[b] + capped_counter'[o] =
            Limit + C!Waiters(b)' + C!Waiters(o)'
      <4>1. \A l, m, n \in Int : (l + m + n) - 1 = l + (m - 1) + n
        OBVIOUS
      <4>2. C!Waiters(b) \in Int /\ C!Waiters(o) \in Int
        BY <2>0
      <4>3. (Limit + C!Waiters(b) + C!Waiters(o)) - 1 = Limit + (C!Waiters(b) - 1) + C!Waiters(o)
        BY ONLY <1>9, <4>1, <4>2
      <4> QED
        BY ONLY <2>0, <3>1, <3>2, <4>3
    <3> QED
      BY <1>0, <2>1, <2>4, <3>8 DEF SumOf, o
  <2>6. CappedTimers'
    BY <2>1, <2>2, <2>3 DEF CappedTimers
  <2> QED
    BY <2>4, <2>5, <2>6
<1>3. ASSUME NEW b \in C!Bounds, C!DoAcquire(b)
      PROVE  CappedInv'
  <2>1. /\ capped_timers[b] > 0
        /\ capped_timers' = [capped_timers EXCEPT ![b] = @ - 1]
    BY <1>3 DEF C!DoAcquire
  <2>2. CASE capped_waiters[b] # <<>> /\ capped_counter[b] > 0
    <3>1. /\ capped_counter' = [capped_counter EXCEPT ![b] = @ - 1]
          /\ capped_waiters' = [capped_waiters EXCEPT ![b] = Tail(@)]
      BY <1>3, <2>2 DEF C!DoAcquire
    <3>2. /\ Tail(capped_waiters[b]) \in Seq(Threads)
          /\ IsInjective(Tail(capped_waiters[b]))
          /\ Len(Tail(capped_waiters[b])) = Len(capped_waiters[b]) - 1
      BY <2>2, TailOnce
    <3>3. CappedShape'
      BY <2>1, <3>1, <3>2
    <3>4. CappedSum'
      <4> DEFINE o == C!Other(b)
      <4>1. o \in C!Bounds /\ o # b
        BY DEF C!Bounds, C!Other
      <4> HIDE DEF o
      <4>2. capped_counter'[b] + capped_counter'[o] = (capped_counter[b] + capped_counter[o]) - 1
        BY <3>1, <4>1
      <4>3. C!Waiters(b)' = C!Waiters(b) - 1 /\ C!Waiters(o)' = C!Waiters(o)
        BY <3>1, <3>2, <4>1 DEF C!Waiters
      <4>4. C!Waiters(b) \in Nat /\ C!Waiters(o) \in Nat
            /\ capped_counter[b] \in Int /\ capped_counter[o] \in Int
        BY <4>1 DEF C!Waiters
      <4>5. capped_counter[b] + capped_counter[o] = Limit + C!Waiters(b) + C!Waiters(o)
        BY <4>1 DEF CappedSum, SumOf, o
      <4>8. capped_counter'[b] + capped_counter'[o] =
              Limit + C!Waiters(b)' + C!Waiters(o)'
        BY <3>3, <4>2, <4>3, <4>4, <4>5
      <4> QED
        BY <1>0, <4>1, <3>3, <4>8 DEF SumOf, o
    <3>5. CappedTimers'
      BY <2>1, <2>2, <3>1 DEF CappedTimers
    <3> QED
      BY <3>3, <3>4, <3>5
  <2>3. CASE ~(capped_waiters[b] # <<>> /\ capped_counter[b] > 0)
    <3>1. capped_counter' = capped_counter /\ capped_waiters' = capped_waiters
      BY <1>3, <2>3 DEF C!DoAcquire
    <3>2. CappedShape'
      BY <2>1, <3>1
    <3>3. CappedSum'
      BY <3>1 DEF CappedSum, SumOf, C!Waiters
    <3>4. CappedTimers'
      BY <2>1, <2>3, <3>1 DEF CappedTimers
    <3> QED
      BY <3>2, <3>3, <3>4
  <2> QED
    BY <2>2, <2>3
<1>4. CASE UNCHANGED C!cappedVars
  BY <1>4 DEF C!cappedVars, CappedSum, SumOf, C!Waiters, CappedTimers
<1> QED
  BY <1>1, <1>2, <1>3, <1>4 DEF C!CappedNext, C!TakeNowait

\* Threads that wait for both bounds at once leave more units than the limit has,
\* so that one of the bounds is free.
LEMMA CappedInvExact == CappedInv => C!CappedExact
<1> SUFFICES ASSUME CappedInv PROVE C!CappedExact
  OBVIOUS
<1> USE ResourcesAssumption DEF CappedInv, CappedShape
<1>1. "lower" \in C!Bounds /\ "upper" \in C!Bounds
  BY DEF C!Bounds
<1>2. capped_counter["lower"] + capped_counter["upper"]
        = Limit + C!Waiters("lower") + C!Waiters("upper")
  BY <1>1 DEF CappedSum, SumOf, C!Other, C!Waiters
<1>3. \A b \in C!Bounds : capped_waiters[b] # <<>> /\ capped_counter[b] > 0 => capped_timers[b] > 0
  BY DEF CappedTimers
<1>4. ASSUME capped_waiters["lower"] # <<>>, capped_waiters["upper"] # <<>>
      PROVE  \E b \in C!Bounds : capped_counter[b] > 0 /\ capped_timers[b] > 0
  <2>1. Len(capped_waiters["lower"]) > 0 /\ Len(capped_waiters["upper"]) > 0
    BY <1>1, <1>4
  <2>2. capped_counter["lower"] > 0 \/ capped_counter["upper"] > 0
    BY <1>1, <1>2, <2>1 DEF C!Waiters
  <2> QED
    BY <1>1, <1>3, <1>4, <2>2
<1> QED
  BY <1>2, <1>3, <1>4 DEF C!CappedExact

-----------------------------------------------------------------------------
(* JoinQueue *)

JoinShape ==
  /\ join_unfinished_tasks \in Nat
  /\ join_joining \subseteq Threads
  /\ join_wakes \in [Threads -> Nat]
  /\ join_zeros \in [Threads -> BOOLEAN]

\* JoinExact is inductive once the types are known.
JoinInv == JoinShape /\ J!JoinExact

LEMMA JoinInvInit == J!JoinInit => JoinInv
  BY DEF J!JoinInit, JoinInv, JoinShape, J!JoinExact

LEMMA JoinInvStep ==
  ASSUME JoinInv, [J!JoinNext]_(J!joinVars)
  PROVE  JoinInv'
<1> USE DEF JoinInv, JoinShape, J!JoinExact
<1>1. ASSUME J!JoinPut PROVE JoinInv'
  BY <1>1 DEF J!JoinPut, J!CondReset
<1>2. ASSUME J!task_done PROVE JoinInv'
  <2>1. /\ join_unfinished_tasks > 0
        /\ join_unfinished_tasks' = join_unfinished_tasks - 1
        /\ join_joining' = join_joining
        /\ join_cond # "sent"
    BY <1>2 DEF J!task_done
  <2>2. join_zeros' = [t \in Threads |->
          join_zeros[t] \/ (t \in join_joining /\ join_unfinished_tasks' = 0)]
    BY <1>2 DEF J!task_done
  <2>3. CASE join_unfinished_tasks' = 0
    <3>1. join_wakes' = [t \in Threads |-> IF t \in join_joining THEN join_wakes[t] + 1
                                                                ELSE join_wakes[t]]
      BY <1>2, <2>3 DEF J!task_done, J!LastTask
    <3> QED
      BY <2>1, <2>2, <2>3, <3>1
  <2>4. CASE join_unfinished_tasks' # 0
    <3>1. join_wakes' = join_wakes /\ join_cond' = join_cond
      BY <1>2, <2>4 DEF J!task_done, J!LastTask
    <3>2. \A t \in Threads : join_zeros'[t] = join_zeros[t]
      BY <2>2, <2>4
    <3> QED
      BY <2>1, <2>2, <2>4, <3>1, <3>2
  <2> QED
    BY <2>3, <2>4
<1>3. ASSUME NEW t \in Threads, J!join(t) PROVE JoinInv'
  BY <1>3 DEF J!join
<1>4. ASSUME NEW t \in Threads, J!JoinWakes(t) PROVE JoinInv'
  BY <1>4 DEF J!JoinWakes
<1>5. ASSUME NEW t \in Threads, J!JoinInterrupted(t) PROVE JoinInv'
  BY <1>5 DEF J!JoinInterrupted
<1>6. CASE UNCHANGED J!joinVars
  BY <1>6 DEF J!joinVars
<1> QED
  BY <1>1, <1>2, <1>3, <1>4, <1>5, <1>6 DEF J!JoinNext


-----------------------------------------------------------------------------
(* GreenMap *)

\* How many tasks are behind the consumer, and where the queue begins.
MapDone == Len(map_results) + Cardinality(map_skipped)
MapBase == MapDone + (IF map_consumer = "wait" THEN 1 ELSE 0)

MapShape ==
  /\ map_form \in {"pile", "map"}
  /\ map_producer \in {"next", "pool", "queue", "ends"}
  /\ map_consumer \in {"idle", "get", "wait", "stop"}
  /\ map_spawned \in Nat /\ map_ended \subseteq 1..map_spawned
  /\ map_results \in Seq(Nat) /\ map_queue \in Seq(Nat)
  /\ IsFiniteSet(map_skipped)

\* The tasks behind the consumer are 1..MapDone: each has a result in its place
\* or was given up.
MapBehind ==
  /\ map_skipped \subseteq 1..MapDone
  /\ \A i \in 1..Len(map_results) :
       map_results[i] \in 1..MapDone /\ map_results[i] \notin map_skipped
  /\ \A i, j \in 1..Len(map_results) : i < j => map_results[i] < map_results[j]
  /\ \A k \in 1..MapDone :
       k \in map_skipped \/ \E j \in 1..Len(map_results) : map_results[j] = k

\* Behind them, without a gap: the task the consumer waits for, the queue, the
\* task in the producer's hand.
MapAhead ==
  /\ map_consumer = "wait" => map_taken = MapBase
  /\ \A i \in 1..Len(map_queue) : map_queue[i] = MapBase + i
  /\ map_producer = "queue" => map_held = map_spawned
  /\ map_spawned = MapBase + Len(map_queue) + (IF map_producer = "queue" THEN 1 ELSE 0)
  /\ map_count = map_spawned - MapDone + (IF map_producer = "pool" THEN 1 ELSE 0)

\* There is room for what is there, and the last task is the last one.
MapRoom ==
  /\ map_form = "map" => Len(map_queue) <= Size
  /\ Cardinality(G!Running) <= Size
  /\ map_spawned <= G!Last
  /\ map_producer = "pool" => map_spawned < G!Last
  /\ map_form = "pile" /\ map_consumer # "idle" => map_producer = "ends"
  /\ map_consumer = "stop" =>
       MapDone = map_spawned /\ (map_form = "map" => map_spawned = G!Last)

MapInv == MapShape /\ MapBehind /\ MapAhead /\ MapRoom


LEMMA MapNumbers ==
  MapShape => /\ MapDone \in Nat /\ MapBase \in Nat /\ Len(map_queue) \in Nat
              /\ G!Last \in Nat
              /\ IsFiniteSet(G!Running) /\ Cardinality(G!Running) \in Nat
<1> SUFFICES ASSUME MapShape
             PROVE  /\ MapDone \in Nat /\ MapBase \in Nat /\ Len(map_queue) \in Nat
                    /\ G!Last \in Nat
                    /\ IsFiniteSet(G!Running) /\ Cardinality(G!Running) \in Nat
  OBVIOUS
<1>1. Len(map_results) \in Nat /\ Cardinality(map_skipped) \in Nat
  BY FS_CardinalityType DEF MapShape
<1>2. MapDone \in Nat
  BY <1>1 DEF MapDone
<1>3. MapBase \in Nat
  BY <1>2 DEF MapBase
<1>4. IsFiniteSet(1..map_spawned)
  BY FS_Interval DEF MapShape
<1>5. IsFiniteSet(G!Running)
  BY <1>4, FS_Subset DEF G!Running
<1>6. G!Last \in Nat
  BY ResourcesAssumption DEF G!Last
<1> QED
  BY <1>2, <1>3, <1>5, <1>6, FS_CardinalityType DEF MapShape

LEMMA MapInvInit == G!MapInit => MapInv
<1> SUFFICES ASSUME G!MapInit PROVE MapInv
  OBVIOUS
<1> USE DEF G!MapInit
<1>1. /\ Len(map_results) = 0 /\ Cardinality(map_skipped) = 0 /\ IsFiniteSet(map_skipped)
      /\ Len(map_queue) = 0
  BY FS_EmptySet
<1>2. MapDone = 0 /\ MapBase = 0
  BY <1>1 DEF MapDone, MapBase
<1>3. G!Running = {} /\ G!Last \in Nat
  BY ResourcesAssumption DEF G!Running, G!Last
<1>4. MapShape
  BY <1>1 DEF MapShape
<1>5. MapBehind
  BY <1>1, <1>2 DEF MapBehind
<1>6. MapAhead
  BY <1>1, <1>2 DEF MapAhead
<1>7. MapRoom
  BY <1>1, <1>2, <1>3, FS_EmptySet, ResourcesAssumption DEF MapRoom
<1> QED
  BY <1>4, <1>5, <1>6, <1>7 DEF MapInv

\* The actions of the producer and of the tasks leave what the consumer has done.
LEMMA MapProducerStep ==
  ASSUME MapInv, G!Produce \/ G!IterableRaises \/ \E i \in 1..G!Last : G!TaskEnds(i)
  PROVE  MapInv'
<1> USE DEF MapInv
<1>1. /\ MapDone \in Nat /\ MapBase \in Nat /\ Len(map_queue) \in Nat /\ G!Last \in Nat
      /\ IsFiniteSet(G!Running) /\ Cardinality(G!Running) \in Nat
  BY MapNumbers
<1>2. /\ map_results' = map_results /\ map_skipped' = map_skipped
      /\ map_consumer' = map_consumer /\ map_taken' = map_taken /\ map_form' = map_form
  BY DEF G!Produce, G!SpawnBegins, G!SpawnStarts, G!SpawnEnds, G!ProducerEnds,
         G!IterableRaises, G!TaskEnds
<1>3. MapDone' = MapDone /\ MapBase' = MapBase /\ G!Last' = G!Last
  BY <1>2 DEF MapDone, MapBase, G!Last
<1>4. MapBehind'
  BY <1>2, <1>3 DEF MapBehind
<1>5. CASE G!SpawnBegins
  <2>1. /\ map_producer = "next" /\ map_spawned < G!Last
        /\ map_producer' = "pool" /\ map_count' = map_count + 1
        /\ UNCHANGED <<map_spawned, map_ended, map_held, map_queue>>
    BY <1>5 DEF G!SpawnBegins
  <2>2. G!Running' = G!Running
    BY <2>1 DEF G!Running
  <2>3. MapShape'
    BY <1>2, <2>1 DEF MapShape
  <2>4. MapAhead'
    BY <1>1, <1>2, <1>3, <2>1 DEF MapAhead, MapShape
  <2>5. MapRoom'
    BY <1>2, <1>3, <2>1, <2>2 DEF MapRoom
  <2> QED
    BY <1>4, <2>3, <2>4, <2>5
<1>6. CASE G!SpawnStarts
  <2>1. /\ map_producer = "pool" /\ Cardinality(G!Running) < Size
        /\ map_spawned' = map_spawned + 1 /\ map_held' = map_spawned + 1
        /\ map_producer' = "queue"
        /\ UNCHANGED <<map_ended, map_queue, map_count>>
    BY <1>6, SameCardinality DEF G!SpawnStarts, G!HasSlot
  <2>2. G!Running' = G!Running \cup {map_spawned + 1} /\ map_spawned + 1 \notin G!Running
    BY <2>1 DEF G!Running, MapShape
  <2>3. Cardinality(G!Running') = Cardinality(G!Running) + 1
    BY <1>1, <2>2, FS_AddElement
  <2>4. MapShape'
    BY <1>2, <2>1 DEF MapShape
  <2>5. MapAhead'
    BY <1>1, <1>2, <1>3, <2>1 DEF MapAhead, MapShape
  <2>6. Cardinality(G!Running') <= Size
    BY <1>1, <2>1, <2>3, ResourcesAssumption
  <2>7. MapRoom'
    BY <1>1, <1>2, <1>3, <2>1, <2>6 DEF MapRoom, MapShape
  <2> QED
    BY <1>4, <2>4, <2>5, <2>7
<1>7. CASE G!SpawnEnds
  <2>1. /\ map_producer = "queue"
        /\ map_form = "map" => Len(map_queue) < Size
        /\ map_queue' = Append(map_queue, map_spawned)
        /\ map_producer' = "next"
        /\ UNCHANGED <<map_spawned, map_ended, map_count>>
    BY <1>7 DEF G!SpawnEnds, MapAhead
  <2>2. /\ map_queue' \in Seq(Nat) /\ Len(map_queue') = Len(map_queue) + 1
        /\ \A i \in 1..Len(map_queue) : map_queue'[i] = map_queue[i]
        /\ map_queue'[Len(map_queue) + 1] = map_spawned
    BY <2>1, AppendProperties DEF MapShape
  <2>3. G!Running' = G!Running
    BY <2>1 DEF G!Running
  <2>4. MapShape'
    BY <1>2, <2>1, <2>2 DEF MapShape
  <2>5. MapAhead'
    <3>1. map_spawned = MapBase + Len(map_queue) + 1
      BY <2>1 DEF MapAhead
    <3>2. \A i \in 1..Len(map_queue') : map_queue'[i] = MapBase + i
      <4> DEFINE k == Len(map_queue)
      <4>1. k \in Nat /\ Len(map_queue') = k + 1
        BY <1>1, <2>2
      <4>2. \A i \in 1..k : map_queue'[i] = MapBase + i
        BY <2>2 DEF MapAhead
      <4>3. MapBase \in Int /\ map_queue'[k + 1] = MapBase + (k + 1)
        BY <1>1, <2>2, <3>1, <4>1
      <4> HIDE DEF k
      <4>4. \A i \in 1..(k + 1) : i \in 1..k \/ i = k + 1
        BY <4>1
      <4> QED
        BY <4>1, <4>2, <4>3, <4>4
    <3> QED
      BY <1>1, <1>2, <1>3, <2>1, <2>2, <3>1, <3>2 DEF MapAhead
  <2>6. MapRoom'
    BY <1>1, <1>2, <1>3, <2>1, <2>2, <2>3, ResourcesAssumption DEF MapRoom
  <2> QED
    BY <1>4, <2>4, <2>5, <2>6
<1>8. CASE G!ProducerEnds \/ G!IterableRaises
  <2>1. /\ map_producer = "next" /\ map_producer' = "ends"
        /\ UNCHANGED <<map_spawned, map_ended, map_held, map_queue, map_count>>
    BY <1>8 DEF G!ProducerEnds, G!IterableRaises
  <2>2. G!Running' = G!Running
    BY <2>1 DEF G!Running
  <2>3. MapShape'
    BY <1>2, <2>1 DEF MapShape
  <2>4. MapAhead'
    BY <1>2, <1>3, <2>1 DEF MapAhead
  <2>5. MapRoom'
    BY <1>2, <1>3, <2>1, <2>2 DEF MapRoom
  <2> QED
    BY <1>4, <2>3, <2>4, <2>5
<1>9. ASSUME NEW i \in 1..G!Last, G!TaskEnds(i) PROVE MapInv'
  <2>1. /\ i \in G!Running /\ map_ended' = map_ended \cup {i}
        /\ UNCHANGED <<map_producer, map_spawned, map_held, map_queue, map_count>>
    BY <1>9 DEF G!TaskEnds
  <2>2. G!Running' \subseteq G!Running
    BY <2>1 DEF G!Running
  <2>3. Cardinality(G!Running') <= Cardinality(G!Running) /\ Cardinality(G!Running') \in Nat
    BY <1>1, <2>2, FS_Subset, FS_CardinalityType
  <2>4. MapShape'
    BY <1>2, <2>1 DEF MapShape, G!Running
  <2>5. MapAhead'
    BY <1>2, <1>3, <2>1 DEF MapAhead
  <2>6. Cardinality(G!Running') <= Size
    BY <1>1, <2>3, ResourcesAssumption DEF MapRoom
  <2>7. MapRoom'
    BY <1>2, <1>3, <2>1, <2>6 DEF MapRoom
  <2> QED
    BY <1>4, <2>4, <2>5, <2>7
<1> QED
  BY <1>5, <1>6, <1>7, <1>8, <1>9 DEF G!Produce

\* What the consumer does leaves the tasks and the producer.
LEMMA MapConsumerStep ==
  ASSUME MapInv, G!Consume \/ G!NextInterrupted
  PROVE  MapInv'
<1> USE DEF MapInv
<1>1. /\ MapDone \in Nat /\ MapBase \in Nat /\ Len(map_queue) \in Nat /\ G!Last \in Nat
  BY MapNumbers
<1>2. /\ map_producer' = map_producer /\ map_spawned' = map_spawned
      /\ map_ended' = map_ended /\ map_held' = map_held /\ map_form' = map_form
  BY DEF G!Consume, G!NextBegins, G!NextGets, G!NextReturns, G!NextInterrupted
<1>3. G!Running' = G!Running /\ G!Last' = G!Last
  BY <1>2 DEF G!Running, G!Last
<1>4. CASE G!NextBegins
  <2>1. /\ map_consumer = "idle" /\ (map_form = "map" \/ map_producer = "ends")
        /\ map_consumer' = IF map_form = "pile" /\ map_count = 0 THEN "stop" ELSE "get"
        /\ UNCHANGED <<map_queue, map_count, map_taken, map_results, map_skipped>>
    BY <1>4 DEF G!NextBegins, G!MayIterate
  <2>2. map_consumer' \in {"stop", "get"}
    BY <2>1
  <2>3. MapDone' = MapDone /\ MapBase' = MapBase
    BY <2>1, <2>2 DEF MapDone, MapBase
  <2>4. MapShape' /\ MapBehind'
    BY <1>2, <2>1, <2>2, <2>3 DEF MapShape, MapBehind
  <2>5. MapAhead'
    BY <1>2, <2>1, <2>2, <2>3 DEF MapAhead
  <2>6. map_form = "pile" /\ map_count = 0 => MapDone = map_spawned
    BY <1>1, <2>1 DEF MapAhead, MapShape
  <2>7. map_consumer' = "stop" => MapDone = map_spawned /\ map_form # "map"
    BY <2>1, <2>6
  <2>8. MapRoom'
    BY <1>2, <1>3, <2>1, <2>2, <2>3, <2>7 DEF MapRoom, MapShape
  <2> QED
    BY <2>4, <2>5, <2>8
<1>5. CASE G!NextGets
  <2>1. /\ map_consumer = "get" /\ map_queue # <<>> /\ map_consumer' = "wait"
        /\ map_taken' = Head(map_queue) /\ map_queue' = Tail(map_queue)
        /\ UNCHANGED <<map_count, map_results, map_skipped>>
    BY <1>5 DEF G!NextGets
  <2>2. MapDone' = MapDone /\ MapBase = MapDone /\ MapBase' = MapDone + 1
    BY <1>1, <2>1 DEF MapDone, MapBase
  <2>3. /\ map_queue' \in Seq(Nat) /\ Len(map_queue') = Len(map_queue) - 1
        /\ \A i \in 1..Len(map_queue') : map_queue'[i] = map_queue[i + 1]
        /\ Head(map_queue) = map_queue[1] /\ Len(map_queue) >= 1
    BY <2>1, HeadTailProperties DEF MapShape
  <2>4. MapShape' /\ MapBehind'
    BY <1>2, <2>1, <2>2, <2>3 DEF MapShape, MapBehind
  <2>5. MapAhead'
    <3>1. map_taken' = MapBase'
      BY <1>1, <2>1, <2>2, <2>3 DEF MapAhead
    <3>2. \A i \in 1..Len(map_queue') : map_queue'[i] = MapBase' + i
      BY <1>1, <2>2, <2>3 DEF MapAhead
    <3> QED
      BY <1>1, <1>2, <2>1, <2>2, <2>3, <3>1, <3>2 DEF MapAhead
  <2>6. MapRoom'
    BY <1>1, <1>2, <1>3, <2>1, <2>2, <2>3, ResourcesAssumption DEF MapRoom, MapShape
  <2> QED
    BY <2>4, <2>5, <2>6
<1>6. CASE G!NextReturns
  <2>1. /\ map_consumer = "wait" /\ map_count' = map_count - 1
        /\ map_results' = Append(map_results, map_taken)
        /\ map_consumer' = IF map_form = "map" /\ map_taken = Items + 1 THEN "stop" ELSE "idle"
        /\ UNCHANGED <<map_queue, map_taken, map_skipped>>
    BY <1>6 DEF G!NextReturns, G!CountDown
  <2>2. MapBase = MapDone + 1 /\ map_taken = MapDone + 1
    BY <2>1 DEF MapAhead, MapBase
  <2>3. /\ map_results' \in Seq(Nat) /\ Len(map_results') = Len(map_results) + 1
        /\ \A i \in 1..Len(map_results) : map_results'[i] = map_results[i]
        /\ map_results'[Len(map_results) + 1] = MapDone + 1
        /\ Len(map_results) \in Nat
    BY <1>1, <2>1, <2>2, AppendProperties DEF MapShape
  <2>4. map_consumer' \in {"stop", "idle"}
    BY <2>1
  <2>5. MapDone' = MapDone + 1 /\ MapBase' = MapDone + 1
    <3>1. Cardinality(map_skipped) \in Nat
      BY FS_CardinalityType DEF MapShape
    <3> QED
      BY <2>1, <2>3, <2>4, <3>1 DEF MapDone, MapBase
  <2>6. MapShape'
    BY <1>2, <2>1, <2>3, <2>4 DEF MapShape
  <2>7. MapBehind'
    <3>1. map_skipped' \subseteq 1..MapDone'
      BY <1>1, <2>1, <2>5 DEF MapBehind
    <3>2. \A i \in 1..Len(map_results') : i \in 1..Len(map_results) \/ i = Len(map_results) + 1
      BY <2>3
    <3>3. \A i \in 1..Len(map_results') :
            map_results'[i] \in 1..MapDone' /\ map_results'[i] \notin map_skipped'
      BY <1>1, <2>1, <2>3, <2>5, <3>2 DEF MapBehind
    <3>4. ASSUME NEW i \in 1..Len(map_results'), NEW j \in 1..Len(map_results'), i < j
          PROVE  map_results'[i] < map_results'[j]
      <4>1. i \in 1..Len(map_results) /\ map_results'[i] = map_results[i]
        BY <2>3, <3>2, <3>4
      <4>2. CASE j \in 1..Len(map_results)
        BY <2>3, <3>4, <4>1, <4>2 DEF MapBehind
      <4>3. CASE j = Len(map_results) + 1
        BY <1>1, <2>3, <4>1, <4>3 DEF MapBehind
      <4> QED
        BY <3>2, <4>2, <4>3
    <3>5. ASSUME NEW k \in 1..MapDone'
          PROVE  k \in map_skipped' \/ \E j \in 1..Len(map_results') : map_results'[j] = k
      <4>1. CASE k = MapDone + 1
        BY <2>3, <4>1
      <4>2. CASE k \in 1..MapDone
        BY <2>1, <2>3, <4>2 DEF MapBehind
      <4> QED
        BY <1>1, <2>5, <4>1, <4>2
    <3> QED
      BY <3>1, <3>3, <3>4, <3>5 DEF MapBehind
  <2>8. MapAhead'
    BY <1>1, <1>2, <2>1, <2>2, <2>4, <2>5 DEF MapAhead, MapShape
  <2>9. MapRoom'
    <3>1. CASE map_consumer' = "stop"
      <4>1. map_form = "map" /\ MapDone' = G!Last
        BY <1>1, <2>1, <2>2, <2>5, <3>1 DEF G!Last
      <4>2. MapDone' <= map_spawned
        BY <1>1, <2>2, <2>5 DEF MapAhead, MapShape
      <4>3. MapDone' = map_spawned
        BY <1>1, <2>5, <4>1, <4>2 DEF MapRoom, MapShape
      <4> QED
        BY <1>2, <1>3, <2>1, <3>1, <4>1, <4>3 DEF MapRoom
    <3>2. CASE map_consumer' = "idle"
      BY <1>2, <1>3, <2>1, <3>2 DEF MapRoom
    <3> QED
      BY <2>4, <3>1, <3>2
  <2> QED
    BY <2>6, <2>7, <2>8, <2>9
<1>7. CASE G!NextInterrupted
  <2>1. /\ map_consumer = "wait" /\ map_count' = map_count - 1
        /\ map_skipped' = map_skipped \cup {map_taken} /\ map_consumer' = "idle"
        /\ UNCHANGED <<map_queue, map_taken, map_results>>
    BY <1>7 DEF G!NextInterrupted
  <2>2. MapBase = MapDone + 1 /\ map_taken = MapDone + 1
    BY <2>1 DEF MapAhead, MapBase
  <2>3. MapDone' = MapDone + 1 /\ MapBase' = MapDone + 1
    <3>1. map_taken \notin map_skipped
      BY <1>1, <2>2 DEF MapBehind
    <3>2. Cardinality(map_skipped') = Cardinality(map_skipped) + 1
      BY <2>1, <3>1, FS_AddElement DEF MapShape
    <3>3. Cardinality(map_skipped) \in Nat /\ Len(map_results) \in Nat
      BY FS_CardinalityType DEF MapShape
    <3>4. MapDone' = MapDone + 1
      BY <2>1, <3>2, <3>3 DEF MapDone
    <3> QED
      BY <1>1, <2>1, <3>4 DEF MapBase
  <2>4. MapShape'
    <3>1. IsFiniteSet(map_skipped')
      BY <2>1, FS_AddElement DEF MapShape
    <3> QED
      BY <1>2, <2>1, <3>1 DEF MapShape
  <2>5. MapBehind'
    <3>1. map_skipped' \subseteq 1..MapDone'
      BY <1>1, <2>1, <2>2, <2>3 DEF MapBehind
    <3>2. \A i \in 1..Len(map_results') :
            map_results'[i] \in 1..MapDone' /\ map_results'[i] \notin map_skipped'
      BY <1>1, <2>1, <2>2, <2>3 DEF MapBehind
    <3>3. \A k \in 1..MapDone' :
            k \in map_skipped' \/ \E j \in 1..Len(map_results') : map_results'[j] = k
      BY <1>1, <2>1, <2>2, <2>3 DEF MapBehind
    <3> QED
      BY <2>1, <3>1, <3>2, <3>3 DEF MapBehind
  <2>6. MapAhead'
    BY <1>1, <1>2, <2>1, <2>2, <2>3 DEF MapAhead, MapShape
  <2>7. MapRoom'
    BY <1>2, <1>3, <2>1 DEF MapRoom
  <2> QED
    BY <2>4, <2>5, <2>6, <2>7
<1> QED
  BY <1>4, <1>5, <1>6, <1>7 DEF G!Consume

LEMMA MapInvStep ==
  ASSUME MapInv, [G!MapNext]_(G!mapVars)
  PROVE  MapInv'
<1>1. CASE UNCHANGED G!mapVars
  BY <1>1 DEF G!mapVars, MapInv, MapShape, MapBehind, MapAhead, MapRoom, MapDone, MapBase,
              G!Running, G!Last
<1> QED
  BY <1>1, MapProducerStep, MapConsumerStep DEF G!MapNext

\* What is behind the consumer is a gapless prefix, what is ahead of it is in
\* the queue, in its hands or in those of the producer.
LEMMA MapInvExact == MapInv => G!OrderKept
<1> SUFFICES ASSUME MapInv PROVE G!OrderKept
  OBVIOUS
<1> USE DEF MapInv
<1>1. /\ MapDone \in Nat /\ MapBase \in Nat /\ Len(map_queue) \in Nat /\ G!Last \in Nat
  BY MapNumbers
<1>2. G!Outstanding = map_spawned - MapDone
  <2>1. Cardinality(map_skipped) \in Nat /\ Len(map_results) \in Nat
    BY FS_CardinalityType DEF MapShape
  <2> QED
    BY <2>1, SameCardinality DEF G!Outstanding, MapDone, MapShape
<1>3. ASSUME NEW i \in 1..Len(map_results), NEW k \in 1..map_results[i]
      PROVE  k \in map_skipped \/ \E j \in 1..i : map_results[j] = k
  <2>1. map_results[i] \in 1..MapDone
    BY DEF MapBehind
  <2>2. k \in 1..MapDone
    BY <1>1, <2>1
  <2>3. ASSUME NEW j \in 1..Len(map_results), map_results[j] = k PROVE j \in 1..i
    BY <2>1, <2>3, <1>1 DEF MapBehind, MapShape
  <2> QED
    BY <2>2, <2>3 DEF MapBehind
<1>4. map_form = "map" => G!Outstanding <= Size + 2
  <2>1. MapBase \in {MapDone, MapDone + 1}
    BY <1>1 DEF MapBase
  <2>2. map_spawned \in {MapBase + Len(map_queue), MapBase + Len(map_queue) + 1}
    BY <1>1 DEF MapAhead
  <2>3. map_form = "map" => Len(map_queue) <= Size
    BY DEF MapRoom
  <2> QED
    BY <1>1, <1>2, <2>1, <2>2, <2>3, ResourcesAssumption
<1>5. map_consumer = "stop" => Len(map_results) + Cardinality(map_skipped) = map_spawned
  BY DEF MapRoom, MapDone
<1>6. /\ Cardinality(G!Running) <= Size
      /\ map_count = G!Outstanding + (IF map_producer = "pool" THEN 1 ELSE 0)
      /\ \A i, j \in 1..Len(map_results) : i < j => map_results[i] < map_results[j]
  BY <1>2 DEF MapRoom, MapAhead, MapBehind
<1> QED
  BY <1>3, <1>4, <1>5, <1>6, SameCardinality DEF G!OrderKept

-----------------------------------------------------------------------------
(* Tpool *)

TpoolShape ==
  /\ tpool_up \in BOOLEAN
  /\ tpool_reqq \in Seq(Calls \cup {None}) /\ tpool_rspq \in Seq(Calls)
  /\ tpool_bytes \in Nat
  /\ tpool_worker \in [Workers -> {"off", "idle", "signal"} \cup Calls]
  /\ tpool_call \in [Calls -> {"new", "wait", "sent", "over"}]
  /\ tpool_killall # "no" => tpool_up

Requested(c) == \E i \in 1..Len(tpool_reqq) : tpool_reqq[i] = c
Replied(c) == \E i \in 1..Len(tpool_rspq) : tpool_rspq[i] = c
Called(c) == \E w \in Workers : tpool_worker[w] = c

\* A call is in one place at most, in none before it is made, and unless a
\* worker died it is somewhere as long as its greenthread waits.
TpoolPlaces ==
  /\ \A i, j \in 1..Len(tpool_reqq) :
       tpool_reqq[i] \in Calls /\ tpool_reqq[i] = tpool_reqq[j] => i = j
  /\ \A i, j \in 1..Len(tpool_rspq) : tpool_rspq[i] = tpool_rspq[j] => i = j
  /\ \A v, w \in Workers :
       tpool_worker[v] \in Calls /\ tpool_worker[v] = tpool_worker[w] => v = w
  /\ \A c \in Calls :
       /\ ~(Requested(c) /\ Replied(c))
       /\ ~(Requested(c) /\ Called(c))
       /\ ~(Replied(c) /\ Called(c))
       /\ tpool_call[c] = "new" => ~Requested(c) /\ ~Replied(c) /\ ~Called(c)
       /\ tpool_accidents = {} /\ tpool_call[c] = "wait" =>
            Requested(c) \/ Replied(c) \/ Called(c)

\* A reply is going to be seen; when the workers are gone there is none.
TpoolReplies ==
  /\ tpool_rspq # <<>> =>
       \/ tpool_bytes > 0 \/ tpool_trampoline = "drain" \/ tpool_killall = "joins"
       \/ \E w \in Workers : tpool_worker[w] = "signal"
  /\ ~tpool_up \/ tpool_killall = "kills" =>
       tpool_rspq = <<>> /\ \A w \in Workers : tpool_worker[w] = "off"

TpoolOn == {w \in Workers : tpool_worker[w] # "off"}

\* If no worker dies, the workers stop behind the last request: as many None
\* are at the end of the queue as workers are left to take them.
TpoolStops ==
  tpool_accidents = {} =>
    /\ tpool_killall \in {"no", "yields", "joins", "kills"}
    /\ tpool_up /\ tpool_killall \in {"no", "yields"} => TpoolOn = Workers
    /\ tpool_killall # "joins" => \A i \in 1..Len(tpool_reqq) : tpool_reqq[i] \in Calls
    /\ tpool_killall = "joins" =>
         /\ Cardinality(TpoolOn) <= Len(tpool_reqq)
         /\ \A i \in 1..Len(tpool_reqq) :
              tpool_reqq[i] = None <=> i > Len(tpool_reqq) - Cardinality(TpoolOn)
         /\ TpoolOn = {} => tpool_reqq = <<>>
    /\ ~tpool_up \/ tpool_killall = "kills" => tpool_reqq = <<>>

TpoolInv == TpoolShape /\ TpoolPlaces /\ TpoolReplies /\ TpoolStops


\* What a queue holds after its first element is taken, or one is added.
LEMMA TailOf ==
  ASSUME NEW S, NEW q \in Seq(S), q # <<>>
  PROVE  /\ Head(q) = q[1] /\ Head(q) \in S /\ 1 \in 1..Len(q)
         /\ Tail(q) \in Seq(S) /\ Len(Tail(q)) = Len(q) - 1
         /\ \A i \in 1..Len(Tail(q)) : Tail(q)[i] = q[i + 1] /\ i + 1 \in 1..Len(q)
         /\ \A i \in 1..Len(q) : i # 1 => i - 1 \in 1..Len(Tail(q)) /\ q[i] = Tail(q)[i - 1]
<1>1. /\ Head(q) = q[1] /\ Head(q) \in S /\ Len(q) \in Nat /\ Len(q) >= 1
      /\ Tail(q) \in Seq(S) /\ Len(Tail(q)) = Len(q) - 1
      /\ \A i \in 1..Len(Tail(q)) : Tail(q)[i] = q[i + 1]
  BY HeadTailProperties
<1>2. \A i \in 1..Len(Tail(q)) : i + 1 \in 1..Len(q)
  BY <1>1
<1>3. ASSUME NEW i \in 1..Len(q), i # 1
      PROVE  i - 1 \in 1..Len(Tail(q)) /\ q[i] = Tail(q)[i - 1]
  <2>1. i - 1 \in 1..Len(Tail(q)) /\ (i - 1) + 1 = i
    BY <1>1, <1>3
  <2> QED
    BY <1>1, <2>1
<1> QED
  BY <1>1, <1>2, <1>3

LEMMA AppendOf ==
  ASSUME NEW S, NEW q \in Seq(S), NEW x \in S
  PROVE  /\ Append(q, x) \in Seq(S) /\ Len(Append(q, x)) = Len(q) + 1
         /\ \A i \in 1..Len(q) : i \in 1..Len(Append(q, x)) /\ Append(q, x)[i] = q[i]
         /\ Len(q) + 1 \in 1..Len(Append(q, x)) /\ Append(q, x)[Len(q) + 1] = x
         /\ \A i \in 1..Len(Append(q, x)) : i \in 1..Len(q) \/ i = Len(q) + 1
<1>1. Len(q) \in Nat
  OBVIOUS
<1> QED
  BY <1>1, AppendProperties

LEMMA TpoolInvInit == T!TpoolInit => TpoolInv
<1> SUFFICES ASSUME T!TpoolInit PROVE TpoolInv
  OBVIOUS
<1> USE ResourcesAssumption DEF T!TpoolInit
<1>1. TpoolShape
  <2>1. tpool_reqq \in Seq(Calls \cup {None}) /\ tpool_rspq \in Seq(Calls)
    OBVIOUS
  <2>3. tpool_up \in BOOLEAN /\ tpool_bytes \in Nat /\ tpool_killall = "no"
    OBVIOUS
  <2>2. /\ tpool_worker \in [Workers -> {"off", "idle", "signal"} \cup Calls]
        /\ tpool_call \in [Calls -> {"new", "wait", "sent", "over"}]
    OBVIOUS
  <2> QED
    BY <2>1, <2>2, <2>3, Zenon DEF TpoolShape
<1>2. TpoolPlaces
  BY DEF TpoolPlaces, Requested, Replied, Called
<1>3. TpoolReplies
  BY DEF TpoolReplies
<1>4. TpoolStops
  BY DEF TpoolStops
<1> QED
  BY <1>1, <1>2, <1>3, <1>4 DEF TpoolInv

\* What greenthreads do with their calls.
LEMMA TpoolCallStep ==
  ASSUME TpoolInv, NEW c \in Calls, T!execute(c) \/ T!Return(c) \/ T!GiveUp(c)
  PROVE  TpoolInv'
<1> USE ResourcesAssumption DEF TpoolInv
<1>1. /\ UNCHANGED <<tpool_accidents, tpool_up, tpool_rspq, tpool_bytes, tpool_worker,
                     tpool_trampoline, tpool_killall>>
      /\ tpool_killall # "joins"
  BY DEF T!execute, T!Return, T!GiveUp, T!MainFree
<1>2. CASE T!execute(c)
  <2>1. /\ tpool_up /\ tpool_call[c] = "new"
        /\ tpool_killall = "kills" => tpool_accidents # {}
        /\ tpool_reqq' = Append(tpool_reqq, c)
        /\ tpool_call' = [tpool_call EXCEPT ![c] = "wait"]
    BY <1>2 DEF T!execute
  <2>2. /\ tpool_reqq' \in Seq(Calls \cup {None})
        /\ \A i \in 1..Len(tpool_reqq) :
             i \in 1..Len(tpool_reqq') /\ tpool_reqq'[i] = tpool_reqq[i]
        /\ Len(tpool_reqq) + 1 \in 1..Len(tpool_reqq')
        /\ tpool_reqq'[Len(tpool_reqq) + 1] = c
        /\ \A i \in 1..Len(tpool_reqq') : i \in 1..Len(tpool_reqq) \/ i = Len(tpool_reqq) + 1
    BY <2>1, AppendOf DEF TpoolShape
  <2>3. ~Requested(c) /\ ~Replied(c) /\ ~Called(c)
    BY <2>1 DEF TpoolPlaces
  <2>4. \A d : Requested(d)' <=> Requested(d) \/ d = c
    BY <2>2 DEF Requested
  <2>5. \A d : (Replied(d)' <=> Replied(d)) /\ (Called(d)' <=> Called(d))
    BY <1>1 DEF Replied, Called
  <2>6. TpoolShape'
    BY <1>1, <2>1, <2>2 DEF TpoolShape
  <2>7. TpoolPlaces'
    <3>1. ASSUME NEW i \in 1..Len(tpool_reqq'), NEW j \in 1..Len(tpool_reqq'),
                 tpool_reqq'[i] \in Calls, tpool_reqq'[i] = tpool_reqq'[j]
          PROVE  i = j
      BY <2>2, <2>3, <3>1 DEF TpoolPlaces, Requested
    <3>2. \A d \in Calls : d # c => tpool_call'[d] = tpool_call[d]
      BY <2>1 DEF TpoolShape
    <3>3. tpool_call'[c] = "wait"
      BY <2>1 DEF TpoolShape
    <3>4. ASSUME NEW d \in Calls
          PROVE  /\ ~(Requested(d)' /\ Replied(d)')
                 /\ ~(Requested(d)' /\ Called(d)')
                 /\ ~(Replied(d)' /\ Called(d)')
                 /\ tpool_call'[d] = "new" => ~Requested(d)' /\ ~Replied(d)' /\ ~Called(d)'
                 /\ tpool_accidents' = {} /\ tpool_call'[d] = "wait" =>
                      Requested(d)' \/ Replied(d)' \/ Called(d)'
      <4>1. CASE d = c
        BY <2>3, <2>4, <2>5, <3>3, <4>1
      <4>2. CASE d # c
        BY <1>1, <2>4, <2>5, <3>2, <4>2 DEF TpoolPlaces
      <4> QED
        BY <4>1, <4>2
    <3> QED
      BY <1>1, <3>1, <3>4 DEF TpoolPlaces
  <2>8. TpoolReplies'
    BY <1>1 DEF TpoolReplies
  <2>9. TpoolStops'
    <3>1. TpoolOn' = TpoolOn
      BY <1>1 DEF TpoolOn
    <3>2. ASSUME tpool_accidents = {} PROVE \A i \in 1..Len(tpool_reqq') : tpool_reqq'[i] \in Calls
      BY <1>1, <2>2, <3>2 DEF TpoolStops
    <3> QED
      BY <1>1, <2>1, <3>1, <3>2 DEF TpoolStops
  <2> QED
    BY <2>6, <2>7, <2>8, <2>9
<1>3. CASE T!Return(c) \/ T!GiveUp(c)
  <2>1. /\ tpool_reqq' = tpool_reqq
        /\ tpool_call' = [tpool_call EXCEPT ![c] = "over"]
    BY <1>3 DEF T!Return, T!GiveUp
  <2>2. \A d : (Requested(d)' <=> Requested(d)) /\ (Replied(d)' <=> Replied(d))
               /\ (Called(d)' <=> Called(d))
    BY <1>1, <2>1 DEF Requested, Replied, Called
  <2>3. TpoolShape'
    BY <1>1, <2>1 DEF TpoolShape
  <2>4. TpoolPlaces'
    <3>1. \A d \in Calls : tpool_call'[d] \in {tpool_call[d], "over"}
      BY <2>1 DEF TpoolShape
    <3> QED
      BY <1>1, <2>1, <2>2, <3>1 DEF TpoolPlaces
  <2>5. TpoolReplies' /\ TpoolStops'
    BY <1>1, <2>1 DEF TpoolReplies, TpoolStops, TpoolOn
  <2> QED
    BY <2>3, <2>4, <2>5
<1> QED
  BY <1>2, <1>3

\* setup() starts from nothing.
LEMMA TpoolSetupStep == TpoolInv /\ T!setup => TpoolInv'
<1> SUFFICES ASSUME TpoolInv, T!setup PROVE TpoolInv'
  OBVIOUS
<1> USE ResourcesAssumption DEF TpoolInv
<1>1. /\ ~tpool_up /\ tpool_up' = TRUE
      /\ tpool_reqq' = <<>> /\ tpool_rspq' = <<>> /\ tpool_bytes' = 0
      /\ tpool_worker' = [w \in Workers |-> "idle"]
      /\ UNCHANGED <<tpool_accidents, tpool_call, tpool_killall>>
  BY DEF T!setup
<1>2. TpoolShape'
  <2>1. /\ tpool_reqq' \in Seq(Calls \cup {None}) /\ tpool_rspq' \in Seq(Calls)
        /\ tpool_worker' \in [Workers -> {"off", "idle", "signal"} \cup Calls]
    BY <1>1
  <2> QED
    BY <1>1, <2>1 DEF TpoolShape
<1>3. TpoolPlaces'
  <2>1. \A c \in Calls : ~Requested(c)' /\ ~Replied(c)' /\ ~Called(c)'
    BY <1>1 DEF Requested, Replied, Called
  <2>2. ASSUME NEW c \in Calls, tpool_accidents = {} PROVE tpool_call[c] # "wait"
    <3>1. tpool_rspq = <<>> /\ (\A w \in Workers : tpool_worker[w] = "off") /\ tpool_reqq = <<>>
      BY <1>1, <2>2 DEF TpoolReplies, TpoolStops
    <3>2. ~Requested(c) /\ ~Replied(c) /\ ~Called(c)
      BY <3>1 DEF Requested, Replied, Called
    <3> QED
      BY <2>2, <3>2 DEF TpoolPlaces
  <2> QED
    BY <1>1, <2>1, <2>2 DEF TpoolPlaces
<1>4. TpoolReplies'
  BY <1>1 DEF TpoolReplies, TpoolShape
<1>5. TpoolStops'
  <2>1. TpoolOn' = Workers
    BY <1>1 DEF TpoolOn
  <2> QED
    BY <1>1, <2>1 DEF TpoolStops, TpoolShape
<1> QED
  BY <1>2, <1>3, <1>4, <1>5

\* The trampoline takes replies from the queue and tells who waits for them.
LEMMA TpoolTrampolineStep == TpoolInv /\ T!Trampoline => TpoolInv'
<1> SUFFICES ASSUME TpoolInv, T!Trampoline PROVE TpoolInv'
  OBVIOUS
<1> USE ResourcesAssumption DEF TpoolInv
<1>1. UNCHANGED <<tpool_accidents, tpool_up, tpool_reqq, tpool_worker, tpool_killall>>
  BY DEF T!Trampoline, T!Recv, T!Drain, T!DrainEnds
<1>2. TpoolStops'
  BY <1>1 DEF TpoolStops, TpoolOn
<1>3. \A d : (Requested(d)' <=> Requested(d)) /\ (Called(d)' <=> Called(d))
  BY <1>1 DEF Requested, Called
<1>4. CASE T!Recv \/ T!DrainEnds
  <2>1. UNCHANGED <<tpool_rspq, tpool_call>>
    BY <1>4 DEF T!Recv, T!DrainEnds
  <2>2. /\ tpool_bytes' \in Nat
        /\ tpool_trampoline' = "drain" \/ (tpool_rspq = <<>> /\ tpool_bytes' = tpool_bytes)
    BY <1>4 DEF T!Recv, T!DrainEnds, TpoolShape
  <2>3. TpoolShape'
    BY <1>1, <2>1, <2>2 DEF TpoolShape
  <2>4. TpoolPlaces'
    BY <1>1, <2>1 DEF TpoolPlaces, Requested, Replied, Called
  <2>5. TpoolReplies'
    BY <1>1, <2>1, <2>2 DEF TpoolReplies
  <2> QED
    BY <1>2, <2>3, <2>4, <2>5
<1>5. CASE T!Drain
  <2> DEFINE h == Head(tpool_rspq)
  <2>1. /\ tpool_trampoline = "drain" /\ tpool_trampoline' = "drain" /\ tpool_rspq # <<>>
        /\ tpool_rspq' = Tail(tpool_rspq) /\ tpool_bytes' = tpool_bytes
        /\ tpool_call' = [tpool_call EXCEPT ![h] = IF @ = "wait" THEN "sent" ELSE @]
    BY <1>5 DEF T!Drain, T!Sent
  <2>2. /\ h = tpool_rspq[1] /\ h \in Calls /\ 1 \in 1..Len(tpool_rspq)
        /\ tpool_rspq' \in Seq(Calls)
        /\ \A i \in 1..Len(tpool_rspq') :
             tpool_rspq'[i] = tpool_rspq[i + 1] /\ i + 1 \in 1..Len(tpool_rspq)
        /\ \A i \in 1..Len(tpool_rspq) :
             i # 1 => i - 1 \in 1..Len(tpool_rspq') /\ tpool_rspq[i] = tpool_rspq'[i - 1]
    BY <2>1, TailOf DEF TpoolShape
  <2> HIDE DEF h
  <2>3. \A d : Replied(d)' <=> Replied(d) /\ d # h
    <3>1. ASSUME NEW d, Replied(d)' PROVE Replied(d) /\ d # h
      <4>1. PICK i \in 1..Len(tpool_rspq') : tpool_rspq'[i] = d
        BY <3>1 DEF Replied
      <4>2. i + 1 # 1 /\ tpool_rspq[i + 1] = d /\ i + 1 \in 1..Len(tpool_rspq)
        BY <2>2, <4>1
      <4> QED
        BY <2>2, <4>2 DEF Replied, TpoolPlaces
    <3>2. ASSUME NEW d, Replied(d), d # h PROVE Replied(d)'
      <4>1. PICK i \in 1..Len(tpool_rspq) : tpool_rspq[i] = d
        BY <3>2 DEF Replied
      <4>2. i - 1 \in 1..Len(tpool_rspq') /\ tpool_rspq'[i - 1] = d
        BY <2>2, <3>2, <4>1
      <4> QED
        BY <4>2 DEF Replied
    <3> QED
      BY <3>1, <3>2
  <2>4. TpoolShape'
    BY <1>1, <2>1, <2>2 DEF TpoolShape
  <2>5. TpoolPlaces'
    <3>1. ASSUME NEW i \in 1..Len(tpool_rspq'), NEW j \in 1..Len(tpool_rspq'),
                 tpool_rspq'[i] = tpool_rspq'[j]
          PROVE  i = j
      <4>1. i + 1 = j + 1
        BY <2>2, <3>1 DEF TpoolPlaces
      <4> QED
        BY <4>1
    <3>2. \A d \in Calls :
            /\ tpool_call'[d] = "new" => tpool_call[d] = "new"
            /\ tpool_call'[d] = "wait" => tpool_call[d] = "wait" /\ d # h
      BY <2>1, <2>2 DEF TpoolShape
    <3> QED
      BY <1>1, <1>3, <2>3, <3>1, <3>2 DEF TpoolPlaces
  <2>6. TpoolReplies'
    <3>1. ~(~tpool_up \/ tpool_killall = "kills")
      BY <2>1 DEF TpoolReplies
    <3> QED
      BY <1>1, <2>1, <3>1 DEF TpoolReplies
  <2> QED
    BY <1>2, <2>4, <2>5, <2>6
<1> QED
  BY <1>4, <1>5 DEF T!Trampoline

\* killall() puts the stops behind the requests, waits until the workers are
\* gone, and answers what is left.
LEMMA TpoolKillallStep == TpoolInv /\ (T!KillallBegins \/ T!Killall) => TpoolInv'
<1> SUFFICES ASSUME TpoolInv, T!KillallBegins \/ T!Killall PROVE TpoolInv'
  OBVIOUS
<1> USE ResourcesAssumption DEF TpoolInv
<1>1. tpool_accidents' = tpool_accidents /\ tpool_worker' = tpool_worker /\ TpoolOn' = TpoolOn
  BY DEF T!KillallBegins, T!Killall, T!KillallStops, T!KillallJoins, T!KillallEnds, TpoolOn
<1>2. \A d : Called(d)' <=> Called(d)
  BY <1>1 DEF Called
<1>3. CASE T!KillallBegins
  <2>1. /\ tpool_up /\ tpool_killall = "no" /\ tpool_killall' = "yields"
        /\ UNCHANGED <<tpool_up, tpool_reqq, tpool_rspq, tpool_bytes, tpool_call,
                       tpool_trampoline>>
    BY <1>3 DEF T!KillallBegins
  <2> QED
    BY <1>1, <2>1 DEF TpoolShape, TpoolPlaces, TpoolReplies, TpoolStops, Requested, Replied, Called
<1>4. CASE T!KillallStops
  <2> DEFINE n == Cardinality(Workers)
             N == [i \in 1..n |-> None]
  <2>1. n \in Nat
    BY FS_CardinalityType
  <2>2. /\ tpool_killall = "yields" /\ tpool_killall' = "joins"
        /\ tpool_reqq' = tpool_reqq \o N
        /\ UNCHANGED <<tpool_up, tpool_rspq, tpool_bytes, tpool_call, tpool_trampoline>>
    BY <1>4, SameCardinality DEF T!KillallStops, T!Stops
  <2>3. N \in Seq(Calls \cup {None}) /\ Len(N) = n /\ \A i \in 1..n : N[i] = None
    BY <2>1
  <2> HIDE DEF n, N
  <2>4. /\ tpool_reqq' \in Seq(Calls \cup {None}) /\ Len(tpool_reqq') = Len(tpool_reqq) + n
        /\ \A i \in 1..Len(tpool_reqq) + n :
             tpool_reqq'[i] = IF i <= Len(tpool_reqq) THEN tpool_reqq[i] ELSE N[i - Len(tpool_reqq)]
        /\ Len(tpool_reqq) \in Nat
    <3>1. tpool_reqq \in Seq(Calls \cup {None}) /\ Len(tpool_reqq) \in Nat
      BY DEF TpoolShape
    <3>2. /\ tpool_reqq \o N \in Seq(Calls \cup {None})
          /\ Len(tpool_reqq \o N) = Len(tpool_reqq) + Len(N)
          /\ \A i \in 1..Len(tpool_reqq) + Len(N) :
               (tpool_reqq \o N)[i] = IF i <= Len(tpool_reqq) THEN tpool_reqq[i]
                                                            ELSE N[i - Len(tpool_reqq)]
      BY <2>3, <3>1, ConcatProperties
    <3> QED
      BY <2>2, <2>3, <3>1, <3>2
  <2>5. /\ \A i \in 1..Len(tpool_reqq) :
             i \in 1..Len(tpool_reqq') /\ tpool_reqq'[i] = tpool_reqq[i]
        /\ \A i \in 1..Len(tpool_reqq') :
             i \in 1..Len(tpool_reqq) \/ (i > Len(tpool_reqq) /\ tpool_reqq'[i] = None)
    <3>1. \A i \in 1..Len(tpool_reqq) : i \in 1..Len(tpool_reqq') /\ tpool_reqq'[i] = tpool_reqq[i]
      BY <2>1, <2>4
    <3>2. ASSUME NEW i \in 1..Len(tpool_reqq'), i \notin 1..Len(tpool_reqq)
          PROVE  i > Len(tpool_reqq) /\ tpool_reqq'[i] = None
      <4>1. i - Len(tpool_reqq) \in 1..n /\ i > Len(tpool_reqq)
        BY <2>1, <2>4, <3>2
      <4> QED
        BY <2>1, <2>3, <2>4, <4>1
    <3> QED
      BY <3>1, <3>2
  <2>6. None \notin Calls
    OBVIOUS
  <2>7. \A d \in Calls : Requested(d)' <=> Requested(d)
    BY <2>5, <2>6 DEF Requested
  <2>8. \A d : Replied(d)' <=> Replied(d)
    BY <2>2 DEF Replied
  <2>9. TpoolShape'
    BY <1>1, <2>2, <2>4 DEF TpoolShape
  <2>10. TpoolPlaces'
    <3>1. ASSUME NEW i \in 1..Len(tpool_reqq'), NEW j \in 1..Len(tpool_reqq'),
                 tpool_reqq'[i] \in Calls, tpool_reqq'[i] = tpool_reqq'[j]
          PROVE  i = j
      <4>1. i \in 1..Len(tpool_reqq) /\ j \in 1..Len(tpool_reqq)
        BY <2>5, <2>6, <3>1
      <4> QED
        BY <2>5, <3>1, <4>1 DEF TpoolPlaces
    <3> QED
      BY <1>1, <1>2, <2>2, <2>7, <2>8, <3>1 DEF TpoolPlaces
  <2>11. TpoolReplies'
    BY <1>1, <2>2 DEF TpoolReplies
  <2>12. TpoolStops'
    <3> SUFFICES ASSUME tpool_accidents = {} PROVE TpoolStops'
      BY <1>1 DEF TpoolStops
    <3>1. tpool_up /\ TpoolOn = Workers /\ \A i \in 1..Len(tpool_reqq) : tpool_reqq[i] \in Calls
      BY <2>2 DEF TpoolStops, TpoolShape
    <3>2. Cardinality(TpoolOn') = n /\ TpoolOn' # {}
      BY <1>1, <3>1 DEF n
    <3>3. n <= Len(tpool_reqq')
      BY <2>1, <2>4
    <3>4. \A i \in 1..Len(tpool_reqq') : tpool_reqq'[i] = None <=> i > Len(tpool_reqq') - n
      <4>1. Len(tpool_reqq') - n = Len(tpool_reqq)
        BY <2>1, <2>4
      <4>2. \A i \in 1..Len(tpool_reqq) : ~(i > Len(tpool_reqq)) /\ tpool_reqq'[i] # None
        BY <2>4, <2>5, <2>6, <3>1
      <4> QED
        BY <2>5, <4>1, <4>2
    <3> QED
      BY <2>2, <3>1, <3>2, <3>3, <3>4 DEF TpoolStops
  <2> QED
    BY <2>9, <2>10, <2>11, <2>12
<1>5. CASE T!KillallJoins
  <2>1. /\ tpool_killall = "joins" /\ tpool_killall' = "kills"
        /\ \A w \in Workers : tpool_worker[w] = "off"
        /\ tpool_call' = [c \in Calls |->
             IF T!Contains(tpool_rspq, c) THEN T!Sent(c)[c] ELSE tpool_call[c]]
        /\ tpool_rspq' = <<>>
        /\ UNCHANGED <<tpool_up, tpool_reqq, tpool_bytes>>
    BY <1>5 DEF T!KillallJoins, T!Joined
  <2>2. \A c : T!Contains(tpool_rspq, c) <=> Replied(c)
    BY DEF T!Contains, Replied
  <2>3. \A c \in Calls :
          tpool_call'[c] = IF Replied(c) /\ tpool_call[c] = "wait" THEN "sent" ELSE tpool_call[c]
    BY <2>1, <2>2 DEF T!Sent, TpoolShape
  <2>4. tpool_call' \in [Calls -> {"new", "wait", "sent", "over"}]
    <3>1. \A c \in Calls : tpool_call[c] \in {"new", "wait", "sent", "over"}
      BY DEF TpoolShape
    <3>2. \A c \in Calls : tpool_call'[c] \in {"new", "wait", "sent", "over"}
      BY <2>3, <3>1
    <3>3. tpool_call' = [c \in Calls |-> tpool_call'[c]]
      BY <2>1
    <3> QED
      BY <3>2, <3>3
  <2>5. \A d : (Requested(d)' <=> Requested(d)) /\ ~Replied(d)'
    BY <2>1 DEF Requested, Replied
  <2>6. \A c \in Calls : ~Called(c)
    BY <2>1 DEF Called
  <2>7. TpoolShape'
    <3>1. tpool_rspq' \in Seq(Calls)
      BY <2>1
    <3> QED
      BY <1>1, <2>1, <2>4, <3>1 DEF TpoolShape
  <2>8. TpoolPlaces'
    <3>1. \A i, j \in 1..Len(tpool_rspq') : tpool_rspq'[i] = tpool_rspq'[j] => i = j
      BY <2>1
    <3>2. ASSUME NEW c \in Calls
          PROVE  /\ ~(Requested(c)' /\ Replied(c)')
                 /\ ~(Requested(c)' /\ Called(c)')
                 /\ ~(Replied(c)' /\ Called(c)')
                 /\ tpool_call'[c] = "new" => ~Requested(c)' /\ ~Replied(c)' /\ ~Called(c)'
                 /\ tpool_accidents' = {} /\ tpool_call'[c] = "wait" =>
                      Requested(c)' \/ Replied(c)' \/ Called(c)'
      <4>1. /\ tpool_call'[c] = "new" => tpool_call[c] = "new"
            /\ tpool_call'[c] = "wait" => tpool_call[c] = "wait" /\ ~Replied(c)
        BY <2>3
      <4> QED
        BY <1>1, <1>2, <2>5, <2>6, <4>1 DEF TpoolPlaces
    <3> QED
      BY <1>1, <2>1, <3>1, <3>2 DEF TpoolPlaces
  <2>9. TpoolReplies'
    BY <1>1, <2>1 DEF TpoolReplies, TpoolShape
  <2>10. TpoolStops'
    <3>1. TpoolOn = {}
      BY <2>1 DEF TpoolOn
    <3>2. tpool_accidents = {} => tpool_reqq' = <<>>
      BY <2>1, <3>1 DEF TpoolStops
    <3> QED
      BY <1>1, <2>1, <3>2 DEF TpoolStops, TpoolShape
  <2> QED
    BY <2>7, <2>8, <2>9, <2>10
<1>6. CASE T!KillallEnds
  <2>1. /\ tpool_killall = "kills" /\ tpool_killall' = "no"
        /\ tpool_up' = FALSE /\ tpool_bytes' = 0
        /\ UNCHANGED <<tpool_reqq, tpool_rspq, tpool_call, tpool_trampoline>>
    BY <1>6 DEF T!KillallEnds
  <2>2. TpoolShape'
    BY <1>1, <2>1 DEF TpoolShape
  <2>3. TpoolPlaces'
    BY <1>1, <2>1 DEF TpoolPlaces, Requested, Replied, Called
  <2>4. TpoolReplies'
    BY <1>1, <2>1 DEF TpoolReplies
  <2>5. TpoolStops'
    BY <1>1, <2>1 DEF TpoolStops
  <2> QED
    BY <2>2, <2>3, <2>4, <2>5
<1> QED
  BY <1>3, <1>4, <1>5, <1>6 DEF T!Killall

\* A worker takes requests, or its stop.
LEMMA TpoolTakeStep ==
  ASSUME TpoolInv, NEW w \in Workers, T!Take(w)
  PROVE  TpoolInv'
<1> USE ResourcesAssumption DEF TpoolInv
<1> DEFINE h == Head(tpool_reqq)
<1>1. /\ tpool_worker[w] = "idle" /\ tpool_reqq # <<>>
      /\ tpool_reqq' = Tail(tpool_reqq)
      /\ tpool_worker' = [tpool_worker EXCEPT ![w] = IF h = None THEN "off" ELSE h]
      /\ UNCHANGED <<tpool_accidents, tpool_up, tpool_rspq, tpool_bytes, tpool_call,
                     tpool_trampoline, tpool_killall>>
  BY DEF T!Take
<1>2. /\ h = tpool_reqq[1] /\ h \in Calls \cup {None} /\ 1 \in 1..Len(tpool_reqq)
      /\ tpool_reqq' \in Seq(Calls \cup {None}) /\ Len(tpool_reqq') = Len(tpool_reqq) - 1
      /\ \A i \in 1..Len(tpool_reqq') :
           tpool_reqq'[i] = tpool_reqq[i + 1] /\ i + 1 \in 1..Len(tpool_reqq)
      /\ \A i \in 1..Len(tpool_reqq) :
           i # 1 => i - 1 \in 1..Len(tpool_reqq') /\ tpool_reqq[i] = tpool_reqq'[i - 1]
      /\ Len(tpool_reqq) \in Nat
  BY <1>1, TailOf DEF TpoolShape
<1> HIDE DEF h
<1>3. /\ None \notin Calls /\ "off" \notin Calls /\ "idle" \notin Calls
      /\ tpool_worker'[w] = IF h = None THEN "off" ELSE h
      /\ \A v \in Workers : v # w => tpool_worker'[v] = tpool_worker[v]
  BY <1>1 DEF TpoolShape
<1>4. tpool_up /\ tpool_killall # "kills"
  BY <1>1 DEF TpoolReplies, TpoolShape
<1>5. \A d \in Calls : Requested(d)' <=> Requested(d) /\ d # h
  <2>1. ASSUME NEW d \in Calls, Requested(d)' PROVE Requested(d) /\ d # h
    <3>1. PICK i \in 1..Len(tpool_reqq') : tpool_reqq'[i] = d
      BY <2>1 DEF Requested
    <3>2. i + 1 # 1 /\ tpool_reqq[i + 1] = d /\ i + 1 \in 1..Len(tpool_reqq)
      BY <1>2, <3>1
    <3> QED
      BY <1>2, <3>2 DEF Requested, TpoolPlaces
  <2>2. ASSUME NEW d \in Calls, Requested(d), d # h PROVE Requested(d)'
    <3>1. PICK i \in 1..Len(tpool_reqq) : tpool_reqq[i] = d
      BY <2>2 DEF Requested
    <3>2. i - 1 \in 1..Len(tpool_reqq') /\ tpool_reqq'[i - 1] = d
      BY <1>2, <2>2, <3>1
    <3> QED
      BY <3>2 DEF Requested
  <2> QED
    BY <2>1, <2>2
<1>6. \A d : Replied(d)' <=> Replied(d)
  BY <1>1 DEF Replied
<1>7. \A d \in Calls : Called(d)' <=> Called(d) \/ d = h
  BY <1>1, <1>3 DEF Called
<1>8. h \in Calls => Requested(h) /\ ~Replied(h) /\ ~Called(h)
  BY <1>2 DEF Requested, TpoolPlaces
<1>9. TpoolShape'
  <2>1. tpool_worker' \in [Workers -> {"off", "idle", "signal"} \cup Calls]
    BY <1>1, <1>2 DEF TpoolShape
  <2> QED
    BY <1>1, <1>2, <2>1 DEF TpoolShape
<1>10. TpoolPlaces'
  <2>1. ASSUME NEW i \in 1..Len(tpool_reqq'), NEW j \in 1..Len(tpool_reqq'),
               tpool_reqq'[i] \in Calls, tpool_reqq'[i] = tpool_reqq'[j]
        PROVE  i = j
    <3>1. i + 1 = j + 1
      BY <1>2, <2>1 DEF TpoolPlaces
    <3> QED
      BY <3>1
  <2>2. ASSUME NEW u \in Workers, NEW v \in Workers,
               tpool_worker'[u] \in Calls, tpool_worker'[u] = tpool_worker'[v]
        PROVE  u = v
    <3>1. CASE u = w /\ v # w
      BY <1>3, <1>8, <2>2, <3>1 DEF Called
    <3>2. CASE u # w /\ v = w
      BY <1>2, <1>3, <1>8, <2>2, <3>2 DEF Called
    <3>3. CASE u # w /\ v # w
      BY <1>3, <2>2, <3>3 DEF TpoolPlaces
    <3> QED
      BY <3>1, <3>2, <3>3
  <2>3. ASSUME NEW d \in Calls
        PROVE  /\ ~(Requested(d)' /\ Replied(d)')
               /\ ~(Requested(d)' /\ Called(d)')
               /\ ~(Replied(d)' /\ Called(d)')
               /\ tpool_call'[d] = "new" => ~Requested(d)' /\ ~Replied(d)' /\ ~Called(d)'
               /\ tpool_accidents' = {} /\ tpool_call'[d] = "wait" =>
                    Requested(d)' \/ Replied(d)' \/ Called(d)'
    BY <1>1, <1>5, <1>6, <1>7, <1>8 DEF TpoolPlaces
  <2> QED
    BY <1>1, <2>1, <2>2, <2>3 DEF TpoolPlaces
<1>11. TpoolReplies'
  BY <1>1, <1>3, <1>4 DEF TpoolReplies
<1>12. TpoolStops'
  <2> SUFFICES ASSUME tpool_accidents = {} PROVE TpoolStops'
    BY <1>1 DEF TpoolStops
  <2>1. IsFiniteSet(TpoolOn) /\ w \in TpoolOn
    BY <1>1, FS_Subset DEF TpoolOn
  <2>2. Cardinality(TpoolOn) \in Nat
    BY <2>1, FS_CardinalityType
  <2>3. CASE tpool_killall # "joins"
    <3>1. \A i \in 1..Len(tpool_reqq) : tpool_reqq[i] \in Calls
      BY <2>3 DEF TpoolStops
    <3>2. h \in Calls
      BY <1>2, <3>1
    <3>3. \A i \in 1..Len(tpool_reqq') : tpool_reqq'[i] \in Calls
      BY <1>2, <3>1
    <3>4. TpoolOn' = TpoolOn
      BY <1>1, <1>3, <3>2 DEF TpoolOn
    <3> QED
      BY <1>1, <1>4, <2>3, <3>3, <3>4 DEF TpoolStops
  <2>4. CASE tpool_killall = "joins"
    <3>1. /\ Cardinality(TpoolOn) <= Len(tpool_reqq)
          /\ \A i \in 1..Len(tpool_reqq) :
               tpool_reqq[i] = None <=> i > Len(tpool_reqq) - Cardinality(TpoolOn)
      BY <2>4 DEF TpoolStops
    <3>2. CASE h = None
      <4>1. TpoolOn' = TpoolOn \ {w}
        BY <1>3, <2>1, <3>2 DEF TpoolOn
      <4>2. Cardinality(TpoolOn') = Cardinality(TpoolOn) - 1 /\ IsFiniteSet(TpoolOn')
        BY <2>1, <4>1, FS_RemoveElement
      <4>3. Len(tpool_reqq) = Cardinality(TpoolOn)
        <5>1. 1 > Len(tpool_reqq) - Cardinality(TpoolOn)
          BY <1>2, <3>1, <3>2
        <5> QED
          BY <1>2, <2>2, <3>1, <5>1
      <4>4. Cardinality(TpoolOn') = Len(tpool_reqq')
        BY <1>2, <4>2, <4>3
      <4>5. \A i \in 1..Len(tpool_reqq') : tpool_reqq'[i] = None
        BY <1>2, <3>1, <4>3
      <4>6. TpoolOn' = {} => tpool_reqq' = <<>>
        BY <1>2, <4>4, FS_EmptySet, EmptySeq
      <4>7. \A i \in 1..Len(tpool_reqq') : i > Len(tpool_reqq') - Cardinality(TpoolOn')
        BY <1>2, <4>4
      <4>8. Cardinality(TpoolOn') <= Len(tpool_reqq')
        BY <1>2, <4>4
      <4> QED
        BY <1>1, <1>4, <2>4, <4>5, <4>6, <4>7, <4>8 DEF TpoolStops
    <3>3. CASE h \in Calls
      <4>1. TpoolOn' = TpoolOn
        BY <1>1, <1>3, <3>3 DEF TpoolOn
      <4>2. Cardinality(TpoolOn) <= Len(tpool_reqq')
        BY <1>2, <1>3, <2>2, <3>1, <3>3
      <4>3. \A i \in 1..Len(tpool_reqq') :
              tpool_reqq'[i] = None <=> i > Len(tpool_reqq') - Cardinality(TpoolOn)
        BY <1>2, <2>2, <3>1
      <4> QED
        BY <1>1, <1>4, <2>1, <2>4, <4>1, <4>2, <4>3 DEF TpoolStops
    <3> QED
      BY <1>2, <3>2, <3>3
  <2> QED
    BY <2>3, <2>4
<1> QED
  BY <1>9, <1>10, <1>11, <1>12

\* It makes the call, puts the reply on the queue and writes the byte, or dies.
LEMMA TpoolWorkerStep ==
  ASSUME TpoolInv, NEW w \in Workers, T!Reply(w) \/ T!Signal(w) \/ T!Die(w)
  PROVE  TpoolInv'
<1> USE ResourcesAssumption DEF TpoolInv
<1> DEFINE c == tpool_worker[w]
<1>1. UNCHANGED <<tpool_accidents, tpool_up, tpool_reqq, tpool_call,
                  tpool_trampoline, tpool_killall>>
  BY DEF T!Reply, T!Signal, T!Die
<1>2. \A d : Requested(d)' <=> Requested(d)
  BY <1>1 DEF Requested
<1>3. "off" \notin Calls /\ "idle" \notin Calls /\ "signal" \notin Calls
  OBVIOUS
<1>4. CASE T!Reply(w)
  <2>1. /\ c \in Calls /\ tpool_rspq' = Append(tpool_rspq, c)
        /\ tpool_worker' = [tpool_worker EXCEPT ![w] = "signal"]
        /\ tpool_bytes' = tpool_bytes
    BY <1>4 DEF T!Reply
  <2>2. /\ tpool_rspq' \in Seq(Calls)
        /\ \A i \in 1..Len(tpool_rspq) :
             i \in 1..Len(tpool_rspq') /\ tpool_rspq'[i] = tpool_rspq[i]
        /\ Len(tpool_rspq) + 1 \in 1..Len(tpool_rspq')
        /\ tpool_rspq'[Len(tpool_rspq) + 1] = c
        /\ \A i \in 1..Len(tpool_rspq') : i \in 1..Len(tpool_rspq) \/ i = Len(tpool_rspq) + 1
    BY <2>1, AppendOf DEF TpoolShape
  <2>3. Called(c) /\ ~Replied(c) /\ ~Requested(c)
    BY <2>1 DEF Called, TpoolPlaces
  <2>4. \A d : Replied(d)' <=> Replied(d) \/ d = c
    BY <2>2 DEF Replied
  <2>5. /\ tpool_worker'[w] = "signal"
        /\ \A v \in Workers : v # w => tpool_worker'[v] = tpool_worker[v]
    BY <2>1 DEF TpoolShape
  <2>6. \A d \in Calls : Called(d)' <=> Called(d) /\ d # c
    BY <1>3, <2>1, <2>5 DEF Called, TpoolPlaces
  <2> HIDE DEF c
  <2>7. TpoolShape'
    BY <1>1, <2>1, <2>2 DEF TpoolShape
  <2>8. TpoolPlaces'
    <3>1. ASSUME NEW i \in 1..Len(tpool_rspq'), NEW j \in 1..Len(tpool_rspq'),
                 tpool_rspq'[i] = tpool_rspq'[j]
          PROVE  i = j
      BY <2>2, <2>3, <3>1 DEF TpoolPlaces, Replied
    <3>2. \A u, v \in Workers :
            tpool_worker'[u] \in Calls /\ tpool_worker'[u] = tpool_worker'[v] => u = v
      BY <1>3, <2>5 DEF TpoolPlaces
    <3>3. ASSUME NEW d \in Calls
          PROVE  /\ ~(Requested(d)' /\ Replied(d)')
                 /\ ~(Requested(d)' /\ Called(d)')
                 /\ ~(Replied(d)' /\ Called(d)')
                 /\ tpool_call'[d] = "new" => ~Requested(d)' /\ ~Replied(d)' /\ ~Called(d)'
                 /\ tpool_accidents' = {} /\ tpool_call'[d] = "wait" =>
                      Requested(d)' \/ Replied(d)' \/ Called(d)'
      BY <1>1, <1>2, <2>1, <2>3, <2>4, <2>6 DEF TpoolPlaces
    <3> QED
      BY <1>1, <3>1, <3>2, <3>3 DEF TpoolPlaces
  <2>9. TpoolReplies'
    BY <1>1, <1>3, <2>1, <2>5 DEF TpoolReplies, c
  <2>10. TpoolStops'
    <3>1. TpoolOn' = TpoolOn
      BY <1>3, <2>1, <2>5 DEF TpoolOn, c
    <3> QED
      BY <1>1, <3>1 DEF TpoolStops
  <2> QED
    BY <2>7, <2>8, <2>9, <2>10
<1>5. CASE T!Signal(w)
  <2>1. /\ c = "signal" /\ tpool_bytes' = tpool_bytes + 1
        /\ tpool_worker' = [tpool_worker EXCEPT ![w] = "idle"]
        /\ tpool_rspq' = tpool_rspq
    BY <1>5 DEF T!Signal
  <2>2. /\ tpool_worker'[w] = "idle"
        /\ \A v \in Workers : v # w => tpool_worker'[v] = tpool_worker[v]
    BY <2>1 DEF TpoolShape
  <2>3. \A d \in Calls : (Called(d)' <=> Called(d)) /\ (Replied(d)' <=> Replied(d))
    BY <1>3, <2>1, <2>2 DEF Called, Replied
  <2>4. TpoolShape'
    BY <1>1, <2>1 DEF TpoolShape
  <2>5. TpoolPlaces'
    <3>1. \A u, v \in Workers :
            tpool_worker'[u] \in Calls /\ tpool_worker'[u] = tpool_worker'[v] => u = v
      BY <1>3, <2>2 DEF TpoolPlaces
    <3> QED
      BY <1>1, <1>2, <2>1, <2>3, <3>1 DEF TpoolPlaces
  <2>6. TpoolReplies'
    BY <1>1, <2>1, <2>2 DEF TpoolReplies, TpoolShape
  <2>7. TpoolStops'
    <3>1. TpoolOn' = TpoolOn
      BY <2>1, <2>2 DEF TpoolOn
    <3> QED
      BY <1>1, <3>1 DEF TpoolStops
  <2> QED
    BY <2>4, <2>5, <2>6, <2>7
<1>6. CASE T!Die(w)
  <2>1. /\ c \in Calls /\ "die" \in tpool_accidents
        /\ tpool_worker' = [tpool_worker EXCEPT ![w] = "off"]
        /\ tpool_rspq' = tpool_rspq /\ tpool_bytes' = tpool_bytes
    BY <1>6 DEF T!Die
  <2>2. /\ tpool_worker'[w] = "off"
        /\ \A v \in Workers : v # w => tpool_worker'[v] = tpool_worker[v]
    BY <2>1 DEF TpoolShape
  <2>3. \A d \in Calls : (Called(d)' => Called(d)) /\ (Replied(d)' <=> Replied(d))
    BY <1>3, <2>1, <2>2 DEF Called, Replied
  <2>4. TpoolShape'
    BY <1>1, <2>1 DEF TpoolShape
  <2>5. TpoolPlaces'
    <3>1. \A u, v \in Workers :
            tpool_worker'[u] \in Calls /\ tpool_worker'[u] = tpool_worker'[v] => u = v
      BY <1>3, <2>2 DEF TpoolPlaces
    <3> QED
      BY <1>1, <1>2, <2>1, <2>3, <3>1 DEF TpoolPlaces
  <2>6. TpoolReplies'
    BY <1>1, <1>3, <2>1, <2>2 DEF TpoolReplies
  <2>7. TpoolStops'
    BY <1>1, <2>1 DEF TpoolStops
  <2> QED
    BY <2>4, <2>5, <2>6, <2>7
<1> QED
  BY <1>4, <1>5, <1>6

LEMMA TpoolInvStep ==
  ASSUME TpoolInv, [T!TpoolNext]_(T!tpoolVars)
  PROVE  TpoolInv'
<1>1. CASE UNCHANGED T!tpoolVars
  BY <1>1 DEF T!tpoolVars, TpoolInv, TpoolShape, TpoolPlaces, TpoolReplies, TpoolStops,
              TpoolOn, Requested, Replied, Called
<1> QED
  BY <1>1, TpoolCallStep, TpoolSetupStep, TpoolTrampolineStep, TpoolKillallStep,
     TpoolTakeStep, TpoolWorkerStep DEF T!TpoolNext, T!Works

\* A call that is in one place at most is in at most one place of each queue.
LEMMA TpoolInvExact == TpoolInv => T!RepliesSeen
<1> SUFFICES ASSUME TpoolInv PROVE T!RepliesSeen
  OBVIOUS
<1> USE DEF TpoolInv
<1>1. ASSUME NEW c \in Calls
      PROVE  /\ T!Places(c) <= 1
             /\ tpool_accidents = {} /\ tpool_call[c] = "wait" => T!Places(c) = 1
  <2> DEFINE A == {i \in 1..Len(tpool_reqq) : tpool_reqq[i] = c}
             B == {i \in 1..Len(tpool_rspq) : tpool_rspq[i] = c}
             W == {w \in Workers : tpool_worker[w] = c}
  <2>1. T!Places(c) = Cardinality(A) + Cardinality(B) + Cardinality(W)
    BY SameCardinality DEF T!Places
  <2>2. /\ A = {} \/ \E x : A = {x}
        /\ B = {} \/ \E x : B = {x}
        /\ W = {} \/ \E x : W = {x}
    <3>1. \A x, y \in A : x = y
      BY DEF TpoolPlaces
    <3>2. \A x, y \in B : x = y
      BY DEF TpoolPlaces
    <3>3. \A x, y \in W : x = y
      BY DEF TpoolPlaces
    <3>4. ASSUME NEW X, \A x, y \in X : x = y PROVE X = {} \/ \E x : X = {x}
      <4>1. ASSUME NEW x \in X PROVE X = {x}
        BY <3>4
      <4> QED
        BY <4>1
    <3> HIDE DEF A, B, W
    <3> QED
      BY <3>1, <3>2, <3>3, <3>4
  <2>3. (Requested(c) <=> A # {}) /\ (Replied(c) <=> B # {}) /\ (Called(c) <=> W # {})
    BY DEF Requested, Replied, Called
  <2> HIDE DEF A, B, W
  <2>4. /\ Cardinality(A) = IF Requested(c) THEN 1 ELSE 0
        /\ Cardinality(B) = IF Replied(c) THEN 1 ELSE 0
        /\ Cardinality(W) = IF Called(c) THEN 1 ELSE 0
    BY <2>2, <2>3, FS_EmptySet, FS_Singleton
  <2>5. /\ ~(Requested(c) /\ Replied(c)) /\ ~(Requested(c) /\ Called(c)) /\ ~(Replied(c) /\ Called(c))
        /\ tpool_accidents = {} /\ tpool_call[c] = "wait" => Requested(c) \/ Replied(c) \/ Called(c)
    BY DEF TpoolPlaces
  <2> QED
    BY <2>1, <2>4, <2>5
<1> QED
  BY <1>1 DEF T!RepliesSeen, TpoolReplies

-----------------------------------------------------------------------------
(* DAGPool *)

DagShape ==
  /\ dag_values \in [Keys -> {None} \cup D!Results]
  /\ dag_coros \in [Keys -> Coros \cup {None}]
  /\ dag_key \in [Coros -> Keys \cup {None}]
  /\ dag_pc \in [D!Everybody -> {"unborn", "spawned", "body", "runs", "scan", "wait",
                                "kills", "dead"}]
  /\ dag_pending \in [D!Everybody -> SUBSET Keys]
  /\ dag_scan \in [D!Everybody -> SUBSET Keys]
  /\ dag_victim \in [Outsiders -> Keys \cup {None}]
  /\ dag_missed \in [D!Everybody -> SUBSET Keys]
  /\ dag_raced \in SUBSET Keys

\* self.coros and the greenthreads know each other, but for a key that was spawned
\* again in the middle of a kill().  What a kill() leaves in it has ended, so that
\* forgetting the key forgets nobody alive.
DagKnown ==
  /\ \A c \in Coros : D!Alive(c) =>
       dag_key[c] \in Keys /\ (dag_key[c] \notin dag_raced => dag_coros[dag_key[c]] = c)
  /\ \A c \in Coros : dag_pc[c] = "dead" => dag_key[c] \in Keys
  /\ \A k \in Keys : dag_coros[k] # None =>
       dag_key[dag_coros[k]] = k /\ dag_pc[dag_coros[k]] # "unborn"
  /\ \A k \in Keys \ dag_raced : dag_coros[k] # None /\ dag_pc[dag_coros[k]] = "dead" =>
       \E o \in Outsiders : dag_victim[o] = k
  /\ \A o \in Outsiders : dag_victim[o] # None =>
       /\ dag_pc[o] = "kills"
       /\ dag_victim[o] \notin dag_raced /\ dag_coros[dag_victim[o]] # None =>
            dag_pc[dag_coros[dag_victim[o]]] = "dead"

\* What a loop has passed over has no value, or got it behind its back: who is
\* about to look has all of its keys in view.
SeenBy(i) ==
  /\ dag_pc[i] = "wait" => dag_pending[i] \cap D!Available \subseteq dag_missed[i]
  /\ dag_pc[i] \in {"spawned", "scan"} => dag_scan[i] = dag_pending[i]
  /\ dag_pc[i] = "body" =>
       (dag_pending[i] \ dag_scan[i]) \cap D!Available \subseteq dag_missed[i]

DagSeen == \A i \in D!Everybody : SeenBy(i)

DagInv == DagShape /\ DagKnown /\ DagSeen


LEMMA DagInvInit == D!DagInit => DagInv
<1> SUFFICES ASSUME D!DagInit PROVE DagInv
  OBVIOUS
<1> USE ResourcesAssumption DEF D!DagInit, D!Everybody
<1>1. DagShape
  BY DEF DagShape, D!Results
<1>2. DagKnown
  BY DEF DagKnown, D!Alive
<1>3. DagSeen
  BY DEF DagSeen, SeenBy
<1> QED
  BY <1>1, <1>2, <1>3 DEF DagInv

\* Who comes to life or ends, kills or comes back from it is what matters for
\* self.coros; the rest of what greenthreads do is not.
LEMMA KnownKept ==
  ASSUME DagShape, DagKnown, UNCHANGED <<dag_coros, dag_key, dag_victim, dag_raced>>,
         \A j \in D!Everybody : \A s \in {"dead", "unborn", "kills"} :
           dag_pc'[j] = s <=> dag_pc[j] = s
  PROVE  DagKnown'
<1> USE ResourcesAssumption
<1>1. /\ \A c \in Coros : D!Alive(c)' <=> D!Alive(c)
      /\ \A c \in Coros : (dag_pc'[c] = "dead" <=> dag_pc[c] = "dead")
                          /\ (dag_pc'[c] = "unborn" <=> dag_pc[c] = "unborn")
      /\ \A o \in Outsiders : dag_pc'[o] = "kills" <=> dag_pc[o] = "kills"
  BY DEF D!Alive, D!Everybody
<1>2. \A k \in Keys : dag_coros[k] # None => dag_coros[k] \in Coros
  BY DEF DagShape
<1>3. ASSUME NEW o \in Outsiders, dag_victim[o] # None
      PROVE  /\ dag_pc'[o] = "kills"
             /\ dag_victim[o] \notin dag_raced /\ dag_coros[dag_victim[o]] # None =>
                  dag_pc'[dag_coros[dag_victim[o]]] = "dead"
  <2>1. dag_victim[o] \in Keys
    BY <1>3 DEF DagShape
  <2> QED
    BY <1>1, <1>2, <1>3, <2>1 DEF DagKnown
<1>4. \A k \in Keys \ dag_raced : dag_coros[k] # None /\ dag_pc'[dag_coros[k]] = "dead" =>
        \E o \in Outsiders : dag_victim[o] = k
  BY <1>1, <1>2 DEF DagKnown
<1>5. \A k \in Keys : dag_coros[k] # None =>
        dag_key[dag_coros[k]] = k /\ dag_pc'[dag_coros[k]] # "unborn"
  BY <1>1, <1>2 DEF DagKnown
<1> QED
  BY <1>1, <1>3, <1>4, <1>5 DEF DagKnown

\* A key gets a value: who waits looks again, and whose scan has passed the key
\* has missed it.
LEMMA DagValueSeen ==
  ASSUME DagShape, NEW j \in D!Everybody, SeenBy(j), NEW k \in Keys, NEW v \in D!Results,
         dag_values' = [dag_values EXCEPT ![k] = v],
         dag_pc'[j] = (IF dag_pc[j] = "wait" THEN "scan" ELSE dag_pc[j]),
         dag_scan'[j] = (IF dag_pc[j] = "wait" THEN dag_pending[j] ELSE dag_scan[j]),
         dag_pending'[j] = dag_pending[j],
         dag_missed'[j] = D!Missed(k)[j]
  PROVE  SeenBy(j)'
<1>1. \A x \in D!Available' : x \in D!Available \/ x = k
  BY DEF D!Available, DagShape
<1>2. CASE dag_pc[j] = "wait"
  BY <1>2 DEF SeenBy
<1>3. CASE dag_pc[j] # "wait" /\ dag_pc[j] # "body"
  BY <1>3 DEF SeenBy
<1>4. CASE dag_pc[j] = "body"
  <2>1. /\ dag_pc'[j] = "body" /\ dag_scan'[j] = dag_scan[j]
        /\ dag_missed'[j] = IF k \in dag_pending[j] \ dag_scan[j]
                             THEN dag_missed[j] \cup {k} ELSE dag_missed[j]
    BY <1>4 DEF D!Missed
  <2>2. (dag_pending[j] \ dag_scan[j]) \cap D!Available \subseteq dag_missed[j]
    BY <1>4 DEF SeenBy
  <2>3. (dag_pending[j] \ dag_scan[j]) \cap D!Available' \subseteq dag_missed'[j]
    BY <1>1, <2>1, <2>2
  <2> QED
    BY <2>1, <2>3 DEF SeenBy
<1> QED
  BY <1>2, <1>3, <1>4

\* post() tells everybody who waits.
LEMMA DagPostStep ==
  ASSUME DagInv, NEW i \in D!Everybody, NEW k \in Keys, NEW v \in D!Results,
         NEW replace \in BOOLEAN, D!Post(i, k, v, replace)
  PROVE  DagInv'
<1> USE ResourcesAssumption DEF DagInv
<1>1. /\ dag_values' = [dag_values EXCEPT ![k] = v]
      /\ dag_pc' = [j \in D!Everybody |-> IF dag_pc[j] = "wait" THEN "scan" ELSE dag_pc[j]]
      /\ dag_scan' = [j \in D!Everybody |-> IF dag_pc[j] = "wait" /\ dag_pc'[j] = "scan"
                                            THEN dag_pending[j] ELSE dag_scan[j]]
      /\ dag_missed' = D!Missed(k)
      /\ UNCHANGED <<dag_coros, dag_key, dag_pending, dag_victim, dag_raced>>
  BY DEF D!Post, D!Wake, D!Rescan
<1>2. D!Missed(k) \in [D!Everybody -> SUBSET Keys]
  BY DEF D!Missed, DagShape
<1>3. DagShape'
  BY <1>1, <1>2 DEF DagShape
<1>4. DagKnown'
  BY <1>1, KnownKept DEF DagShape
<1>5. DagSeen'
  BY <1>1, DagValueSeen DEF DagSeen
<1> QED
  BY <1>3, <1>4, <1>5

LEMMA DagFinishStep ==
  ASSUME DagInv, NEW c \in Coros, NEW v \in D!Results, D!Finish(c, v)
  PROVE  DagInv'
<1> USE ResourcesAssumption DEF DagInv
<1> DEFINE k == dag_key[c]
<1>1. /\ dag_pc[c] \in {"body", "runs"}
      /\ dag_coros' = [dag_coros EXCEPT ![k] = None]
      /\ UNCHANGED <<dag_key, dag_victim, dag_raced>>
      /\ c \in D!Everybody
  BY DEF D!Finish, D!Unregistered, D!Everybody
<1>k. k \in Keys
  BY <1>1 DEF DagKnown, D!Alive
<1>2. /\ dag_values' \in [Keys -> {None} \cup D!Results]
      /\ dag_pc' \in [D!Everybody -> {"unborn", "spawned", "body", "runs", "scan", "wait",
                                     "kills", "dead"}]
      /\ dag_scan' \in [D!Everybody -> SUBSET Keys]
      /\ dag_pending' \in [D!Everybody -> SUBSET Keys]
      /\ dag_missed' \in [D!Everybody -> SUBSET Keys]
      /\ dag_pc'[c] = "dead"
      /\ \A j \in D!Everybody : j # c =>
           /\ dag_pc'[j] = dag_pc[j] \/ (dag_pc[j] = "wait" /\ dag_pc'[j] = "scan")
           /\ SeenBy(j)'
  <2>1. CASE dag_coros[k] = None \/ k \in D!Available
    <3>1. /\ dag_pc' = [dag_pc EXCEPT ![c] = "dead"] /\ dag_values' = dag_values
          /\ dag_pending' = [dag_pending EXCEPT ![c] = {}]
          /\ dag_scan' = [dag_scan EXCEPT ![c] = {}]
          /\ dag_missed' = [dag_missed EXCEPT ![c] = {}]
      BY <2>1 DEF D!Finish, D!Gone
    <3>2. ASSUME NEW j \in D!Everybody, j # c
          PROVE  dag_pc'[j] = dag_pc[j] /\ SeenBy(j)'
      <4>1. /\ dag_pc'[j] = dag_pc[j] /\ dag_pending'[j] = dag_pending[j]
            /\ dag_scan'[j] = dag_scan[j] /\ dag_missed'[j] = dag_missed[j]
            /\ D!Available' = D!Available
        BY <3>1, <3>2 DEF DagShape, D!Available
      <4> QED
        BY <4>1 DEF DagSeen, SeenBy
    <3> QED
      BY <1>1, <3>1, <3>2 DEF DagShape
  <2>2. CASE ~(dag_coros[k] = None \/ k \in D!Available)
    <3>1. /\ dag_values' = [dag_values EXCEPT ![k] = v]
          /\ dag_pc' = [[j \in D!Everybody |-> IF dag_pc[j] = "wait" THEN "scan" ELSE dag_pc[j]]
                          EXCEPT ![c] = "dead"]
          /\ dag_scan' = [[j \in D!Everybody |-> IF dag_pc[j] = "wait" /\ dag_pc'[j] = "scan"
                                                THEN dag_pending[j] ELSE dag_scan[j]]
                            EXCEPT ![c] = {}]
          /\ dag_pending' = [dag_pending EXCEPT ![c] = {}]
          /\ dag_missed' = [D!Missed(k) EXCEPT ![c] = {}]
      BY <2>2 DEF D!Finish, D!Wake, D!Rescan, D!Gone
    <3>2. D!Missed(k) \in [D!Everybody -> SUBSET Keys]
      BY <1>k DEF D!Missed, DagShape
    <3>3. ASSUME NEW j \in D!Everybody, j # c
          PROVE  /\ dag_pc'[j] = dag_pc[j] \/ (dag_pc[j] = "wait" /\ dag_pc'[j] = "scan")
                 /\ SeenBy(j)'
      <4>1. /\ dag_pc'[j] = (IF dag_pc[j] = "wait" THEN "scan" ELSE dag_pc[j])
            /\ dag_scan'[j] = (IF dag_pc[j] = "wait" THEN dag_pending[j] ELSE dag_scan[j])
            /\ dag_pending'[j] = dag_pending[j]
            /\ dag_missed'[j] = D!Missed(k)[j]
        BY <3>1, <3>2, <3>3 DEF DagShape
      <4>2. SeenBy(j)'
        BY <1>k, <3>1, <4>1, DagValueSeen DEF DagSeen
      <4> QED
        BY <4>1, <4>2
    <3>4. /\ dag_values' \in [Keys -> {None} \cup D!Results]
          /\ dag_pending' \in [D!Everybody -> SUBSET Keys]
          /\ dag_missed' \in [D!Everybody -> SUBSET Keys]
      BY <1>k, <3>1, <3>2 DEF DagShape
    <3>5. /\ dag_pc' \in [D!Everybody -> {"unborn", "spawned", "body", "runs", "scan", "wait",
                                          "kills", "dead"}]
          /\ dag_pc'[c] = "dead"
      BY <1>1, <3>1 DEF DagShape
    <3>6. dag_scan' \in [D!Everybody -> SUBSET Keys]
      BY <3>1 DEF DagShape
    <3> QED
      BY <3>3, <3>4, <3>5, <3>6
  <2> QED
    BY <2>1, <2>2
<1>3. DagShape'
  BY <1>1, <1>2 DEF DagShape
<1>4. DagKnown'
  <2>1. k \in Keys /\ (k \notin dag_raced => dag_coros[k] = c)
    BY <1>1 DEF DagKnown, D!Alive
  <2>2. /\ dag_coros'[k] = None
        /\ \A x \in Keys : x # k => dag_coros'[x] = dag_coros[x]
    BY <1>1, <2>1 DEF DagShape
  <2>3. /\ \A d \in Coros : d # c =>
             /\ D!Alive(d)' <=> D!Alive(d)
             /\ dag_pc'[d] = "dead" <=> dag_pc[d] = "dead"
             /\ dag_pc'[d] = "unborn" <=> dag_pc[d] = "unborn"
        /\ ~D!Alive(c)'
        /\ \A o \in Outsiders : dag_pc'[o] = "kills" <=> dag_pc[o] = "kills"
    BY <1>2 DEF D!Alive, D!Everybody
  <2>4. \A x \in Keys : dag_coros'[x] # None =>
          x # k /\ dag_coros'[x] = dag_coros[x] /\ dag_coros[x] \in Coros /\ dag_coros[x] # c
    BY <2>1, <2>2 DEF DagKnown, DagShape
  <2>5. \A d \in Coros : D!Alive(d)' =>
          dag_key'[d] \in Keys /\ (dag_key'[d] \notin dag_raced => dag_coros'[dag_key'[d]] = d)
    BY <1>1, <2>1, <2>2, <2>3 DEF DagKnown
  <2>6. \A d \in Coros : dag_pc'[d] = "dead" => dag_key'[d] \in Keys
    BY <1>1, <2>1, <2>3 DEF DagKnown
  <2>7. \A x \in Keys : dag_coros'[x] # None =>
          dag_key'[dag_coros'[x]] = x /\ dag_pc'[dag_coros'[x]] # "unborn"
    BY <1>1, <2>3, <2>4 DEF DagKnown
  <2>8. \A x \in Keys \ dag_raced : dag_coros'[x] # None /\ dag_pc'[dag_coros'[x]] = "dead" =>
          \E o \in Outsiders : dag_victim'[o] = x
    BY <1>1, <2>3, <2>4 DEF DagKnown
  <2>9. ASSUME NEW o \in Outsiders, dag_victim'[o] # None
        PROVE  /\ dag_pc'[o] = "kills"
               /\ dag_victim'[o] \notin dag_raced /\ dag_coros'[dag_victim'[o]] # None =>
                    dag_pc'[dag_coros'[dag_victim'[o]]] = "dead"
    <3>1. dag_victim'[o] = dag_victim[o] /\ dag_victim[o] \in Keys
      BY <1>1, <2>9 DEF DagShape
    <3> QED
      BY <2>3, <2>4, <2>9, <3>1 DEF DagKnown
  <2> QED
    BY <1>1, <2>5, <2>6, <2>7, <2>8, <2>9 DEF DagKnown
<1>5. DagSeen'
  BY <1>2 DEF DagSeen, SeenBy
<1> QED
  BY <1>3, <1>4, <1>5


\* A greenthread or a loop goes on with its keys and changes nothing else.
LEMMA DagLoopStep ==
  ASSUME DagInv, NEW i \in D!Everybody,
         \/ i \in Coros /\ D!Start(i)
         \/ i \in Outsiders /\ \E keys \in SUBSET Keys : D!WaitEach(i, keys)
         \/ D!Deliver(i)
         \/ D!ScanEnds(i)
         \/ i \in Outsiders /\ D!Leave(i)
  PROVE  DagInv'
<1> USE ResourcesAssumption DEF DagInv
<1> DEFINE Mine(p, pending, scan, missed) ==
      /\ p = "wait" => pending \cap D!Available \subseteq missed
      /\ p \in {"spawned", "scan"} => scan = pending
      /\ p = "body" => (pending \ scan) \cap D!Available \subseteq missed
<1>1. /\ UNCHANGED <<dag_values, dag_coros, dag_key, dag_victim, dag_raced>>
      /\ dag_pc[i] \in {"spawned", "body", "runs", "scan"}
  BY DEF D!Start, D!WaitEach, D!Deliver, D!ScanEnds, D!Leave
<1> DEFINE Goes(p, pending, scan, missed) ==
      /\ dag_pc' = [dag_pc EXCEPT ![i] = p]
      /\ dag_pending' = [dag_pending EXCEPT ![i] = pending]
      /\ dag_scan' = [dag_scan EXCEPT ![i] = scan]
      /\ dag_missed' = [dag_missed EXCEPT ![i] = missed]
      /\ Mine(p, pending, scan, missed)
<1>2. \E p \in {"body", "runs", "scan", "wait"}, x, y, m \in SUBSET Keys : Goes(p, x, y, m)
  <2>1. /\ dag_pending[i] \in SUBSET Keys /\ dag_scan[i] \in SUBSET Keys
        /\ dag_missed[i] \in SUBSET Keys
        /\ dag_pending = [dag_pending EXCEPT ![i] = dag_pending[i]]
        /\ dag_scan = [dag_scan EXCEPT ![i] = dag_scan[i]]
        /\ dag_missed = [dag_missed EXCEPT ![i] = dag_missed[i]]
        /\ Mine(dag_pc[i], dag_pending[i], dag_scan[i], dag_missed[i])
    BY DEF DagShape, DagSeen, SeenBy
  <2>2. CASE D!Start(i)
    <3>1. Mine("body", dag_pending[i], dag_scan[i], dag_missed[i])
      BY <2>1, <2>2 DEF D!Start
    <3>2. /\ dag_pc' = [dag_pc EXCEPT ![i] = "body"]
          /\ dag_pending' = dag_pending /\ dag_scan' = dag_scan /\ dag_missed' = dag_missed
      BY <2>2 DEF D!Start
    <3>3. Goes("body", dag_pending[i], dag_scan[i], dag_missed[i])
      BY <2>1, <3>1, <3>2
    <3> HIDE DEF Goes
    <3> QED
      BY <2>1, <3>3
  <2>3. ASSUME NEW keys \in SUBSET Keys, D!WaitEach(i, keys)
        PROVE  <1>2
    <3>1. Goes("scan", keys, keys, {})
      BY <2>3 DEF D!WaitEach
    <3> HIDE DEF Goes
    <3> QED
      BY <3>1
  <2>4. CASE D!Deliver(i)
    <3>1. PICK k \in dag_scan[i] \cap D!Available :
            \/ /\ \E passed \in SUBSET (dag_scan[i] \ D!Available) :
                    dag_scan' = [dag_scan EXCEPT ![i] = @ \ (passed \cup {k})]
               /\ dag_pending' = [dag_pending EXCEPT ![i] = @ \ {k}]
               /\ dag_pc' = [dag_pc EXCEPT ![i] = "body"]
               /\ dag_missed' = dag_missed
            \/ D!Gone(i, dag_scan, dag_missed) /\ dag_pc' = [dag_pc EXCEPT ![i] = "runs"]
      BY <2>4 DEF D!Deliver
    <3>2. CASE D!Gone(i, dag_scan, dag_missed) /\ dag_pc' = [dag_pc EXCEPT ![i] = "runs"]
      <4>1. Goes("runs", {}, {}, {})
        BY <3>2 DEF D!Gone
      <4> HIDE DEF Goes
      <4> QED
        BY <4>1
    <3>3. ASSUME NEW passed \in SUBSET (dag_scan[i] \ D!Available),
                 /\ dag_scan' = [dag_scan EXCEPT ![i] = @ \ (passed \cup {k})]
                 /\ dag_pending' = [dag_pending EXCEPT ![i] = @ \ {k}]
                 /\ dag_pc' = [dag_pc EXCEPT ![i] = "body"]
                 /\ dag_missed' = dag_missed
          PROVE  <1>2
      <4> DEFINE y == dag_scan[i] \ (passed \cup {k})
                 x == dag_pending[i] \ {k}
      <4>1. (dag_pending[i] \ dag_scan[i]) \cap D!Available \subseteq dag_missed[i]
        BY <2>1, <2>4 DEF D!Deliver
      <4>2. Mine("body", x, y, dag_missed[i])
        BY <3>1, <4>1
      <4>3. /\ y \in SUBSET Keys /\ x \in SUBSET Keys
            /\ dag_scan' = [dag_scan EXCEPT ![i] = y]
            /\ dag_pending' = [dag_pending EXCEPT ![i] = x]
        BY <2>1, <3>3 DEF DagShape
      <4>4. Goes("body", x, y, dag_missed[i])
        BY <2>1, <3>3, <4>2, <4>3
      <4> HIDE DEF Goes, x, y
      <4> QED
        BY <2>1, <4>3, <4>4
    <3> QED
      BY <3>1, <3>2, <3>3
  <2>5. CASE D!ScanEnds(i)
    <3> DEFINE p == IF dag_pending[i] = {} THEN "runs" ELSE "wait"
    <3>1. Mine(p, dag_pending[i], {}, dag_missed[i])
      BY <2>1, <2>5 DEF D!ScanEnds
    <3>2. /\ dag_pc' = [dag_pc EXCEPT ![i] = p]
          /\ dag_pending' = dag_pending /\ dag_missed' = dag_missed
          /\ dag_scan' = [dag_scan EXCEPT ![i] = {}]
      BY <2>5 DEF D!ScanEnds
    <3>3. p \in {"runs", "wait"} /\ Goes(p, dag_pending[i], {}, dag_missed[i])
      BY <2>1, <3>1, <3>2
    <3> HIDE DEF Goes, p
    <3> QED
      BY <2>1, <3>3
  <2>6. CASE D!Leave(i)
    <3>1. Goes("runs", {}, {}, {})
      BY <2>6 DEF D!Leave, D!Gone
    <3> HIDE DEF Goes
    <3> QED
      BY <3>1
  <2> QED
    BY <2>2, <2>3, <2>4, <2>5, <2>6
<1>3. PICK p \in {"body", "runs", "scan", "wait"}, x, y, m \in SUBSET Keys : Goes(p, x, y, m)
  BY <1>2
<1>4. DagShape'
  BY <1>1, <1>3 DEF DagShape
<1>5. DagKnown'
  <2>1. \A j \in D!Everybody : \A s \in {"dead", "unborn", "kills"} :
          dag_pc'[j] = s <=> dag_pc[j] = s
    BY <1>1, <1>3 DEF DagShape
  <2> QED
    BY <1>1, <2>1, KnownKept
<1>6. DagSeen'
  <2>1. D!Available' = D!Available
    BY <1>1 DEF D!Available
  <2>2. SeenBy(i)'
    BY <1>3, <2>1 DEF DagShape, SeenBy
  <2>3. \A j \in D!Everybody : j # i => SeenBy(j)'
    BY <1>3, <2>1 DEF DagSeen, DagShape, SeenBy
  <2> QED
    BY <2>2, <2>3 DEF DagSeen
<1> QED
  BY <1>4, <1>5, <1>6

LEMMA DagSpawnStep ==
  ASSUME DagInv, NEW c \in Coros, NEW k \in Keys, NEW depends \in SUBSET Keys,
         D!Spawn(c, k, depends)
  PROVE  DagInv'
<1> USE ResourcesAssumption DEF DagInv
<1>1. /\ dag_pc[c] = "unborn" /\ dag_coros[k] = None /\ c \in D!Everybody
      /\ dag_raced' \in SUBSET Keys /\ dag_raced \subseteq dag_raced'
      /\ k \notin dag_raced' => \A o \in Outsiders : dag_victim[o] # k
      /\ dag_coros' = [dag_coros EXCEPT ![k] = c]
      /\ dag_key' = [dag_key EXCEPT ![c] = k]
      /\ dag_pc' = [dag_pc EXCEPT ![c] = "spawned"]
      /\ dag_pending' = [dag_pending EXCEPT ![c] = depends]
      /\ dag_scan' = [dag_scan EXCEPT ![c] = depends]
      /\ UNCHANGED <<dag_values, dag_victim, dag_missed>>
  BY DEF D!Spawn, D!Everybody, DagShape
<1>2. DagShape'
  BY <1>1 DEF DagShape
<1>3. DagKnown'
  <2>1. /\ dag_coros'[k] = c /\ dag_key'[c] = k /\ dag_pc'[c] = "spawned"
        /\ \A x \in Keys : x # k => dag_coros'[x] = dag_coros[x]
        /\ \A d \in Coros : d # c => dag_key'[d] = dag_key[d]
        /\ \A j \in D!Everybody : j # c => dag_pc'[j] = dag_pc[j]
    BY <1>1 DEF DagShape
  <2>2. \A d \in Coros : d \in D!Everybody
    BY DEF D!Everybody
  <2>3. \A x \in Keys : dag_coros[x] # None => dag_coros[x] \in Coros /\ dag_coros[x] # c
    BY <1>1 DEF DagKnown, DagShape
  <2>4. ASSUME NEW d \in Coros, D!Alive(d)'
        PROVE  dag_key'[d] \in Keys /\ (dag_key'[d] \notin dag_raced' => dag_coros'[dag_key'[d]] = d)
    <3>1. CASE d = c
      BY <1>1, <2>1, <3>1
    <3>2. CASE d # c
      <4>1. D!Alive(d) /\ dag_key'[d] = dag_key[d]
        BY <2>1, <2>2, <2>4, <3>2 DEF D!Alive
      <4>2. dag_key[d] \in Keys /\ (dag_key[d] \notin dag_raced => dag_coros[dag_key[d]] = d)
        BY <4>1 DEF DagKnown
      <4> QED
        BY <1>1, <2>1, <4>1, <4>2
    <3> QED
      BY <3>1, <3>2
  <2>5. \A d \in Coros : dag_pc'[d] = "dead" => dag_key'[d] \in Keys
    BY <2>1, <2>2 DEF DagKnown
  <2>6. \A x \in Keys : dag_coros'[x] # None =>
          dag_key'[dag_coros'[x]] = x /\ dag_pc'[dag_coros'[x]] # "unborn"
    BY <2>1, <2>2, <2>3 DEF DagKnown
  <2>7. \A x \in Keys \ dag_raced' : dag_coros'[x] # None /\ dag_pc'[dag_coros'[x]] = "dead" =>
          \E o \in Outsiders : dag_victim'[o] = x
    BY <1>1, <2>1, <2>2, <2>3 DEF DagKnown
  <2>8. ASSUME NEW o \in Outsiders, dag_victim'[o] # None
        PROVE  /\ dag_pc'[o] = "kills"
               /\ dag_victim'[o] \notin dag_raced' /\ dag_coros'[dag_victim'[o]] # None =>
                    dag_pc'[dag_coros'[dag_victim'[o]]] = "dead"
    <3>1. /\ dag_victim'[o] = dag_victim[o] /\ dag_victim[o] \in Keys
          /\ dag_victim[o] \notin dag_raced' => dag_victim[o] # k
          /\ o \in D!Everybody /\ o # c
      BY <1>1, <2>8 DEF DagShape, D!Everybody
    <3>2. /\ dag_pc[o] = "kills"
          /\ dag_victim[o] \notin dag_raced /\ dag_coros[dag_victim[o]] # None =>
               dag_pc[dag_coros[dag_victim[o]]] = "dead"
      BY <2>8, <3>1 DEF DagKnown
    <3> QED
      BY <1>1, <2>1, <2>2, <2>3, <3>1, <3>2
  <2> QED
    BY <2>4, <2>5, <2>6, <2>7, <2>8 DEF DagKnown
<1>4. DagSeen'
  <2>1. D!Available' = D!Available
    BY <1>1 DEF D!Available
  <2> QED
    BY <1>1, <2>1 DEF DagSeen, SeenBy, DagShape
<1> QED
  BY <1>2, <1>3, <1>4

LEMMA DagKillStep ==
  ASSUME DagInv, NEW o \in Outsiders, NEW k \in Keys, D!Kill(o, k)
  PROVE  DagInv'
<1> USE ResourcesAssumption DEF DagInv
<1> DEFINE c == dag_coros[k]
<1>1. /\ dag_pc[o] = "runs" /\ c # None /\ c \in Coros /\ dag_pc[c] # "dead" /\ o # c
      /\ c \in D!Everybody /\ o \in D!Everybody
      /\ dag_victim' = [dag_victim EXCEPT ![o] = k]
      /\ dag_coros' = dag_coros \/ dag_coros' = [dag_coros EXCEPT ![k] = None]
      /\ dag_pc' = [dag_pc EXCEPT ![o] = "kills", ![c] = "dead"]
      /\ dag_pending' = [dag_pending EXCEPT ![c] = {}]
      /\ dag_scan' = [dag_scan EXCEPT ![c] = {}]
      /\ dag_missed' = [dag_missed EXCEPT ![c] = {}]
      /\ UNCHANGED <<dag_values, dag_key, dag_raced>>
  BY DEF D!Kill, D!Gone, D!Unregistered, D!Everybody, DagShape
<1>2. DagShape'
  BY <1>1 DEF DagShape
<1>3. /\ dag_pc'[o] = "kills" /\ dag_pc'[c] = "dead"
      /\ \A j \in D!Everybody : j # o /\ j # c => dag_pc'[j] = dag_pc[j]
  BY <1>1 DEF DagShape
<1>4. DagKnown'
  <2>1. /\ dag_victim'[o] = k
        /\ \A p \in Outsiders : p # o => dag_victim'[p] = dag_victim[p]
        /\ \A p \in Outsiders : p \in D!Everybody /\ p # c
        /\ \A d \in Coros : d \in D!Everybody /\ d # o
    BY <1>1 DEF DagShape, D!Everybody
  <2>2. \A x \in Keys : dag_coros'[x] # None =>
          dag_coros'[x] = dag_coros[x] /\ dag_coros[x] \in Coros /\ (x # k => dag_coros[x] # c)
    BY <1>1 DEF DagKnown, DagShape
  <2>3. \A x \in Keys : x # k => dag_coros'[x] = dag_coros[x]
    BY <1>1 DEF DagShape
  <2>4. ASSUME NEW d \in Coros, D!Alive(d)'
        PROVE  dag_key'[d] \in Keys /\ (dag_key'[d] \notin dag_raced => dag_coros'[dag_key'[d]] = d)
    <3>1. d # c /\ D!Alive(d)
      BY <1>3, <2>1, <2>4 DEF D!Alive
    <3>2. dag_key[d] \in Keys /\ (dag_key[d] \notin dag_raced => dag_coros[dag_key[d]] = d)
      BY <3>1 DEF DagKnown
    <3> QED
      BY <1>1, <2>3, <3>1, <3>2
  <2>5. \A d \in Coros : dag_pc'[d] = "dead" => dag_key'[d] \in Keys
    BY <1>1, <1>3, <2>1 DEF DagKnown
  <2>6. ASSUME NEW x \in Keys, dag_coros'[x] # None
        PROVE  dag_key'[dag_coros'[x]] = x /\ dag_pc'[dag_coros'[x]] # "unborn"
    <3>1. /\ dag_coros'[x] = dag_coros[x] /\ dag_coros[x] \in Coros
          /\ dag_key[dag_coros[x]] = x /\ dag_pc[dag_coros[x]] # "unborn"
      BY <2>2, <2>6 DEF DagKnown
    <3> QED
      BY <1>1, <1>3, <2>1, <3>1
  <2>7. ASSUME NEW x \in Keys \ dag_raced, dag_coros'[x] # None, dag_pc'[dag_coros'[x]] = "dead"
        PROVE  \E p \in Outsiders : dag_victim'[p] = x
    <3>1. CASE x = k
      BY <2>1, <3>1
    <3>2. CASE x # k
      <4>1. dag_coros[x] # None /\ dag_pc[dag_coros[x]] = "dead"
        BY <1>3, <2>1, <2>2, <2>7, <3>2
      <4>2. PICK p \in Outsiders : dag_victim[p] = x
        BY <4>1 DEF DagKnown
      <4>3. p # o
        BY <1>1, <4>2 DEF DagKnown
      <4> QED
        BY <2>1, <4>2, <4>3
    <3> QED
      BY <3>1, <3>2
  <2>8. ASSUME NEW p \in Outsiders, dag_victim'[p] # None
        PROVE  /\ dag_pc'[p] = "kills"
               /\ dag_victim'[p] \notin dag_raced /\ dag_coros'[dag_victim'[p]] # None =>
                    dag_pc'[dag_coros'[dag_victim'[p]]] = "dead"
    <3>1. CASE p = o
      BY <1>3, <2>1, <2>2, <3>1
    <3>2. CASE p # o
      <4>1. /\ dag_victim'[p] = dag_victim[p] /\ dag_victim[p] \in Keys
            /\ dag_pc[p] = "kills"
            /\ dag_victim[p] \notin dag_raced /\ dag_coros[dag_victim[p]] # None =>
                 dag_pc[dag_coros[dag_victim[p]]] = "dead"
        BY <2>1, <2>8, <3>2 DEF DagShape, DagKnown
      <4> QED
        BY <1>3, <2>1, <2>2, <3>2, <4>1
    <3> QED
      BY <3>1, <3>2
  <2>9. dag_raced' = dag_raced
    BY <1>1
  <2> HIDE DEF c
  <2> QED
    BY <2>4, <2>5, <2>6, <2>7, <2>8, <2>9 DEF DagKnown
<1>5. DagSeen'
  <2>1. D!Available' = D!Available
    BY <1>1 DEF D!Available
  <2> QED
    BY <1>1, <1>3, <2>1 DEF DagSeen, SeenBy, DagShape
<1> QED
  BY <1>2, <1>4, <1>5

LEMMA DagKillReturnsStep ==
  ASSUME DagInv, NEW o \in Outsiders, D!KillReturns(o)
  PROVE  DagInv'
<1> USE ResourcesAssumption DEF DagInv
<1> DEFINE k == dag_victim[o]
<1>1. /\ dag_pc[o] = "kills" /\ o \in D!Everybody
      /\ dag_coros' = [dag_coros EXCEPT ![k] = None]
      /\ dag_victim' = [dag_victim EXCEPT ![o] = None]
      /\ dag_pc' = [dag_pc EXCEPT ![o] = "runs"]
      /\ UNCHANGED <<dag_values, dag_key, dag_pending, dag_scan, dag_missed, dag_raced>>
  BY DEF D!KillReturns, D!Unregistered, D!Everybody
<1>2. DagShape'
  BY <1>1 DEF DagShape
<1>3. dag_pc'[o] = "runs" /\ \A j \in D!Everybody : j # o => dag_pc'[j] = dag_pc[j]
  BY <1>1 DEF DagShape
<1>4. DagKnown'
  <2>1. /\ dag_victim'[o] = None
        /\ \A p \in Outsiders : p # o => dag_victim'[p] = dag_victim[p]
        /\ \A p \in Outsiders : p \in D!Everybody
        /\ \A d \in Coros : d \in D!Everybody /\ d # o
    BY <1>1 DEF DagShape, D!Everybody
  <2>2. \A x \in Keys : dag_coros'[x] # None =>
          x # k /\ dag_coros'[x] = dag_coros[x] /\ dag_coros[x] \in Coros
    BY <1>1 DEF DagShape
  <2>3. \A x \in Keys : x # k => dag_coros'[x] = dag_coros[x]
    BY <1>1 DEF DagShape
  <2>4. k \in Keys \ dag_raced /\ dag_coros[k] # None => dag_pc[dag_coros[k]] = "dead"
    BY DEF DagKnown
  <2>5. ASSUME NEW d \in Coros, D!Alive(d)'
        PROVE  dag_key'[d] \in Keys /\ (dag_key'[d] \notin dag_raced => dag_coros'[dag_key'[d]] = d)
    <3>1. D!Alive(d)
      BY <1>3, <2>1, <2>5 DEF D!Alive
    <3>2. dag_key[d] \in Keys /\ (dag_key[d] \notin dag_raced => dag_coros[dag_key[d]] = d)
      BY <3>1 DEF DagKnown
    <3> QED
      BY <1>1, <2>3, <2>4, <3>1, <3>2 DEF D!Alive
  <2>6. \A d \in Coros : dag_pc'[d] = "dead" => dag_key'[d] \in Keys
    BY <1>1, <1>3, <2>1 DEF DagKnown
  <2>7. \A x \in Keys : dag_coros'[x] # None =>
          dag_key'[dag_coros'[x]] = x /\ dag_pc'[dag_coros'[x]] # "unborn"
    BY <1>1, <1>3, <2>1, <2>2 DEF DagKnown
  <2>8. \A x \in Keys \ dag_raced : dag_coros'[x] # None /\ dag_pc'[dag_coros'[x]] = "dead" =>
          \E p \in Outsiders : dag_victim'[p] = x
    <3> SUFFICES ASSUME NEW x \in Keys \ dag_raced, dag_coros'[x] # None,
                        dag_pc'[dag_coros'[x]] = "dead"
                 PROVE  \E p \in Outsiders : dag_victim'[p] = x
      OBVIOUS
    <3>1. dag_coros[x] # None /\ dag_pc[dag_coros[x]] = "dead" /\ x # k
      BY <1>3, <2>1, <2>2
    <3>2. PICK p \in Outsiders : dag_victim[p] = x
      BY <3>1 DEF DagKnown
    <3> QED
      BY <2>1, <3>1, <3>2
  <2>9. ASSUME NEW p \in Outsiders, dag_victim'[p] # None
        PROVE  /\ dag_pc'[p] = "kills"
               /\ dag_victim'[p] \notin dag_raced /\ dag_coros'[dag_victim'[p]] # None =>
                    dag_pc'[dag_coros'[dag_victim'[p]]] = "dead"
    <3>1. /\ p # o /\ dag_victim'[p] = dag_victim[p] /\ dag_victim[p] \in Keys
          /\ dag_pc[p] = "kills"
          /\ dag_victim[p] \notin dag_raced /\ dag_coros[dag_victim[p]] # None =>
               dag_pc[dag_coros[dag_victim[p]]] = "dead"
      BY <2>1, <2>9 DEF DagShape, DagKnown
    <3> QED
      BY <1>3, <2>1, <2>2, <3>1
  <2> QED
    BY <1>1, <2>5, <2>6, <2>7, <2>8, <2>9 DEF DagKnown
<1>5. DagSeen'
  <2>1. D!Available' = D!Available
    BY <1>1 DEF D!Available
  <2> QED
    BY <1>1, <1>3, <2>1 DEF DagSeen, SeenBy
<1> QED
  BY <1>2, <1>4, <1>5

LEMMA DagInvStep == DagInv /\ (D!DagNext \/ UNCHANGED dagVars) => DagInv'
<1> SUFFICES ASSUME DagInv, D!DagNext \/ UNCHANGED dagVars PROVE DagInv'
  OBVIOUS
<1> USE DEF D!Everybody
<1>1. ASSUME NEW i \in D!Everybody, D!Progress(i) PROVE DagInv'
  <2>1. CASE D!Deliver(i) \/ D!ScanEnds(i) \/ (i \in Coros /\ D!Start(i))
             \/ (i \in Outsiders /\ D!Leave(i))
    BY <2>1, DagLoopStep
  <2>2. ASSUME i \in Coros, NEW v \in D!Results, D!Finish(i, v) PROVE DagInv'
    BY <2>2, DagFinishStep
  <2>3. CASE i \in Outsiders /\ D!KillReturns(i)
    BY <2>3, DagKillReturnsStep
  <2> QED
    BY <1>1, <2>1, <2>2, <2>3 DEF D!Progress
<1>2. ASSUME NEW i \in D!Everybody, NEW k \in Keys, NEW v \in D!Results,
             NEW replace \in BOOLEAN, D!Post(i, k, v, replace)
      PROVE  DagInv'
  BY <1>2, DagPostStep
<1>3. ASSUME NEW c \in Coros, NEW k \in Keys, NEW depends \in SUBSET Keys,
             D!Spawn(c, k, depends)
      PROVE  DagInv'
  BY <1>3, DagSpawnStep
<1>4. ASSUME NEW o \in Outsiders, \E keys \in SUBSET Keys : D!WaitEach(o, keys)
      PROVE  DagInv'
  BY <1>4, DagLoopStep
<1>5. ASSUME NEW o \in Outsiders, NEW k \in Keys, D!Kill(o, k) PROVE DagInv'
  BY <1>5, DagKillStep
<1>6. CASE UNCHANGED dagVars
  BY <1>6 DEF dagVars, DagInv, DagShape, DagKnown, DagSeen, SeenBy, D!Alive, D!Available
<1> QED
  BY <1>1, <1>2, <1>3, <1>4, <1>5, <1>6 DEF D!DagNext

LEMMA DagInvExact == DagInv => D!CorosExact /\ D!NoneOverlooked
<1> SUFFICES ASSUME DagInv PROVE D!CorosExact /\ D!NoneOverlooked
  OBVIOUS
<1>1. D!CorosExact
  BY ResourcesAssumption DEF DagInv, DagKnown, D!CorosExact
<1>2. D!NoneOverlooked
  BY DEF DagInv, DagSeen, SeenBy, D!NoneOverlooked
<1> QED
  BY <1>1, <1>2

-----------------------------------------------------------------------------
(* Timeout *)

\* What the variables are, as far as the proof depends on it.
TimeoutShape ==
  /\ timeout_blocks \in [Sleepers -> Seq(Timeouts)]
  /\ timeout_raised \in [Sleepers -> Timeouts \cup {None}]
  /\ timeout_due = [o \in Timeouts |-> timeout_due[o]]
  /\ timeout_target \in [Timeouts -> Sleepers \cup {None}]
  /\ \A o \in Timeouts : timeout_due[o] # None => timeout_target[o] \in Sleepers

TimeoutInv == TimeoutShape /\ O!TimeoutsExact

\* Entering a block keeps those around it.
LEMMA InnerBlock ==
  ASSUME NEW S, NEW o \in S, NEW q \in Seq(S)
  PROVE  /\ <<o>> \o q \in Seq(S)
         /\ O!Contains(<<o>> \o q, o)
         /\ \A p : O!Contains(q, p) => O!Contains(<<o>> \o q, p)
<1>1. /\ <<o>> \o q \in Seq(S) /\ Len(<<o>> \o q) = Len(q) + 1
      /\ (<<o>> \o q)[1] = o
      /\ \A i \in 1..Len(q) : (<<o>> \o q)[i + 1] = q[i]
  OBVIOUS
<1>2. O!Contains(<<o>> \o q, o)
  BY <1>1 DEF O!Contains
<1>3. ASSUME NEW p, O!Contains(q, p)
      PROVE  O!Contains(<<o>> \o q, p)
  <2>1. PICK i \in 1..Len(q) : q[i] = p
    BY <1>3 DEF O!Contains
  <2>2. (<<o>> \o q)[i + 1] = p /\ i + 1 \in 1..Len(<<o>> \o q)
    BY <1>1, <2>1
  <2> QED
    BY <2>2 DEF O!Contains
<1> QED
  BY <1>1, <1>2, <1>3

\* Leaving a block leaves those around it.
LEMMA OuterBlocks ==
  ASSUME NEW S, NEW q \in Seq(S), q # <<>>
  PROVE  /\ Head(q) \in S /\ Tail(q) \in Seq(S)
         /\ \A p : O!Contains(q, p) /\ p # Head(q) => O!Contains(Tail(q), p)
<1>1. /\ Head(q) \in S /\ Tail(q) \in Seq(S) /\ Len(Tail(q)) = Len(q) - 1
      /\ q[1] = Head(q) /\ Len(q) \in Nat
      /\ \A i \in 2..Len(q) : Tail(q)[i - 1] = q[i]
  OBVIOUS
<1>2. ASSUME NEW p, O!Contains(q, p), p # Head(q)
      PROVE  O!Contains(Tail(q), p)
  <2>1. PICK i \in 1..Len(q) : q[i] = p
    BY <1>2 DEF O!Contains
  <2>2. i \in 2..Len(q)
    BY <1>1, <1>2, <2>1
  <2>3. Tail(q)[i - 1] = p /\ i - 1 \in 1..Len(Tail(q))
    BY <1>1, <2>1, <2>2
  <2> QED
    BY <2>3 DEF O!Contains
<1> QED
  BY <1>1, <1>2

LEMMA TimeoutInvInit ==
  ASSUME O!TimeoutInit
  PROVE  TimeoutInv
<1>1. \A t \in Sleepers : timeout_blocks[t] = <<>> /\ timeout_raised[t] = None
  BY DEF O!TimeoutInit
<1>2. \A o \in Timeouts : timeout_due[o] = None
  BY DEF O!TimeoutInit
<1>3. TimeoutShape
  BY <1>2 DEF O!TimeoutInit, TimeoutShape
<1> QED
  BY <1>1, <1>2, <1>3, ResourcesAssumption DEF TimeoutInv, O!TimeoutsExact

LEMMA TimeoutInvStep ==
  ASSUME TimeoutInv, O!TimeoutNext \/ UNCHANGED timeoutVars
  PROVE  TimeoutInv'
<1> USE ResourcesAssumption DEF TimeoutInv, TimeoutShape, O!TimeoutsExact
<1>1. ASSUME NEW t \in Sleepers, NEW o \in Timeouts, NEW seconds \in Delays,
             O!Enter(t, o, seconds)
      PROVE  TimeoutInv'
  <2>1. /\ timeout_blocks' = [timeout_blocks EXCEPT ![t] = <<o>> \o @]
        /\ timeout_target' = [timeout_target EXCEPT ![o] = t]
        /\ timeout_raised' = timeout_raised /\ timeout_raised[t] = None
        /\ timeout_due' = [o2 \in Timeouts |-> timeout_due'[o2]]
        /\ \A p \in Timeouts \ {o} : timeout_due'[p] = timeout_due[p]
    BY <1>1 DEF O!Enter, O!Start, O!Runs
  <2>2. /\ timeout_blocks'[t] \in Seq(Timeouts) /\ O!Contains(timeout_blocks'[t], o)
        /\ \A p : O!Contains(timeout_blocks[t], p) => O!Contains(timeout_blocks'[t], p)
    BY <2>1, InnerBlock
  <2>3. \A u \in Sleepers : \A p :
          O!Contains(timeout_blocks[u], p) => O!Contains(timeout_blocks'[u], p)
    BY <2>1, <2>2
  <2>4. \A p \in Timeouts : timeout_due'[p] # None =>
          /\ timeout_target'[p] \in Sleepers
          /\ O!Contains(timeout_blocks'[timeout_target'[p]], p)
    BY <2>1, <2>2, <2>3
  <2>5. TimeoutShape'
    BY <2>1, <2>2, <2>4
  <2> QED
    BY <2>1, <2>3, <2>4, <2>5
<1>2. ASSUME NEW t \in Sleepers, NEW o \in Timeouts, NEW seconds \in Delays,
             O!Restart(t, o, seconds)
      PROVE  TimeoutInv'
  BY <1>2 DEF O!Restart, O!Start
<1>3. ASSUME NEW t \in Sleepers, O!Exit(t)
      PROVE  TimeoutInv'
  <2> DEFINE o == Head(timeout_blocks[t])
  <2>1. /\ timeout_blocks' = [timeout_blocks EXCEPT ![t] = Tail(@)] /\ timeout_blocks[t] # <<>>
        /\ timeout_due' = [timeout_due EXCEPT ![o] = None] /\ timeout_target' = timeout_target
        /\ timeout_raised' = [timeout_raised EXCEPT ![t] = IF O!Suppresses(o, @) THEN None ELSE @]
    BY <1>3 DEF O!Exit, O!Cancelled
  <2>2. /\ o \in Timeouts /\ timeout_blocks'[t] \in Seq(Timeouts)
        /\ \A p : O!Contains(timeout_blocks[t], p) /\ p # o => O!Contains(timeout_blocks'[t], p)
    BY <2>1, OuterBlocks
  <2>3. \A p \in Timeouts : timeout_due'[p] # None =>
          /\ p # o /\ timeout_due[p] # None /\ timeout_target'[p] \in Sleepers
          /\ O!Contains(timeout_blocks'[timeout_target'[p]], p)
    BY <2>1, <2>2
  <2>4. ASSUME NEW u \in Sleepers, timeout_raised'[u] \in Silent
        PROVE  O!Contains(timeout_blocks'[u], timeout_raised'[u])
    BY <2>1, <2>2, <2>4 DEF O!Suppresses
  <2>5. TimeoutShape'
    BY <2>1, <2>2, <2>3
  <2> QED
    BY <2>3, <2>4, <2>5
<1>4. ASSUME NEW t \in Sleepers, O!Handle(t)
      PROVE  TimeoutInv'
  BY <1>4 DEF O!Handle
<1>5. ASSUME NEW t \in Sleepers, O!Wait(t) \/ O!End(t) \/ O!Resume(t)
      PROVE  TimeoutInv'
  BY <1>5 DEF O!Wait, O!End, O!Resume
<1>6. ASSUME NEW o \in Timeouts, O!Fire(o)
      PROVE  TimeoutInv'
  <2>1. /\ timeout_due[o] # None /\ timeout_due' = [timeout_due EXCEPT ![o] = None]
        /\ timeout_blocks' = timeout_blocks /\ timeout_target' = timeout_target
        /\ \/ timeout_raised' = [timeout_raised EXCEPT ![timeout_target[o]] = o]
           \/ timeout_raised' = timeout_raised
    BY <1>6 DEF O!Fire, O!Due
  <2> QED
    BY <2>1
<1>7. CASE O!Tick \/ UNCHANGED timeoutVars
  BY <1>7 DEF O!Tick, timeoutVars
<1> QED
  BY <1>1, <1>2, <1>3, <1>4, <1>5, <1>6, <1>7 DEF O!TimeoutNext

-----------------------------------------------------------------------------
(* Pool and the connection pools *)

PoolsShape ==
  /\ pools_max_size \in Sizes
  /\ pools_current_size \in Int
  /\ pools_free_items \in Seq({"conn", "flag"})
  /\ pools_timer \in BOOLEAN
  /\ pools_state \in [Threads -> P!States]
  /\ pools_item \in [Threads -> {"conn", "flag"}]
  /\ pools_getters = P!In("waiting")
  /\ pools_putters \cup pools_refused = P!In("putting")
  /\ pools_putters \cap pools_refused = {}
  /\ pools_stale \in Nat /\ pools_lost \in Nat

\* A thread in clear() closes its items from the last to the first.
PoolsClosing ==
  /\ IsFiniteSet(pools_closing) /\ pools_closing \subseteq Threads \X Nat
  /\ \A t \in Threads : pools_state[t] = "clearing" <=> <<t, 1>> \in pools_closing
  /\ \A c \in pools_closing : c[2] > 0 /\ \A i \in 1..c[2] : <<c[1], i>> \in pools_closing

\* The threads that have an item, or a place for one.
Busy(s) == s \in {"creating", "recreating", "holding", "cleaning", "putting"}
BusyOf(state) == {t \in Threads : Busy(state[t])}

PoolsSize ==
  /\ pools_current_size =
       Len(pools_free_items) + Cardinality(BusyOf(pools_state)) + Cardinality(pools_closing)
         + pools_lost
  /\ pools_current_size <= P!MaxSize

\* Without interrupts no putter is left behind, each has a pending _unlock, and
\* who is refused is refused because nobody waits: nobody may come to wait until
\* it has put its item on the shelf.
PoolsChannel ==
  pools_perils = {} =>
    /\ pools_stale = 0
    /\ pools_putters # {} => pools_unlock
    /\ pools_refused # {} => pools_getters = {}

PoolsInv ==
  /\ PoolsShape /\ PoolsClosing /\ PoolsSize /\ PoolsChannel
  /\ P!NoIdleItem /\ P!IdleExpires

LEMMA SizesBelow ==
  /\ P!MaxSize \in Nat /\ MinSize <= P!MaxSize
  /\ \A size \in Sizes : size <= P!MaxSize
<1>1. PICK most \in Sizes : \A size \in Sizes : size <= most
  BY ResourcesAssumption
<1>2. \E m \in Sizes \cup {MinSize} : \A n \in Sizes \cup {MinSize} : m >= n
  <2>1. CASE most >= MinSize
    BY <1>1, <2>1, ResourcesAssumption
  <2>2. CASE ~(most >= MinSize)
    BY <1>1, <2>2, ResourcesAssumption
  <2> QED
    BY <2>1, <2>2
<1>3. P!MaxSize \in Sizes \cup {MinSize} /\ \A n \in Sizes \cup {MinSize} : P!MaxSize >= n
  BY <1>2 DEF P!MaxSize, P!Max
<1> QED
  BY <1>3, ResourcesAssumption

\* Pool.waiting().
LEMMA WaitingCounts ==
  ASSUME PoolsShape
  PROVE  /\ Cardinality(pools_getters) \in Nat /\ Cardinality(pools_putters) \in Nat
         /\ IsFiniteSet(pools_getters) /\ IsFiniteSet(pools_putters)
         /\ P!waiting = 0 <=>
              Cardinality(pools_getters) <= Cardinality(pools_putters) + pools_stale
<1>1. pools_getters \in SUBSET Threads /\ pools_putters \in SUBSET Threads
  BY DEF PoolsShape, P!In
<1>2. /\ IsFiniteSet(pools_getters) /\ Cardinality(pools_getters) \in Nat
      /\ IsFiniteSet(pools_putters) /\ Cardinality(pools_putters) \in Nat
  BY <1>1, FS_Subset, FS_CardinalityType, ResourcesAssumption
<1>3. ASSUME NEW x \in Int PROVE P!Max({0, x}) = 0 <=> x <= 0
  <2>1. \E m \in {0, x} : \A n \in {0, x} : m >= n
    <3>1. CASE x <= 0
      BY <3>1
    <3>2. CASE ~(x <= 0)
      BY <3>2
    <3> QED
      BY <3>1, <3>2
  <2>2. P!Max({0, x}) \in {0, x} /\ \A n \in {0, x} : P!Max({0, x}) >= n
    BY <2>1 DEF P!Max
  <2> QED
    BY <2>2
<1>4. P!waiting =
        P!Max({0, (Cardinality(pools_getters) - Cardinality(pools_putters)) - pools_stale})
  BY SameCardinality DEF P!waiting
<1> QED
  BY <1>2, <1>3, <1>4 DEF PoolsShape

\* One place when a thread is in state s.
Place(s) == IF Busy(s) THEN 1 ELSE 0

\* A thread goes to another state.
LEMMA BusyGoes ==
  ASSUME NEW state \in [Threads -> P!States], NEW t \in Threads, NEW s \in P!States
  PROVE  /\ Cardinality(BusyOf(state)) \in Nat
         /\ Cardinality(BusyOf([state EXCEPT ![t] = s])) =
              (Cardinality(BusyOf(state)) + Place(s)) - Place(state[t])
<1>1. BusyOf(state) \in SUBSET Threads
  BY DEF BusyOf
<1>2. IsFiniteSet(BusyOf(state)) /\ Cardinality(BusyOf(state)) \in Nat
  BY <1>1, FS_Subset, FS_CardinalityType, ResourcesAssumption
<1>3. BusyOf([state EXCEPT ![t] = s]) =
        IF Busy(s) THEN BusyOf(state) \cup {t} ELSE BusyOf(state) \ {t}
  BY DEF BusyOf
<1>4. t \in BusyOf(state) <=> Busy(state[t])
  BY DEF BusyOf
<1>5. /\ Cardinality(BusyOf(state) \cup {t}) =
           IF t \in BusyOf(state) THEN Cardinality(BusyOf(state))
                                  ELSE Cardinality(BusyOf(state)) + 1
      /\ Cardinality(BusyOf(state) \ {t}) =
           IF t \in BusyOf(state) THEN Cardinality(BusyOf(state)) - 1
                                  ELSE Cardinality(BusyOf(state))
  BY <1>2, FS_AddElement, FS_RemoveElement
<1> QED
  BY <1>2, <1>3, <1>4, <1>5 DEF Place

LEMMA PoolsGoes ==
  ASSUME PoolsShape, NEW t \in Threads, NEW s \in P!States, P!Goes(t, s)
  PROVE  /\ pools_state' \in [Threads -> P!States]
         /\ pools_state'[t] = s
         /\ \A u \in Threads : u # t => pools_state'[u] = pools_state[u]
         /\ Cardinality(BusyOf(pools_state)) \in Nat
         /\ Cardinality(BusyOf(pools_state')) \in Nat
         /\ Cardinality(BusyOf(pools_state')) =
              (Cardinality(BusyOf(pools_state)) + Place(s)) - Place(pools_state[t])
<1>1. /\ pools_state' \in [Threads -> P!States] /\ pools_state'[t] = s
      /\ \A u \in Threads : u # t => pools_state'[u] = pools_state[u]
      /\ pools_state' = [pools_state EXCEPT ![t] = s]
  BY DEF PoolsShape, P!Goes
<1>2. pools_state \in [Threads -> P!States]
  BY DEF PoolsShape
<1> QED
  BY <1>1, <1>2, BusyGoes

\* What _schedule_expiration() leaves: as many places given back as connections
\* dropped, and a timer unless nothing is left or a flag is in the way.
LEMMA ShelfSet ==
  ASSUME NEW f \in Seq({"conn", "flag"}), NEW n \in Int, NEW b \in BOOLEAN,
         NEW S, \/ S = [free |-> f, size |-> n, timer |-> b]
                \/ S \in P!Expired([free |-> f, size |-> n, timer |-> b]),
         P!SetShelf(S)
  PROVE  /\ pools_free_items' \in Seq({"conn", "flag"})
         /\ pools_current_size' \in Int /\ pools_timer' \in BOOLEAN
         /\ pools_current_size' - Len(pools_free_items') = n - Len(f)
         /\ pools_current_size' <= n
         /\ f = <<>> => pools_free_items' = <<>>
         /\ S \in P!Expired([free |-> f, size |-> n, timer |-> b]) /\ pools_kind = "db" =>
              pools_free_items' = <<>> \/ pools_timer' \/ P!Contains(pools_free_items', "flag")
         /\ S = [free |-> f, size |-> n, timer |-> b] =>
              pools_free_items' = f /\ pools_current_size' = n /\ pools_timer' = b
<1> DEFINE X == [free |-> f, size |-> n, timer |-> b]
<1>1. pools_free_items' = S.free /\ pools_current_size' = S.size /\ pools_timer' = S.timer
  BY DEF P!SetShelf
<1>2. CASE S = X
  <2>1. S \in P!Expired(X) /\ pools_kind = "db" => f = <<>> \/ b \/ P!Contains(f, "flag")
    <3> SUFFICES ASSUME S \in P!Expired(X), pools_kind = "db", ~b, ~P!Contains(f, "flag")
                 PROVE  f = <<>>
      OBVIOUS
    <3>1. PICK k \in 0..Len(f) : S = [free |-> SubSeq(f, 1, k), size |-> n - (Len(f) - k),
                                      timer |-> k > 0]
      BY DEF P!Expired
    <3>2. ~(k > 0) /\ f = SubSeq(f, 1, k)
      BY <1>2, <3>1
    <3> QED
      BY <3>1, <3>2
  <2> QED
    BY <1>1, <1>2, <2>1
<1>3. CASE S # X
  <2>1. PICK k \in 0..Len(f) : S = [free |-> SubSeq(f, 1, k), size |-> n - (Len(f) - k),
                                    timer |-> k > 0]
    BY <1>3 DEF P!Expired
  <2>2. /\ SubSeq(f, 1, k) \in Seq({"conn", "flag"}) /\ Len(SubSeq(f, 1, k)) = k
        /\ k = 0 => SubSeq(f, 1, k) = <<>>
    OBVIOUS
  <2>3. Len(f) \in Nat /\ (f = <<>> => Len(f) = 0)
    OBVIOUS
  <2>4. /\ pools_free_items' = SubSeq(f, 1, k) /\ pools_current_size' = n - (Len(f) - k)
        /\ k > 0 => pools_timer' = TRUE
    BY <1>1, <2>1
  <2>5. pools_current_size' - Len(pools_free_items') = n - Len(f) /\ pools_current_size' <= n
    BY <2>2, <2>3, <2>4
  <2>6. f = <<>> => pools_free_items' = <<>>
    BY <2>2, <2>3, <2>4
  <2>7. pools_free_items' = <<>> \/ pools_timer' = TRUE
    <3>1. CASE k > 0
      BY <2>4, <3>1
    <3>2. CASE ~(k > 0)
      BY <2>2, <2>4, <3>2
    <3> QED
      BY <3>1, <3>2
  <2>8. pools_free_items' \in Seq({"conn", "flag"}) /\ pools_current_size' \in Int
    BY <2>2, <2>3, <2>4
  <2>9. pools_timer' \in BOOLEAN
    BY <1>1, <2>1
  <2> QED
    BY <1>3, <2>5, <2>6, <2>7, <2>8, <2>9
<1> QED
  BY <1>2, <1>3

\* What is counted changes as current_size does.
LEMMA PoolsSizeStep ==
  ASSUME PoolsShape, PoolsSize, IsFiniteSet(pools_closing), IsFiniteSet(pools_closing'),
         NEW d \in Int,
         Cardinality(BusyOf(pools_state)) \in Nat, Cardinality(BusyOf(pools_state')) \in Nat,
         Cardinality(BusyOf(pools_state')) + Cardinality(pools_closing') =
           (Cardinality(BusyOf(pools_state)) + Cardinality(pools_closing)) + d,
         pools_free_items' \in Seq({"conn", "flag"}), pools_current_size' \in Int,
         pools_lost' \in Nat, pools_current_size' <= P!MaxSize,
         (pools_current_size' - Len(pools_free_items')) - pools_lost' =
           ((pools_current_size - Len(pools_free_items)) - pools_lost) + d
  PROVE  PoolsSize'
<1> DEFINE F == Len(pools_free_items)
           f == Len(pools_free_items')
           B == Cardinality(BusyOf(pools_state))
           b == Cardinality(BusyOf(pools_state'))
           C1 == Cardinality(pools_closing)
           c == Cardinality(pools_closing')
           x == pools_current_size
           y == pools_current_size'
           v == pools_lost
           w == pools_lost'
<1>1. C1 \in Nat /\ c \in Nat
  BY FS_CardinalityType
<1>2. F \in Nat /\ f \in Nat
  BY DEF PoolsShape
<1>3. /\ x \in Int /\ y \in Int /\ v \in Nat /\ w \in Nat /\ B \in Nat /\ b \in Nat
      /\ x = F + B + C1 + v
      /\ b + c = (B + C1) + d
      /\ (y - f) - w = ((x - F) - v) + d
  BY DEF PoolsShape, PoolsSize
<1> HIDE DEF F, f, B, b, C1, c, x, y, v, w
<1>4. y = f + b + c + w
  BY <1>1, <1>2, <1>3
<1>5. P!MaxSize' = P!MaxSize
  BY DEF P!MaxSize
<1> QED
  BY <1>4, <1>5 DEF PoolsSize, f, b, c, y, w

LEMMA PoolsInvInit == P!Init => PoolsInv
<1> SUFFICES ASSUME P!Init PROVE PoolsInv
  OBVIOUS
<1> USE ResourcesAssumption DEF P!Init
<1>1. PoolsShape
  <2>1. pools_free_items \in Seq({"conn", "flag"})
    OBVIOUS
  <2>2. P!In("waiting") = {} /\ P!In("putting") = {}
    BY DEF P!In
  <2>3. /\ pools_state \in [Threads -> P!States]
        /\ pools_item \in [Threads -> {"conn", "flag"}]
    BY DEF P!States
  <2> HIDE DEF P!Init
  <2>4. /\ pools_max_size \in Sizes /\ pools_current_size = MinSize /\ pools_timer = FALSE
        /\ pools_stale = 0 /\ pools_lost = 0
        /\ pools_getters = {} /\ pools_putters = {} /\ pools_refused = {}
    BY Zenon DEF P!Init
  <2>5. pools_current_size \in Int /\ pools_stale \in Nat /\ pools_lost \in Nat
    BY <2>4
  <2> QED
    BY <2>1, <2>2, <2>3, <2>4, <2>5 DEF PoolsShape
<1>2. PoolsClosing
  BY FS_EmptySet DEF PoolsClosing
<1>3. PoolsSize
  <2>1. BusyOf(pools_state) = {} /\ pools_closing = {}
    BY DEF BusyOf, Busy
  <2>2. Len(pools_free_items) = MinSize /\ pools_current_size = MinSize /\ pools_lost = 0
    OBVIOUS
  <2> HIDE DEF P!Init
  <2>3. MinSize = MinSize + 0 + 0 + 0 /\ MinSize <= P!MaxSize
    BY SizesBelow
  <2> QED
    BY <2>1, <2>2, <2>3, FS_EmptySet DEF PoolsSize
<1>4. PoolsChannel /\ P!NoIdleItem
  BY DEF PoolsChannel, P!NoIdleItem
<1>5. P!IdleExpires
  BY DEF P!IdleExpires
<1> QED
  BY <1>1, <1>2, <1>3, <1>4, <1>5 DEF PoolsInv

\* A thread does something on its own: the channel and clear() have no part in it.
LEMMA PoolsAlone ==
  ASSUME PoolsInv, NEW t \in Threads,
         NEW s \in P!States \ {"waiting", "putting", "clearing"},
         pools_state[t] \notin {"waiting", "putting", "clearing"}, P!Goes(t, s),
         UNCHANGED <<pools_kind, pools_perils, pools_max_size, pools_item, P!channel,
                     pools_closing>>,
         pools_free_items' \in Seq({"conn", "flag"}), pools_current_size' \in Int,
         pools_timer' \in BOOLEAN, pools_lost' \in Nat,
         pools_current_size' <= P!MaxSize,
         (pools_current_size' - Len(pools_free_items')) - pools_lost' =
           (((pools_current_size - Len(pools_free_items)) - pools_lost) + Place(s))
             - Place(pools_state[t]),
         \/ pools_free_items # <<>> \/ pools_free_items' = <<>>
         \/ Cardinality(pools_getters) <= Cardinality(pools_putters) + pools_stale,
         P!IdleExpires'
  PROVE  PoolsInv'
<1> USE DEF PoolsInv
<1>1. /\ pools_state' \in [Threads -> P!States] /\ pools_state'[t] = s
      /\ \A u \in Threads : u # t => pools_state'[u] = pools_state[u]
      /\ Cardinality(BusyOf(pools_state)) \in Nat
      /\ Cardinality(BusyOf(pools_state')) \in Nat
      /\ Cardinality(BusyOf(pools_state')) =
           (Cardinality(BusyOf(pools_state)) + Place(s)) - Place(pools_state[t])
  BY PoolsGoes
<1>2. UNCHANGED <<pools_getters, pools_putters, pools_stale, pools_refused, pools_unlock>>
  BY DEF P!channel
<1>3. PoolsShape'
  <2>1. P!In("waiting")' = P!In("waiting") /\ P!In("putting")' = P!In("putting")
    BY <1>1 DEF P!In
  <2> QED
    BY <1>1, <1>2, <2>1 DEF PoolsShape
<1>4. PoolsClosing'
  BY <1>1 DEF PoolsClosing
<1>5. PoolsSize'
  <2> DEFINE d == Place(s) - Place(pools_state[t])
  <2>1. d \in Int /\ pools_closing' = pools_closing /\ Cardinality(pools_closing) \in Nat
    BY FS_CardinalityType DEF Place, PoolsClosing
  <2>3. Place(s) \in Int /\ Place(pools_state[t]) \in Int
    BY DEF Place
  <2>2. Cardinality(BusyOf(pools_state')) + Cardinality(pools_closing') =
          (Cardinality(BusyOf(pools_state)) + Cardinality(pools_closing)) + d
    <3>1. /\ Cardinality(BusyOf(pools_state)) \in Nat
          /\ Cardinality(BusyOf(pools_state')) =
               (Cardinality(BusyOf(pools_state)) + Place(s)) - Place(pools_state[t])
      BY <1>1
    <3>2. pools_closing' = pools_closing /\ Cardinality(pools_closing) \in Nat
      BY <2>1
    <3> DEFINE x == Cardinality(BusyOf(pools_state))
               y == Cardinality(pools_closing)
               z == Cardinality(BusyOf(pools_state'))
               v == Place(s)
               w == Place(pools_state[t])
    <3>3. x \in Nat /\ y \in Nat /\ v \in Int /\ w \in Int /\ z = (x + v) - w /\ d = v - w
      BY <2>3, <3>1, <3>2
    <3> HIDE DEF d, x, y, z, v, w
    <3>4. z + y = (x + y) + d
      BY ONLY <3>3
    <3> QED
      BY <3>2, <3>4 DEF x, y, z
  <2>4. pools_current_size \in Int /\ pools_lost \in Nat /\ Len(pools_free_items) \in Nat
    BY DEF PoolsShape
  <2>5. (pools_current_size' - Len(pools_free_items')) - pools_lost' =
          ((pools_current_size - Len(pools_free_items)) - pools_lost) + d
    BY <2>3, <2>4
  <2> HIDE DEF d
  <2> QED
    BY <1>1, <2>1, <2>2, <2>5, PoolsSizeStep DEF PoolsClosing
<1>6. PoolsChannel'
  BY <1>2 DEF PoolsChannel
<1>7. P!NoIdleItem'
  <2> SUFFICES ASSUME pools_perils = {}, pools_free_items' # <<>>, pools_getters # {}
               PROVE  pools_unlock /\ Cardinality(pools_getters) <= Cardinality(pools_putters)
    BY <1>2, SameCardinality DEF P!NoIdleItem
  <2>1. CASE pools_free_items # <<>>
    BY <2>1, SameCardinality DEF P!NoIdleItem
  <2>2. CASE Cardinality(pools_getters) <= Cardinality(pools_putters) + pools_stale
    <3>1. /\ Cardinality(pools_getters) \in Nat /\ Cardinality(pools_putters) \in Nat
          /\ Cardinality(pools_getters) # 0
          /\ pools_putters = {} => Cardinality(pools_putters) = 0
      BY WaitingCounts, FS_EmptySet
    <3>2. pools_stale = 0 /\ (pools_putters # {} => pools_unlock)
      BY DEF PoolsChannel
    <3> QED
      BY <2>2, <3>1, <3>2
  <2> QED
    BY <2>1, <2>2
<1> QED
  BY <1>3, <1>4, <1>5, <1>6, <1>7

\* What a thread does on its own with the shelf, in get() and in put().
LEMMA PoolsShelfStep ==
  ASSUME PoolsInv, NEW t \in Threads,
         \/ P!GetFree(t) \/ P!GetCreates(t) \/ P!Created(t) \/ P!CreateFails(t)
         \/ P!CreateInterrupted(t) \/ P!CleanInterrupted(t) \/ P!PutCleans(t)
         \/ P!PutReturns(t)
  PROVE  PoolsInv'
<1> USE ResourcesAssumption
<1> DEFINE f == pools_free_items
           n == pools_current_size
<1>1. /\ f \in Seq({"conn", "flag"}) /\ n \in Int /\ Len(f) \in Nat /\ n <= P!MaxSize
      /\ pools_timer \in BOOLEAN /\ pools_lost \in Nat /\ pools_max_size <= P!MaxSize
      /\ P!Shelf = [free |-> f, size |-> n, timer |-> pools_timer]
      /\ P!MaxSize \in Nat
  BY SizesBelow DEF PoolsInv, PoolsShape, PoolsSize, P!Shelf
<1>2. /\ Place("out") = 0 /\ Place("passed") = 0 /\ Place("creating") = 1
      /\ Place("recreating") = 1 /\ Place("holding") = 1 /\ Place("cleaning") = 1
  BY DEF Place, Busy
<1>3. {"out", "passed", "creating", "recreating", "holding", "cleaning"} \subseteq
        P!States \ {"waiting", "putting", "clearing"}
  BY DEF P!States
<1>4. CASE P!GetFree(t)
  <2> DEFINE s == P!Received(Head(f))
  <2>1. /\ pools_state[t] = "out" /\ f # <<>> /\ P!Goes(t, s)
        /\ UNCHANGED <<pools_kind, pools_perils, pools_max_size, pools_item, P!channel,
                       pools_closing, pools_lost>>
        /\ pools_free_items' = Tail(f) /\ pools_current_size' = n /\ pools_timer' = pools_timer
    BY <1>4 DEF P!GetFree, P!SetShelf, P!Shelf
  <2>2. s \in {"recreating", "holding"}
    BY DEF P!Received
  <2>3. pools_state'[t] = s
    BY <1>3, <2>1, <2>2, PoolsGoes DEF PoolsInv
  <2>4. Tail(f) \in Seq({"conn", "flag"}) /\ Len(Tail(f)) = Len(f) - 1
    BY <1>1, <2>1
  <2>5. P!IdleExpires'
    BY <2>2, <2>3 DEF P!IdleExpires
  <2>6. (n - (Len(f) - 1)) - pools_lost = (((n - Len(f)) - pools_lost) + 1) - 0
    BY <1>1
  <2>7. Place(s) = 1
    BY <1>2, <2>2
  <2> HIDE DEF f, n, s
  <2> QED
    BY <1>1, <1>2, <1>3, <2>1, <2>2, <2>4, <2>5, <2>6, <2>7, PoolsAlone DEF f, n
<1>5. CASE P!GetCreates(t)
  <2>1. /\ pools_state[t] = "out" /\ f = <<>> /\ P!Goes(t, "creating") /\ n < pools_max_size
        /\ UNCHANGED <<pools_kind, pools_perils, pools_max_size, pools_item, P!channel,
                       pools_closing, pools_lost>>
        /\ pools_free_items' = f /\ pools_current_size' = n + 1 /\ pools_timer' = pools_timer
    BY <1>5 DEF P!GetCreates, P!SetShelf, P!Shelf
  <2>2. P!IdleExpires'
    BY <2>1 DEF P!IdleExpires
  <2>3. /\ n + 1 \in Int /\ n + 1 <= P!MaxSize
        /\ ((n + 1) - Len(f)) - pools_lost = (((n - Len(f)) - pools_lost) + 1) - 0
    <3>1. pools_max_size \in Int
      BY DEF PoolsInv, PoolsShape
    <3> QED
      BY <1>1, <2>1, <3>1
  <2> HIDE DEF f, n
  <2> QED
    BY <1>1, <1>2, <1>3, <2>1, <2>2, <2>3, PoolsAlone DEF f, n
<1>6. CASE P!Created(t) \/ P!PutCleans(t)
  <2>1. PICK s \in {"holding", "cleaning"} :
          /\ pools_state[t] \in {"creating", "recreating", "holding"} /\ P!Goes(t, s)
          /\ UNCHANGED <<pools_kind, pools_perils, pools_max_size, pools_item, P!channel,
                         pools_closing, pools_lost, pools_free_items, pools_current_size,
                         pools_timer>>
    BY <1>6 DEF P!Created, P!PutCleans, P!shelf
  <2>2. pools_state'[t] = s
    BY <1>3, <2>1, PoolsGoes DEF PoolsInv
  <2>3. P!IdleExpires'
    BY <2>1, <2>2 DEF P!IdleExpires
  <2>4. (n - Len(f)) - pools_lost = (((n - Len(f)) - pools_lost) + 1) - 1
    BY <1>1
  <2> HIDE DEF f, n
  <2> QED
    BY <1>1, <1>2, <1>3, <2>1, <2>3, <2>4, PoolsAlone DEF f, n
<1>7. CASE P!CreateFails(t) \/ P!CreateInterrupted(t) \/ P!CleanInterrupted(t)
  <2>1. /\ pools_state[t] \in {"creating", "recreating", "cleaning"} /\ P!Goes(t, "out")
        /\ UNCHANGED <<pools_kind, pools_perils, pools_max_size, pools_item, P!channel,
                       pools_closing, pools_free_items, pools_timer>>
        /\ pools_perils # {}
        /\ \/ pools_current_size' = n - 1 /\ pools_lost' = pools_lost
           \/ pools_current_size' = n /\ pools_lost' = pools_lost + 1
    BY <1>7 DEF P!CreateFails, P!CreateInterrupted, P!CleanInterrupted, P!shelf, P!SetShelf,
                P!Drop, P!Shelf
  <2>2. P!IdleExpires'
    BY <2>1 DEF P!IdleExpires
  <2>3. /\ pools_current_size' \in Int /\ pools_current_size' <= P!MaxSize
        /\ pools_lost' \in Nat
        /\ (pools_current_size' - Len(f)) - pools_lost' =
             (((n - Len(f)) - pools_lost) + 0) - 1
    BY <1>1, <2>1
  <2> HIDE DEF f, n
  <2> QED
    BY <1>1, <1>2, <1>3, <2>1, <2>2, <2>3, PoolsAlone DEF f, n
<1>8. CASE P!PutReturns(t)
  <2>1. /\ pools_state[t] = "passed" /\ P!Goes(t, "out")
        /\ UNCHANGED <<pools_kind, pools_perils, pools_max_size, pools_item, P!channel,
                       pools_closing, pools_lost>>
        /\ \E S \in P!Expired(P!Shelf) : P!SetShelf(S)
    BY <1>8 DEF P!PutReturns
  <2>2. PICK S \in P!Expired([free |-> f, size |-> n, timer |-> pools_timer]) : P!SetShelf(S)
    BY <1>1, <2>1
  <2>3. /\ pools_free_items' \in Seq({"conn", "flag"})
        /\ pools_current_size' \in Int /\ pools_timer' \in BOOLEAN
        /\ pools_current_size' - Len(pools_free_items') = n - Len(f)
        /\ pools_current_size' <= n
        /\ f = <<>> => pools_free_items' = <<>>
        /\ pools_kind = "db" =>
             pools_free_items' = <<>> \/ pools_timer' \/ P!Contains(pools_free_items', "flag")
    BY <1>1, <2>2, ShelfSet
  <2>4. P!IdleExpires'
    BY <2>1, <2>3 DEF P!IdleExpires
  <2>5. /\ pools_current_size' <= P!MaxSize
        /\ (pools_current_size' - Len(pools_free_items')) - pools_lost =
             (((n - Len(f)) - pools_lost) + 0) - 0
    BY <1>1, <2>3
  <2> HIDE DEF f, n
  <2> QED
    BY <1>1, <1>2, <1>3, <2>1, <2>3, <2>4, <2>5, PoolsAlone DEF f, n
<1> QED
  BY <1>4, <1>5, <1>6, <1>7, <1>8

\* put(): the item is dropped, goes on the shelf, or to the channel.
LEMMA PoolsPutStep ==
  ASSUME PoolsInv, NEW t \in Threads, NEW x \in {"conn", "flag"},
         pools_state[t] \in {"holding", "cleaning"},
         UNCHANGED <<pools_kind, pools_perils, pools_max_size, pools_closing, pools_lost>>,
         \/ P!Put(t, x)
         \/ /\ \E S \in P!Expired(P!Drop) : P!SetShelf(S)
            /\ P!Goes(t, "out")
            /\ UNCHANGED <<pools_item, P!channel>>
  PROVE  PoolsInv'
<1> DEFINE f == pools_free_items
           n == pools_current_size
<1>1. /\ f \in Seq({"conn", "flag"}) /\ n \in Int /\ Len(f) \in Nat /\ n <= P!MaxSize
      /\ pools_timer \in BOOLEAN /\ pools_lost \in Nat /\ P!MaxSize \in Nat
      /\ P!Drop = [free |-> f, size |-> n - 1, timer |-> pools_timer]
  BY SizesBelow DEF PoolsInv, PoolsShape, PoolsSize, P!Shelf, P!Drop
<1>2. /\ Place("out") = 0 /\ Place(pools_state[t]) = 1 /\ Place("putting") = 1
      /\ {"out"} \subseteq P!States \ {"waiting", "putting", "clearing"}
      /\ "putting" \in P!States
      /\ pools_state[t] \notin {"waiting", "putting", "clearing"}
  BY DEF Place, Busy, P!States
<1>3. ASSUME NEW h \in Seq({"conn", "flag"}), NEW m \in Int,
             NEW S \in P!Expired([free |-> h, size |-> m, timer |-> pools_timer]),
             P!SetShelf(S), P!Goes(t, "out"), UNCHANGED <<pools_item, P!channel>>,
             m <= n, m - Len(h) = (n - Len(f)) - 1,
             \/ h = f
             \/ Cardinality(pools_getters) <= Cardinality(pools_putters) + pools_stale
      PROVE  PoolsInv'
  <2>1. /\ pools_free_items' \in Seq({"conn", "flag"})
        /\ pools_current_size' \in Int /\ pools_timer' \in BOOLEAN
        /\ pools_current_size' - Len(pools_free_items') = m - Len(h)
        /\ pools_current_size' <= m
        /\ h = <<>> => pools_free_items' = <<>>
        /\ pools_kind = "db" =>
             pools_free_items' = <<>> \/ pools_timer' \/ P!Contains(pools_free_items', "flag")
    BY <1>1, <1>3, ShelfSet
  <2>2. P!IdleExpires'
    BY <2>1 DEF P!IdleExpires
  <2>3. /\ pools_current_size' <= P!MaxSize /\ pools_lost' \in Nat
        /\ (pools_current_size' - Len(pools_free_items')) - pools_lost' =
             (((n - Len(f)) - pools_lost) + 0) - 1
    <3>1. Len(h) \in Nat /\ Len(pools_free_items') \in Nat /\ pools_lost' = pools_lost
      BY <2>1
    <3>2. pools_current_size' <= P!MaxSize
      BY <1>1, <1>3, <2>1
    <3>3. pools_current_size' - Len(pools_free_items') = (n - Len(f)) - 1
      BY <1>3, <2>1
    <3>4. ((n - Len(f)) - 1) - pools_lost = (((n - Len(f)) - pools_lost) + 0) - 1
      BY <1>1
    <3> QED
      BY <1>1, <3>1, <3>2, <3>3, <3>4
  <2>4. \/ f # <<>> \/ pools_free_items' = <<>>
        \/ Cardinality(pools_getters) <= Cardinality(pools_putters) + pools_stale
    BY <1>3, <2>1
  <2> HIDE DEF f, n
  <2> QED
    BY <1>1, <1>2, <1>3, <2>1, <2>2, <2>3, <2>4, PoolsAlone DEF f, n
<1>4. CASE /\ \E S \in P!Expired(P!Drop) : P!SetShelf(S)
           /\ P!Goes(t, "out")
           /\ UNCHANGED <<pools_item, P!channel>>
  <2>1. n - 1 \in Int /\ n - 1 <= n /\ (n - 1) - Len(f) = (n - Len(f)) - 1
    BY <1>1
  <2>2. PICK S \in P!Expired([free |-> f, size |-> n - 1, timer |-> pools_timer]) :
          P!SetShelf(S)
    BY <1>1, <1>4
  <2> HIDE DEF f, n
  <2> QED
    BY <1>1, <1>3, <1>4, <2>1, <2>2
<1>5. CASE /\ P!waiting = 0
           /\ \E S \in P!Expired(P!Store(x)) : P!SetShelf(S)
           /\ P!Goes(t, "out")
           /\ UNCHANGED <<pools_item, P!channel>>
  <2> DEFINE h == IF pools_kind = "pool" THEN Append(f, x) ELSE <<x>> \o f
  <2>1. h \in Seq({"conn", "flag"}) /\ Len(h) = Len(f) + 1
    <3>1. /\ Append(f, x) \in Seq({"conn", "flag"}) /\ Len(Append(f, x)) = Len(f) + 1
      BY <1>1
    <3>2. <<x>> \in Seq({"conn", "flag"}) /\ Len(<<x>>) = 1
      OBVIOUS
    <3>3. <<x>> \o f \in Seq({"conn", "flag"}) /\ Len(<<x>> \o f) = 1 + Len(f)
      BY <1>1, <3>2, ConcatProperties
    <3>4. 1 + Len(f) = Len(f) + 1
      BY <1>1
    <3>5. CASE pools_kind = "pool"
      BY <3>1, <3>5
    <3>6. CASE pools_kind # "pool"
      BY <3>3, <3>4, <3>6
    <3> QED
      BY <3>5, <3>6
  <2>2. P!Store(x) = [free |-> h, size |-> n, timer |-> pools_timer]
    BY DEF P!Store, P!Shelf
  <2>3. n <= n /\ n - (Len(f) + 1) = (n - Len(f)) - 1
    BY <1>1
  <2>4. Cardinality(pools_getters) <= Cardinality(pools_putters) + pools_stale
    BY <1>5, WaitingCounts DEF PoolsInv
  <2>5. PICK S \in P!Expired([free |-> h, size |-> n, timer |-> pools_timer]) : P!SetShelf(S)
    BY <1>5, <2>2
  <2> HIDE DEF f, n, h
  <2> QED
    BY <1>1, <1>3, <1>5, <2>1, <2>3, <2>4, <2>5
<1>6. CASE /\ pools_putters' = pools_putters \cup {t}
           /\ pools_unlock' = TRUE
           /\ pools_item' = [pools_item EXCEPT ![t] = x]
           /\ P!Goes(t, "putting")
           /\ UNCHANGED <<P!shelf, pools_getters, pools_stale, pools_refused>>
  <2> USE DEF PoolsInv
  <2>1. /\ pools_state' \in [Threads -> P!States] /\ pools_state'[t] = "putting"
        /\ \A u \in Threads : u # t => pools_state'[u] = pools_state[u]
        /\ Cardinality(BusyOf(pools_state)) \in Nat /\ Cardinality(BusyOf(pools_state')) \in Nat
        /\ Cardinality(BusyOf(pools_state')) =
             (Cardinality(BusyOf(pools_state)) + Place("putting")) - Place(pools_state[t])
    BY <1>2, <1>6, PoolsGoes
  <2>2. UNCHANGED <<pools_free_items, pools_current_size, pools_timer>>
    BY <1>6 DEF P!shelf
  <2>3. PoolsShape'
    <3>1. /\ P!In("waiting")' = P!In("waiting") /\ P!In("putting")' = P!In("putting") \cup {t}
          /\ t \notin P!In("putting")
      BY <1>2, <2>1 DEF P!In
    <3>2. /\ pools_putters' \cup pools_refused' = P!In("putting")'
          /\ pools_putters' \cap pools_refused' = {}
          /\ pools_getters' = P!In("waiting")'
      BY <1>6, <3>1 DEF PoolsShape
    <3> QED
      BY <1>6, <2>1, <2>2, <3>2 DEF PoolsShape
  <2>4. PoolsClosing'
    BY <1>2, <2>1 DEF PoolsClosing
  <2>5. PoolsSize'
    <3>1. /\ Cardinality(BusyOf(pools_state')) = Cardinality(BusyOf(pools_state))
          /\ P!MaxSize' = P!MaxSize
      BY <1>2, <2>1 DEF P!MaxSize
    <3> QED
      BY <2>2, <3>1 DEF PoolsSize
  <2>6. PoolsChannel'
    BY <1>6 DEF PoolsChannel
  <2>7. P!NoIdleItem'
    <3>1. /\ Cardinality(pools_putters) \in Nat /\ Cardinality(pools_getters) \in Nat
          /\ t \notin pools_putters /\ IsFiniteSet(pools_putters)
      BY <1>2, WaitingCounts DEF PoolsShape, P!In
    <3>2. Cardinality(pools_putters') = Cardinality(pools_putters) + 1
      BY <1>6, <3>1, FS_AddElement
    <3>3. /\ pools_perils = {} /\ f # <<>> /\ pools_getters # {} =>
               Cardinality(pools_getters) <= Cardinality(pools_putters)
      BY SameCardinality DEF P!NoIdleItem
    <3> QED
      BY <1>6, <2>2, <3>1, <3>2, <3>3, SameCardinality DEF P!NoIdleItem
  <2>8. P!IdleExpires'
    BY <2>1 DEF P!IdleExpires
  <2> QED
    BY <2>3, <2>4, <2>5, <2>6, <2>7, <2>8
<1> QED
  BY <1>4, <1>5, <1>6 DEF P!Put

\* A thread begins to wait for an item, or is interrupted in it.
LEMMA PoolsWaitStep ==
  ASSUME PoolsInv, NEW t \in Threads, P!GetWaits(t) \/ P!WaitInterrupted(t)
  PROVE  PoolsInv'
<1> USE DEF PoolsInv
<1> DEFINE s == pools_state'[t]
<1>1. /\ Place("out") = 0 /\ Place("waiting") = 0
      /\ "out" \in P!States /\ "waiting" \in P!States
  BY DEF Place, Busy, P!States
<1>2. /\ pools_state[t] \in {"out", "waiting"}
      /\ P!Goes(t, "out") \/ P!Goes(t, "waiting")
      /\ UNCHANGED <<pools_kind, pools_perils, pools_max_size, pools_item, pools_putters,
                     pools_stale, pools_refused, pools_closing, pools_lost,
                     pools_free_items, pools_current_size, pools_timer>>
  BY DEF P!GetWaits, P!WaitInterrupted, P!shelf
<1>3. /\ pools_state' \in [Threads -> P!States]
      /\ s \in {"out", "waiting"}
      /\ \A u \in Threads : u # t => pools_state'[u] = pools_state[u]
      /\ Cardinality(BusyOf(pools_state')) = Cardinality(BusyOf(pools_state))
  BY <1>1, <1>2, PoolsGoes
<1>4. \/ /\ P!GetWaits(t) /\ s = "waiting" /\ pools_getters' = pools_getters \cup {t}
         /\ pools_free_items = <<>>
      \/ /\ P!WaitInterrupted(t) /\ s = "out" /\ pools_getters' = pools_getters \ {t}
         /\ pools_unlock' = TRUE
  BY <1>1, PoolsGoes DEF P!GetWaits, P!WaitInterrupted
<1>5. PoolsShape'
  <2>1. P!In("waiting")' = pools_getters' /\ P!In("putting")' = P!In("putting")
    BY <1>2, <1>3, <1>4 DEF P!In, PoolsShape
  <2> QED
    BY <1>2, <1>3, <2>1 DEF PoolsShape
<1>6. PoolsClosing'
  BY <1>2, <1>3 DEF PoolsClosing
<1>7. PoolsSize'
  BY <1>2, <1>3 DEF PoolsSize, P!MaxSize
<1>8. PoolsChannel'
  <2>1. CASE P!GetWaits(t)
    BY <1>2, <2>1 DEF PoolsChannel, P!GetWaits
  <2>2. CASE P!WaitInterrupted(t)
    BY <1>2, <2>2 DEF PoolsChannel, P!WaitInterrupted
  <2> QED
    BY <2>1, <2>2
<1>9. P!NoIdleItem'
  <2>1. CASE pools_free_items = <<>>
    BY <1>2, <2>1 DEF P!NoIdleItem
  <2>2. CASE pools_getters' = pools_getters \ {t} /\ pools_unlock' = TRUE
    <3>1. IsFiniteSet(pools_getters) /\ Cardinality(pools_putters) \in Nat
      BY WaitingCounts
    <3>2. /\ Cardinality(pools_getters) \in Nat /\ Cardinality(pools_getters') \in Nat
          /\ Cardinality(pools_getters') <= Cardinality(pools_getters)
      BY <2>2, <3>1, FS_Subset, FS_CardinalityType
    <3> QED
      BY <1>2, <2>2, <3>1, <3>2, SameCardinality DEF P!NoIdleItem
  <2> QED
    BY <1>4, <2>1, <2>2
<1>10. P!IdleExpires'
  BY <1>2, <1>3 DEF P!IdleExpires
<1> QED
  BY <1>5, <1>6, <1>7, <1>8, <1>9, <1>10

\* Full, for who is refused: the item goes on the shelf.
LEMMA PoolsRefusedStep ==
  ASSUME PoolsInv, NEW t \in Threads, P!PutRefused(t)
  PROVE  PoolsInv'
<1> USE DEF PoolsInv
<1> DEFINE f == pools_free_items
           n == pools_current_size
           x == pools_item[t]
           h == IF pools_kind = "pool" THEN Append(f, x) ELSE <<x>> \o f
<1>1. /\ t \in pools_refused /\ P!Goes(t, "out")
      /\ pools_refused' = pools_refused \ {t}
      /\ UNCHANGED <<pools_kind, pools_perils, pools_max_size, pools_item, pools_getters,
                     pools_putters, pools_stale, pools_unlock, pools_closing, pools_lost>>
      /\ \E S \in P!Expired(P!Store(x)) : P!SetShelf(S)
  BY DEF P!PutRefused
<1>2. /\ pools_state[t] = "putting" /\ t \notin pools_putters
      /\ x \in {"conn", "flag"} /\ f \in Seq({"conn", "flag"}) /\ n \in Int
      /\ Len(f) \in Nat /\ pools_timer \in BOOLEAN /\ pools_lost \in Nat /\ n <= P!MaxSize
      /\ P!MaxSize \in Nat
  BY <1>1, SizesBelow DEF PoolsShape, PoolsSize, P!In
<1>3. /\ Place("out") = 0 /\ Place("putting") = 1 /\ "out" \in P!States
  BY DEF Place, Busy, P!States
<1>4. h \in Seq({"conn", "flag"}) /\ Len(h) = Len(f) + 1
  <2>1. Append(f, x) \in Seq({"conn", "flag"}) /\ Len(Append(f, x)) = Len(f) + 1
    BY <1>2
  <2>2. <<x>> \in Seq({"conn", "flag"}) /\ Len(<<x>>) = 1
    BY <1>2
  <2>3. <<x>> \o f \in Seq({"conn", "flag"}) /\ Len(<<x>> \o f) = 1 + Len(f)
    BY <1>2, <2>2, ConcatProperties
  <2>4. 1 + Len(f) = Len(f) + 1
    BY <1>2
  <2>5. CASE pools_kind = "pool"
    BY <2>1, <2>5
  <2>6. CASE pools_kind # "pool"
    BY <2>3, <2>4, <2>6
  <2> QED
    BY <2>5, <2>6
<1>5. PICK S \in P!Expired([free |-> h, size |-> n, timer |-> pools_timer]) : P!SetShelf(S)
  <2>1. P!Store(x) = [free |-> h, size |-> n, timer |-> pools_timer]
    BY DEF P!Store, P!Shelf
  <2> QED
    BY <1>1, <2>1
<1>6. /\ pools_free_items' \in Seq({"conn", "flag"})
      /\ pools_current_size' \in Int /\ pools_timer' \in BOOLEAN
      /\ pools_current_size' - Len(pools_free_items') = n - Len(h)
      /\ pools_current_size' <= n
      /\ pools_kind = "db" =>
           pools_free_items' = <<>> \/ pools_timer' \/ P!Contains(pools_free_items', "flag")
  <2> HIDE DEF h, n, PoolsInv
  <2> QED
    BY <1>2, <1>4, <1>5, ShelfSet DEF n
<1>7. /\ pools_state' \in [Threads -> P!States] /\ pools_state'[t] = "out"
      /\ \A u \in Threads : u # t => pools_state'[u] = pools_state[u]
      /\ Cardinality(BusyOf(pools_state)) \in Nat /\ Cardinality(BusyOf(pools_state')) \in Nat
      /\ Cardinality(BusyOf(pools_state')) =
           (Cardinality(BusyOf(pools_state)) + Place("out")) - Place(pools_state[t])
  BY <1>1, <1>3, PoolsGoes
<1>8. PoolsShape'
  <2>1. P!In("waiting")' = P!In("waiting") /\ P!In("putting")' = P!In("putting") \ {t}
    BY <1>2, <1>7 DEF P!In
  <2>2. /\ pools_putters' \cup pools_refused' = P!In("putting")'
        /\ pools_putters' \cap pools_refused' = {}
        /\ pools_getters' = P!In("waiting")'
    BY <1>1, <1>2, <2>1 DEF PoolsShape
  <2> QED
    BY <1>1, <1>6, <1>7, <2>2 DEF PoolsShape
<1>9. PoolsClosing'
  BY <1>1, <1>2, <1>7 DEF PoolsClosing
<1>10. PoolsSize'
  <2>1. Cardinality(pools_closing) \in Nat /\ Len(pools_free_items') \in Nat
        /\ IsFiniteSet(pools_closing)
    BY <1>6, FS_CardinalityType DEF PoolsClosing
  <2>2. Cardinality(BusyOf(pools_state')) + Cardinality(pools_closing') =
          (Cardinality(BusyOf(pools_state)) + Cardinality(pools_closing)) + (-1)
    BY <1>1, <1>2, <1>3, <1>7, <2>1
  <2>3. pools_current_size' - Len(pools_free_items') = (n - Len(f)) - 1
    BY <1>2, <1>4, <1>6
  <2>4. (pools_current_size' - Len(pools_free_items')) - pools_lost' =
          ((n - Len(f)) - pools_lost) + (-1)
    BY <1>1, <1>2, <2>3
  <2>5. pools_current_size' <= P!MaxSize
    BY <1>2, <1>6
  <2>6. -1 \in Int /\ pools_lost' \in Nat /\ pools_closing' = pools_closing
    BY <1>1, <1>2
  <2>7. PoolsShape /\ PoolsSize
    OBVIOUS
  <2> HIDE DEF PoolsInv
  <2> QED
    BY <1>6, <1>7, <2>1, <2>2, <2>4, <2>5, <2>6, <2>7, PoolsSizeStep
<1>11. PoolsChannel' /\ P!NoIdleItem'
  BY <1>1 DEF PoolsChannel, P!NoIdleItem
<1>12. P!IdleExpires'
  BY <1>1, <1>6 DEF P!IdleExpires
<1> QED
  BY <1>8, <1>9, <1>10, <1>11, <1>12

\* The putter of an item is interrupted: its place is lost.
LEMMA PoolsPutInterruptedStep ==
  ASSUME PoolsInv, NEW t \in Threads, P!PutInterrupted(t)
  PROVE  PoolsInv'
<1> USE DEF PoolsInv
<1>1. /\ t \in pools_putters /\ P!Goes(t, "out") /\ pools_perils # {}
      /\ pools_putters' = pools_putters \ {t} /\ pools_stale' = pools_stale + 1
      /\ pools_lost' = pools_lost + 1
      /\ UNCHANGED <<pools_kind, pools_perils, pools_max_size, pools_item, pools_getters,
                     pools_refused, pools_unlock, pools_closing, pools_free_items,
                     pools_current_size, pools_timer>>
  BY DEF P!PutInterrupted, P!shelf
<1>2. pools_state[t] = "putting" /\ t \notin pools_refused
  BY <1>1 DEF PoolsShape, P!In
<1>3. Place("out") = 0 /\ Place("putting") = 1 /\ "out" \in P!States
  BY DEF Place, Busy, P!States
<1>4. /\ pools_state' \in [Threads -> P!States] /\ pools_state'[t] = "out"
      /\ \A u \in Threads : u # t => pools_state'[u] = pools_state[u]
      /\ Cardinality(BusyOf(pools_state)) \in Nat /\ Cardinality(BusyOf(pools_state')) \in Nat
      /\ Cardinality(BusyOf(pools_state')) =
           (Cardinality(BusyOf(pools_state)) + Place("out")) - Place(pools_state[t])
  BY <1>1, <1>3, PoolsGoes
<1>5. PoolsShape'
  <2>1. P!In("waiting")' = P!In("waiting") /\ P!In("putting")' = P!In("putting") \ {t}
    BY <1>2, <1>4 DEF P!In
  <2>2. /\ pools_putters' \cup pools_refused' = P!In("putting")'
        /\ pools_putters' \cap pools_refused' = {}
        /\ pools_getters' = P!In("waiting")'
    BY <1>1, <1>2, <2>1 DEF PoolsShape
  <2>3. pools_stale' \in Nat /\ pools_lost' \in Nat
    BY <1>1 DEF PoolsShape
  <2> QED
    BY <1>1, <1>4, <2>2, <2>3 DEF PoolsShape
<1>6. PoolsClosing'
  BY <1>1, <1>2, <1>4 DEF PoolsClosing
<1>7. PoolsSize'
  <2>1. /\ Cardinality(pools_closing) \in Nat /\ IsFiniteSet(pools_closing)
        /\ Len(pools_free_items) \in Nat
        /\ pools_current_size \in Int /\ pools_lost \in Nat
        /\ pools_free_items' \in Seq({"conn", "flag"}) /\ pools_current_size' \in Int
        /\ pools_lost' \in Nat /\ pools_current_size' <= P!MaxSize
    BY <1>1, <1>5, FS_CardinalityType DEF PoolsClosing, PoolsShape, PoolsSize
  <2>2. Cardinality(BusyOf(pools_state')) + Cardinality(pools_closing') =
          (Cardinality(BusyOf(pools_state)) + Cardinality(pools_closing)) + (-1)
    BY <1>1, <1>2, <1>3, <1>4, <2>1
  <2>3. (pools_current_size' - Len(pools_free_items')) - pools_lost' =
          ((pools_current_size - Len(pools_free_items)) - pools_lost) + (-1)
    BY <1>1, <2>1
  <2>4. -1 \in Int /\ pools_closing' = pools_closing /\ PoolsShape /\ PoolsSize
    BY <1>1
  <2> HIDE DEF PoolsInv
  <2> QED
    BY <1>4, <2>1, <2>2, <2>3, <2>4, PoolsSizeStep
<1>8. PoolsChannel' /\ P!NoIdleItem' /\ P!IdleExpires'
  BY <1>1 DEF PoolsChannel, P!NoIdleItem, P!IdleExpires
<1> QED
  BY <1>5, <1>6, <1>7, <1>8

\* An item passes from a putter to a getter.
LEMMA PoolsPairStep == PoolsInv /\ P!Pair => PoolsInv'
<1> SUFFICES ASSUME PoolsInv, P!Pair PROVE PoolsInv'
  OBVIOUS
<1> USE DEF PoolsInv
<1>1. PICK p \in pools_putters, g \in pools_getters :
        /\ pools_putters' = pools_putters \ {p}
        /\ pools_getters' = pools_getters \ {g}
        /\ pools_state' = [pools_state EXCEPT ![p] = "passed", ![g] = P!Received(pools_item[p])]
  BY DEF P!Pair
<1>2. /\ UNCHANGED <<pools_kind, pools_perils, pools_max_size, pools_item, pools_stale,
                     pools_refused, pools_unlock, pools_closing, pools_lost,
                     pools_free_items, pools_current_size, pools_timer>>
      /\ pools_unlock
  BY DEF P!Pair, P!shelf
<1> DEFINE r == P!Received(pools_item[p])
           mid == [pools_state EXCEPT ![p] = "passed"]
<1>3. /\ p \in Threads /\ g \in Threads /\ p # g
      /\ pools_state[p] = "putting" /\ pools_state[g] = "waiting" /\ p \notin pools_refused
      /\ r \in {"recreating", "holding"}
  BY DEF PoolsShape, P!In, P!Received
<1>4. /\ Place("passed") = 0 /\ Place("putting") = 1 /\ Place("waiting") = 0 /\ Place(r) = 1
      /\ "passed" \in P!States /\ r \in P!States
  BY <1>3 DEF Place, Busy, P!States
<1>5. /\ mid \in [Threads -> P!States] /\ mid[g] = "waiting" /\ mid[p] = "passed"
      /\ pools_state \in [Threads -> P!States]
      /\ pools_state' = [mid EXCEPT ![g] = r]
  BY <1>1, <1>3, <1>4 DEF PoolsShape
<1>6. /\ pools_state' \in [Threads -> P!States]
      /\ pools_state'[p] = "passed" /\ pools_state'[g] = r
      /\ \A u \in Threads : u # p /\ u # g => pools_state'[u] = pools_state[u]
  BY <1>1, <1>3, <1>4 DEF PoolsShape
<1>7. Cardinality(BusyOf(pools_state')) = Cardinality(BusyOf(pools_state))
  <2>1. /\ Cardinality(BusyOf(pools_state)) \in Nat
        /\ Cardinality(BusyOf(mid)) =
             (Cardinality(BusyOf(pools_state)) + Place("passed")) - Place(pools_state[p])
    BY <1>3, <1>4, <1>5, BusyGoes
  <2>2. Cardinality(BusyOf([mid EXCEPT ![g] = r])) =
          (Cardinality(BusyOf(mid)) + Place(r)) - Place(mid[g])
    BY <1>3, <1>4, <1>5, BusyGoes
  <2> HIDE DEF r, mid
  <2> QED
    BY <1>3, <1>4, <1>5, <2>1, <2>2
<1> HIDE DEF r, mid
<1>8. PoolsShape'
  <2>1. P!In("waiting")' = P!In("waiting") \ {g} /\ P!In("putting")' = P!In("putting") \ {p}
    BY <1>3, <1>6 DEF P!In
  <2>2. /\ pools_putters' \cup pools_refused' = P!In("putting")'
        /\ pools_putters' \cap pools_refused' = {}
        /\ pools_getters' = P!In("waiting")'
    BY <1>1, <1>2, <1>3, <2>1 DEF PoolsShape
  <2> QED
    BY <1>2, <1>6, <2>2 DEF PoolsShape
<1>9. PoolsClosing'
  BY <1>2, <1>3, <1>6 DEF PoolsClosing
<1>10. PoolsSize'
  BY <1>2, <1>7 DEF PoolsSize, P!MaxSize
<1>11. PoolsChannel'
  BY <1>1, <1>2 DEF PoolsChannel
<1>12. P!NoIdleItem'
  <2>1. /\ IsFiniteSet(pools_getters) /\ IsFiniteSet(pools_putters)
        /\ Cardinality(pools_getters) \in Nat /\ Cardinality(pools_putters) \in Nat
    BY WaitingCounts
  <2>2. /\ Cardinality(pools_getters') = Cardinality(pools_getters) - 1
        /\ Cardinality(pools_putters') = Cardinality(pools_putters) - 1
    BY <1>1, <2>1, FS_RemoveElement
  <2>3. pools_perils = {} /\ pools_free_items # <<>> =>
          Cardinality(pools_getters) <= Cardinality(pools_putters)
    BY <1>1, SameCardinality DEF P!NoIdleItem
  <2> QED
    BY <1>2, <2>1, <2>2, <2>3, SameCardinality DEF P!NoIdleItem
<1>13. P!IdleExpires'
  BY <1>3, <1>6 DEF P!IdleExpires
<1> QED
  BY <1>8, <1>9, <1>10, <1>11, <1>12, <1>13

\* The rest of _unlock(), and resize(): no thread goes anywhere.
LEMMA PoolsUnlockStep ==
  ASSUME PoolsInv,
         P!DropStale \/ P!Refuse \/ P!UnlockEnds \/ \E size \in Sizes : P!resize(size)
  PROVE  PoolsInv'
<1> USE DEF PoolsInv
<1>1. /\ UNCHANGED <<pools_kind, pools_perils, pools_item, pools_getters, pools_closing,
                     pools_lost, pools_free_items, pools_current_size, pools_timer,
                     pools_state>>
      /\ pools_max_size' \in Sizes
  BY DEF P!DropStale, P!Refuse, P!UnlockEnds, P!resize, P!shelf, P!channel, PoolsShape
<1>2. /\ pools_putters' \cup pools_refused' = pools_putters \cup pools_refused
      /\ pools_putters' \cap pools_refused' = {}
      /\ pools_stale' \in Nat
  BY DEF P!DropStale, P!Refuse, P!UnlockEnds, P!resize, P!shelf, P!channel, PoolsShape
<1>3. PoolsShape'
  BY <1>1, <1>2 DEF PoolsShape, P!In
<1>4. PoolsClosing' /\ PoolsSize' /\ P!IdleExpires'
  BY <1>1 DEF PoolsClosing, PoolsSize, P!MaxSize, P!IdleExpires
<1>5. CASE P!DropStale
  <2>1. pools_perils # {}
    BY <1>5 DEF P!DropStale, PoolsChannel
  <2> QED
    BY <1>1, <1>3, <1>4, <2>1 DEF PoolsChannel, P!NoIdleItem
<1>6. CASE P!Refuse
  <2>1. PoolsChannel'
    <3> SUFFICES ASSUME pools_perils = {} PROVE PoolsChannel'
      BY <1>1 DEF PoolsChannel
    <3>1. pools_stale = 0 /\ pools_getters = {}
      BY <1>6 DEF PoolsChannel, P!Refuse
    <3>2. pools_putters' = {} /\ pools_stale' = 0
      BY <1>6, <3>1 DEF P!Refuse
    <3> QED
      BY <1>1, <3>1, <3>2 DEF PoolsChannel
  <2>2. P!NoIdleItem'
    BY <1>1, <1>6 DEF P!Refuse, P!NoIdleItem
  <2> QED
    BY <1>3, <1>4, <2>1, <2>2
<1>7. CASE P!UnlockEnds
  <2>1. PoolsChannel'
    BY <1>1, <1>7 DEF PoolsChannel, P!UnlockEnds
  <2>2. P!NoIdleItem'
    <3> SUFFICES ASSUME pools_perils = {}, pools_free_items # <<>>, pools_getters # {}
                 PROVE  FALSE
      BY <1>1 DEF P!NoIdleItem
    <3>1. Cardinality(pools_getters) <= Cardinality(pools_putters) /\ pools_putters = {}
      BY <1>7, SameCardinality DEF P!NoIdleItem, P!UnlockEnds
    <3>2. Cardinality(pools_putters) = 0 /\ Cardinality(pools_getters) \in Nat
      BY <3>1, WaitingCounts, FS_EmptySet
    <3> QED
      BY <3>1, <3>2, WaitingCounts, FS_EmptySet
  <2> QED
    BY <1>3, <1>4, <2>1, <2>2
<1>8. CASE \E size \in Sizes : P!resize(size)
  BY <1>1, <1>3, <1>4, <1>8 DEF P!resize, P!channel, PoolsChannel, P!NoIdleItem
<1> QED
  BY <1>5, <1>6, <1>7, <1>8

\* clear() takes the shelf.
LEMMA PoolsClearStep ==
  ASSUME PoolsInv, NEW t \in Threads, P!ClearBegins(t)
  PROVE  PoolsInv'
<1> USE DEF PoolsInv
<1> DEFINE n == Len(pools_free_items)
           mine == {t} \X (1..n)
<1>1. /\ pools_state[t] = "out" /\ pools_free_items # <<>> /\ P!Goes(t, "clearing")
      /\ pools_closing' = pools_closing \cup mine
      /\ pools_free_items' = <<>> /\ pools_timer' = FALSE
      /\ UNCHANGED <<pools_kind, pools_perils, pools_max_size, pools_item, pools_getters,
                     pools_putters, pools_stale, pools_refused, pools_unlock, pools_lost,
                     pools_current_size>>
  BY DEF P!ClearBegins, P!SetShelf, P!Shelf, P!channel
<1>2. n \in Nat /\ n > 0
  BY <1>1 DEF PoolsShape
<1>3. /\ pools_state' \in [Threads -> P!States] /\ pools_state'[t] = "clearing"
      /\ \A u \in Threads : u # t => pools_state'[u] = pools_state[u]
      /\ Cardinality(BusyOf(pools_state)) \in Nat /\ Cardinality(BusyOf(pools_state')) \in Nat
      /\ Cardinality(BusyOf(pools_state')) = Cardinality(BusyOf(pools_state))
  BY <1>1, PoolsGoes DEF Place, Busy, P!States
<1>4. IsFiniteSet(mine) /\ Cardinality(mine) = n
  <2>1. IsFiniteSet({t}) /\ Cardinality({t}) = 1
    BY FS_Singleton
  <2>2. IsFiniteSet(1..n) /\ Cardinality(1..n) = n
    BY <1>2, FS_Interval
  <2> HIDE DEF n
  <2>3. IsFiniteSet(mine) /\ Cardinality(mine) = Cardinality({t}) * Cardinality(1..n)
    BY <2>1, <2>2, FS_Product
  <2> QED
    BY <1>2, <2>1, <2>2, <2>3
<1>5. mine \cap pools_closing = {}
  <2> SUFFICES ASSUME NEW i \in 1..n, <<t, i>> \in pools_closing PROVE FALSE
    OBVIOUS
  <2>1. 1 \in 1..i
    BY <1>2
  <2>2. <<t, i>>[2] = i /\ <<t, i>>[1] = t
    OBVIOUS
  <2>3. <<t, 1>> \in pools_closing
    BY <2>1, <2>2 DEF PoolsClosing
  <2> QED
    BY <1>1, <2>3 DEF PoolsClosing
<1>6. /\ IsFiniteSet(pools_closing) /\ IsFiniteSet(pools_closing')
      /\ Cardinality(pools_closing) \in Nat
      /\ Cardinality(pools_closing') = Cardinality(pools_closing) + n
  <2>1. IsFiniteSet(pools_closing)
    BY DEF PoolsClosing
  <2>2. pools_closing \cap mine = {} /\ Cardinality({}) = 0
    BY <1>5, FS_EmptySet
  <2>3. /\ IsFiniteSet(pools_closing \cup mine) /\ Cardinality(pools_closing) \in Nat
        /\ Cardinality(pools_closing \cup mine) =
             Cardinality(pools_closing) + Cardinality(mine) - Cardinality(pools_closing \cap mine)
    BY <1>4, <2>1, FS_Union, FS_CardinalityType
  <2>4. pools_closing' = pools_closing \cup mine
    BY <1>1
  <2> HIDE DEF n, mine
  <2>5. Cardinality(pools_closing \cup mine) = Cardinality(pools_closing) + n
    <3>1. Cardinality(pools_closing \cap mine) = 0
      BY <2>2, Zenon
    <3>2. Cardinality(mine) = n
      BY <1>4
    <3> QED
      BY <1>2, <2>3, <3>1, <3>2
  <2> QED
    BY <2>1, <2>3, <2>4, <2>5
<1>7. PoolsShape'
  <2>1. P!In("waiting")' = P!In("waiting") /\ P!In("putting")' = P!In("putting")
    BY <1>1, <1>3 DEF P!In
  <2>2. <<>> \in Seq({"conn", "flag"}) /\ FALSE \in BOOLEAN
    OBVIOUS
  <2>3. pools_free_items' \in Seq({"conn", "flag"}) /\ pools_timer' \in BOOLEAN
    BY <1>1, <2>2, Zenon
  <2> QED
    BY <1>1, <1>3, <2>1, <2>3 DEF PoolsShape
<1>8. PoolsClosing'
  <2>1. pools_closing' \subseteq Threads \X Nat
    BY <1>1, <1>2 DEF PoolsClosing
  <2>2. ASSUME NEW u \in Threads
        PROVE  pools_state'[u] = "clearing" <=> <<u, 1>> \in pools_closing'
    <3>1. <<u, 1>> \in mine <=> u = t
      BY <1>2
    <3>2. pools_state[u] = "clearing" <=> <<u, 1>> \in pools_closing
      BY DEF PoolsClosing
    <3> HIDE DEF mine
    <3>3. <<u, 1>> \in pools_closing' <=> <<u, 1>> \in pools_closing \/ u = t
      BY <1>1, <3>1
    <3> QED
      BY <1>1, <1>3, <3>2, <3>3
  <2>3. ASSUME NEW c \in pools_closing'
        PROVE  c[2] > 0 /\ \A i \in 1..c[2] : <<c[1], i>> \in pools_closing'
    <3>1. CASE c \in pools_closing
      BY <1>1, <3>1 DEF PoolsClosing
    <3>2. CASE c \in mine
      <4>1. c[1] = t /\ c[2] \in 1..n
        BY <3>2
      <4> QED
        BY <1>1, <1>2, <4>1
    <3> QED
      BY <1>1, <2>3, <3>1, <3>2
  <2> QED
    BY <1>6, <2>1, <2>2, <2>3 DEF PoolsClosing
<1>9. PoolsSize'
  <2>1. /\ n \in Int /\ Len(pools_free_items') = 0
        /\ pools_current_size \in Int /\ pools_lost \in Nat
        /\ pools_current_size' = pools_current_size /\ pools_lost' = pools_lost
        /\ pools_free_items' \in Seq({"conn", "flag"}) /\ pools_current_size' <= P!MaxSize
    BY <1>1, <1>2 DEF PoolsShape, PoolsSize
  <2>2. (pools_current_size' - Len(pools_free_items')) - pools_lost' =
          ((pools_current_size - Len(pools_free_items)) - pools_lost) + n
    BY <2>1
  <2>3. Cardinality(BusyOf(pools_state')) + Cardinality(pools_closing') =
          (Cardinality(BusyOf(pools_state)) + Cardinality(pools_closing)) + n
    BY <1>2, <1>3, <1>6
  <2>4. PoolsShape /\ PoolsSize /\ pools_lost' \in Nat /\ pools_current_size' \in Int
    BY <2>1
  <2> HIDE DEF n, PoolsInv
  <2> QED
    BY <1>3, <1>6, <2>1, <2>2, <2>3, <2>4, PoolsSizeStep
<1>10. PoolsChannel' /\ P!NoIdleItem' /\ P!IdleExpires'
  BY <1>1 DEF PoolsChannel, P!NoIdleItem, P!IdleExpires
<1> QED
  BY <1>7, <1>8, <1>9, <1>10

\* clear() closes an item and gives its place back.
LEMMA PoolsClearOneStep ==
  ASSUME PoolsInv, NEW t \in Threads, P!ClearOne(t)
  PROVE  PoolsInv'
<1> USE DEF PoolsInv
<1>1. PICK n \in 1..P!MaxSize :
        /\ <<t, n>> \in pools_closing /\ <<t, n + 1>> \notin pools_closing
        /\ pools_closing' = pools_closing \ {<<t, n>>}
        /\ IF n = 1 THEN P!Goes(t, "out") ELSE UNCHANGED pools_state
  BY DEF P!ClearOne
<1>2. /\ pools_state[t] = "clearing"
      /\ pools_free_items' = pools_free_items /\ pools_timer' = pools_timer
      /\ pools_current_size' = pools_current_size - 1
      /\ UNCHANGED <<pools_kind, pools_perils, pools_max_size, pools_item, pools_getters,
                     pools_putters, pools_stale, pools_refused, pools_unlock, pools_lost>>
  BY DEF P!ClearOne, P!SetShelf, P!Shelf, P!Drop, P!channel
<1>3. /\ pools_state' \in [Threads -> P!States]
      /\ pools_state'[t] = IF n = 1 THEN "out" ELSE "clearing"
      /\ \A u \in Threads : u # t => pools_state'[u] = pools_state[u]
      /\ Cardinality(BusyOf(pools_state)) \in Nat /\ Cardinality(BusyOf(pools_state')) \in Nat
      /\ Cardinality(BusyOf(pools_state')) = Cardinality(BusyOf(pools_state))
  <2>1. CASE n = 1
    BY <1>1, <1>2, <2>1, PoolsGoes DEF Place, Busy, P!States
  <2>2. CASE n # 1
    BY <1>1, <1>2, <2>2, BusyGoes DEF PoolsShape, P!States
  <2> QED
    BY <2>1, <2>2
<1>4. /\ IsFiniteSet(pools_closing) /\ IsFiniteSet(pools_closing')
      /\ Cardinality(pools_closing) \in Nat
      /\ Cardinality(pools_closing') = Cardinality(pools_closing) - 1
  BY <1>1, FS_RemoveElement, FS_CardinalityType DEF PoolsClosing
<1>5. PoolsShape'
  <2>1. P!In("waiting")' = P!In("waiting") /\ P!In("putting")' = P!In("putting")
    BY <1>2, <1>3 DEF P!In
  <2>2. pools_current_size' \in Int
    BY <1>2 DEF PoolsShape
  <2> QED
    BY <1>2, <1>3, <2>1, <2>2 DEF PoolsShape
<1>6. PoolsClosing'
  <2>0. n \in Nat /\ n > 0
    BY SizesBelow
  <2>1. \A c \in pools_closing : c \in Threads \X Nat /\ c = <<c[1], c[2]>> /\ c[2] \in Nat
    BY DEF PoolsClosing
  \* The item is the last one of the thread.
  <2>2. ASSUME NEW c \in pools_closing', c[1] = t PROVE c[2] < n
    <3>1. c \in pools_closing /\ c # <<t, n>>
      BY <1>1
    <3>2. c[2] # n
      BY <2>1, <2>2, <3>1
    <3>3. ~(n + 1 \in 1..c[2])
      BY <1>1, <2>2, <3>1 DEF PoolsClosing
    <3> QED
      BY <2>0, <2>1, <3>1, <3>2, <3>3
  <2>3. ASSUME NEW u \in Threads
        PROVE  pools_state'[u] = "clearing" <=> <<u, 1>> \in pools_closing'
    BY <1>1, <1>2, <1>3, <2>0, <2>1 DEF PoolsClosing
  <2>4. ASSUME NEW c \in pools_closing'
        PROVE  c[2] > 0 /\ \A i \in 1..c[2] : <<c[1], i>> \in pools_closing'
    <3>1. /\ c \in pools_closing /\ c[2] \in Nat
          /\ c[2] > 0 /\ \A i \in 1..c[2] : <<c[1], i>> \in pools_closing
      BY <1>1, <2>1 DEF PoolsClosing
    <3>2. ASSUME NEW i \in 1..c[2] PROVE <<c[1], i>> # <<t, n>>
      <4>1. CASE c[1] = t
        <5>1. c[2] < n
          BY <2>2, <4>1
        <5>2. i # n
          BY <2>0, <3>1, <5>1
        <5> QED
          BY <5>2
      <4> QED
        BY <4>1
    <3> QED
      BY <1>1, <3>1, <3>2
  <2> QED
    BY <1>1, <1>4, <2>3, <2>4 DEF PoolsClosing
<1>7. PoolsSize'
  <2>1. /\ pools_current_size \in Int /\ pools_lost \in Nat /\ Len(pools_free_items) \in Nat
        /\ pools_current_size' \in Int /\ pools_lost' \in Nat
        /\ pools_free_items' \in Seq({"conn", "flag"})
        /\ pools_current_size' <= P!MaxSize
    BY <1>2, SizesBelow DEF PoolsShape, PoolsSize
  <2>2. (pools_current_size' - Len(pools_free_items')) - pools_lost' =
          ((pools_current_size - Len(pools_free_items)) - pools_lost) + (-1)
    BY <1>2, <2>1
  <2>3. Cardinality(BusyOf(pools_state')) + Cardinality(pools_closing') =
          (Cardinality(BusyOf(pools_state)) + Cardinality(pools_closing)) + (-1)
    BY <1>3, <1>4
  <2>4. PoolsShape /\ PoolsSize /\ -1 \in Int
    OBVIOUS
  <2> HIDE DEF PoolsInv
  <2> QED
    BY <1>3, <1>4, <2>1, <2>2, <2>3, <2>4, PoolsSizeStep
<1>8. PoolsChannel' /\ P!NoIdleItem'
  BY <1>2 DEF PoolsChannel, P!NoIdleItem
<1>9. P!IdleExpires'
  BY <1>2, <1>3 DEF P!IdleExpires
<1> QED
  BY <1>5, <1>6, <1>7, <1>8, <1>9

\* The expiration timer fires.
LEMMA PoolsExpireStep ==
  ASSUME PoolsInv, P!Expire
  PROVE  PoolsInv'
<1> USE DEF PoolsInv
<1> DEFINE f == pools_free_items
           n == pools_current_size
<1>1. /\ UNCHANGED <<pools_kind, pools_perils, pools_max_size, pools_item, pools_getters,
                     pools_putters, pools_stale, pools_refused, pools_unlock, pools_lost,
                     pools_closing, pools_state>>
      /\ \E S \in P!Expired([free |-> f, size |-> n, timer |-> FALSE]) : P!SetShelf(S)
  <2>1. [P!Shelf EXCEPT !.timer = FALSE] = [free |-> f, size |-> n, timer |-> FALSE]
    <3> DEFINE X == [P!Shelf EXCEPT !.timer = FALSE]
    <3> HIDE DEF PoolsInv
    <3>1. X = [i \in {"free", "size", "timer"} |-> X[i]]
      BY DEF P!Shelf
    <3>2. X.free = f /\ X.size = n /\ X.timer = FALSE
      BY DEF P!Shelf
    <3> HIDE DEF X, f, n
    <3>3. X = [free |-> f, size |-> n, timer |-> FALSE]
      BY <3>1, <3>2
    <3> QED
      BY <3>3 DEF X
  <2>2. \E S \in P!Expired([P!Shelf EXCEPT !.timer = FALSE]) : P!SetShelf(S)
    BY DEF P!Expire
  <2>3. UNCHANGED <<pools_kind, pools_perils, pools_max_size, pools_item, pools_getters,
                    pools_putters, pools_stale, pools_refused, pools_unlock, pools_lost,
                    pools_closing, pools_state>>
    BY DEF P!Expire, P!channel
  <2> QED
    BY <2>1, <2>2, <2>3
<1>2. f \in Seq({"conn", "flag"}) /\ n \in Int /\ Len(f) \in Nat /\ n <= P!MaxSize
      /\ P!MaxSize \in Nat /\ pools_lost \in Nat
  BY SizesBelow DEF PoolsShape, PoolsSize
<1>3. PICK S \in P!Expired([free |-> f, size |-> n, timer |-> FALSE]) : P!SetShelf(S)
  BY <1>1
<1>4. /\ pools_free_items' \in Seq({"conn", "flag"})
      /\ pools_current_size' \in Int /\ pools_timer' \in BOOLEAN
      /\ pools_current_size' - Len(pools_free_items') = n - Len(f)
      /\ pools_current_size' <= n
      /\ f = <<>> => pools_free_items' = <<>>
      /\ pools_kind = "db" =>
           pools_free_items' = <<>> \/ pools_timer' \/ P!Contains(pools_free_items', "flag")
  <2>1. FALSE \in BOOLEAN
    OBVIOUS
  <2> HIDE DEF PoolsInv
  <2> QED
    BY <1>2, <1>3, <2>1, ShelfSet
<1>5. PoolsShape' /\ PoolsClosing'
  BY <1>1, <1>4 DEF PoolsShape, PoolsClosing, P!In
<1>6. PoolsSize'
  <2>1. /\ pools_current_size' <= P!MaxSize /\ pools_lost' \in Nat
        /\ Len(pools_free_items') \in Nat
    BY <1>1, <1>2, <1>4
  <2>2. (pools_current_size' - Len(pools_free_items')) - pools_lost' =
          ((n - Len(f)) - pools_lost) + 0
    BY <1>1, <1>2, <1>4, <2>1
  <2>3. /\ IsFiniteSet(pools_closing) /\ IsFiniteSet(pools_closing')
        /\ Cardinality(pools_closing) \in Nat /\ 0 \in Int
        /\ Cardinality(BusyOf(pools_state)) \in Nat
        /\ Cardinality(BusyOf(pools_state')) \in Nat
    <3>1. BusyOf(pools_state) \in SUBSET Threads
      BY DEF BusyOf
    <3>2. Cardinality(BusyOf(pools_state)) \in Nat
      BY <3>1, FS_Subset, FS_CardinalityType, ResourcesAssumption
    <3> QED
      BY <1>1, <3>2, FS_CardinalityType DEF PoolsClosing
  <2>4. Cardinality(BusyOf(pools_state')) + Cardinality(pools_closing') =
          (Cardinality(BusyOf(pools_state)) + Cardinality(pools_closing)) + 0
    BY <1>1, <2>3
  <2>5. PoolsShape /\ PoolsSize
    OBVIOUS
  <2> HIDE DEF PoolsInv
  <2> QED
    BY <1>4, <2>1, <2>2, <2>3, <2>4, <2>5, PoolsSizeStep
<1>7. PoolsChannel' /\ P!NoIdleItem'
  BY <1>1, <1>4 DEF PoolsChannel, P!NoIdleItem
<1>8. P!IdleExpires'
  BY <1>1, <1>4 DEF P!IdleExpires
<1> QED
  BY <1>5, <1>6, <1>7, <1>8

LEMMA PoolsInvStep == PoolsInv /\ (P!Next \/ UNCHANGED poolsVars) => PoolsInv'
<1> SUFFICES ASSUME PoolsInv, P!Next \/ UNCHANGED poolsVars PROVE PoolsInv'
  OBVIOUS
<1>1. ASSUME NEW t \in Threads, P!Get(t) PROVE PoolsInv'
  BY <1>1, PoolsShelfStep, PoolsWaitStep DEF P!Get
<1>2. ASSUME NEW t \in Threads, P!GivesBack(t) PROVE PoolsInv'
  <2>1. CASE P!PutItem(t) \/ P!PutConnection(t)
    <3>1. /\ pools_state[t] \in {"holding", "cleaning"} /\ P!Put(t, "conn")
          /\ UNCHANGED <<pools_kind, pools_perils, pools_max_size, pools_closing, pools_lost>>
          /\ "conn" \in {"conn", "flag"}
      BY <2>1 DEF P!PutItem, P!PutConnection
    <3> QED
      BY <3>1, PoolsPutStep
  <2>2. CASE P!PutDead(t)
    <3>1. /\ pools_state[t] \in {"holding", "cleaning"} /\ "flag" \in {"conn", "flag"}
          /\ UNCHANGED <<pools_kind, pools_perils, pools_max_size, pools_closing, pools_lost>>
          /\ \/ P!Put(t, "flag")
             \/ /\ \E S \in P!Expired(P!Drop) : P!SetShelf(S)
                /\ P!Goes(t, "out")
                /\ UNCHANGED <<pools_item, P!channel>>
      BY <2>2 DEF P!PutDead
    <3> QED
      BY <3>1, PoolsPutStep
  <2>3. CASE P!Created(t) \/ P!PutCleans(t) \/ P!PutReturns(t)
    BY <2>3, PoolsShelfStep
  <2>4. CASE P!PutRefused(t) \/ P!ClearOne(t)
    BY <2>4, PoolsRefusedStep, PoolsClearOneStep
  <2> QED
    BY <1>2, <2>1, <2>2, <2>3, <2>4 DEF P!GivesBack
<1>3. ASSUME NEW t \in Threads, P!Interrupted(t) PROVE PoolsInv'
  BY <1>3, PoolsShelfStep, PoolsWaitStep, PoolsPutInterruptedStep DEF P!Interrupted
<1>4. ASSUME NEW t \in Threads, P!ClearBegins(t) PROVE PoolsInv'
  BY <1>4, PoolsClearStep
<1>5. CASE P!Unlock \/ P!Expire \/ \E size \in Sizes : P!resize(size)
  BY <1>5, PoolsPairStep, PoolsUnlockStep, PoolsExpireStep DEF P!Unlock
<1>6. CASE UNCHANGED poolsVars
  BY <1>6 DEF poolsVars, PoolsInv, PoolsShape, PoolsClosing, PoolsSize, PoolsChannel,
              P!MaxSize, P!In, P!NoIdleItem, P!IdleExpires
<1> QED
  BY <1>1, <1>2, <1>3, <1>4, <1>5, <1>6 DEF P!Next

LEMMA PoolsInvExact == PoolsInv => P!SizeExact /\ P!NoIdleItem /\ P!IdleExpires
<1> SUFFICES ASSUME PoolsInv PROVE P!SizeExact
  BY DEF PoolsInv
<1>1. UNION {P!In(s) : s \in {"creating", "recreating", "holding", "cleaning", "putting"}} =
        BusyOf(pools_state)
  BY DEF P!In, BusyOf, Busy
<1>2. P!Existing = Len(pools_free_items) + Cardinality(BusyOf(pools_state))
                     + Cardinality(pools_closing)
  BY <1>1, SameCardinality DEF P!Existing
<1> QED
  BY <1>2 DEF PoolsInv, PoolsSize, P!SizeExact

-----------------------------------------------------------------------------
(* The components together: a behaviour is one of its subject. *)

ResourcesInv ==
  /\ subject = "pools" => PoolsInv
  /\ subject = "dag" => DagInv
  /\ subject = "tpool" => TpoolInv
  /\ subject = "capped" => CappedInv
  /\ subject = "join" => JoinInv
  /\ subject = "map" => MapInv
  /\ subject = "timeout" => TimeoutInv

LEMMA ResourcesInvInit == Init => ResourcesInv
  BY PoolsInvInit, DagInvInit, TpoolInvInit, CappedInvInit, JoinInvInit, MapInvInit,
     TimeoutInvInit DEF Init, ResourcesInv

LEMMA ResourcesInvStep == ResourcesInv /\ [Next]_vars => ResourcesInv'
<1> SUFFICES ASSUME ResourcesInv, [Next]_vars PROVE ResourcesInv'
  OBVIOUS
<1>1. CASE InPools(P!Next)
  <2>1. subject = "pools" /\ subject' = "pools" /\ P!Next
    BY <1>1 DEF InPools
  <2> QED
    BY <2>1, PoolsInvStep DEF ResourcesInv
<1>2. CASE InDag(D!DagNext)
  <2>1. subject = "dag" /\ subject' = "dag" /\ D!DagNext
    BY <1>2 DEF InDag
  <2> QED
    BY <2>1, DagInvStep DEF ResourcesInv
<1>3. CASE InTpool(T!TpoolNext)
  <2>1. subject = "tpool" /\ subject' = "tpool" /\ T!TpoolNext
    BY <1>3 DEF InTpool
  <2> QED
    BY <2>1, TpoolInvStep DEF ResourcesInv
<1>4. CASE InCapped(C!CappedNext)
  <2>1. subject = "capped" /\ subject' = "capped" /\ C!CappedNext
    BY <1>4 DEF InCapped
  <2> QED
    BY <2>1, CappedInvStep DEF ResourcesInv
<1>5. CASE InJoin(J!JoinNext)
  <2>1. subject = "join" /\ subject' = "join" /\ J!JoinNext
    BY <1>5 DEF InJoin
  <2> QED
    BY <2>1, JoinInvStep DEF ResourcesInv
<1>6. CASE InMap(G!MapNext)
  <2>1. subject = "map" /\ subject' = "map" /\ G!MapNext
    BY <1>6 DEF InMap
  <2> QED
    BY <2>1, MapInvStep DEF ResourcesInv
<1>7. CASE InTimeout(O!TimeoutNext)
  <2>1. subject = "timeout" /\ subject' = "timeout" /\ O!TimeoutNext
    BY <1>7 DEF InTimeout
  <2> QED
    BY <2>1, TimeoutInvStep DEF ResourcesInv
<1>8. CASE UNCHANGED vars
  <2>1. /\ subject' = subject
        /\ UNCHANGED poolsVars /\ UNCHANGED dagVars /\ UNCHANGED tpoolVars
        /\ UNCHANGED cappedVars /\ UNCHANGED joinVars /\ UNCHANGED mapVars
        /\ UNCHANGED timeoutVars
    BY <1>8 DEF vars
  <2>2. UNCHANGED T!tpoolVars /\ UNCHANGED C!cappedVars
    BY <2>1 DEF tpoolVars, cappedVars, T!tpoolVars, C!cappedVars
  <2>3. UNCHANGED J!joinVars /\ UNCHANGED G!mapVars
    BY <2>1 DEF joinVars, mapVars, J!joinVars, G!mapVars
  <2>4. /\ PoolsInv => PoolsInv'
        /\ DagInv => DagInv'
        /\ TimeoutInv => TimeoutInv'
    BY <2>1, PoolsInvStep, DagInvStep, TimeoutInvStep
  <2>5. /\ TpoolInv => TpoolInv'
        /\ CappedInv => CappedInv'
    BY <2>2, TpoolInvStep, CappedInvStep
  <2>6. /\ JoinInv => JoinInv'
        /\ MapInv => MapInv'
    BY <2>3, JoinInvStep, MapInvStep
  <2> QED
    BY <2>1, <2>4, <2>5, <2>6 DEF ResourcesInv
<1> QED
  BY <1>1, <1>2, <1>3, <1>4, <1>5, <1>6, <1>7, <1>8 DEF Next

\* What the seven proofs rest on holds in every reachable state.
THEOREM ResourcesInvariant == Spec => []ResourcesInv
<1>1. Init => ResourcesInv
  BY ResourcesInvInit
<1>2. ResourcesInv /\ [Next]_vars => ResourcesInv'
  BY ResourcesInvStep
<1> QED
  BY <1>1, <1>2, PTL DEF Spec

\* pools.py:81-130, db_pool.py:66-104, 173-260, for any number of threads, any sizes and
\* any sequence of failures: current_size counts what exists; without interrupts nobody
\* waits while an item lies on the shelf, and a connection there has its timer.
THEOREM PoolsKeepCount == Spec => []PoolsExact
<1>1. ResourcesInv => PoolsExact
  BY PoolsInvExact DEF ResourcesInv, PoolsExact
<1> QED
  BY <1>1, ResourcesInvariant, PTL

\* dagpool.py:290-306, 331-408, for any keys, greenthreads and threads outside: self.coros
\* knows exactly who has not ended, while no key is spawned again during its kill(); no
\* loop waits for a key that has a value, while no body of a loop switches.
THEOREM DagOverlooksNothing == Spec => []DagExact
<1>1. ResourcesInv => DagExact
  BY DagInvExact DEF ResourcesInv, DagExact
<1> QED
  BY <1>1, ResourcesInvariant, PTL

\* tpool.py:46-92, for any calls and workers, with killall() and setup() at any moment:
\* a reply on the queue has its byte in the socket, and no call is in two places.
THEOREM TpoolLosesNoReply == Spec => []TpoolRepliesSeen
<1>1. ResourcesInv => TpoolRepliesSeen
  BY TpoolInvExact DEF ResourcesInv, TpoolRepliesSeen
<1> QED
  BY <1>1, ResourcesInvariant, PTL

\* semaphore.py:256-305, queue.py:429-465, greenpool.py:184-254, for any limit, threads,
\* size of the pile and number of its items: the bounds of a CappedSemaphore add up to
\* the limit, and who waits for a bound that is free has a timer on its way; who is in
\* join() when the count is zero is on the way out; a pile yields in the order of spawn().
THEOREM CountsKept == Spec => []CountsExact
<1>1. ResourcesInv => CountsExact
  BY CappedInvExact, MapInvExact DEF ResourcesInv, JoinInv, CountsExact
<1> QED
  BY <1>1, ResourcesInvariant, PTL

\* timeout.py:57-89, 124-154, for any threads, blocks and delays: no Timeout is raised in
\* its thread when that has left its block, and none that is silent is seen outside.
THEOREM TimeoutsStayInside == Spec => []TimeoutsExact
<1>1. ResourcesInv => TimeoutsExact
  BY DEF ResourcesInv, TimeoutInv, TimeoutsExact
<1> QED
  BY <1>1, ResourcesInvariant, PTL

=============================================================================
