---------------------------- MODULE NetworkProofs ----------------------------
(***************************************************************************)
(* Proofs about what MCNetwork composes, for all values of the constants   *)
(* that NetworkAssumption allows.  Each component has an inductive         *)
(* invariant of its own, which its section states and proves step by step  *)
(* (those of Listeners and GreenSocket are in SocketProofs); the last      *)
(* section puts them together.                                             *)
(***************************************************************************)
EXTENDS MCNetwork, WaitQueueTheorems, WellFoundedInduction, TLAPS

-----------------------------------------------------------------------------
(* Awaitable *)

Fates == {"result", "error", "cancelled"}

\* The functions linked to the greenthread are of tasks, but for the one that
\* follows the future; a callback or a wake-up of the future means that it is done.
AwaitShape ==
  /\ await_future \in {"coroutine", "pending"} \cup Fates
  /\ await_thread \in {"new", "waiting", "dead", "unborn"}
  /\ await_outcome \in {"none", "exit"} \cup Fates
  /\ await_thread \in {"dead", "unborn"} <=> await_outcome # "none"
  /\ await_links \in Seq(Tasks \cup {"wrapped"})
  /\ await_awaits \in [Tasks -> {"out", "pending"} \cup Fates]
  /\ await_wake \/ "done" \in await_soon => await_future \in Fates

\* As long as the greenthread lives, whom its end concerns is linked.
AwaitLinked ==
  /\ await_thread = "waiting" => Contains(await_links, "wrapped")
  /\ await_thread \in {"new", "waiting"} =>
       \A a \in Tasks : await_awaits[a] = "pending" => Contains(await_links, a)

AwaitInv ==
  /\ AwaitShape
  /\ AwaitLinked
  /\ W!NoNewsLost /\ W!KillCancels /\ W!CancelKills /\ W!EndReaches

\* The operators of the community modules are the same in every instance.
LEMMA SameAwaitOperators ==
  /\ \A q, t : W!Contains(q, t) <=> Contains(q, t)
  /\ \A q : W!ToSet(q) = ToSet(q)
<1>1. \A q, t : W!Contains(q, t) <=> Contains(q, t)
  BY DEF W!Contains, Contains
<1>2. \A q : W!ToSet(q) = ToSet(q)
  BY DEF W!ToSet, ToSet
<1> QED
  BY <1>1, <1>2

LEMMA AwaitInvInit == W!AwaitInit => AwaitInv
<1> SUFFICES ASSUME W!AwaitInit PROVE AwaitInv
  OBVIOUS
<1>1. AwaitShape
  BY DEF W!AwaitInit, W!Ended, AwaitShape, Fates
<1>2. AwaitLinked /\ W!NoNewsLost /\ W!KillCancels /\ W!CancelKills /\ W!EndReaches
  BY DEF W!AwaitInit, AwaitLinked, W!NoNewsLost, W!KillCancels, W!CancelKills, W!EndReaches
<1> QED
  BY <1>1, <1>2 DEF AwaitInv

\* The functions _resolve_links() calls are some of those linked, and all of them
\* unless the greenthread ends by an exception of its future.
LEMMA CalledOfLinks ==
  ASSUME NEW E, NEW funcs \in Seq(E), NEW with
  PROVE  /\ W!Called(funcs, with) \in Seq(E)
         /\ with \notin {"error", "cancelled"} => W!Called(funcs, with) = funcs
         /\ SubSeq(funcs, Len(W!Called(funcs, with)) + 1, Len(funcs)) \in Seq(E)
<1> DEFINE k == CHOOSE i \in 1..Len(funcs) : funcs[i] = "wrapped"
           short == W!Stops(with) /\ W!Contains(funcs, "wrapped")
<1>1. W!Called(funcs, with) = IF short THEN SubSeq(funcs, 1, k) ELSE funcs
  BY DEF W!Called
<1>2. short => k \in 1..Len(funcs)
  BY DEF W!Contains
<1>3. \A i \in 1..Len(funcs) : funcs[i] \in E
  BY ElementOfSeq
<1> HIDE DEF k
<1>4. W!Called(funcs, with) \in Seq(E)
  <2>1. CASE short
    <3>1. \A i \in 1..k : funcs[i] \in E
      BY <1>2, <1>3, <2>1
    <3>2. 1 \in Int /\ k \in Int
      BY <1>2, <2>1
    <3>3. SubSeq(funcs, 1, k) \in Seq(E)
      BY <3>1, <3>2, SubSeqProperties
    <3> QED
      BY <1>1, <2>1, <3>3
  <2> QED
    BY <1>1, <2>1
<1>5. with \notin {"error", "cancelled"} => W!Called(funcs, with) = funcs
  BY <1>1 DEF W!Stops
<1>6. SubSeq(funcs, Len(W!Called(funcs, with)) + 1, Len(funcs)) \in Seq(E)
  <2> DEFINE n == Len(W!Called(funcs, with))
  <2>1. n \in Nat
    BY <1>4
  <2> HIDE DEF n
  <2>2. \A i \in n + 1..Len(funcs) : funcs[i] \in E
    BY <1>3, <2>1
  <2>3. SubSeq(funcs, n + 1, Len(funcs)) \in Seq(E)
    BY <2>1, <2>2, SubSeqProperties
  <2> QED
    BY <2>3 DEF n
<1> QED
  BY <1>4, <1>5, <1>6

\* The greenthread ends, by the exception or result of its future or by a kill.
LEMMA AwaitEndsStep ==
  ASSUME AwaitInv, NEW with \in {"exit"} \cup Fates, NEW callback, callback \subseteq Tasks,
         await_thread \in {"new", "waiting"}, W!Ends(with, callback)
  PROVE  AwaitInv'
<1> DEFINE called == W!Called(await_links, with)
           answered == {a \in W!ToSet(called) \cap Tasks : await_awaits[a] = "pending"}
<1> USE DEF AwaitInv, AwaitShape, Fates
<1>1. /\ await_thread' \in {"dead", "unborn"}
      /\ await_thread' = "dead" => await_thread = "waiting"
      /\ await_outcome' = with /\ await_wake' = FALSE /\ await_future' = await_future
      /\ await_links' = SubSeq(await_links, Len(called) + 1, Len(await_links))
      /\ await_asked' = (await_asked \/ ("wrapped" \in W!ToSet(called) /\ with = "exit"
                                           /\ await_future \notin W!Ended))
      /\ await_awaits' = [a \in Tasks |-> IF a \in answered THEN W!Told(with)
                                          ELSE await_awaits[a]]
      /\ await_soon' = (await_soon \ callback) \cup answered
  BY DEF W!Ends, W!Resolve
<1>2. /\ with \in {"exit", "result"} => called = await_links
      /\ await_links' \in Seq(Tasks \cup {"wrapped"})
  BY <1>1, CalledOfLinks
<1>3. W!Told(with) \in Fates
  BY DEF W!Told
<1>4. answered \subseteq Tasks
  OBVIOUS
<1>5. with \in {"exit", "result"} =>
        \A x \in Tasks \cup {"wrapped"} : x \in W!ToSet(called) <=> Contains(await_links, x)
  BY <1>2, SameAwaitOperators, ElementsOfQueue
<1> HIDE DEF called
<1>6. "done" \notin answered
  BY NetworkAssumption
<1> HIDE DEF answered
<1>7. AwaitShape'
  <2>1. await_awaits' \in [Tasks -> {"out", "pending"} \cup Fates]
    BY <1>1, <1>3
  <2>2. await_wake' \/ "done" \in await_soon' => await_future' \in Fates
    BY <1>1, <1>6
  <2> QED
    BY <1>1, <1>2, <2>1, <2>2
<1>8. AwaitLinked' /\ W!NoNewsLost' /\ W!CancelKills'
  BY <1>1 DEF AwaitLinked, W!NoNewsLost, W!CancelKills, W!Over
<1>9. W!KillCancels'
  <2>1. CASE with = "exit" /\ await_thread = "waiting" /\ await_future = "pending"
    <3>1. "wrapped" \in W!ToSet(called)
      BY <1>5, <2>1 DEF AwaitLinked
    <3> QED
      BY <1>1, <2>1, <3>1 DEF W!KillCancels, W!Ended
  <2> QED
    BY <1>1, <2>1 DEF W!KillCancels
<1>10. W!EndReaches'
  <2>1. ASSUME NEW a \in Tasks, with \in {"exit", "result"} PROVE await_awaits'[a] # "pending"
    <3>1. CASE await_awaits[a] = "pending"
      <4>1. a \in W!ToSet(called)
        BY <1>5, <2>1, <3>1 DEF AwaitLinked
      <4>2. a \in answered
        BY <3>1, <4>1 DEF answered
      <4> QED
        BY <1>1, <1>3, <4>2
    <3>2. CASE await_awaits[a] # "pending"
      BY <1>1, <1>3, <3>2
    <3> QED
      BY <3>1, <3>2
  <2> QED
    BY <1>1, <2>1 DEF W!EndReaches
<1> QED
  BY <1>7, <1>8, <1>9, <1>10

\* __await__() and the cancellation of a task.
LEMMA AwaitTaskStep ==
  ASSUME AwaitInv, NEW a \in Tasks, W!Await(a) \/ W!CancelTask(a)
  PROVE  AwaitInv'
<1> USE DEF AwaitInv, AwaitShape, Fates
<1>1. /\ await_future' = await_future /\ await_thread' = await_thread
      /\ await_outcome' = await_outcome /\ await_asked' = await_asked
      /\ await_wake' = await_wake
  BY DEF W!Await, W!CancelTask
<1>2. CASE W!CancelTask(a)
  <2>1. /\ await_awaits[a] = "pending"
        /\ await_awaits' = [await_awaits EXCEPT ![a] = "cancelled"]
        /\ await_soon' = await_soon \cup {a} /\ await_links' = await_links
    BY <1>2 DEF W!CancelTask
  <2>2. a # "done"
    BY NetworkAssumption
  <2>3. AwaitShape' /\ AwaitLinked'
    BY <1>1, <2>1, <2>2 DEF AwaitLinked
  <2>4. W!NoNewsLost' /\ W!KillCancels' /\ W!CancelKills' /\ W!EndReaches'
    BY <1>1, <2>1 DEF W!NoNewsLost, W!KillCancels, W!CancelKills, W!EndReaches, W!Over
  <2> QED
    BY <2>3, <2>4
<1> DEFINE funcs == Append(await_links, a)
           waiting == [await_awaits EXCEPT ![a] = "pending"]
<1>3. /\ funcs \in Seq(Tasks \cup {"wrapped"})
      /\ Contains(funcs, a)
      /\ \A x : Contains(await_links, x) => Contains(funcs, x)
  <2>1. /\ funcs \in Seq(Tasks \cup {"wrapped"}) /\ Len(funcs) = Len(await_links) + 1
        /\ funcs[Len(await_links) + 1] = a
        /\ \A i \in 1..Len(await_links) : funcs[i] = await_links[i]
    BY AppendProperties
  <2> QED
    BY <2>1 DEF Contains
<1>4. waiting \in [Tasks -> {"out", "pending"} \cup Fates]
      /\ waiting[a] = "pending" /\ \A b \in Tasks : b # a => waiting[b] = await_awaits[b]
  OBVIOUS
<1>5. ToSet(funcs) \subseteq Tasks \cup {"wrapped"}
  <2> HIDE DEF funcs
  <2>1. ToSet(funcs) = {x \in Tasks \cup {"wrapped"} : Contains(funcs, x)}
    BY <1>3, ElementsOfQueue
  <2> QED
    BY <2>1
<1>6. CASE W!Await(a) /\ W!Over
  <2>1. /\ await_links' = <<>>
        /\ await_awaits' = [b \in Tasks |->
             IF W!Contains(funcs, b) /\ waiting[b] = "pending"
             THEN W!Told(await_outcome) ELSE waiting[b]]
        /\ await_soon' = await_soon \cup {b \in W!ToSet(funcs) : waiting[b] = "pending"}
    BY <1>6 DEF W!Await
  <2>2. await_thread \in {"dead", "unborn"}
    BY <1>6 DEF W!Over
  <2>3. W!Told(await_outcome) \in Fates
    BY DEF W!Told
  <2>4. "done" \in await_soon' => "done" \in await_soon
    BY <1>5, <2>1, NetworkAssumption, SameAwaitOperators
  <2>5. await_awaits' \in [Tasks -> {"out", "pending"} \cup Fates]
    BY <1>4, <2>1, <2>3
  <2> HIDE DEF funcs, waiting
  <2>6. AwaitShape' /\ AwaitLinked'
    BY <1>1, <2>1, <2>2, <2>4, <2>5 DEF AwaitLinked
  <2>7. W!NoNewsLost' /\ W!KillCancels' /\ W!CancelKills'
    BY <1>1, <2>2 DEF W!NoNewsLost, W!KillCancels, W!CancelKills, W!Over
  <2>8. W!EndReaches'
    <3>1. ASSUME await_outcome \in {"result", "exit"}, NEW b \in Tasks
          PROVE  await_awaits'[b] # "pending"
      <4>1. await_awaits[b] # "pending"
        BY <3>1 DEF W!EndReaches
      <4> QED
        BY <1>3, <1>4, <2>1, <2>3, <4>1, SameAwaitOperators
    <3> QED
      BY <1>1, <3>1 DEF W!EndReaches
  <2> QED
    BY <2>6, <2>7, <2>8
<1>7. CASE W!Await(a) /\ ~W!Over
  <2>1. await_links' = funcs /\ await_awaits' = waiting /\ await_soon' = await_soon
    BY <1>7 DEF W!Await
  <2>2. await_outcome = "none"
    BY <1>7 DEF W!Over
  <2> HIDE DEF funcs, waiting
  <2>3. AwaitShape'
    BY <1>1, <1>3, <1>4, <2>1
  <2>4. AwaitLinked'
    BY <1>1, <1>3, <1>4, <2>1 DEF AwaitLinked
  <2>5. W!NoNewsLost' /\ W!KillCancels' /\ W!EndReaches'
    BY <1>1, <2>1, <2>2 DEF W!NoNewsLost, W!KillCancels, W!EndReaches
  <2>6. W!CancelKills'
    BY <1>1, <1>4, <2>1 DEF W!CancelKills, W!Over
  <2> QED
    BY <2>3, <2>4, <2>5, <2>6
<1> QED
  BY <1>2, <1>6, <1>7

\* The start of the greenthread, the end of the future and its callback.
LEMMA AwaitFutureStep ==
  ASSUME AwaitInv,
         \/ W!Start \/ W!CancelFuture \/ W!DoneCallback
         \/ \E with \in Fates : W!FutureEnds(with)
  PROVE  AwaitInv'
<1> USE DEF AwaitInv, AwaitShape, Fates
<1>1. CASE W!Start
  <2>1. /\ await_thread = "new" /\ await_thread' = "waiting"
        /\ await_links' = Append(await_links, "wrapped")
        /\ await_future' = IF await_future = "coroutine" THEN "pending" ELSE await_future
        /\ await_soon' = IF await_future \in Fates THEN await_soon \cup {"done"} ELSE await_soon
        /\ UNCHANGED <<await_asked, await_outcome, await_wake, await_awaits>>
    BY <1>1 DEF W!Start, W!Ended
  <2>2. /\ await_links' \in Seq(Tasks \cup {"wrapped"})
        /\ Contains(await_links', "wrapped")
        /\ \A x : Contains(await_links, x) => Contains(await_links', x)
    <3>1. /\ await_links' \in Seq(Tasks \cup {"wrapped"})
          /\ Len(await_links') = Len(await_links) + 1
          /\ await_links'[Len(await_links) + 1] = "wrapped"
          /\ \A i \in 1..Len(await_links) : await_links'[i] = await_links[i]
      BY <2>1, AppendProperties
    <3> QED
      BY <3>1 DEF Contains
  <2>3. AwaitShape'
    BY <2>1, <2>2
  <2>4. AwaitLinked'
    BY <2>1, <2>2 DEF AwaitLinked
  <2>5. W!NoNewsLost' /\ W!KillCancels' /\ W!CancelKills' /\ W!EndReaches'
    BY <2>1 DEF W!NoNewsLost, W!KillCancels, W!CancelKills, W!EndReaches, W!Over, W!Ended
  <2> QED
    BY <2>3, <2>4, <2>5
<1>2. CASE W!CancelFuture \/ W!DoneCallback
  <2>1. /\ UNCHANGED <<await_future, await_thread, await_outcome, await_links, await_awaits>>
        /\ await_asked' = TRUE \/ await_asked' = await_asked
        /\ \/ await_soon' = await_soon /\ await_wake' = await_wake
           \/ /\ "done" \in await_soon /\ await_soon' = await_soon \ {"done"}
              /\ await_thread = "waiting" => await_wake' = TRUE
    BY <1>2 DEF W!CancelFuture, W!DoneCallback
  <2>2. AwaitShape' /\ AwaitLinked'
    BY <2>1 DEF AwaitLinked
  <2>3. W!NoNewsLost'
    BY <2>1 DEF W!NoNewsLost
  <2>4. W!KillCancels' /\ W!EndReaches'
    BY <2>1 DEF W!KillCancels, W!EndReaches
  <2>5. W!CancelKills'
    BY <2>1, NetworkAssumption DEF W!CancelKills, W!Over
  <2> QED
    BY <2>2, <2>3, <2>4, <2>5
<1>3. ASSUME NEW with \in Fates, W!FutureEnds(with) PROVE AwaitInv'
  <2>1. /\ await_future = "pending" /\ await_future' = with
        /\ await_soon' = IF await_thread = "new" THEN await_soon ELSE await_soon \cup {"done"}
        /\ UNCHANGED <<await_asked, await_thread, await_outcome, await_links, await_wake,
                       await_awaits>>
    BY <1>3 DEF W!FutureEnds
  <2>2. AwaitShape' /\ AwaitLinked'
    BY <2>1 DEF AwaitLinked
  <2>3. W!NoNewsLost' /\ W!KillCancels' /\ W!CancelKills' /\ W!EndReaches'
    BY <2>1 DEF W!NoNewsLost, W!KillCancels, W!CancelKills, W!EndReaches, W!Over
  <2> QED
    BY <2>2, <2>3
<1> QED
  BY <1>1, <1>2, <1>3

LEMMA AwaitInvStep == AwaitInv /\ (W!AwaitNext \/ UNCHANGED awaitVars) => AwaitInv'
<1> SUFFICES ASSUME AwaitInv, W!AwaitNext \/ UNCHANGED awaitVars PROVE AwaitInv'
  OBVIOUS
<1>0. ~W!Over => await_thread \in {"new", "waiting"}
  BY DEF AwaitInv, AwaitShape, W!Over
<1>1. CASE W!Wakes
  <2>1. /\ await_thread = "waiting" /\ await_future \in Fates /\ {} \subseteq Tasks
        /\ W!Ends(await_future, {})
    BY <1>1 DEF W!Wakes, AwaitInv, AwaitShape
  <2> QED
    BY <2>1, AwaitEndsStep
<1>2. CASE W!Kill
  <2>1. ~W!Over /\ W!Ends("exit", {}) /\ {} \subseteq Tasks /\ "exit" \in {"exit"}
    BY <1>2 DEF W!Kill
  <2> QED
    BY <1>0, <2>1, AwaitEndsStep
<1>3. ASSUME NEW a \in Tasks, W!GotFutureResult(a) PROVE AwaitInv'
  <2>1. CASE W!Kills(a)
    <3>1. ~W!Over /\ W!Ends("exit", {a}) /\ {a} \subseteq Tasks /\ "exit" \in {"exit"}
      BY <1>3, <2>1 DEF W!GotFutureResult, W!Kills
    <3> QED
      BY <1>0, <3>1, AwaitEndsStep
  <2>2. CASE ~W!Kills(a)
    <3>1. /\ await_soon' = await_soon \ {a}
          /\ await_future' = await_future /\ await_asked' = await_asked
          /\ await_thread' = await_thread /\ await_outcome' = await_outcome
          /\ await_links' = await_links /\ await_wake' = await_wake
          /\ await_awaits' = await_awaits
      BY <1>3, <2>2 DEF W!GotFutureResult
    <3>2. await_awaits[a] = "cancelled" => W!Over
      BY <2>2 DEF W!Kills
    <3>3. a # "done"
      BY NetworkAssumption
    <3>4. AwaitShape' /\ AwaitLinked'
      BY <3>1 DEF AwaitInv, AwaitShape, AwaitLinked
    <3>5. W!NoNewsLost'
      BY <3>1, <3>3 DEF AwaitInv, W!NoNewsLost
    <3>7. W!KillCancels' /\ W!EndReaches'
      BY <3>1 DEF AwaitInv, W!KillCancels, W!EndReaches
    <3>6. W!CancelKills'
      BY <3>1, <3>2 DEF AwaitInv, W!CancelKills, W!Over
    <3> QED
      BY <3>4, <3>5, <3>6, <3>7 DEF AwaitInv
  <2> QED
    BY <2>1, <2>2
<1>4. ASSUME NEW a \in Tasks, W!Await(a) \/ W!CancelTask(a) PROVE AwaitInv'
  BY <1>4, AwaitTaskStep
<1>5. CASE \/ W!Start \/ W!CancelFuture \/ W!DoneCallback
           \/ \E with \in Fates : W!FutureEnds(with)
  BY <1>5, AwaitFutureStep
<1>6. CASE UNCHANGED awaitVars
  BY <1>6 DEF awaitVars, AwaitInv, AwaitShape, AwaitLinked, W!NoNewsLost, W!KillCancels,
              W!CancelKills, W!EndReaches, W!Over
<1> QED
  BY <1>1, <1>2, <1>3, <1>4, <1>5, <1>6 DEF W!AwaitNext, Fates

-----------------------------------------------------------------------------
(* DnsQuery *)

Grams == {"ours", "truncated", "other", "stranger"}

\* A call of the socket lasts no longer than its timeout, a sleep begins before
\* the query expires, and a call that is not the first begins after a sleep.
UdpInTime ==
  /\ query_inbox \in Seq(Grams)
  /\ query_at \in {"send", "recv", "sleep", "done", "timeout", "failed"}
  /\ query_since \in Nat /\ query_now \in Nat
  /\ query_since <= Timeout + Pause /\ query_now <= 2 * Timeout + Pause
  /\ query_at \in {"send", "recv"} => query_now <= query_since + Timeout
  /\ query_at = "send" => query_since = 0
  /\ query_at = "sleep" => query_since < Timeout /\ query_now <= query_since + Pause

QueryInv ==
  /\ query_result \in {"none", "ours"}
  /\ query_transport = "udp" => UdpInTime

LEMMA QueryInvInit == Q!QueryInit => QueryInv
  BY NetworkAssumption DEF Q!QueryInit, QueryInv, UdpInTime, Grams

\* What has come is a sequence, also when one has left or come.
LEMMA InboxOfGrams ==
  ASSUME query_inbox \in Seq(Grams)
  PROVE  /\ \A gram \in Grams : Append(query_inbox, gram) \in Seq(Grams)
         /\ query_inbox # <<>> => Tail(query_inbox) \in Seq(Grams) /\ Head(query_inbox) \in Grams
  BY AppendProperties, HeadTailProperties

LEMMA QueryInvStep == QueryInv /\ (Q!QueryNext \/ UNCHANGED queryVars) => QueryInv'
<1> SUFFICES ASSUME QueryInv, Q!QueryNext \/ UNCHANGED queryVars PROVE QueryInv'
  OBVIOUS
<1>0. Timeout \in Nat /\ Pause \in Nat
  BY NetworkAssumption
<1>1. CASE query_transport # "udp"
  <2>1. query_transport' = query_transport /\ query_result' = query_result
    BY <1>1 DEF Q!QueryNext, Q!Proceeds, Q!Tick, Q!ArriveByte, Q!Arrive, Q!Connected,
      Q!QuerySent, Q!CallTimesOut, Q!Awake, Q!recvfrom, Q!recv, Q!ConnectionEnds, queryVars
  <2> QED
    BY <1>1, <2>1 DEF QueryInv
<1>2. CASE query_transport = "udp"
  <2> USE <1>0, <1>2 DEF QueryInv, UdpInTime
  <2>0. ASSUME NEW gram \in Grams, Q!Arrive(gram) PROVE QueryInv'
    BY <2>0, InboxOfGrams DEF Q!Arrive
  <2>1. CASE Q!Tick
    <3>1. /\ query_now' = query_now + 1
          /\ \/ query_at \in {"send", "recv"} /\ query_now < query_since + Timeout
             \/ query_at = "sleep" /\ query_now < query_since + Pause
          /\ UNCHANGED <<query_transport, query_at, query_since, query_inbox, query_result>>
      BY <2>1 DEF Q!Tick, Q!InCall
    <3> QED
      BY <3>1
  <2>2. CASE Q!QuerySent
    BY <2>2 DEF Q!QuerySent, Q!Call
  <2>3. CASE Q!CallTimesOut
    <3>1. query_now >= Timeout
      BY <2>3 DEF Q!CallTimesOut
    <3>2. /\ query_at' = "timeout"
          /\ UNCHANGED <<query_transport, query_now, query_since, query_inbox, query_result>>
      BY <2>3, <3>1 DEF Q!CallTimesOut, Q!expiration
    <3> QED
      BY <3>2
  <2>4. CASE Q!Awake
    BY <2>4 DEF Q!Awake, Q!Call
  <2>5. CASE Q!recvfrom
    <3>1. /\ query_inbox # <<>> /\ query_inbox' = Tail(query_inbox)
          /\ UNCHANGED <<query_transport, query_now>>
      BY <2>5 DEF Q!recvfrom
    <3>2. Tail(query_inbox) \in Seq(Grams) /\ Head(query_inbox) \in Grams
      BY <3>1, InboxOfGrams
    <3>3. \/ /\ query_at' \in {"timeout", "failed"} /\ query_result' = query_result
             /\ query_since' = query_since
          \/ /\ query_at' = "sleep" /\ query_now < Timeout /\ query_result' = query_result
             /\ query_since' = query_now
          \/ query_at' = "done" /\ query_result' = "ours" /\ query_since' = query_since
      BY <2>5, <3>2 DEF Q!recvfrom, Q!FromDestination, Q!Again, Q!Fails, Q!Call, Q!Expired,
        Q!expiration, Grams
    <3> QED
      BY <3>1, <3>2, <3>3
  <2>6. CASE Q!Connected \/ Q!ArriveByte \/ Q!recv \/ Q!ConnectionEnds
    BY <2>6 DEF Q!Connected, Q!ArriveByte, Q!recv, Q!ConnectionEnds
  <2>7. CASE UNCHANGED queryVars
    BY <2>7 DEF queryVars
  <2> HIDE DEF QueryInv, UdpInTime
  <2> QED
    BY <2>0, <2>1, <2>2, <2>3, <2>4, <2>5, <2>6, <2>7 DEF Q!QueryNext, Q!Proceeds, Grams
<1> QED
  BY <1>1, <1>2

LEMMA QueryInvSound == QueryInv => Q!QuerySound
  BY DEF QueryInv, UdpInTime, Q!QuerySound, Q!expiration
-----------------------------------------------------------------------------
(* DnsLookup *)

Ask(f, n) == [family |-> f, net |-> n]

Steps(r) ==
  CASE r = "any" ->
         {<<Ask("v6", FALSE), Ask("v4", FALSE), Ask("v6", TRUE), Ask("v4", TRUE)>>,
          <<Ask("v4", FALSE), Ask("v6", TRUE), Ask("v4", TRUE)>>,
          <<Ask("v6", TRUE), Ask("v4", TRUE)>>,
          <<Ask("v4", TRUE)>>}
    [] r \in {"v4", "v6"} -> {<<Ask(r, TRUE)>>}
    [] OTHER -> {<<Ask("v6", TRUE), Ask("v4", TRUE)>>, <<Ask("v4", TRUE)>>}

Asking == lookup_at \in {"step", "main", "root"}
Answering == {"hosts", "net", "root"}

\* A lookup that goes on is at a step of its plan.
LookupShape ==
  /\ lookup_request \in {"v4", "v6", "any", "mapped", "all"}
  /\ lookup_edits \in Nat
  /\ lookup_edits = 0 => lookup_loaded = lookup_file
  /\ lookup_file \subseteq {"v4", "v6"}
  /\ lookup_at \in {"step", "main", "root", "done", "failed"}
  /\ Asking => lookup_todo \in Steps(lookup_request)
  /\ lookup_at # "root" => lookup_found = {} /\ lookup_error = "none"
  /\ lookup_at = "root" => lookup_single /\ lookup_found \subseteq {"net"}

\* While it goes on, what it has is of an earlier step, for IPv6, and a lookup for
\* one family, or for the second if the first has nothing, has nothing.
LookupBefore ==
  Asking =>
    /\ lookup_addrs \subseteq {"v6"} \X Answering
    /\ H!Family = "v6" \/ lookup_request \notin {"any", "all"} => lookup_addrs = {}

\* A name of either family that the hosts file has is found in the first two steps.
LookupHosts ==
  lookup_request = "any" /\ lookup_edits = 0 /\ lookup_file # {} =>
    /\ lookup_asked = {}
    /\ lookup_at \notin {"main", "root"}
    /\ lookup_at = "step" => Len(lookup_todo) \in {3, 4}
    /\ lookup_at = "step" /\ Len(lookup_todo) = 3 /\ "v6" \in lookup_file => lookup_addrs # {}

OneSource(addrs) ==
  \A f \in {"v4", "v6"} : <<f, "hosts">> \in addrs => <<f, "net">> \notin addrs

Given(f) == \E w \in Answering : <<f, w>> \in lookup_addrs

\* A silence that nothing definite has followed is the error to raise, or is
\* going to be if the top-level name has no answer.
SilenceKept ==
  /\ \A f \in lookup_silent :
       \/ lookup_err = "timeout"
       \/ /\ lookup_at = "root" /\ f = H!Family
          /\ lookup_error = "timeout" /\ lookup_found = {}
  /\ lookup_at = "root" /\ lookup_error = "servfail" => lookup_silent = {}

LookupInv ==
  /\ LookupShape
  /\ LookupBefore
  /\ LookupHosts
  /\ OneSource(lookup_addrs)
  /\ lookup_at = "failed" /\ lookup_request # "all" => lookup_addrs = {}
  /\ SilenceKept
  /\ lookup_request # "all" =>
       \A f \in lookup_answered :
         Given(f) \/ (lookup_at = "root" /\ f = H!Family /\ "net" \in lookup_found)

\* The plan step by step.
LEMMA StepsOfPlan ==
  ASSUME NEW a, NEW b, NEW c, NEW d
  PROVE  /\ Head(<<a>>) = a /\ Tail(<<a>>) = <<>> /\ Len(<<a>>) = 1
         /\ Head(<<a, b>>) = a /\ Tail(<<a, b>>) = <<b>> /\ Len(<<a, b>>) = 2
         /\ Head(<<a, b, c>>) = a /\ Tail(<<a, b, c>>) = <<b, c>> /\ Len(<<a, b, c>>) = 3
         /\ Head(<<a, b, c, d>>) = a /\ Tail(<<a, b, c, d>>) = <<b, c, d>>
         /\ Len(<<a, b, c, d>>) = 4
  OBVIOUS

LEMMA LookupInvSound == LookupInv => H!LookupSound
  BY DEF LookupInv, LookupShape, LookupHosts, OneSource, SilenceKept, Given, Answering,
    H!LookupSound, H!Families

LEMMA LookupInvInit == H!LookupInit => LookupInv
<1> SUFFICES ASSUME H!LookupInit PROVE LookupInv
  OBVIOUS
<1>1. lookup_request \in {"v4", "v6", "any", "mapped", "all"}
  BY NetworkAssumption DEF H!LookupInit
<1>2. /\ H!Plan(lookup_request) \in Steps(lookup_request)
      /\ lookup_request = "any" => Len(H!Plan(lookup_request)) = 4
  <2>1. CASE lookup_request = "any"
    <3>1. H!Plan(lookup_request) = <<Ask("v6", FALSE), Ask("v4", FALSE), Ask("v6", TRUE),
                                     Ask("v4", TRUE)>>
      BY <2>1, Zenon DEF H!Plan, Ask, H!Families
    <3> QED
      BY <2>1, <3>1, StepsOfPlan DEF Steps
  <2>2. CASE lookup_request \in {"v4", "v6"}
    <3>1. H!Plan(lookup_request) = <<Ask(lookup_request, TRUE)>>
      BY <2>2 DEF H!Plan, Ask, H!Families
    <3> QED
      BY <2>2, <3>1 DEF Steps
  <2>3. CASE lookup_request \in {"mapped", "all"}
    <3>1. H!Plan(lookup_request) = <<Ask("v6", TRUE), Ask("v4", TRUE)>>
      BY <2>3 DEF H!Plan, Ask, H!Families
    <3> QED
      BY <2>3, <3>1 DEF Steps
  <2> QED
    BY <1>1, <2>1, <2>2, <2>3
<1>3. LookupShape
  BY <1>1, <1>2 DEF H!LookupInit, H!Families, LookupShape, Asking
<1>4. LookupBefore
  BY DEF H!LookupInit, LookupBefore
<1>5. LookupHosts
  BY <1>2 DEF H!LookupInit, LookupHosts
<1> QED
  BY <1>3, <1>4, <1>5 DEF H!LookupInit, LookupInv, OneSource, SilenceKept

\* The step after a step, and the family it asks for.
LEMMA NextStep ==
  ASSUME LookupShape, Asking
  PROVE  /\ H!Family \in {"v4", "v6"}
         /\ lookup_request \in {"v4", "v6"} => Tail(lookup_todo) = <<>>
         /\ Tail(lookup_todo) # <<>> => Tail(lookup_todo) \in Steps(lookup_request)
         /\ Tail(lookup_todo) # <<>> /\ lookup_request # "any" =>
              H!Family = "v6" /\ Head(Tail(lookup_todo)).family = "v4"
         /\ lookup_request = "any" =>
              /\ Len(lookup_todo) \in {1, 2, 3, 4}
              /\ Len(lookup_todo) = 1 => Tail(lookup_todo) = <<>>
              /\ Len(lookup_todo) # 1 => Len(Tail(lookup_todo)) = Len(lookup_todo) - 1
              /\ Len(lookup_todo) \in {2, 4} =>
                   H!Family = "v6" /\ Head(Tail(lookup_todo)).family = "v4"
              /\ Len(lookup_todo) = 3 => H!Family = "v4"
              /\ Len(lookup_todo) \in {3, 4} => Head(lookup_todo).net = FALSE
<1> DEFINE todo == lookup_todo
<1>0. \A f, n : Ask(f, n).family = f /\ Ask(f, n).net = n
  BY DEF Ask
<1>1. CASE lookup_request = "any"
  <2> DEFINE a == Ask("v6", FALSE)
             b == Ask("v4", FALSE)
             c == Ask("v6", TRUE)
             d == Ask("v4", TRUE)
             p1 == <<d>>
             p2 == <<c, d>>
             p3 == <<b, c, d>>
             p4 == <<a, b, c, d>>
  <2>1. todo \in {p1, p2, p3, p4} /\ {p1, p2, p3, p4} = Steps(lookup_request)
    BY <1>1 DEF LookupShape, Steps
  <2>2. /\ a.family = "v6" /\ b.family = "v4" /\ c.family = "v6" /\ d.family = "v4"
        /\ a.net = FALSE /\ b.net = FALSE
    BY <1>0
  <2> HIDE DEF a, b, c, d
  <2>3. /\ Head(p1) = d /\ Tail(p1) = <<>> /\ Len(p1) = 1
        /\ Head(p2) = c /\ Tail(p2) = p1 /\ Len(p2) = 2
        /\ Head(p3) = b /\ Tail(p3) = p2 /\ Len(p3) = 3
        /\ Head(p4) = a /\ Tail(p4) = p3 /\ Len(p4) = 4
    BY StepsOfPlan
  <2>4. p1 # <<>> /\ p2 # <<>> /\ p3 # <<>>
    OBVIOUS
  <2> HIDE DEF p1, p2, p3, p4
  <2>5. H!Family = Head(todo).family
    BY DEF H!Family
  <2> DEFINE rest == Tail(todo)
             n == Len(todo)
             m == Len(rest)
             f == Head(todo).family
             g == Head(rest).family
             h == Head(todo).net
  <2>6. \/ n = 1 /\ rest = <<>> /\ f = "v4"
        \/ n = 2 /\ rest # <<>> /\ m = 1 /\ f = "v6" /\ g = "v4"
        \/ n = 3 /\ rest # <<>> /\ m = 2 /\ f = "v4" /\ g = "v6" /\ h = FALSE
        \/ n = 4 /\ rest # <<>> /\ m = 3 /\ f = "v6" /\ g = "v4" /\ h = FALSE
    BY <2>1, <2>2, <2>3, <2>4
  <2>7. rest = <<>> \/ rest \in Steps(lookup_request)
    BY <2>1, <2>3
  <2> HIDE DEF rest, n, m, f, g, h
  <2>8. /\ n \in {1, 2, 3, 4} /\ (n = 1 => rest = <<>>) /\ (n # 1 => m = n - 1)
        /\ f \in {"v4", "v6"} /\ (n \in {2, 4} => f = "v6" /\ g = "v4") /\ (n = 3 => f = "v4")
        /\ rest # <<>> => rest \in Steps(lookup_request)
        /\ n \in {3, 4} => h = FALSE
    BY <2>6, <2>7
  <2> QED
    BY <1>1, <2>5, <2>8 DEF rest, n, m, f, g, h
<1>2. CASE lookup_request \in {"v4", "v6"}
  <2>1. lookup_todo = <<Ask(lookup_request, TRUE)>>
    BY <1>2 DEF LookupShape, Steps
  <2>2. Head(lookup_todo) = Ask(lookup_request, TRUE) /\ Tail(lookup_todo) = <<>>
    BY <2>1, StepsOfPlan
  <2> QED
    BY <1>0, <1>2, <2>2 DEF H!Family
<1>3. CASE lookup_request \in {"mapped", "all"}
  <2> DEFINE c == Ask("v6", TRUE)
             d == Ask("v4", TRUE)
  <2>1. /\ lookup_todo = <<c, d>> \/ lookup_todo = <<d>>
        /\ <<d>> \in Steps(lookup_request)
    BY <1>3 DEF LookupShape, Steps
  <2>2. c.family = "v6" /\ d.family = "v4"
    BY <1>0
  <2> HIDE DEF c, d
  <2>3. /\ Head(<<c, d>>) = c /\ Tail(<<c, d>>) = <<d>> /\ Head(<<d>>) = d
        /\ Tail(<<d>>) = <<>>
    BY StepsOfPlan
  <2> QED
    BY <1>3, <2>1, <2>2, <2>3 DEF H!Family
<1> QED
  BY <1>1, <1>2, <1>3 DEF LookupShape

\* What the end of a step leaves.
OverLeaves(have, e) ==
  /\ lookup_found' = {} /\ lookup_error' = "none"
  /\ lookup_err' = IF e = "none" THEN lookup_err ELSE e
  /\ lookup_at' \in {"step", "done", "failed"}
  /\ lookup_at' = "step" =>
       /\ lookup_todo' = Tail(lookup_todo) /\ Tail(lookup_todo) # <<>>
       /\ lookup_addrs' \subseteq {"v6"} \X Answering
       /\ H!Family' = "v6" \/ lookup_request \notin {"any", "all"} => lookup_addrs' = {}
  /\ OneSource(lookup_addrs')
  /\ lookup_at' = "failed" /\ lookup_request # "all" => lookup_addrs' = {}
  /\ lookup_request # "all" => lookup_addrs \subseteq lookup_addrs'
  /\ lookup_request # "all" => \A w \in have : <<H!Family, w>> \in lookup_addrs'
  /\ lookup_request = "any" /\ Len(lookup_todo) = 3 /\ lookup_addrs' # {} => lookup_at' = "done"

\* This is so whatever has answered.
LEMMA LookupOverStep ==
  ASSUME LookupShape, LookupBefore, OneSource(lookup_addrs), Asking,
         NEW have, have = {"hosts"} \/ have \subseteq {"net", "root"},
         NEW e \in {"none", "timeout", "servfail"}, e # "none" => have = {},
         H!LookupOver(have, e)
  PROVE  OverLeaves(have, e)
<1> DEFINE family == H!Family
           new == {<<family, w>> : w \in have}
           all == H!Merged(new)
           rest == IF H!Stops(e) THEN <<>> ELSE H!Left(Tail(lookup_todo), all)
<1>1. /\ lookup_addrs' = all
      /\ lookup_err' = IF e = "none" THEN lookup_err ELSE e
      /\ lookup_todo' = rest
      /\ rest # <<>> => lookup_at' = "step"
      /\ rest = <<>> /\ (H!Stops(e) \/ all = {}) => lookup_at' = "failed"
      /\ rest = <<>> /\ ~(H!Stops(e) \/ all = {}) => lookup_at' = "done"
      /\ lookup_found' = {} /\ lookup_error' = "none"
  <2>1. /\ lookup_addrs' = all
        /\ lookup_err' = IF e = "none" THEN lookup_err ELSE e
        /\ lookup_todo' = rest
        /\ lookup_at' = IF rest # <<>> THEN "step"
                        ELSE IF H!Stops(e) \/ all = {} THEN "failed" ELSE "done"
        /\ lookup_found' = {} /\ lookup_error' = "none"
    BY Zenon DEF H!LookupOver
  <2> HIDE DEF rest, all
  <2> QED
    BY <2>1
<1>2. /\ family \in {"v4", "v6"}
      /\ lookup_request \in {"v4", "v6", "any", "mapped", "all"}
      /\ lookup_addrs \subseteq {"v6"} \X Answering
      /\ family = "v6" \/ lookup_request \notin {"any", "all"} => lookup_addrs = {}
  BY NextStep DEF LookupShape, LookupBefore
<1>3. /\ all = new \/ all = lookup_addrs \cup new
      /\ lookup_request # "all" => all = lookup_addrs \cup new
  BY <1>2 DEF H!Merged
<1>4. rest # <<>> =>
        /\ rest = Tail(lookup_todo)
        /\ lookup_request = "any" /\ Len(Tail(lookup_todo)) = 2 => all = {}
        /\ lookup_request = "mapped" => all = {}
  BY DEF H!Left
<1>5. lookup_request = "any" /\ Len(Tail(lookup_todo)) = 2 /\ all # {} => rest = <<>> /\ ~H!Stops(e)
  BY DEF H!Left, H!Stops
<1>6. H!Stops(e) => have = {} /\ lookup_request # "any"
  BY DEF H!Stops
<1>7. (rest # <<>> /\ Head(rest).family = H!Family') \/ rest = <<>>
  BY <1>1 DEF H!Family
<1> HIDE DEF rest
<1>8. /\ new \subseteq {family} \X Answering
      /\ OneSource(new)
      /\ have = {} => new = {}
      /\ \A w \in have : <<family, w>> \in new
  BY DEF Answering, OneSource
<1> HIDE DEF new, all, family
<1>9. OneSource(all)
  <2>1. CASE all = new
    BY <1>8, <2>1
  <2>2. CASE all = lookup_addrs \cup new
    <3>1. CASE family = "v6"
      BY <1>2, <1>8, <2>2, <3>1 DEF OneSource
    <3>2. CASE family = "v4"
      <4>1. \A w : <<"v6", w>> \in all <=> <<"v6", w>> \in lookup_addrs
        BY <1>8, <2>2, <3>2
      <4>2. \A w : <<"v4", w>> \in all <=> <<"v4", w>> \in new
        BY <1>2, <2>2
      <4> QED
        BY <1>8, <4>1, <4>2 DEF OneSource
    <3> QED
      BY <1>2, <3>1, <3>2
  <2> QED
    BY <1>3, <2>1, <2>2
<1>10. ASSUME lookup_at' = "failed", lookup_request # "all" PROVE all = {}
  <2>1. CASE H!Stops(e)
    BY <1>2, <1>3, <1>6, <1>8, <1>10, <2>1
  <2> QED
    BY <1>1, <1>10, <2>1
<1>11. ASSUME lookup_at' = "step"
       PROVE  /\ rest = Tail(lookup_todo) /\ rest # <<>>
              /\ all \subseteq {"v6"} \X Answering
              /\ H!Family' = "v6" \/ lookup_request \notin {"any", "all"} => all = {}
  <2>1. rest # <<>> /\ rest = Tail(lookup_todo) /\ Head(rest).family = H!Family'
    BY <1>1, <1>4, <1>7, <1>11
  <2>2. CASE all = {}
    BY <2>1, <2>2
  <2>3. CASE all # {}
    <3>1. lookup_request \in {"any", "all"}
      BY <1>2, <1>4, <2>1, <2>3, NextStep
    <3>2. family = "v6" /\ H!Family' = "v4"
      <4>1. CASE lookup_request = "any"
        <5>1. /\ Len(lookup_todo) \in {1, 2, 3, 4}
              /\ Len(lookup_todo) = 1 => rest = <<>>
              /\ Len(lookup_todo) = 3 => Len(Tail(lookup_todo)) = 3 - 1
              /\ Len(lookup_todo) \in {2, 4} => family = "v6" /\ Head(rest).family = "v4"
          BY <2>1, <4>1, NextStep DEF family
        <5>2. Len(Tail(lookup_todo)) # 2
          BY <1>4, <2>1, <2>3, <4>1
        <5> QED
          BY <2>1, <5>1, <5>2
      <4>2. CASE lookup_request = "all"
        BY <2>1, <4>2, NextStep DEF family
      <4> QED
        BY <3>1, <4>1, <4>2
    <3> QED
      BY <1>2, <1>3, <1>8, <2>1, <3>1, <3>2
  <2> QED
    BY <2>2, <2>3
<1>12. lookup_request = "any" /\ Len(lookup_todo) = 3 /\ all # {} => lookup_at' = "done"
  BY <1>1, <1>5, NextStep
<1> QED
  <2>1. /\ lookup_found' = {} /\ lookup_error' = "none"
        /\ lookup_err' = IF e = "none" THEN lookup_err ELSE e
        /\ lookup_at' \in {"step", "done", "failed"}
    BY <1>1
  <2>2. lookup_at' = "step" =>
          /\ lookup_todo' = Tail(lookup_todo) /\ Tail(lookup_todo) # <<>>
          /\ lookup_addrs' \subseteq {"v6"} \X Answering
          /\ H!Family' = "v6" \/ lookup_request \notin {"any", "all"} => lookup_addrs' = {}
    BY <1>1, <1>11
  <2>3. /\ OneSource(lookup_addrs')
        /\ lookup_at' = "failed" /\ lookup_request # "all" => lookup_addrs' = {}
    BY <1>1, <1>9, <1>10
  <2>4. /\ lookup_request # "all" => lookup_addrs \subseteq lookup_addrs'
        /\ lookup_request # "all" => \A w \in have : <<family, w>> \in lookup_addrs'
    BY <1>1, <1>3, <1>8
  <2>5. lookup_request = "any" /\ Len(lookup_todo) = 3 /\ lookup_addrs' # {} => lookup_at' = "done"
    BY <1>1, <1>12
  <2> QED
    BY <2>1, <2>2, <2>3, <2>4, <2>5 DEF OverLeaves, family

\* The step of the hosts file.
LEMMA LookupHostsStep ==
  ASSUME LookupInv, H!Hosts
  PROVE  LookupInv'
<1> DEFINE now == IF lookup_fresh THEN lookup_loaded ELSE lookup_file
<1>1. /\ lookup_at = "step" /\ lookup_loaded' = now
      /\ lookup_request' = lookup_request /\ lookup_single' = lookup_single
      /\ lookup_file' = lookup_file /\ lookup_edits' = lookup_edits
      /\ lookup_answered' = lookup_answered /\ lookup_silent' = lookup_silent
      /\ \/ /\ H!Family \in now /\ H!LookupOver({"hosts"}, "none")
            /\ lookup_asked' = lookup_asked
         \/ /\ H!Family \notin now /\ ~Head(lookup_todo).net /\ H!LookupOver({}, "none")
            /\ lookup_asked' = lookup_asked
         \/ /\ H!Family \notin now /\ Head(lookup_todo).net /\ lookup_at' = "main"
            /\ lookup_todo' = lookup_todo /\ lookup_found' = lookup_found
            /\ lookup_error' = lookup_error /\ lookup_addrs' = lookup_addrs
            /\ lookup_err' = lookup_err
  BY DEF H!Hosts
<1>2. Asking /\ LookupShape /\ LookupBefore /\ OneSource(lookup_addrs)
  BY <1>1 DEF Asking, LookupInv
<1>3. /\ lookup_edits' = 0 => lookup_loaded' = lookup_file' /\ now = lookup_file
  BY <1>1, <1>2 DEF LookupShape
<1> HIDE DEF now
<1>4. CASE /\ H!Family \notin now /\ Head(lookup_todo).net /\ lookup_at' = "main"
           /\ lookup_todo' = lookup_todo /\ lookup_found' = lookup_found
           /\ lookup_error' = lookup_error /\ lookup_addrs' = lookup_addrs
           /\ lookup_err' = lookup_err
  <2>1. H!Family' = H!Family
    BY <1>4 DEF H!Family
  <2>2. LookupShape'
    <3>1. lookup_at' # "root" => lookup_found' = {} /\ lookup_error' = "none"
      BY <1>1, <1>2, <1>4 DEF LookupShape
    <3> QED
      BY <1>1, <1>2, <1>3, <1>4, <3>1 DEF LookupShape, Asking
  <2>3. LookupBefore' /\ OneSource(lookup_addrs')
    BY <1>1, <1>2, <1>4, <2>1 DEF LookupBefore, Asking
  <2>4. LookupHosts'
    <3> SUFFICES ASSUME lookup_request = "any", lookup_edits = 0, lookup_file # {}
                 PROVE  FALSE
      BY <1>1 DEF LookupHosts
    <3>1. Len(lookup_todo) \in {3, 4}
      BY <1>1 DEF LookupHosts, LookupInv
    <3>2. Head(lookup_todo).net = FALSE
      BY <1>2, <3>1, NextStep
    <3> QED
      BY <1>4, <3>2
  <2>5. \A f : Given(f)' <=> Given(f)
    BY <1>4 DEF Given
  <2>6. lookup_request' # "all" => \A f \in lookup_answered' : Given(f)'
    BY <1>1, <2>5 DEF LookupInv
  <2>7. SilenceKept'
    BY <1>1, <1>4 DEF LookupInv, SilenceKept
  <2> QED
    BY <1>1, <1>4, <2>2, <2>3, <2>4, <2>6, <2>7 DEF LookupInv
<1>5. CASE \E have \in {{"hosts"}, {}} :
             /\ H!LookupOver(have, "none")
             /\ have = {"hosts"} <=> H!Family \in now
             /\ lookup_asked' = lookup_asked
  <2>1. PICK have \in {{"hosts"}, {}} :
          /\ H!LookupOver(have, "none")
          /\ have = {"hosts"} <=> H!Family \in now
          /\ lookup_asked' = lookup_asked
    BY <1>5
  <2>2. OverLeaves(have, "none")
    <3>1. have = {"hosts"} \/ have \subseteq {"net", "root"}
      OBVIOUS
    <3>2. "none" \in {"none", "timeout", "servfail"} /\ ("none" # "none" => have = {})
      OBVIOUS
    <3>3. H!LookupOver(have, "none")
      BY <2>1
    <3> QED
      BY <1>2, <3>1, <3>2, <3>3, LookupOverStep
  <2>3. LookupShape' /\ LookupBefore'
    <3>1. lookup_at' = "step" => lookup_todo' \in Steps(lookup_request)
      BY <1>2, <2>2, NextStep DEF OverLeaves
    <3>2. LookupShape'
      BY <1>1, <1>2, <1>3, <2>2, <3>1 DEF LookupShape, OverLeaves, Asking
    <3> QED
      BY <1>1, <2>2, <3>2 DEF LookupBefore, OverLeaves, Asking
  <2>4. /\ OneSource(lookup_addrs')
        /\ lookup_at' = "failed" /\ lookup_request' # "all" => lookup_addrs' = {}
        /\ lookup_request' # "all" => lookup_addrs \subseteq lookup_addrs'
    BY <1>1, <2>2 DEF OverLeaves
  <2>6. SilenceKept'
    <3>1. lookup_err' = lookup_err /\ lookup_at' # "root"
      BY <2>2 DEF OverLeaves
    <3> QED
      BY <1>1, <3>1 DEF LookupInv, SilenceKept
  <2>7. ASSUME lookup_request' # "all", NEW f \in lookup_answered' PROVE Given(f)'
    <3>1. Given(f)
      BY <1>1, <2>7 DEF LookupInv
    <3> QED
      BY <2>4, <2>7, <3>1 DEF Given
  <2>8. LookupHosts'
    <3> SUFFICES ASSUME lookup_request = "any", lookup_edits = 0, lookup_file # {}
                 PROVE  /\ lookup_asked' = {}
                        /\ lookup_at' \notin {"main", "root"}
                        /\ lookup_at' = "step" => Len(lookup_todo') \in {3, 4}
                        /\ lookup_at' = "step" /\ Len(lookup_todo') = 3 /\ "v6" \in lookup_file'
                             => lookup_addrs' # {}
      BY <1>1 DEF LookupHosts
    <3>1. /\ lookup_asked = {} /\ Len(lookup_todo) \in {3, 4}
          /\ Len(lookup_todo) = 3 /\ "v6" \in lookup_file => lookup_addrs # {}
      BY <1>1 DEF LookupInv, LookupHosts
    <3>2. /\ lookup_at' \in {"step", "done", "failed"}
          /\ lookup_at' = "step" => lookup_todo' = Tail(lookup_todo)
          /\ lookup_addrs \subseteq lookup_addrs'
          /\ \A w \in have : <<H!Family, w>> \in lookup_addrs'
          /\ Len(lookup_todo) = 3 /\ lookup_addrs' # {} => lookup_at' = "done"
      BY <2>2 DEF OverLeaves
    <3>3. now = lookup_file /\ lookup_file \subseteq {"v4", "v6"}
      BY <1>1, <1>2, <1>3 DEF LookupShape
    <3>4. CASE Len(lookup_todo) = 4
      <4>1. Len(Tail(lookup_todo)) = 3 /\ H!Family = "v6"
        BY <1>2, <3>4, NextStep
      <4>2. "v6" \in lookup_file' => lookup_addrs' # {}
        BY <1>1, <2>1, <3>2, <3>3, <4>1
      <4>3. lookup_asked' = {} /\ lookup_at' \notin {"main", "root"}
        BY <2>1, <3>1, <3>2
      <4>4. ASSUME lookup_at' = "step" PROVE Len(lookup_todo') = 3
        BY <3>2, <4>1, <4>4
      <4> QED
        BY <4>2, <4>3, <4>4
    <3>5. CASE Len(lookup_todo) = 3
      <4>1. H!Family = "v4"
        BY <1>2, <3>5, NextStep
      <4>2. lookup_addrs' # {}
        <5>1. CASE "v6" \in lookup_file
          BY <3>1, <3>2, <3>5, <5>1
        <5>2. CASE "v6" \notin lookup_file
          <6>1. "v4" \in lookup_file
            BY <3>3, <5>2
          <6>2. have = {"hosts"}
            BY <2>1, <3>3, <4>1, <6>1
          <6> QED
            BY <3>2, <6>2
        <5> QED
          BY <5>1, <5>2
      <4>3. lookup_asked' = {} /\ lookup_at' = "done"
        BY <2>1, <3>1, <3>2, <3>5, <4>2
      <4> QED
        BY <4>3
    <3> QED
      BY <3>1, <3>4, <3>5
  <2> QED
    BY <2>3, <2>4, <2>6, <2>7, <2>8 DEF LookupInv
<1> QED
  BY <1>1, <1>4, <1>5

\* A nameserver's answer ends a step.
Answered(a, have, e) ==
  /\ have \subseteq {"net", "root"} /\ lookup_found \subseteq have
  /\ a = "addr" => have # {}
  /\ e \in {"none", "timeout", "servfail"} /\ (e # "none" => have = {})
  /\ \A f \in lookup_silent' : e = "timeout" \/ (e = "none" /\ lookup_err = "timeout")

LEMMA AnswerOver ==
  ASSUME LookupInv, lookup_at \in {"main", "root"}, NEW a, H!Heard(a),
         NEW have, NEW e, Answered(a, have, e), H!LookupOver(have, e),
         UNCHANGED <<lookup_request, lookup_single, lookup_file, lookup_edits, lookup_loaded>>
  PROVE  LookupInv'
<1>0. /\ have \subseteq {"net", "root"} /\ lookup_found \subseteq have
      /\ a = "addr" => have # {}
      /\ e \in {"none", "timeout", "servfail"} /\ (e # "none" => have = {})
      /\ \A f \in lookup_silent' : e = "timeout" \/ (e = "none" /\ lookup_err = "timeout")
  BY DEF Answered
<1>1. /\ lookup_request' = lookup_request /\ lookup_single' = lookup_single
      /\ lookup_file' = lookup_file /\ lookup_edits' = lookup_edits
      /\ lookup_loaded' = lookup_loaded
  OBVIOUS
<1>2. Asking /\ LookupShape /\ LookupBefore /\ OneSource(lookup_addrs)
  BY DEF Asking, LookupInv
<1>3. OverLeaves(have, e)
  BY <1>0, <1>2, LookupOverStep
<1>4. LookupShape' /\ LookupBefore'
  <2>1. lookup_at' = "step" => lookup_todo' \in Steps(lookup_request)
    BY <1>2, <1>3, NextStep DEF OverLeaves
  <2>2. LookupShape'
    BY <1>1, <1>2, <1>3, <2>1 DEF LookupShape, OverLeaves, Asking
  <2> QED
    BY <1>1, <1>3, <2>2 DEF LookupBefore, OverLeaves, Asking
<1>5. LookupHosts'
  BY <1>1 DEF LookupHosts, LookupInv
<1>6. /\ OneSource(lookup_addrs')
      /\ lookup_at' = "failed" /\ lookup_request' # "all" => lookup_addrs' = {}
      /\ lookup_request' # "all" => lookup_addrs \subseteq lookup_addrs'
      /\ lookup_request # "all" => \A w \in have : <<H!Family, w>> \in lookup_addrs'
  BY <1>1, <1>3 DEF OverLeaves
<1>7. SilenceKept'
  <2>1. /\ lookup_err' = IF e = "none" THEN lookup_err ELSE e
        /\ lookup_at' # "root"
    BY <1>3 DEF OverLeaves
  <2> QED
    BY <1>0, <2>1 DEF SilenceKept
<1>8. ASSUME lookup_request' # "all", NEW f \in lookup_answered' PROVE Given(f)'
  <2>1. CASE \E w \in Answering : <<f, w>> \in lookup_addrs
    BY <1>6, <1>8, <2>1 DEF Given
  <2>2. CASE f = H!Family /\ have # {}
    <3>1. PICK w \in have : TRUE
      BY <2>2
    <3>2. <<f, w>> \in lookup_addrs' /\ w \in Answering
      BY <1>0, <1>1, <1>6, <1>8, <2>2, <3>1 DEF Answering
    <3> QED
      BY <3>2 DEF Given
  <2>3. CASE f \in lookup_answered
    <3>1. Given(f) \/ (f = H!Family /\ "net" \in lookup_found)
      BY <1>1, <1>8, <2>3 DEF LookupInv
    <3> QED
      BY <1>0, <2>1, <2>2, <3>1 DEF Given
  <2>4. f \in lookup_answered \/ (f = H!Family /\ a = "addr")
    BY <1>8 DEF H!Heard
  <2> QED
    BY <1>0, <2>2, <2>3, <2>4
<1> QED
  BY <1>1, <1>4, <1>5, <1>6, <1>7, <1>8 DEF LookupInv

\* end(): an address wins over an error.
LEMMA AnswerEnds ==
  ASSUME LookupInv, lookup_at \in {"main", "root"}, NEW a, H!Heard(a), NEW where \in {"net", "root"},
         lookup_at = "main" => ~lookup_single,
         H!End(H!Have(a, where), H!Error(a)),
         UNCHANGED <<lookup_request, lookup_single, lookup_file, lookup_edits, lookup_loaded>>
  PROVE  LookupInv'
<1> DEFINE have == H!Have(a, where)
           error == H!Error(a)
           e == IF have # {} \/ error \notin {"timeout", "servfail"} THEN "none" ELSE error
<1>1. have \subseteq {"net", "root"} /\ lookup_found \subseteq have /\ (a = "addr" => have # {})
  BY DEF H!Have, LookupInv, LookupShape
<1>2. e \in {"none", "timeout", "servfail"} /\ (e # "none" => have = {})
  OBVIOUS
<1>3. H!LookupOver(have, e)
  <2>1. CASE have # {} \/ error \notin {"timeout", "servfail"}
    <3>1. H!LookupOver(have, "none")
      BY <2>1, Zenon DEF H!End
    <3>2. e = "none"
      BY <2>1
    <3> HIDE DEF have, e
    <3> QED
      BY <3>1, <3>2
  <2>2. CASE ~(have # {} \/ error \notin {"timeout", "servfail"})
    <3>1. H!LookupOver({}, error)
      BY <2>2, Zenon DEF H!End
    <3>2. e = error /\ have = {}
      BY <2>2
    <3> HIDE DEF have, e, error
    <3> QED
      BY <3>1, <3>2
  <2> QED
    BY <2>1, <2>2
<1>4. ASSUME NEW f \in lookup_silent' PROVE e = "timeout" \/ (e = "none" /\ lookup_err = "timeout")
  <2>1. /\ lookup_at # "root" => lookup_found = {} /\ lookup_error = "none"
        /\ \A g \in lookup_silent :
             \/ lookup_err = "timeout"
             \/ /\ lookup_at = "root" /\ g = H!Family
                /\ lookup_error = "timeout" /\ lookup_found = {}
        /\ lookup_at = "root" /\ lookup_error = "servfail" => lookup_silent = {}
    BY DEF LookupInv, LookupShape, SilenceKept
  <2>2. CASE a = "timeout"
    <3>1. error = "timeout" /\ have = lookup_found
      BY <2>2 DEF H!Error, H!Have
    <3>2. lookup_found # {} => f \in lookup_silent
      BY <1>4, <2>2 DEF H!Heard
    <3> QED
      BY <2>1, <3>1, <3>2
  <2>3. CASE a = "servfail"
    BY <1>4, <2>3 DEF H!Heard
  <2>4. CASE a = "addr"
    <3>1. f \in lookup_silent /\ f # H!Family
      BY <1>4, <2>4 DEF H!Heard
    <3>2. e = "none"
      BY <2>4 DEF H!Have
    <3> QED
      BY <2>1, <3>1, <3>2
  <2>5. CASE a = "nxdomain"
    <3>1. f \in lookup_silent /\ f # H!Family
      BY <1>4, <2>5 DEF H!Heard
    <3>2. e = "none"
      BY <2>5 DEF H!Error
    <3> QED
      BY <2>1, <3>1, <3>2
  <2>6. CASE a \notin {"timeout", "servfail", "addr", "nxdomain"}
    <3>1. f \in lookup_silent
      BY <1>4, <2>6 DEF H!Heard
    <3>2. error = lookup_error /\ have = lookup_found
      BY <2>6 DEF H!Error, H!Have
    <3>3. error # "servfail"
      BY <2>1, <3>1, <3>2
    <3> QED
      BY <2>1, <3>1, <3>2, <3>3
  <2> QED
    BY <2>2, <2>3, <2>4, <2>5, <2>6
<1> HIDE DEF have, e, error
<1>5. Answered(a, have, e)
  BY <1>1, <1>2, <1>4 DEF Answered
<1> QED
  BY <1>3, <1>5, AnswerOver

LEMMA LookupAnswerStep ==
  ASSUME LookupInv, NEW a, H!MainAnswer(a) \/ H!RootAnswer(a)
  PROVE  LookupInv'
<1>1. CASE H!MainAnswer(a) /\ lookup_single
  <2>1. /\ lookup_at = "main" /\ lookup_at' = "root"
        /\ lookup_found' = H!Have(a, "net")
        /\ lookup_todo' = lookup_todo /\ lookup_addrs' = lookup_addrs
        /\ lookup_request' = lookup_request /\ lookup_single' = lookup_single
        /\ lookup_file' = lookup_file /\ lookup_edits' = lookup_edits
        /\ lookup_loaded' = lookup_loaded
        /\ lookup_answered' = IF a = "addr" THEN lookup_answered \cup {H!Family} ELSE lookup_answered
        /\ lookup_err' = lookup_err /\ lookup_error' = H!Error(a) /\ H!Heard(a)
    BY <1>1 DEF H!MainAnswer, H!Heard
  <2>2. /\ lookup_found' \subseteq {"net"}
        /\ a = "addr" => "net" \in lookup_found'
    BY <2>1 DEF H!Have, LookupInv, LookupShape
  <2>3. H!Family' = H!Family /\ \A f : Given(f)' <=> Given(f)
    BY <2>1 DEF H!Family, Given
  <2>4. LookupShape'
    BY <1>1, <2>1, <2>2 DEF LookupInv, LookupShape, Asking
  <2>5. LookupBefore' /\ LookupHosts' /\ OneSource(lookup_addrs')
    BY <2>1, <2>3 DEF LookupInv, LookupBefore, LookupHosts, Asking
  <2>6. ASSUME lookup_request' # "all", NEW f \in lookup_answered'
        PROVE  Given(f)' \/ (f = H!Family' /\ "net" \in lookup_found')
    BY <2>1, <2>2, <2>3, <2>6 DEF LookupInv
  <2>7. SilenceKept'
    <3>1. lookup_found = {} /\ lookup_error = "none" /\ \A f \in lookup_silent : lookup_err = "timeout"
      BY <2>1 DEF LookupInv, LookupShape, SilenceKept
    <3>2. lookup_error' = "servfail" => lookup_silent' = {}
      BY <2>1, <3>1 DEF H!Error, H!Heard
    <3>3. \/ lookup_silent' \subseteq lookup_silent
          \/ /\ a = "timeout" /\ lookup_silent' = lookup_silent \cup {H!Family}
             /\ lookup_error' = "timeout" /\ lookup_found' = {}
      BY <2>1, <3>1 DEF H!Error, H!Heard, H!Have
    <3> QED
      BY <2>1, <2>3, <3>1, <3>2, <3>3 DEF SilenceKept
  <2> QED
    BY <1>1, <2>1, <2>4, <2>5, <2>6, <2>7 DEF LookupInv
<1>2. CASE H!MainAnswer(a) /\ ~lookup_single
  <2>1. /\ lookup_at = "main" /\ H!End(H!Have(a, "net"), H!Error(a)) /\ H!Heard(a)
        /\ UNCHANGED <<lookup_request, lookup_single, lookup_file, lookup_edits, lookup_loaded>>
    BY <1>2 DEF H!MainAnswer
  <2> QED
    BY <1>2, <2>1, AnswerEnds
<1>3. CASE H!RootAnswer(a)
  <2>1. /\ lookup_at = "root" /\ H!End(H!Have(a, "root"), H!Error(a)) /\ H!Heard(a)
        /\ UNCHANGED <<lookup_request, lookup_single, lookup_file, lookup_edits, lookup_loaded>>
    BY <1>3 DEF H!RootAnswer
  <2> QED
    BY <2>1, AnswerEnds
<1> QED
  BY <1>1, <1>2, <1>3

\* What leaves all but the hosts file alone.
LEMMA LookupFileStep ==
  ASSUME LookupInv,
         UNCHANGED <<lookup_request, lookup_single, lookup_todo, lookup_at, lookup_found,
                     lookup_error, lookup_addrs, lookup_err, lookup_asked, lookup_answered,
                     lookup_silent>>,
         lookup_edits' \in Nat /\ lookup_file' \subseteq {"v4", "v6"},
         lookup_edits' = 0 => lookup_loaded' = lookup_file' /\ lookup_file' = lookup_file /\ lookup_edits = 0
  PROVE  LookupInv'
<1>1. /\ lookup_request' = lookup_request /\ lookup_single' = lookup_single
      /\ lookup_todo' = lookup_todo /\ lookup_at' = lookup_at /\ lookup_found' = lookup_found
      /\ lookup_error' = lookup_error /\ lookup_addrs' = lookup_addrs /\ lookup_err' = lookup_err
      /\ lookup_asked' = lookup_asked /\ lookup_answered' = lookup_answered
      /\ lookup_silent' = lookup_silent
  OBVIOUS
<1>2. H!Family' = H!Family /\ (Asking' <=> Asking) /\ \A f : Given(f)' <=> Given(f)
  BY <1>1 DEF H!Family, Asking, Given
<1>3. LookupShape'
  BY <1>1, <1>2 DEF LookupInv, LookupShape
<1>4. LookupBefore' /\ LookupHosts' /\ OneSource(lookup_addrs')
  BY <1>1, <1>2 DEF LookupInv, LookupBefore, LookupHosts
<1>5. \A f \in lookup_answered' : lookup_request' # "all" =>
        Given(f)' \/ (lookup_at' = "root" /\ f = H!Family' /\ "net" \in lookup_found')
  BY <1>1, <1>2 DEF LookupInv
<1>6. SilenceKept'
  BY <1>1, <1>2 DEF LookupInv, SilenceKept
<1> QED
  BY <1>1, <1>3, <1>4, <1>5, <1>6 DEF LookupInv

LEMMA LookupInvStep == LookupInv /\ (H!LookupNext \/ UNCHANGED lookupVars) => LookupInv'
<1> SUFFICES ASSUME LookupInv, H!LookupNext \/ UNCHANGED lookupVars
             PROVE  LookupInv'
  OBVIOUS
<1>1. /\ lookup_edits \in Nat /\ lookup_file \subseteq {"v4", "v6"}
      /\ lookup_edits = 0 => lookup_loaded = lookup_file
  BY DEF LookupInv, LookupShape
<1>2. CASE H!Age \/ H!Reload \/ UNCHANGED lookupVars
  <2>1. /\ UNCHANGED <<lookup_request, lookup_single, lookup_todo, lookup_at, lookup_found,
                       lookup_error, lookup_addrs, lookup_err, lookup_asked, lookup_answered,
                       lookup_silent>>
        /\ lookup_edits' = lookup_edits /\ lookup_file' = lookup_file
        /\ lookup_loaded' \in {lookup_loaded, lookup_file}
    BY <1>2 DEF H!Age, H!Reload, lookupVars
  <2> QED
    BY <1>1, <2>1, LookupFileStep
<1>3. CASE \E to \in SUBSET H!Families : H!Edit(to)
  <2>1. PICK to \in SUBSET H!Families : H!Edit(to)
    BY <1>3
  <2>2. /\ UNCHANGED <<lookup_request, lookup_single, lookup_todo, lookup_at, lookup_found,
                       lookup_error, lookup_addrs, lookup_err, lookup_asked, lookup_answered,
                       lookup_silent>>
        /\ lookup_edits' = lookup_edits + 1 /\ lookup_file' \subseteq {"v4", "v6"}
    BY <2>1 DEF H!Edit, H!Families
  <2> QED
    BY <1>1, <2>2, LookupFileStep
<1>4. CASE H!Hosts
  BY <1>4, LookupHostsStep
<1>5. CASE \E a \in Answers : H!MainAnswer(a) \/ H!RootAnswer(a)
  BY <1>5, LookupAnswerStep
<1> QED
  BY <1>2, <1>3, <1>4, <1>5 DEF H!LookupNext

-----------------------------------------------------------------------------
(* ZmqSocket *)

ZmqShape ==
  /\ zmq_news \in [Z!Sides -> Nat] /\ zmq_avail \in [Z!Sides -> Nat]
  /\ zmq_fd \in BOOLEAN /\ zmq_isClosed \in BOOLEAN
  /\ zmq_lockCount \in [Z!Sides -> {0, 1}]
  /\ zmq_lockQueue \in [Z!Sides -> Seq(Z!ZThreads)]
  /\ zmq_holder \in [Z!Sides -> Z!ZThreads \cup {None}]
  /\ zmq_waking \in [Z!Sides -> Z!ZThreads \cup {None}]
  /\ zmq_blocked \in [Z!Sides -> Z!ZThreads \cup {None}]
  /\ zmq_wakeupper \in [Z!Sides -> BOOLEAN]
  /\ zmq_thread \in [Z!ZThreads -> {"out", "queued", "tries", "blocks", "dead"}]

Inside(t) == zmq_thread[t] \in {"tries", "blocks"}
InQueue(t) == zmq_thread[t] \in {"queued", "dead"}

\* The _QueueLock of a side: who is inside is its holder, and the queue holds
\* threads that wait, or died waiting.
LockOf(s) ==
  /\ \A t \in Z!ZThreads : Z!Side(t) = s => (Inside(t) <=> zmq_lockCount[s] = 1 /\ zmq_holder[s] = t)
  /\ zmq_lockCount[s] = 1 => zmq_holder[s] \in Z!ZThreads /\ Z!Side(zmq_holder[s]) = s
  /\ IsInjective(zmq_lockQueue[s])
  /\ \A t \in Z!ZThreads : Contains(zmq_lockQueue[s], t) => Z!Side(t) = s /\ InQueue(t)
  /\ zmq_waking[s] # None =>
       zmq_lockCount[s] = 0 /\ zmq_lockQueue[s] # <<>> /\ Head(zmq_lockQueue[s]) = zmq_waking[s]
  /\ zmq_lockQueue[s] # <<>> /\ zmq_thread[Head(zmq_lockQueue[s])] # "dead" /\ zmq_lockCount[s] = 0
       => zmq_waking[s] # None

\* The _BlockedThread of a side; a message or room that is known wakes it.
BlockOf(s) ==
  /\ \A t \in Z!ZThreads : zmq_blocked[s] = t <=> zmq_thread[t] = "blocks" /\ Z!Side(t) = s
  /\ zmq_wakeupper[s] => zmq_blocked[s] # None

NewsOf(s) ==
  /\ zmq_news[s] > 0 /\ ~zmq_isClosed => zmq_fd
  /\ zmq_blocked[s] # None /\ zmq_isClosed => zmq_wakeupper[s]
  /\ zmq_trouble = {} /\ zmq_blocked[s] # None /\ zmq_avail[s] > 0 => zmq_wakeupper[s]

ZmqInv ==
  /\ ZmqShape
  /\ \A s \in Z!Sides : LockOf(s) /\ BlockOf(s) /\ NewsOf(s)

LEMMA SidesAre ==
  /\ None \notin Z!ZThreads
  /\ \A t : Z!Side(t) \in Z!Sides
  /\ \A s \in Z!Sides : Z!Opposite(s) \in Z!Sides /\ Z!Opposite(s) # s /\ Z!Sides = {s, Z!Opposite(s)}
  BY NetworkAssumption DEF Z!ZThreads, Z!Side, Z!Sides, Z!Opposite

LEMMA ZmqInvInit == Z!ZmqInit => ZmqInv
<1> SUFFICES ASSUME Z!ZmqInit PROVE ZmqInv
  OBVIOUS
<1>1. HighWater \in Nat /\ <<>> \in Seq(Z!ZThreads) /\ IsInjective(<<>>) /\ \A t : ~Contains(<<>>, t)
  BY NetworkAssumption DEF IsInjective, Contains
<1>2. ZmqShape
  BY <1>1 DEF Z!ZmqInit, ZmqShape
<1>3. ASSUME NEW s \in Z!Sides PROVE LockOf(s) /\ BlockOf(s) /\ NewsOf(s)
  BY <1>1, SidesAre DEF Z!ZmqInit, LockOf, BlockOf, NewsOf, Inside, InQueue
<1> QED
  BY <1>2, <1>3 DEF ZmqInv

\* The first of a queue is a thread of its side that waits or died waiting.
LEMMA HeadOfQueue ==
  ASSUME ZmqShape, NEW s \in Z!Sides, LockOf(s), zmq_lockQueue[s] # <<>>
  PROVE  /\ Head(zmq_lockQueue[s]) \in Z!ZThreads
         /\ Z!Side(Head(zmq_lockQueue[s])) = s
         /\ InQueue(Head(zmq_lockQueue[s]))
<1>1. zmq_lockQueue[s] \in Seq(Z!ZThreads)
  BY DEF ZmqShape
<1> QED
  BY <1>1, TailOnce DEF LockOf

\* A lock that no step touches, whose threads are inside and in its queue as before.
LEMMA LockFrame ==
  ASSUME ZmqShape, NEW s \in Z!Sides, LockOf(s),
         /\ zmq_lockCount'[s] = zmq_lockCount[s] /\ zmq_holder'[s] = zmq_holder[s]
         /\ zmq_lockQueue'[s] = zmq_lockQueue[s] /\ zmq_waking'[s] = zmq_waking[s],
         \A t \in Z!ZThreads : Z!Side(t) = s =>
           /\ Inside(t)' <=> Inside(t)
           /\ InQueue(t) => InQueue(t)'
           /\ zmq_thread[t] = "dead" => zmq_thread'[t] = "dead"
  PROVE  LockOf(s)'
<1>1. zmq_lockQueue[s] # <<>> =>
        Head(zmq_lockQueue[s]) \in Z!ZThreads /\ Z!Side(Head(zmq_lockQueue[s])) = s
  BY HeadOfQueue
<1> QED
  BY <1>1 DEF LockOf

\* One thread of the side s goes from one place to another; the others stay.
Moves(t, to) == zmq_thread' = [zmq_thread EXCEPT ![t] = to]

\* The lock of the other side is not touched.
LEMMA OtherLock ==
  ASSUME ZmqInv, NEW t \in Z!ZThreads, NEW s \in Z!Sides, s # Z!Side(t), NEW to,
         Moves(t, to),
         /\ zmq_lockCount'[s] = zmq_lockCount[s] /\ zmq_holder'[s] = zmq_holder[s]
         /\ zmq_lockQueue'[s] = zmq_lockQueue[s] /\ zmq_waking'[s] = zmq_waking[s]
  PROVE  LockOf(s)'
<1>1. \A u \in Z!ZThreads : Z!Side(u) = s => zmq_thread'[u] = zmq_thread[u]
  BY DEF Moves, ZmqInv, ZmqShape
<1>2. \A u \in Z!ZThreads : Z!Side(u) = s =>
         /\ Inside(u)' <=> Inside(u)
         /\ InQueue(u) => InQueue(u)'
         /\ zmq_thread[u] = "dead" => zmq_thread'[u] = "dead"
  BY <1>1 DEF Inside, InQueue
<1> QED
  BY <1>2, LockFrame DEF ZmqInv

\* release(): nobody is inside, and the first of the queue is going to be woken.
LEMMA ReleaseStep ==
  ASSUME ZmqInv, NEW t \in Z!ZThreads, Inside(t), NEW how \in {"out", "dead"},
         Z!ReleaseLock(t, how)
  PROVE  /\ \A s \in Z!Sides : LockOf(s)'
         /\ Moves(t, how)
         /\ zmq_lockCount' \in [Z!Sides -> {0, 1}]
         /\ zmq_lockQueue' = zmq_lockQueue
         /\ zmq_holder' \in [Z!Sides -> Z!ZThreads \cup {None}]
         /\ zmq_waking' \in [Z!Sides -> Z!ZThreads \cup {None}]
<1> DEFINE s == Z!Side(t)
<1>1. /\ s \in Z!Sides /\ ZmqShape /\ LockOf(s)
      /\ zmq_lockQueue[s] \in Seq(Z!ZThreads)
  BY SidesAre DEF ZmqInv, ZmqShape
<1>2. /\ zmq_lockCount' = [zmq_lockCount EXCEPT ![s] = @ - 1]
      /\ zmq_holder' = [zmq_holder EXCEPT ![s] = None]
      /\ zmq_waking' = [zmq_waking EXCEPT ![s] = Z!TellsNext(s)]
      /\ zmq_lockQueue' = zmq_lockQueue
      /\ Moves(t, how)
  BY DEF Z!ReleaseLock, Moves
<1> HIDE DEF s
<1>3. zmq_lockCount[s] = 1 /\ zmq_holder[s] = t /\ zmq_waking[s] = None
  BY <1>1 DEF LockOf, s
<1>4. /\ zmq_lockQueue[s] # <<>> => Z!TellsNext(s) = Head(zmq_lockQueue[s])
      /\ zmq_lockQueue[s] = <<>> => Z!TellsNext(s) = None
      /\ zmq_lockQueue[s] # <<>> => Head(zmq_lockQueue[s]) \in Z!ZThreads
  BY <1>1, <1>3, HeadOfQueue DEF Z!TellsNext
<1>5. /\ zmq_lockCount'[s] = 0 /\ zmq_waking'[s] = Z!TellsNext(s)
      /\ zmq_lockCount' \in [Z!Sides -> {0, 1}]
      /\ zmq_holder' \in [Z!Sides -> Z!ZThreads \cup {None}]
      /\ zmq_waking' \in [Z!Sides -> Z!ZThreads \cup {None}]
  BY <1>1, <1>2, <1>3, <1>4 DEF ZmqShape
<1>6. \A u \in Z!ZThreads : zmq_thread'[u] = IF u = t THEN how ELSE zmq_thread[u]
  BY <1>1, <1>2 DEF Moves, ZmqShape
<1>7. LockOf(s)'
  <2>1. ASSUME NEW u \in Z!ZThreads, Z!Side(u) = s PROVE ~Inside(u)'
    BY <1>1, <1>3, <1>6, <2>1 DEF LockOf, Inside
  <2>2. ASSUME NEW u \in Z!ZThreads, Contains(zmq_lockQueue[s], u)
        PROVE  Z!Side(u) = s /\ InQueue(u)'
    BY <1>1, <1>6, <2>2 DEF LockOf, Inside, InQueue
  <2>3. zmq_lockQueue[s] # <<>> => zmq_waking'[s] # None
    BY <1>4, <1>5, SidesAre
  <2> QED
    BY <1>1, <1>2, <1>4, <1>5, <2>1, <2>2, <2>3 DEF LockOf
<1>8. ASSUME NEW r \in Z!Sides, r # s PROVE LockOf(r)'
  <2>1. /\ zmq_lockCount'[r] = zmq_lockCount[r] /\ zmq_holder'[r] = zmq_holder[r]
        /\ zmq_lockQueue'[r] = zmq_lockQueue[r] /\ zmq_waking'[r] = zmq_waking[r]
    BY <1>1, <1>2, <1>8 DEF ZmqShape
  <2> QED
    BY <1>2, <1>8, <2>1, OtherLock DEF s
<1> QED
  BY <1>2, <1>5, <1>7, <1>8

\* wake() of some sides: a side is going to be woken as before, or if it is told.
LEMMA WokenIs ==
  ASSUME ZmqShape, NEW sides
  PROVE  /\ Z!Woken(sides) \in [Z!Sides -> BOOLEAN]
         /\ \A s \in Z!Sides :
              Z!Woken(sides)[s] <=> zmq_wakeupper[s] \/ (s \in sides /\ zmq_blocked[s] # None)
<1>1. \A s \in Z!Sides : zmq_wakeupper[s] \in BOOLEAN
  BY DEF ZmqShape
<1> QED
  BY <1>1 DEF Z!Woken

LEMMA ProcessedIs ==
  ASSUME ZmqShape
  PROVE  /\ Z!Processed \in [Z!Sides -> Nat]
         /\ \A s \in Z!Sides : Z!Processed[s] = zmq_avail[s] + zmq_news[s]
         /\ [s \in Z!Sides |-> 0] \in [Z!Sides -> Nat]
         /\ \A s \in Z!Sides : [x \in Z!Sides |-> 0][s] = 0
  BY DEF ZmqShape, Z!Processed

\* What the steps of the library and the hub do to the locks and to who blocks.
LEMMA LocksStay ==
  ASSUME ZmqInv, UNCHANGED Z!lockVars, UNCHANGED <<zmq_blocked, zmq_thread>>,
         zmq_wakeupper' \in [Z!Sides -> BOOLEAN],
         \A s \in Z!Sides : zmq_wakeupper'[s] => zmq_wakeupper[s] \/ zmq_blocked[s] # None
  PROVE  \A s \in Z!Sides : LockOf(s)' /\ BlockOf(s)'
<1>1. /\ zmq_lockCount' = zmq_lockCount /\ zmq_holder' = zmq_holder
      /\ zmq_lockQueue' = zmq_lockQueue /\ zmq_waking' = zmq_waking
      /\ zmq_blocked' = zmq_blocked /\ zmq_thread' = zmq_thread
  BY DEF Z!lockVars
<1>2. ASSUME NEW s \in Z!Sides PROVE LockOf(s)' /\ BlockOf(s)'
  BY <1>1 DEF ZmqInv, LockOf, BlockOf, Inside, InQueue
<1> QED
  BY <1>2

\* The steps that neither take nor release a lock, nor move a thread.
ZmqOutside ==
  \/ \E t \in Z!ZThreads : Z!Deadline(t)
  \/ \E s \in Z!Sides : Z!Nowait(s) \/ Z!Arrives(s)
  \/ Z!GetEvents \/ Z!FdEvent \/ Z!CloseSocket

LEMMA ZmqOutsideStep == ZmqInv /\ ZmqOutside => ZmqInv'
<1> SUFFICES ASSUME ZmqInv, ZmqOutside PROVE ZmqInv'
  OBVIOUS
<1>0. ZmqShape /\ \A s \in Z!Sides : NewsOf(s) /\ BlockOf(s)
  BY DEF ZmqInv
<1> DEFINE Same == UNCHANGED Z!lockVars /\ UNCHANGED <<zmq_blocked, zmq_thread, zmq_trouble>>
           Stay == /\ \A s \in Z!Sides : LockOf(s)' /\ BlockOf(s)'
                   /\ zmq_blocked' = zmq_blocked /\ zmq_trouble' = zmq_trouble
                   /\ ZmqShape'
<1>1. ASSUME Same, zmq_wakeupper' \in [Z!Sides -> BOOLEAN],
             \A s \in Z!Sides : zmq_wakeupper'[s] => zmq_wakeupper[s] \/ zmq_blocked[s] # None,
             zmq_news' \in [Z!Sides -> Nat] /\ zmq_avail' \in [Z!Sides -> Nat],
             zmq_fd' \in BOOLEAN /\ zmq_isClosed' \in BOOLEAN
      PROVE  Stay
  <2>1. \A s \in Z!Sides : LockOf(s)' /\ BlockOf(s)'
    BY <1>1, LocksStay
  <2>2. ZmqShape'
    BY <1>0, <1>1 DEF ZmqShape, Z!lockVars
  <2> QED
    BY <1>1, <2>1, <2>2
<1>2. ASSUME NEW t \in Z!ZThreads, Z!Deadline(t) PROVE ZmqInv'
  <2>1. /\ Same /\ zmq_wakeupper' = Z!Woken({"recv"})
        /\ zmq_news' = zmq_news /\ zmq_avail' = zmq_avail /\ zmq_fd' = zmq_fd
        /\ zmq_isClosed' = zmq_isClosed
    BY <1>2 DEF Z!Deadline, Z!zlibVars
  <2>2. Stay
    BY <1>0, <1>1, <2>1, WokenIs DEF ZmqShape
  <2>3. \A s \in Z!Sides : NewsOf(s)'
    BY <1>0, <2>1, <2>2, WokenIs DEF NewsOf
  <2> QED
    BY <2>2, <2>3 DEF ZmqInv
<1>3. ASSUME NEW s \in Z!Sides, Z!Nowait(s) PROVE ZmqInv'
  <2>1. /\ Same /\ zmq_wakeupper' = Z!Woken(Z!Sides)
        /\ Z!Processed[s] > 0
        /\ zmq_avail' = [Z!Processed EXCEPT ![s] = @ - 1]
        /\ zmq_news' = [x \in Z!Sides |-> 0] /\ zmq_fd' = FALSE
        /\ zmq_isClosed' = zmq_isClosed
    BY <1>3 DEF Z!Nowait
  <2>2. zmq_avail' \in [Z!Sides -> Nat]
    BY <1>0, <2>1, ProcessedIs
  <2>3. Stay
    BY <1>0, <1>1, <2>1, <2>2, WokenIs DEF ZmqShape
  <2>4. \A r \in Z!Sides : zmq_blocked[r] # None => zmq_wakeupper'[r]
    BY <1>0, <2>1, WokenIs
  <2>5. \A r \in Z!Sides : NewsOf(r)'
    BY <2>1, <2>3, <2>4 DEF NewsOf
  <2> QED
    BY <2>3, <2>5 DEF ZmqInv
<1>4. ASSUME NEW s \in Z!Sides, Z!Arrives(s) PROVE ZmqInv'
  <2>1. /\ Same /\ zmq_wakeupper' = zmq_wakeupper /\ zmq_avail' = zmq_avail
        /\ zmq_news' = [zmq_news EXCEPT ![s] = @ + 1] /\ zmq_fd' = TRUE
        /\ zmq_isClosed' = zmq_isClosed
    BY <1>4 DEF Z!Arrives
  <2>2. Stay
    BY <1>0, <1>1, <2>1 DEF ZmqShape
  <2>3. \A r \in Z!Sides : NewsOf(r)'
    BY <1>0, <2>1, <2>2 DEF NewsOf
  <2> QED
    BY <2>2, <2>3 DEF ZmqInv
<1>5. ASSUME Z!GetEvents PROVE ZmqInv'
  <2>1. /\ Same /\ zmq_wakeupper' = Z!Woken({s \in Z!Sides : Z!Processed[s] > 0})
        /\ zmq_avail' = Z!Processed
        /\ zmq_news' = [x \in Z!Sides |-> 0] /\ zmq_fd' = FALSE
        /\ zmq_isClosed' = zmq_isClosed /\ ~zmq_isClosed
    BY <1>5 DEF Z!GetEvents
  <2>2. Stay
    BY <1>0, <1>1, <2>1, WokenIs, ProcessedIs DEF ZmqShape
  <2>3. \A r \in Z!Sides : zmq_blocked[r] # None /\ zmq_avail'[r] > 0 => zmq_wakeupper'[r]
    BY <1>0, <2>1, WokenIs
  <2>4. \A r \in Z!Sides : NewsOf(r)'
    BY <2>1, <2>2, <2>3 DEF NewsOf
  <2> QED
    BY <2>2, <2>4 DEF ZmqInv
<1>6. ASSUME Z!FdEvent PROVE ZmqInv'
  <2>1. /\ Same /\ zmq_wakeupper' = Z!Woken(Z!Sides) /\ zmq_fd
        /\ \/ /\ zmq_avail' = Z!Processed
              /\ zmq_news' = [x \in Z!Sides |-> 0] /\ zmq_fd' = FALSE
           \/ zmq_avail' = zmq_avail /\ zmq_news' = zmq_news /\ zmq_fd' = zmq_fd
        /\ zmq_isClosed' = zmq_isClosed
    BY <1>6 DEF Z!FdEvent
  <2>2. Stay
    BY <1>0, <1>1, <2>1, WokenIs, ProcessedIs DEF ZmqShape
  <2>3. \A r \in Z!Sides : zmq_blocked[r] # None => zmq_wakeupper'[r]
    BY <1>0, <2>1, WokenIs
  <2>4. \A r \in Z!Sides : zmq_news'[r] > 0 => zmq_fd'
    <3>1. CASE zmq_news' = [x \in Z!Sides |-> 0]
      BY <3>1
    <3>2. CASE zmq_fd' = zmq_fd
      BY <2>1, <3>2
    <3> QED
      BY <2>1, <3>1, <3>2
  <2>5. \A r \in Z!Sides : NewsOf(r)'
    BY <2>2, <2>3, <2>4 DEF NewsOf
  <2> QED
    BY <2>2, <2>5 DEF ZmqInv
<1>7. ASSUME Z!CloseSocket PROVE ZmqInv'
  <2>1. /\ Same /\ zmq_wakeupper' = Z!Woken(Z!Sides)
        /\ zmq_avail' = zmq_avail /\ zmq_news' = zmq_news /\ zmq_fd' = zmq_fd
        /\ zmq_isClosed' = TRUE
    BY <1>7 DEF Z!CloseSocket
  <2>2. Stay
    BY <1>0, <1>1, <2>1, WokenIs DEF ZmqShape
  <2>3. \A r \in Z!Sides : zmq_blocked[r] # None => zmq_wakeupper'[r]
    BY <1>0, <2>1, WokenIs
  <2>4. \A r \in Z!Sides : NewsOf(r)'
    BY <2>1, <2>2, <2>3 DEF NewsOf
  <2> QED
    BY <2>2, <2>4 DEF ZmqInv
<1> QED
  BY <1>2, <1>3, <1>4, <1>5, <1>6, <1>7 DEF ZmqOutside

\* A step that moves one thread changes who blocks on its side only.
LEMMA OtherBlock ==
  ASSUME ZmqInv, NEW t \in Z!ZThreads, NEW s \in Z!Sides, s # Z!Side(t), NEW to, Moves(t, to),
         zmq_blocked'[s] = zmq_blocked[s],
         zmq_wakeupper'[s] => zmq_wakeupper[s] \/ zmq_blocked[s] # None
  PROVE  BlockOf(s)'
<1>1. \A u \in Z!ZThreads : Z!Side(u) = s => zmq_thread'[u] = zmq_thread[u]
  BY DEF Moves, ZmqInv, ZmqShape
<1> QED
  BY <1>1 DEF ZmqInv, BlockOf

\* A thread that is in its call, but not in block(): nobody of its side blocks.
LEMMA WhoTries ==
  ASSUME ZmqInv, NEW t \in Z!ZThreads, zmq_thread[t] = "tries"
  PROVE  /\ zmq_blocked[Z!Side(t)] = None
         /\ ~zmq_wakeupper[Z!Side(t)]
         /\ \A u \in Z!ZThreads : Z!Side(u) = Z!Side(t) /\ Inside(u) => u = t
<1> DEFINE s == Z!Side(t)
<1>1. s \in Z!Sides /\ LockOf(s) /\ BlockOf(s) /\ zmq_blocked[s] \in Z!ZThreads \cup {None}
  BY SidesAre DEF ZmqInv, ZmqShape
<1>2. zmq_lockCount[s] = 1 /\ zmq_holder[s] = t
  BY <1>1 DEF LockOf, Inside
<1>3. \A u \in Z!ZThreads : Z!Side(u) = s /\ Inside(u) => u = t
  BY <1>1, <1>2 DEF LockOf
<1>4. zmq_blocked[s] = None
  BY <1>1, <1>3 DEF BlockOf, Inside
<1> QED
  BY <1>1, <1>3, <1>4 DEF BlockOf

\* A thread of a side where nobody blocks moves, but not into block().
LEMMA NobodyBlocks ==
  ASSUME ZmqInv, NEW t \in Z!ZThreads, NEW to, to # "blocks", Moves(t, to),
         zmq_blocked'[Z!Side(t)] = None, ~zmq_wakeupper'[Z!Side(t)],
         zmq_blocked[Z!Side(t)] \in {None, t}
  PROVE  BlockOf(Z!Side(t))'
<1> DEFINE s == Z!Side(t)
<1>1. s \in Z!Sides /\ BlockOf(s) /\ None \notin Z!ZThreads
  BY SidesAre DEF ZmqInv
<1>2. ASSUME NEW u \in Z!ZThreads, Z!Side(u) = s PROVE zmq_thread'[u] # "blocks"
  <2>1. CASE u = t
    BY <2>1 DEF Moves, ZmqInv, ZmqShape
  <2>2. CASE u # t
    <3>1. zmq_thread'[u] = zmq_thread[u]
      BY <2>2 DEF Moves, ZmqInv, ZmqShape
    <3> QED
      BY <1>1, <1>2, <2>2, <3>1 DEF BlockOf
  <2> QED
    BY <2>1, <2>2
<1> QED
  BY <1>1, <1>2 DEF BlockOf

LEMMA CallStep ==
  ASSUME ZmqInv, NEW t \in Z!ZThreads, NEW n, Z!Call(t, n)
  PROVE  ZmqInv'
<1> DEFINE s == Z!Side(t)
           q == zmq_lockQueue[s]
<1>1. /\ s \in Z!Sides /\ ZmqShape /\ LockOf(s) /\ BlockOf(s)
      /\ q \in Seq(Z!ZThreads) /\ None \notin Z!ZThreads
  BY SidesAre DEF ZmqInv, ZmqShape
<1>2. /\ zmq_thread[t] = "out"
      /\ zmq_trouble' = zmq_trouble /\ UNCHANGED Z!zlibVars
      /\ zmq_waking' = zmq_waking /\ zmq_blocked' = zmq_blocked /\ zmq_wakeupper' = zmq_wakeupper
  BY DEF Z!Call
<1>3. \/ /\ q = <<>> /\ zmq_lockCount[s] = 0
         /\ zmq_lockCount' = [zmq_lockCount EXCEPT ![s] = @ + 1]
         /\ zmq_holder' = [zmq_holder EXCEPT ![s] = t]
         /\ Moves(t, "tries") /\ zmq_lockQueue' = zmq_lockQueue
      \/ /\ ~(q = <<>> /\ zmq_lockCount[s] = 0)
         /\ zmq_lockQueue' = [zmq_lockQueue EXCEPT ![s] = Append(@, t)]
         /\ Moves(t, "queued")
         /\ zmq_lockCount' = zmq_lockCount /\ zmq_holder' = zmq_holder
  BY DEF Z!Call, Z!LockFree, Moves
<1>4. PICK to \in {"tries", "queued"} : Moves(t, to)
  BY <1>3
<1>5. \A u \in Z!ZThreads : zmq_thread'[u] = IF u = t THEN to ELSE zmq_thread[u]
  BY <1>1, <1>4 DEF Moves, ZmqShape
<1>6. ~Contains(q, t)
  BY <1>1, <1>2 DEF LockOf, InQueue
<1>7. /\ Append(q, t) \in Seq(Z!ZThreads) /\ Append(q, t) # <<>> /\ IsInjective(Append(q, t))
      /\ \A u : Contains(Append(q, t), u) <=> Contains(q, u) \/ u = t
      /\ q # <<>> => Head(Append(q, t)) = Head(q)
  <2>1. IsInjective(q)
    BY <1>1 DEF LockOf
  <2>2. q # <<>> => Head(Append(q, t)) = Head(q)
    BY <1>1, AppendProperties, HeadTailProperties
  <2> HIDE DEF q, s
  <2> QED
    BY <1>1, <1>6, <2>1, <2>2, AppendNew
<1> HIDE DEF s
<1>8. ZmqShape'
  <2>1. zmq_thread' \in [Z!ZThreads -> {"out", "queued", "tries", "blocks", "dead"}]
    BY <1>1, <1>4 DEF Moves, ZmqShape
  <2>2. zmq_lockQueue' \in [Z!Sides -> Seq(Z!ZThreads)]
    BY <1>1, <1>3, <1>7 DEF ZmqShape
  <2>3. /\ zmq_lockCount' \in [Z!Sides -> {0, 1}]
        /\ zmq_holder' \in [Z!Sides -> Z!ZThreads \cup {None}]
    <3>1. CASE zmq_lockCount' = zmq_lockCount /\ zmq_holder' = zmq_holder
      BY <1>1, <3>1 DEF ZmqShape
    <3>2. CASE /\ zmq_lockCount[s] = 0
               /\ zmq_lockCount' = [zmq_lockCount EXCEPT ![s] = @ + 1]
               /\ zmq_holder' = [zmq_holder EXCEPT ![s] = t]
      BY <1>1, <3>2 DEF ZmqShape
    <3> QED
      BY <1>3, <3>1, <3>2
  <2> QED
    BY <1>1, <1>2, <2>1, <2>2, <2>3 DEF ZmqShape, Z!zlibVars
<1>9. \A r \in Z!Sides : NewsOf(r)'
  BY <1>2 DEF ZmqInv, NewsOf, Z!zlibVars
<1>10. \A r \in Z!Sides : BlockOf(r)'
  BY <1>2, <1>4, <1>5 DEF ZmqInv, BlockOf
<1>11. ASSUME NEW r \in Z!Sides, r # s PROVE LockOf(r)'
  <2>1. /\ zmq_lockCount'[r] = zmq_lockCount[r] /\ zmq_holder'[r] = zmq_holder[r]
        /\ zmq_lockQueue'[r] = zmq_lockQueue[r] /\ zmq_waking'[r] = zmq_waking[r]
    BY <1>1, <1>2, <1>3, <1>11 DEF ZmqShape
  <2> QED
    BY <1>4, <1>11, <2>1, OtherLock DEF s
<1>12. LockOf(s)'
  <2>1. CASE /\ q = <<>> /\ zmq_lockCount[s] = 0
             /\ zmq_lockCount' = [zmq_lockCount EXCEPT ![s] = @ + 1]
             /\ zmq_holder' = [zmq_holder EXCEPT ![s] = t]
             /\ Moves(t, "tries") /\ zmq_lockQueue' = zmq_lockQueue
    <3>1. /\ zmq_lockCount'[s] = 1 /\ zmq_holder'[s] = t /\ zmq_lockQueue'[s] = <<>>
          /\ zmq_waking'[s] = None /\ IsInjective(<<>>) /\ \A u : ~Contains(<<>>, u)
      BY <1>1, <1>2, <2>1 DEF ZmqShape, LockOf, IsInjective, Contains
    <3>2. \A u \in Z!ZThreads : zmq_thread'[u] = IF u = t THEN "tries" ELSE zmq_thread[u]
      BY <1>1, <2>1 DEF Moves, ZmqShape
    <3>3. \A u \in Z!ZThreads : Z!Side(u) = s => (Inside(u)' <=> u = t)
      BY <1>1, <2>1, <3>2 DEF LockOf, Inside
    <3> QED
      BY <1>1, <3>1, <3>3 DEF LockOf, s
  <2>2. CASE /\ ~(q = <<>> /\ zmq_lockCount[s] = 0)
             /\ zmq_lockQueue' = [zmq_lockQueue EXCEPT ![s] = Append(@, t)]
             /\ Moves(t, "queued")
             /\ zmq_lockCount' = zmq_lockCount /\ zmq_holder' = zmq_holder
    <3>1. zmq_lockQueue'[s] = Append(q, t)
      BY <1>1, <2>2 DEF ZmqShape
    <3>2. \A u \in Z!ZThreads : zmq_thread'[u] = IF u = t THEN "queued" ELSE zmq_thread[u]
      BY <1>1, <2>2 DEF Moves, ZmqShape
    <3>3. \A u \in Z!ZThreads : /\ Inside(u)' <=> Inside(u)
                                /\ InQueue(u)' <=> InQueue(u) \/ u = t
                                /\ zmq_thread[u] = "dead" => zmq_thread'[u] = "dead"
      BY <1>2, <3>2 DEF Inside, InQueue
    <3>4. q # <<>> => Head(q) \in Z!ZThreads
      BY <1>1, HeadOfQueue
    <3>5. q = <<>> => zmq_lockCount[s] = 1
      BY <1>1, <2>2 DEF ZmqShape
    <3> HIDE DEF q
    <3>6. /\ \A u \in Z!ZThreads : Z!Side(u) = s =>
               (Inside(u)' <=> zmq_lockCount'[s] = 1 /\ zmq_holder'[s] = u)
          /\ zmq_lockCount'[s] = 1 => zmq_holder'[s] \in Z!ZThreads /\ Z!Side(zmq_holder'[s]) = s
      BY <1>1, <2>2, <3>3 DEF LockOf
    <3>7. \A u \in Z!ZThreads : Contains(Append(q, t), u) => Z!Side(u) = s /\ InQueue(u)'
      BY <1>1, <1>7, <3>3 DEF LockOf, q, s
    <3>8. zmq_waking'[s] # None =>
            zmq_lockCount'[s] = 0 /\ Append(q, t) # <<>> /\ Head(Append(q, t)) = zmq_waking'[s]
      BY <1>1, <1>2, <1>7, <2>2 DEF LockOf, q
    <3>9. zmq_thread'[Head(Append(q, t))] # "dead" /\ zmq_lockCount'[s] = 0 => zmq_waking'[s] # None
      BY <1>1, <1>2, <1>7, <2>2, <3>3, <3>4, <3>5 DEF LockOf, q
    <3> QED
      BY <1>7, <3>1, <3>6, <3>7, <3>8, <3>9 DEF LockOf
  <2> QED
    BY <1>3, <2>1, <2>2
<1> QED
  BY <1>8, <1>9, <1>10, <1>11, <1>12 DEF ZmqInv

LEMMA LockWakesStep ==
  ASSUME ZmqInv, NEW s \in Z!Sides, Z!LockWakes(s)
  PROVE  ZmqInv'
<1> DEFINE w == zmq_waking[s]
           q == zmq_lockQueue[s]
<1>1. /\ ZmqShape /\ LockOf(s) /\ BlockOf(s) /\ q \in Seq(Z!ZThreads) /\ None \notin Z!ZThreads
  BY SidesAre DEF ZmqInv, ZmqShape
<1>2. /\ w # None /\ zmq_waking' = [zmq_waking EXCEPT ![s] = None]
      /\ zmq_trouble' = zmq_trouble /\ UNCHANGED Z!zlibVars
      /\ zmq_blocked' = zmq_blocked /\ zmq_wakeupper' = zmq_wakeupper
  BY DEF Z!LockWakes
<1>3. \/ /\ zmq_thread[w] = "dead"
         /\ zmq_lockCount' = zmq_lockCount /\ zmq_holder' = zmq_holder
         /\ zmq_lockQueue' = zmq_lockQueue /\ zmq_thread' = zmq_thread
      \/ /\ zmq_thread[w] # "dead"
         /\ zmq_lockQueue' = [zmq_lockQueue EXCEPT ![s] = Tail(@)]
         /\ zmq_lockCount' = [zmq_lockCount EXCEPT ![s] = @ + 1]
         /\ zmq_holder' = [zmq_holder EXCEPT ![s] = w]
         /\ Moves(w, "tries")
  BY DEF Z!LockWakes, Moves
<1>4. /\ zmq_lockCount[s] = 0 /\ q # <<>> /\ Head(q) = w
      /\ w \in Z!ZThreads /\ Z!Side(w) = s /\ InQueue(w)
  BY <1>1, <1>2, HeadOfQueue DEF LockOf
<1>5. /\ Tail(q) \in Seq(Z!ZThreads) /\ IsInjective(Tail(q))
      /\ \A u : Contains(Tail(q), u) <=> Contains(q, u) /\ u # w
  <2>1. IsInjective(q)
    BY <1>1 DEF LockOf
  <2> HIDE DEF q, w
  <2> QED
    BY <1>1, <1>4, <2>1, TailOnce
<1>6. \A r \in Z!Sides : NewsOf(r)'
  BY <1>2 DEF ZmqInv, NewsOf, Z!zlibVars
<1>7. \A r \in Z!Sides : r # s => zmq_waking'[r] = zmq_waking[r]
  BY <1>1, <1>2 DEF ZmqShape
<1>8. /\ zmq_waking'[s] = None /\ zmq_waking' \in [Z!Sides -> Z!ZThreads \cup {None}]
  BY <1>1, <1>2 DEF ZmqShape
<1>9. CASE /\ zmq_thread[w] = "dead"
           /\ zmq_lockCount' = zmq_lockCount /\ zmq_holder' = zmq_holder
           /\ zmq_lockQueue' = zmq_lockQueue /\ zmq_thread' = zmq_thread
  <2>1. ZmqShape'
    BY <1>1, <1>2, <1>8, <1>9 DEF ZmqShape, Z!zlibVars
  <2>2. LockOf(s)'
    BY <1>1, <1>4, <1>8, <1>9 DEF LockOf, Inside, InQueue
  <2>3. \A r \in Z!Sides : r # s => LockOf(r)'
    BY <1>7, <1>9 DEF ZmqInv, LockOf, Inside, InQueue
  <2>4. \A r \in Z!Sides : BlockOf(r)'
    BY <1>2, <1>9 DEF ZmqInv, BlockOf
  <2> QED
    BY <1>6, <2>1, <2>2, <2>3, <2>4 DEF ZmqInv
<1>10. CASE /\ zmq_thread[w] # "dead"
            /\ zmq_lockQueue' = [zmq_lockQueue EXCEPT ![s] = Tail(@)]
            /\ zmq_lockCount' = [zmq_lockCount EXCEPT ![s] = @ + 1]
            /\ zmq_holder' = [zmq_holder EXCEPT ![s] = w]
            /\ Moves(w, "tries")
  <2> HIDE DEF w
  <2>0. /\ zmq_lockQueue'[s] = Tail(q) /\ zmq_lockCount'[s] = 1 /\ zmq_holder'[s] = w
        /\ zmq_lockQueue' \in [Z!Sides -> Seq(Z!ZThreads)]
        /\ zmq_lockCount' \in [Z!Sides -> {0, 1}]
        /\ zmq_holder' \in [Z!Sides -> Z!ZThreads \cup {None}]
    BY <1>1, <1>4, <1>5, <1>10 DEF ZmqShape
  <2>1. ZmqShape'
    <3>1. zmq_thread' \in [Z!ZThreads -> {"out", "queued", "tries", "blocks", "dead"}]
      BY <1>1, <1>10 DEF Moves, ZmqShape
    <3> QED
      BY <1>1, <1>2, <1>8, <2>0, <3>1 DEF ZmqShape, Z!zlibVars
  <2>2. \A u \in Z!ZThreads : zmq_thread'[u] = IF u = w THEN "tries" ELSE zmq_thread[u]
    BY <1>1, <1>10 DEF Moves, ZmqShape
  <2>3. LockOf(s)'
    <3>1. \A u \in Z!ZThreads : Z!Side(u) = s => (Inside(u)' <=> u = w)
      BY <1>1, <1>4, <2>2 DEF LockOf, Inside
    <3>2. \A u \in Z!ZThreads : Contains(Tail(q), u) => Z!Side(u) = s /\ InQueue(u)'
      BY <1>1, <1>5, <2>2 DEF LockOf, InQueue
    <3> HIDE DEF q
    <3> QED
      BY <1>4, <1>5, <1>8, <2>0, <3>1, <3>2 DEF LockOf
  <2>4. ASSUME NEW r \in Z!Sides, r # s PROVE LockOf(r)'
    <3>1. /\ zmq_lockCount'[r] = zmq_lockCount[r] /\ zmq_holder'[r] = zmq_holder[r]
          /\ zmq_lockQueue'[r] = zmq_lockQueue[r] /\ zmq_waking'[r] = zmq_waking[r]
      BY <1>1, <1>7, <1>10, <2>4 DEF ZmqShape
    <3> QED
      BY <1>4, <1>10, <2>4, <3>1, OtherLock
  <2>5. \A r \in Z!Sides : BlockOf(r)'
    BY <1>2, <1>4, <2>2 DEF ZmqInv, BlockOf, InQueue
  <2> QED
    BY <1>6, <2>1, <2>3, <2>4, <2>5 DEF ZmqInv
<1> QED
  BY <1>3, <1>9, <1>10

\* A send or a receive that succeeds, or fails: the other side is told.
LEMMA ThreadEnds ==
  ASSUME ZmqInv, NEW t \in Z!ZThreads, zmq_thread[t] = "tries",
         \/ UNCHANGED <<Z!lockVars, zmq_thread>>
         \/ Z!ReleaseLock(t, "out"),
         zmq_wakeupper' = Z!Woken(Z!TellOther(t)),
         zmq_blocked' = zmq_blocked /\ zmq_trouble' = zmq_trouble,
         zmq_isClosed' = zmq_isClosed,
         zmq_news' \in [Z!Sides -> Nat] /\ zmq_avail' \in [Z!Sides -> Nat],
         zmq_fd' \in BOOLEAN,
         \A s \in Z!Sides : zmq_news'[s] > 0 => zmq_news[s] > 0 /\ zmq_fd' = zmq_fd
  PROVE  ZmqInv'
<1> DEFINE s == Z!Side(t)
           o == Z!Opposite(s)
<1>1. /\ s \in Z!Sides /\ o \in Z!Sides /\ o # s /\ Z!Sides = {s, o} /\ ZmqShape
      /\ Z!TellOther(t) = {o}
  BY SidesAre DEF ZmqInv, Z!TellOther
<1>2. zmq_blocked[s] = None /\ ~zmq_wakeupper[s]
  BY WhoTries
<1>3. /\ zmq_wakeupper' \in [Z!Sides -> BOOLEAN]
      /\ \A r \in Z!Sides : zmq_wakeupper'[r] <=> zmq_wakeupper[r] \/ (r = o /\ zmq_blocked[r] # None)
  BY <1>1, WokenIs
<1> HIDE DEF s, o
<1>4. \A r \in Z!Sides : NewsOf(r)'
  <2>1. \A r \in Z!Sides : zmq_blocked'[r] # None => zmq_wakeupper'[r]
    BY <1>1, <1>2, <1>3
  <2>2. ASSUME NEW r \in Z!Sides, zmq_news'[r] > 0, ~zmq_isClosed' PROVE zmq_fd'
    BY <2>2 DEF ZmqInv, NewsOf
  <2> QED
    BY <2>1, <2>2 DEF NewsOf
<1>5. CASE UNCHANGED <<Z!lockVars, zmq_thread>>
  <2>1. \A r \in Z!Sides : LockOf(r)' /\ BlockOf(r)'
    <3>1. UNCHANGED Z!lockVars /\ UNCHANGED <<zmq_blocked, zmq_thread>>
      BY <1>5
    <3> QED
      BY <1>3, <3>1, LocksStay
  <2>2. ZmqShape'
    BY <1>1, <1>3, <1>5 DEF ZmqShape, Z!lockVars
  <2> QED
    BY <1>4, <2>1, <2>2 DEF ZmqInv
<1>6. CASE Z!ReleaseLock(t, "out")
  <2>0. Inside(t) /\ "out" \in {"out", "dead"} /\ "out" # "blocks"
    BY DEF Inside
  <2>1. /\ \A r \in Z!Sides : LockOf(r)'
        /\ Moves(t, "out")
        /\ zmq_lockCount' \in [Z!Sides -> {0, 1}]
        /\ zmq_lockQueue' = zmq_lockQueue
        /\ zmq_holder' \in [Z!Sides -> Z!ZThreads \cup {None}]
        /\ zmq_waking' \in [Z!Sides -> Z!ZThreads \cup {None}]
    BY <1>6, <2>0, ReleaseStep
  <2>2. ZmqShape'
    <3>1. zmq_thread' \in [Z!ZThreads -> {"out", "queued", "tries", "blocks", "dead"}]
      BY <1>1, <2>1 DEF Moves, ZmqShape
    <3> QED
      BY <1>1, <1>3, <2>1, <3>1 DEF ZmqShape
  <2>3. BlockOf(s)'
    <3>1. zmq_blocked'[s] = None /\ ~zmq_wakeupper'[s] /\ zmq_blocked[s] \in {None, t}
      BY <1>1, <1>2, <1>3
    <3> QED
      BY <2>0, <2>1, <3>1, NobodyBlocks DEF s
  <2>4. BlockOf(o)'
    BY <1>1, <1>3, <2>1, OtherBlock DEF s
  <2> QED
    BY <1>1, <1>4, <2>1, <2>2, <2>3, <2>4 DEF ZmqInv
<1> QED
  BY <1>5, <1>6

LEMMA SuccessStep ==
  ASSUME ZmqInv, NEW t \in Z!ZThreads, Z!Success(t)
  PROVE  ZmqInv'
<1> DEFINE s == Z!Side(t)
<1>1. s \in Z!Sides /\ ZmqShape
  BY SidesAre DEF ZmqInv
<1>2. PICK look \in BOOLEAN :
        LET now == IF look THEN Z!Processed ELSE zmq_avail
        IN  /\ now[s] > 0
            /\ zmq_avail' = [now EXCEPT ![s] = @ - 1]
            /\ zmq_news' = IF look THEN [r \in Z!Sides |-> 0] ELSE zmq_news
            /\ zmq_fd' = (zmq_fd /\ ~look)
  BY DEF Z!Success
<1>3. /\ zmq_thread[t] = "tries"
      /\ UNCHANGED <<Z!lockVars, zmq_thread>> \/ Z!ReleaseLock(t, "out")
      /\ zmq_wakeupper' = Z!Woken(Z!TellOther(t))
      /\ zmq_blocked' = zmq_blocked /\ zmq_trouble' = zmq_trouble
      /\ zmq_isClosed' = zmq_isClosed
  BY DEF Z!Success
<1> HIDE DEF s
<1>4. /\ zmq_avail' \in [Z!Sides -> Nat] /\ zmq_news' \in [Z!Sides -> Nat] /\ zmq_fd' \in BOOLEAN
      /\ \A r \in Z!Sides : zmq_news'[r] > 0 => zmq_news[r] > 0 /\ zmq_fd' = zmq_fd
  <2>1. CASE look
    <3>1. /\ Z!Processed[s] > 0 /\ zmq_avail' = [Z!Processed EXCEPT ![s] = @ - 1]
          /\ zmq_news' = [r \in Z!Sides |-> 0] /\ zmq_fd' = FALSE
      BY <1>2, <2>1
    <3>2. zmq_avail' \in [Z!Sides -> Nat]
      BY <1>1, <3>1, ProcessedIs
    <3>3. zmq_news' \in [Z!Sides -> Nat] /\ \A r \in Z!Sides : ~(zmq_news'[r] > 0)
      BY <3>1
    <3>4. zmq_fd' \in BOOLEAN
      BY <3>1
    <3> QED
      BY <3>2, <3>3, <3>4
  <2>2. CASE ~look
    <3>1. /\ zmq_avail[s] > 0 /\ zmq_avail' = [zmq_avail EXCEPT ![s] = @ - 1]
          /\ zmq_news' = zmq_news /\ zmq_fd' = (zmq_fd /\ TRUE)
      BY <1>2, <2>2
    <3>2. zmq_fd' = zmq_fd
      BY <1>1, <3>1 DEF ZmqShape
    <3> QED
      BY <1>1, <3>1, <3>2 DEF ZmqShape
  <2> QED
    BY <2>1, <2>2
<1> QED
  BY <1>3, <1>4, ThreadEnds

LEMMA FailsStep ==
  ASSUME ZmqInv, NEW t \in Z!ZThreads, Z!Fails(t)
  PROVE  ZmqInv'
<1>1. /\ zmq_thread[t] = "tries" /\ Z!ReleaseLock(t, "out")
      /\ zmq_wakeupper' = Z!Woken(Z!TellOther(t))
      /\ zmq_blocked' = zmq_blocked /\ zmq_trouble' = zmq_trouble
      /\ zmq_isClosed' = zmq_isClosed
      /\ zmq_avail' = Z!Processed /\ zmq_news' = [s \in Z!Sides |-> 0] /\ zmq_fd' = FALSE
  BY DEF Z!Fails
<1>2. /\ zmq_avail' \in [Z!Sides -> Nat] /\ zmq_news' \in [Z!Sides -> Nat] /\ zmq_fd' \in BOOLEAN
      /\ \A r \in Z!Sides : zmq_news'[r] > 0 => zmq_news[r] > 0 /\ zmq_fd' = zmq_fd
  <2>1. zmq_avail' \in [Z!Sides -> Nat]
    BY <1>1, ProcessedIs DEF ZmqInv
  <2>2. zmq_news' \in [Z!Sides -> Nat] /\ \A r \in Z!Sides : ~(zmq_news'[r] > 0)
    BY <1>1
  <2>3. zmq_fd' \in BOOLEAN
    BY <1>1
  <2> QED
    BY <2>1, <2>2, <2>3
<1> QED
  BY <1>1, <1>2, ThreadEnds

\* EAGAIN: it has left nothing for its side, nor taken anything from the other.
LEMMA EagainStep ==
  ASSUME ZmqInv, NEW t \in Z!ZThreads, Z!Eagain(t)
  PROVE  ZmqInv'
<1> DEFINE s == Z!Side(t)
           o == Z!Opposite(s)
<1>1. /\ s \in Z!Sides /\ o \in Z!Sides /\ o # s /\ Z!Sides = {s, o} /\ ZmqShape
      /\ None \notin Z!ZThreads
  BY SidesAre DEF ZmqInv
<1>2. /\ zmq_thread[t] = "tries" /\ ~zmq_isClosed /\ zmq_isClosed' = zmq_isClosed
      /\ Z!Processed[s] = 0
      /\ "steal" \in zmq_trouble \/ zmq_news[o] = 0 \/ zmq_blocked[o] = None
      /\ zmq_avail' = Z!Processed /\ zmq_news' = [r \in Z!Sides |-> 0] /\ zmq_fd' = FALSE
      /\ zmq_blocked' = [zmq_blocked EXCEPT ![s] = t]
      /\ Moves(t, "blocks") /\ zmq_trouble' = zmq_trouble /\ zmq_wakeupper' = zmq_wakeupper
      /\ UNCHANGED Z!lockVars
  BY DEF Z!Eagain, Moves
<1>3. /\ ~zmq_wakeupper[s]
      /\ \A u \in Z!ZThreads : Z!Side(u) = s /\ Inside(u) => u = t
  BY <1>2, WhoTries
<1>4. Z!Side(t) = s
  OBVIOUS
<1> HIDE DEF s, o
<1>5. \A u \in Z!ZThreads : zmq_thread'[u] = IF u = t THEN "blocks" ELSE zmq_thread[u]
  BY <1>1, <1>2 DEF Moves, ZmqShape
<1>6. zmq_blocked'[s] = t /\ zmq_blocked'[o] = zmq_blocked[o]
  BY <1>1, <1>2 DEF ZmqShape
<1>7. ZmqShape'
  <2>1. /\ zmq_thread' \in [Z!ZThreads -> {"out", "queued", "tries", "blocks", "dead"}]
        /\ zmq_blocked' \in [Z!Sides -> Z!ZThreads \cup {None}]
    BY <1>1, <1>2 DEF Moves, ZmqShape
  <2>2. zmq_avail' \in [Z!Sides -> Nat] /\ zmq_news' \in [Z!Sides -> Nat] /\ zmq_fd' \in BOOLEAN
    BY <1>1, <1>2, ProcessedIs
  <2> QED
    BY <1>1, <1>2, <2>1, <2>2 DEF ZmqShape, Z!lockVars
<1>8. ASSUME NEW r \in Z!Sides PROVE LockOf(r)'
  <2>1. \A u \in Z!ZThreads : /\ Inside(u)' <=> Inside(u)
                              /\ InQueue(u) => InQueue(u)'
                              /\ zmq_thread[u] = "dead" => zmq_thread'[u] = "dead"
    BY <1>2, <1>5 DEF Inside, InQueue
  <2>2. /\ zmq_lockCount'[r] = zmq_lockCount[r] /\ zmq_holder'[r] = zmq_holder[r]
        /\ zmq_lockQueue'[r] = zmq_lockQueue[r] /\ zmq_waking'[r] = zmq_waking[r]
    BY <1>2 DEF Z!lockVars
  <2> QED
    BY <2>1, <2>2, LockFrame DEF ZmqInv
<1>9. BlockOf(s)'
  <2>1. \A u \in Z!ZThreads : zmq_thread'[u] = "blocks" /\ Z!Side(u) = s <=> u = t
    BY <1>3, <1>4, <1>5 DEF Inside
  <2> QED
    BY <1>1, <1>2, <1>3, <1>6, <2>1 DEF BlockOf
<1>10. BlockOf(o)'
  <2>1. zmq_wakeupper'[o] => zmq_wakeupper[o] \/ zmq_blocked[o] # None
    BY <1>2
  <2> QED
    BY <1>1, <1>2, <1>4, <1>6, <2>1, OtherBlock
<1>11. \A r \in Z!Sides : zmq_news'[r] = 0 /\ zmq_avail'[r] = zmq_avail[r] + zmq_news[r]
  BY <1>1, <1>2, ProcessedIs
<1>12. NewsOf(s)'
  BY <1>1, <1>2, <1>11 DEF NewsOf
<1>13. NewsOf(o)'
  <2>1. ASSUME zmq_trouble = {}, zmq_blocked[o] # None, zmq_avail'[o] > 0 PROVE zmq_wakeupper[o]
    <3>1. zmq_news[o] = 0 /\ zmq_avail[o] \in Nat /\ NewsOf(o)
      BY <1>1, <1>2, <2>1 DEF ZmqInv, ZmqShape
    <3> QED
      BY <1>1, <1>11, <2>1, <3>1 DEF NewsOf
  <2> QED
    BY <1>1, <1>2, <1>6, <1>11, <2>1 DEF NewsOf
<1> QED
  BY <1>1, <1>7, <1>8, <1>9, <1>10, <1>12, <1>13 DEF ZmqInv

LEMMA UnblockStep ==
  ASSUME ZmqInv, NEW s \in Z!Sides, Z!Unblock(s)
  PROVE  ZmqInv'
<1> DEFINE t == zmq_blocked[s]
           o == Z!Opposite(s)
<1>1. /\ o \in Z!Sides /\ o # s /\ Z!Sides = {s, o} /\ ZmqShape /\ BlockOf(s)
      /\ None \notin Z!ZThreads
  BY SidesAre DEF ZmqInv
<1>2. /\ zmq_wakeupper[s] /\ zmq_blocked' = [zmq_blocked EXCEPT ![s] = None]
      /\ zmq_wakeupper' = [Z!Woken({o}) EXCEPT ![s] = FALSE]
      /\ Moves(t, "tries") /\ zmq_trouble' = zmq_trouble
      /\ UNCHANGED Z!lockVars /\ UNCHANGED Z!zlibVars
  BY DEF Z!Unblock, Moves
<1>3. t \in Z!ZThreads /\ zmq_thread[t] = "blocks" /\ Z!Side(t) = s
  BY <1>1, <1>2 DEF BlockOf, ZmqShape
<1> HIDE DEF t, o
<1>4. /\ zmq_wakeupper' \in [Z!Sides -> BOOLEAN] /\ ~zmq_wakeupper'[s]
      /\ zmq_wakeupper'[o] <=> zmq_wakeupper[o] \/ zmq_blocked[o] # None
  BY <1>1, <1>2, WokenIs
<1>5. zmq_blocked'[s] = None /\ zmq_blocked'[o] = zmq_blocked[o]
  BY <1>1, <1>2 DEF ZmqShape
<1>6. \A u \in Z!ZThreads : zmq_thread'[u] = IF u = t THEN "tries" ELSE zmq_thread[u]
  BY <1>1, <1>2 DEF Moves, ZmqShape
<1>7. ZmqShape'
  <2>1. /\ zmq_thread' \in [Z!ZThreads -> {"out", "queued", "tries", "blocks", "dead"}]
        /\ zmq_blocked' \in [Z!Sides -> Z!ZThreads \cup {None}]
    BY <1>1, <1>2 DEF Moves, ZmqShape
  <2> QED
    BY <1>1, <1>2, <1>4, <2>1 DEF ZmqShape, Z!lockVars, Z!zlibVars
<1>8. ASSUME NEW r \in Z!Sides PROVE LockOf(r)'
  <2>1. \A u \in Z!ZThreads : /\ Inside(u)' <=> Inside(u)
                              /\ InQueue(u) => InQueue(u)'
                              /\ zmq_thread[u] = "dead" => zmq_thread'[u] = "dead"
    BY <1>3, <1>6 DEF Inside, InQueue
  <2>2. /\ zmq_lockCount'[r] = zmq_lockCount[r] /\ zmq_holder'[r] = zmq_holder[r]
        /\ zmq_lockQueue'[r] = zmq_lockQueue[r] /\ zmq_waking'[r] = zmq_waking[r]
    BY <1>2 DEF Z!lockVars
  <2> QED
    BY <2>1, <2>2, LockFrame DEF ZmqInv
<1>9. BlockOf(s)'
  <2>1. zmq_blocked[s] \in {None, t}
    BY DEF t
  <2> QED
    BY <1>2, <1>3, <1>4, <1>5, <2>1, NobodyBlocks
<1>10. BlockOf(o)'
  BY <1>1, <1>2, <1>3, <1>4, <1>5, OtherBlock
<1>11. \A r \in Z!Sides : NewsOf(r)'
  <2>1. NewsOf(s)'
    BY <1>2, <1>5 DEF ZmqInv, NewsOf, Z!zlibVars
  <2>2. NewsOf(o)'
    BY <1>1, <1>2, <1>4, <1>5 DEF ZmqInv, NewsOf, Z!zlibVars
  <2> QED
    BY <1>1, <2>1, <2>2
<1> QED
  BY <1>1, <1>7, <1>8, <1>9, <1>10, <1>11 DEF ZmqInv

LEMMA KillThreadStep ==
  ASSUME ZmqInv, NEW t \in Z!ZThreads, Z!KillThread(t)
  PROVE  ZmqInv'
<1> DEFINE s == Z!Side(t)
           o == Z!Opposite(s)
<1>1. /\ s \in Z!Sides /\ o \in Z!Sides /\ o # s /\ Z!Sides = {s, o} /\ ZmqShape
      /\ BlockOf(s) /\ None \notin Z!ZThreads /\ Z!Side(t) = s
  BY SidesAre DEF ZmqInv
<1>2. /\ zmq_trouble # {} /\ zmq_trouble' = zmq_trouble /\ UNCHANGED Z!zlibVars
  BY DEF Z!KillThread
<1>3. \/ /\ zmq_thread[t] = "blocks" /\ zmq_blocked' = [zmq_blocked EXCEPT ![s] = None]
         /\ zmq_wakeupper' = [Z!Woken({o}) EXCEPT ![s] = FALSE]
         /\ Z!ReleaseLock(t, "dead")
      \/ /\ zmq_thread[t] = "queued" /\ Moves(t, "dead") /\ UNCHANGED Z!lockVars
         /\ zmq_blocked' = zmq_blocked /\ zmq_wakeupper' = zmq_wakeupper
  BY DEF Z!KillThread, Moves
<1> HIDE DEF s, o
<1>4. CASE /\ zmq_thread[t] = "blocks" /\ zmq_blocked' = [zmq_blocked EXCEPT ![s] = None]
           /\ zmq_wakeupper' = [Z!Woken({o}) EXCEPT ![s] = FALSE]
           /\ Z!ReleaseLock(t, "dead")
  <2>0. Inside(t) /\ "dead" \in {"out", "dead"} /\ "dead" # "blocks"
    BY <1>4 DEF Inside
  <2>1. /\ \A r \in Z!Sides : LockOf(r)'
        /\ Moves(t, "dead")
        /\ zmq_lockCount' \in [Z!Sides -> {0, 1}]
        /\ zmq_lockQueue' = zmq_lockQueue
        /\ zmq_holder' \in [Z!Sides -> Z!ZThreads \cup {None}]
        /\ zmq_waking' \in [Z!Sides -> Z!ZThreads \cup {None}]
    BY <1>4, <2>0, ReleaseStep
  <2>2. /\ zmq_wakeupper' \in [Z!Sides -> BOOLEAN] /\ ~zmq_wakeupper'[s]
        /\ zmq_wakeupper'[o] <=> zmq_wakeupper[o] \/ zmq_blocked[o] # None
    BY <1>1, <1>4, WokenIs
  <2>3. zmq_blocked'[s] = None /\ zmq_blocked'[o] = zmq_blocked[o] /\ zmq_blocked[s] \in {None, t}
    BY <1>1, <1>4 DEF ZmqShape, BlockOf
  <2>4. ZmqShape'
    <3>1. /\ zmq_thread' \in [Z!ZThreads -> {"out", "queued", "tries", "blocks", "dead"}]
          /\ zmq_blocked' \in [Z!Sides -> Z!ZThreads \cup {None}]
      BY <1>1, <1>4, <2>1 DEF Moves, ZmqShape
    <3> QED
      BY <1>1, <1>2, <2>1, <2>2, <3>1 DEF ZmqShape, Z!zlibVars
  <2>5. BlockOf(s)'
    BY <1>1, <2>0, <2>1, <2>2, <2>3, NobodyBlocks
  <2>6. BlockOf(o)'
    BY <1>1, <2>1, <2>2, <2>3, OtherBlock
  <2>7. NewsOf(s)' /\ NewsOf(o)'
    <3>1. NewsOf(s)'
      BY <1>1, <1>2, <2>3 DEF ZmqInv, NewsOf, Z!zlibVars
    <3>2. NewsOf(o)'
      BY <1>1, <1>2, <2>2, <2>3 DEF ZmqInv, NewsOf, Z!zlibVars
    <3> QED
      BY <3>1, <3>2
  <2> QED
    BY <1>1, <2>1, <2>4, <2>5, <2>6, <2>7 DEF ZmqInv
<1>5. CASE /\ zmq_thread[t] = "queued" /\ Moves(t, "dead") /\ UNCHANGED Z!lockVars
           /\ zmq_blocked' = zmq_blocked /\ zmq_wakeupper' = zmq_wakeupper
  <2>1. \A u \in Z!ZThreads : zmq_thread'[u] = IF u = t THEN "dead" ELSE zmq_thread[u]
    BY <1>1, <1>5 DEF Moves, ZmqShape
  <2>2. ASSUME NEW r \in Z!Sides PROVE LockOf(r)'
    <3>1. \A u \in Z!ZThreads : /\ Inside(u)' <=> Inside(u)
                                /\ InQueue(u) => InQueue(u)'
                                /\ zmq_thread[u] = "dead" => zmq_thread'[u] = "dead"
      BY <1>5, <2>1 DEF Inside, InQueue
    <3>2. /\ zmq_lockCount'[r] = zmq_lockCount[r] /\ zmq_holder'[r] = zmq_holder[r]
          /\ zmq_lockQueue'[r] = zmq_lockQueue[r] /\ zmq_waking'[r] = zmq_waking[r]
      BY <1>5 DEF Z!lockVars
    <3> QED
      BY <3>1, <3>2, LockFrame DEF ZmqInv
  <2>3. \A r \in Z!Sides : BlockOf(r)'
    BY <1>5, <2>1 DEF ZmqInv, BlockOf
  <2>4. \A r \in Z!Sides : NewsOf(r)'
    BY <1>2, <1>5 DEF ZmqInv, NewsOf, Z!zlibVars
  <2>5. ZmqShape'
    <3>1. zmq_thread' \in [Z!ZThreads -> {"out", "queued", "tries", "blocks", "dead"}]
      BY <1>1, <1>5 DEF Moves, ZmqShape
    <3> QED
      BY <1>1, <1>2, <1>5, <3>1 DEF ZmqShape, Z!zlibVars, Z!lockVars
  <2> QED
    BY <2>2, <2>3, <2>4, <2>5 DEF ZmqInv
<1> QED
  BY <1>3, <1>4, <1>5

LEMMA ZmqInvStep == ZmqInv /\ (Z!ZmqNext \/ UNCHANGED zmqVars) => ZmqInv'
<1> SUFFICES ASSUME ZmqInv, Z!ZmqNext \/ UNCHANGED zmqVars PROVE ZmqInv'
  OBVIOUS
<1>1. CASE UNCHANGED zmqVars
  <2>1. /\ zmq_lockCount' = zmq_lockCount /\ zmq_holder' = zmq_holder
        /\ zmq_lockQueue' = zmq_lockQueue /\ zmq_waking' = zmq_waking
        /\ zmq_blocked' = zmq_blocked /\ zmq_thread' = zmq_thread
        /\ zmq_wakeupper' = zmq_wakeupper /\ zmq_trouble' = zmq_trouble /\ zmq_fd' = zmq_fd
        /\ zmq_news' = zmq_news /\ zmq_avail' = zmq_avail /\ zmq_isClosed' = zmq_isClosed
    BY <1>1 DEF zmqVars
  <2>2. ZmqShape'
    BY <2>1 DEF ZmqInv, ZmqShape
  <2>3. ASSUME NEW s \in Z!Sides PROVE LockOf(s)'
    BY <2>1 DEF ZmqInv, LockOf, Inside, InQueue
  <2>4. ASSUME NEW s \in Z!Sides PROVE BlockOf(s)' /\ NewsOf(s)'
    BY <2>1 DEF ZmqInv, BlockOf, NewsOf, InQueue
  <2> QED
    BY <2>2, <2>3, <2>4 DEF ZmqInv
<1>2. CASE ZmqOutside
  BY <1>2, ZmqOutsideStep
<1>3. CASE \E t \in Z!ZThreads, n \in Parts : Z!Call(t, n)
  BY <1>3, CallStep
<1>4. CASE \E t \in Z!ZThreads : Z!Success(t) \/ Z!Eagain(t) \/ Z!Fails(t) \/ Z!KillThread(t)
  BY <1>4, SuccessStep, EagainStep, FailsStep, KillThreadStep
<1>5. CASE \E s \in Z!Sides : Z!LockWakes(s) \/ Z!Unblock(s)
  BY <1>5, LockWakesStep, UnblockStep
<1> QED
  BY <1>1, <1>2, <1>3, <1>4, <1>5 DEF Z!ZmqNext, Z!Runs, ZmqOutside

LEMMA ZmqInvExact == ZmqInv => Z!LocksFair /\ Z!NoNewsLost
<1> SUFFICES ASSUME ZmqInv PROVE Z!LocksFair /\ Z!NoNewsLost
  OBVIOUS
<1>1. ASSUME NEW s \in Z!Sides
      PROVE  {t \in Z!ZThreads : Z!Side(t) = s /\ zmq_thread[t] \in {"tries", "blocks"}}
               = (IF zmq_lockCount[s] = 0 THEN {} ELSE {zmq_holder[s]})
  <2>1. LockOf(s) /\ zmq_lockCount[s] \in {0, 1}
    BY DEF ZmqInv, ZmqShape
  <2> QED
    BY <2>1 DEF LockOf, Inside
<1>2. Z!LocksFair
  BY <1>1 DEF ZmqInv, LockOf, Z!LocksFair
<1>3. Z!NoNewsLost
  BY DEF ZmqInv, NewsOf, Z!NoNewsLost
<1> QED
  BY <1>2, <1>3

-----------------------------------------------------------------------------
(* The listeners of the hub and the green sockets: SocketProofs, for its instances *)

\* What SocketProofs assumes of the listeners holds of both instances.
LEMMA HubValues ==
  /\ L!ValuesApart /\ {"read", "write"} \subseteq L!Events
  /\ M!ValuesApart /\ {"read"} \subseteq M!Events
<1>1. L!ValuesApart /\ M!ValuesApart
  BY NetworkAssumption
<1>2. {"read", "write"} \subseteq L!Events /\ {"read"} \subseteq M!Events
  BY DEF L!Events, M!Events
<1> QED
  BY <1>1, <1>2

LEMMA HubInvInit == L!Init => L!ListenersInv
  BY HubValues, L!ListenersInvInit

LEMMA CrowdInvInit == M!Init => M!ListenersInv
  BY HubValues, M!ListenersInvInit

LEMMA HubInvStep == L!ListenersInv /\ (L!Next \/ UNCHANGED hubVars) => L!ListenersInv'
<1> SUFFICES ASSUME L!ListenersInv, L!Next \/ UNCHANGED hubVars PROVE L!ListenersInv'
  OBVIOUS
<1>1. UNCHANGED hubVars => UNCHANGED L!vars
  BY DEF hubVars, L!vars, L!hubVars, L!tables, L!world
<1>2. [L!Next]_(L!vars)
  BY <1>1
<1> QED
  BY <1>2, HubValues, L!ListenersInvStep

LEMMA CrowdInvStep == M!ListenersInv /\ (M!Next \/ UNCHANGED hubVars) => M!ListenersInv'
<1> SUFFICES ASSUME M!ListenersInv, M!Next \/ UNCHANGED hubVars PROVE M!ListenersInv'
  OBVIOUS
<1>1. UNCHANGED hubVars => UNCHANGED M!vars
  BY DEF hubVars, M!vars, M!hubVars, M!tables, M!world
<1>2. [M!Next]_(M!vars)
  BY <1>1
<1> QED
  BY <1>2, HubValues, M!ListenersInvStep

\* The hub's invariant gives what is claimed of either instance.
LEMMA HubInvExact ==
  /\ L!ListenersInv => L!WaitersKnown /\ L!MaskExact /\ L!NoneOutlivesItsFile
  /\ M!ListenersInv => M!WaitersKnown /\ M!MaskExact /\ M!NoneOutlivesItsFile
  BY HubValues, L!ListenersInvExact, M!ListenersInvExact

LEMMA StreamInvStep ==
  L!GreenInv /\ (L!GreenNext \/ UNCHANGED greenVars) => L!GreenInv'
<1> SUFFICES ASSUME L!GreenInv, L!GreenNext \/ UNCHANGED greenVars PROVE L!GreenInv'
  OBVIOUS
<1>1. L!Countable
  BY NetworkAssumption
<1>2. UNCHANGED greenVars => UNCHANGED L!greenVars
  BY DEF greenVars, L!greenVars, L!peerVars
<1> QED
  BY <1>1, <1>2, L!GreenInvStep

-----------------------------------------------------------------------------
(* AsyncioHub *)

\* Who listens for a number is who the loop calls, and the kernel watches those of
\* them that are open; no one waits behind another.
LoopTables ==
  /\ loop_open \subseteq Fds
  /\ loop_listeners \in [Fds -> Threads \cup {None}]
  /\ loop_secondaries = [f \in Fds |-> <<>>]
  /\ O!ReadersExact

\* While the task of the hub sleeps undisturbed, also while a thread runs, no timer
\* is new or due before it wakes.
LoopTimers ==
  /\ loop_now \in Nat
  /\ loop_timers \in [Threads -> Nat \cup {None}]
  /\ loop_phase = "sleep" /\ ~loop_sleep_event =>
       \A t \in O!Scheduled : t \notin loop_fresh /\ loop_timers[t] >= loop_until

LoopInv == LoopTables /\ LoopTimers

LEMMA LoopInvInit == O!LoopInit => LoopInv
<1> SUFFICES ASSUME O!LoopInit PROVE LoopInv
  OBVIOUS
<1>1. LoopTables
  BY DEF O!LoopInit, LoopTables, O!ReadersExact
<1>2. LoopTimers
  BY DEF O!LoopInit, LoopTimers
<1> QED
  BY <1>1, <1>2 DEF LoopInv

LEMMA LoopInvExact == LoopInv => O!ReadersExact /\ O!NeverOversleeps
  BY DEF LoopInv, LoopTables, LoopTimers, O!NeverOversleeps

\* The earliest of some timers.
LEMMA EarliestTimer ==
  ASSUME NEW D, D \subseteq Nat, D # {}
  PROVE  O!Min(D) \in D /\ \A n \in D : O!Min(D) <= n
<1> DEFINE R == OpToRel(<, Nat)
<1>1. IsWellFoundedOn(R, Nat)
  BY NatLessThanWellFounded
<1> HIDE DEF R
<1>2. PICK m \in D : \A n \in D : <<n, m>> \notin R
  BY <1>1, WFMin
<1>3. \A n \in D : <<n, m>> \in R <=> n < m
  BY DEF R, OpToRel
<1>4. ASSUME NEW n \in D PROVE m <= n
  <2>1. ~(n < m)
    BY <1>2, <1>3
  <2> QED
    BY <2>1
<1>5. \E x \in D : \A y \in D : x <= y
  BY <1>4
<1> QED
  BY <1>5 DEF O!Min

\* Without a queue behind it a listener leaves all tables at once.
LEMMA ListenerLeaves ==
  ASSUME LoopTables, NEW t, NEW f \in Fds, O!SetTables(O!Removed(O!Tables, t, f)),
         UNCHANGED loop_open
  PROVE  LoopTables'
<1> DEFINE T == O!Tables
<1>1. T = [first |-> loop_listeners, rest |-> loop_secondaries,
           reader |-> loop_readers, kernel |-> loop_watched]
  BY DEF O!Tables
<1>2. T.rest[f] = <<>> /\ ~O!Contains(T.rest[f], t)
  BY <1>1 DEF LoopTables, O!Contains
<1>3. CASE loop_listeners[f] = t
  <2>1. O!Removed(T, t, f) = O!ReaderRemoved([T EXCEPT !.first[f] = None], f)
    BY <1>1, <1>2, <1>3 DEF O!Removed
  <2>2. O!Removed(T, t, f) = [[T EXCEPT !.first[f] = None] EXCEPT !.reader[f] = None, !.kernel = @ \ {f}]
    BY <1>1, <2>1 DEF O!ReaderRemoved, LoopTables
  <2>3. /\ loop_listeners' = [loop_listeners EXCEPT ![f] = None]
        /\ loop_secondaries' = loop_secondaries
        /\ loop_readers' = [loop_readers EXCEPT ![f] = None]
        /\ loop_watched' = loop_watched \ {f}
    BY <1>1, <2>2 DEF O!SetTables
  <2> QED
    BY <2>3 DEF LoopTables, O!ReadersExact
<1>4. CASE loop_listeners[f] # t
  <2>1. O!Removed(T, t, f) = T
    BY <1>1, <1>2, <1>4 DEF O!Removed
  <2>2. UNCHANGED <<loop_listeners, loop_secondaries, loop_readers, loop_watched>>
    BY <1>1, <2>1 DEF O!SetTables
  <2> QED
    BY <2>2 DEF LoopTables, O!ReadersExact
<1> QED
  BY <1>3, <1>4

\* A switch to a thread, from the task of the hub or from the loop.
LEMMA LoopResumes ==
  ASSUME LoopInv, NEW t, O!Resume(t), UNCHANGED <<loop_phase, loop_now, loop_until, loop_open>>,
         loop_sleep_event' \in {loop_sleep_event, TRUE}
  PROVE  LoopInv'
<1>1. LoopTables'
  <2>1. CASE loop_at[t] \in Fds
    BY <2>1, ListenerLeaves DEF O!Resume, LoopInv
  <2>2. CASE loop_at[t] \notin Fds
    <3>1. UNCHANGED <<loop_listeners, loop_secondaries, loop_readers, loop_watched>>
      BY <2>2 DEF O!Resume, O!SetTables, O!Tables
    <3> QED
      BY <3>1 DEF LoopInv, LoopTables, O!ReadersExact
  <2> QED
    BY <2>1, <2>2
<1>2. LoopTimers'
  BY DEF LoopInv, LoopTimers, O!Resume, O!Scheduled
<1> QED
  BY <1>1, <1>2 DEF LoopInv

\* What is left of the tables by _obsolete().
LEMMA NumberForgotten ==
  ASSUME LoopTables, NEW f \in Fds
  PROVE  /\ O!Obsolete(O!Tables, f).first = [loop_listeners EXCEPT ![f] = None]
         /\ O!Obsolete(O!Tables, f).rest = loop_secondaries
         /\ O!Obsolete(O!Tables, f).reader = [loop_readers EXCEPT ![f] = None]
         /\ O!Obsolete(O!Tables, f).kernel = loop_watched \ {f}
         /\ DOMAIN O!Obsolete(O!Tables, f) = {"first", "rest", "reader", "kernel"}
<1>1. [loop_secondaries EXCEPT ![f] = <<>>] = loop_secondaries
  BY DEF LoopTables
<1>2. CASE loop_listeners[f] = None
  <2>1. O!Obsolete(O!Tables, f) = O!Tables
    BY <1>1, <1>2 DEF O!Obsolete, O!Tables
  <2>2. /\ loop_listeners = [loop_listeners EXCEPT ![f] = None]
        /\ loop_readers = [loop_readers EXCEPT ![f] = None]
        /\ loop_watched = loop_watched \ {f}
    BY <1>2 DEF LoopTables, O!ReadersExact
  <2> QED
    BY <2>1, <2>2 DEF O!Tables
<1>3. CASE loop_listeners[f] # None
  <2> DEFINE T == [O!Tables EXCEPT !.first[f] = None, !.rest[f] = <<>>]
  <2>1. /\ T.first = [loop_listeners EXCEPT ![f] = None]
        /\ T.rest = loop_secondaries
        /\ T.reader = loop_readers
        /\ T.kernel = loop_watched
        /\ DOMAIN T = {"first", "rest", "reader", "kernel"}
    BY <1>1 DEF O!Tables
  <2>2. O!Obsolete(O!Tables, f) = O!ReaderRemoved(T, f)
    BY <1>3 DEF O!Obsolete, O!Tables
  <2> HIDE DEF T
  <2>3. T.first[f] = None
    BY <2>1 DEF LoopTables
  <2> DEFINE U == O!Obsolete(O!Tables, f)
  <2>4. U = [T EXCEPT !.reader[f] = None, !.kernel = @ \ {f}]
    BY <2>2, <2>3 DEF O!ReaderRemoved
  <2> HIDE DEF U
  <2>5. U.first = T.first /\ U.rest = T.rest /\ DOMAIN U = DOMAIN T
    BY <2>1, <2>4
  <2>6. U.reader = [T.reader EXCEPT ![f] = None]
    BY <2>1, <2>4
  <2>7. U.kernel = T.kernel \ {f}
    BY <2>1, <2>4
  <2> QED
    BY <2>1, <2>5, <2>6, <2>7 DEF U
<1> QED
  BY <1>2, <1>3

\* What a thread does while it runs.
LEMMA LoopThreadStep ==
  ASSUME LoopInv, NEW t \in Threads,
         \/ O!Yields(t) \/ O!Spawn(t)
         \/ \E f \in Fds : O!Consume(t, f) \/ O!Close(t, f) \/ O!Open(t, f)
  PROVE  LoopInv'
<1> USE DEF LoopInv
<1>1. CASE O!Exit(t) \/ O!Spawn(t) \/ \E due \in loop_now..MaxTime : O!Sleep(t, due)
  <2>1. UNCHANGED <<loop_listeners, loop_secondaries, loop_readers, loop_watched, loop_open>>
    BY <1>1 DEF O!Exit, O!Spawn, O!Sleep
  <2>2. LoopTimers'
    BY <1>1, NetworkAssumption DEF LoopTimers, O!Exit, O!Spawn, O!Sleep, O!AddTimer, O!Scheduled
  <2> QED
    BY <2>1, <2>2 DEF LoopTables, O!ReadersExact
<1>2. ASSUME NEW f \in Fds, O!Trampoline(t, f) PROVE LoopInv'
  <2>1. LoopTimers'
    BY <1>2 DEF LoopTimers, O!Trampoline, O!AddTimer, O!Scheduled
  <2>2. loop_listeners[f] = None /\ f \in loop_open
    BY <1>2 DEF O!Trampoline
  <2>3. /\ loop_listeners' = [loop_listeners EXCEPT ![f] = t]
        /\ loop_secondaries' = loop_secondaries
        /\ loop_readers' = [loop_readers EXCEPT ![f] = t]
        /\ loop_watched' = loop_watched \cup {f} /\ loop_open' = loop_open
    BY <1>2, <2>2 DEF O!Trampoline, O!SetTables, O!Added, O!Tables
  <2>4. LoopTables'
    BY <2>2, <2>3, NetworkAssumption DEF LoopTables, O!ReadersExact
  <2> QED
    BY <2>1, <2>4
<1>3. ASSUME NEW f \in Fds, O!Consume(t, f) \/ O!Close(t, f) \/ O!Open(t, f) PROVE LoopInv'
  <2>1. LoopTimers'
    BY <1>3 DEF LoopTimers, O!Consume, O!Close, O!Open, O!Scheduled
  <2>2. CASE O!Consume(t, f)
    BY <2>1, <2>2 DEF O!Consume, LoopTables, O!ReadersExact
  <2>3. CASE O!Close(t, f)
    <3> DEFINE T == O!Obsolete(O!Tables, f)
    <3>1. CASE O!SetTables([T EXCEPT !.kernel = @ \ {f}])
      <4>1. /\ loop_listeners' = [loop_listeners EXCEPT ![f] = None]
            /\ loop_readers' = [loop_readers EXCEPT ![f] = None]
            /\ loop_secondaries' = loop_secondaries
            /\ loop_watched' = loop_watched \ {f} /\ loop_open' = loop_open \ {f}
        BY <2>3, <3>1, NumberForgotten DEF O!SetTables, O!Close
      <4>2. LoopTables'
        BY <4>1 DEF LoopTables, O!ReadersExact
      <4> QED
        BY <2>1, <4>2
    <3>2. CASE O!SetTables([O!Tables EXCEPT !.kernel = @ \ {f}])
      <4>1. /\ UNCHANGED <<loop_listeners, loop_readers, loop_secondaries>>
            /\ loop_watched' = loop_watched \ {f} /\ loop_open' = loop_open \ {f}
        BY <2>3, <3>2 DEF O!SetTables, O!Tables, O!Close
      <4>2. LoopTables'
        BY <4>1 DEF LoopTables, O!ReadersExact
      <4> QED
        BY <2>1, <4>2
    <3> QED
      BY <2>3, <3>1, <3>2 DEF O!Close
  <2>4. CASE O!Open(t, f)
    <3>1. /\ loop_listeners' = [loop_listeners EXCEPT ![f] = None]
          /\ loop_readers' = [loop_readers EXCEPT ![f] = None]
          /\ loop_secondaries' = loop_secondaries
          /\ loop_watched' = loop_watched \ {f} /\ loop_open' = loop_open \cup {f}
      BY <2>4, NumberForgotten DEF O!Open, O!SetTables
    <3>2. LoopTables'
      BY <3>1 DEF LoopTables, O!ReadersExact
    <3> QED
      BY <2>1, <3>2
  <2> QED
    BY <1>3, <2>2, <2>3, <2>4
<1> QED
  BY <1>1, <1>2, <1>3 DEF O!Yields

\* What the task of the hub does.
LEMMA LoopHubStep == LoopInv /\ O!HubStep => LoopInv'
<1> SUFFICES ASSUME LoopInv, O!HubStep PROVE LoopInv'
  OBVIOUS
<1>1. CASE O!Top \/ O!SleepOver \/ O!Yielded
  <2>1. UNCHANGED <<loop_listeners, loop_secondaries, loop_readers, loop_watched, loop_open>>
    BY <1>1 DEF O!Top, O!SleepOver, O!Yielded
  <2>2. LoopTimers'
    BY <1>1 DEF LoopInv, LoopTimers, O!Top, O!SleepOver, O!Yielded
  <2> QED
    BY <2>1, <2>2 DEF LoopInv, LoopTables, O!ReadersExact
<1>2. CASE O!CloseOne
  <2>1. CASE loop_at[O!Last(loop_closed)] = "dead"
    <3>1. UNCHANGED <<loop_listeners, loop_secondaries, loop_readers, loop_watched, loop_open,
                      loop_phase, loop_now, loop_until, loop_timers, loop_fresh,
                      loop_sleep_event>>
      BY <1>2, <2>1 DEF O!CloseOne
    <3> QED
      BY <3>1 DEF LoopInv, LoopTables, LoopTimers, O!ReadersExact, O!Scheduled
  <2>2. CASE loop_at[O!Last(loop_closed)] # "dead"
    BY <1>2, <2>2, LoopResumes DEF O!CloseOne
  <2> QED
    BY <2>1, <2>2
<1>3. ASSUME NEW t \in Threads, O!Fire(t) PROVE LoopInv'
  BY <1>3, LoopResumes DEF O!Fire
<1>4. CASE O!FireEnds
  <2> DEFINE D == {loop_timers[t] : t \in O!Scheduled} \cup {O!DefaultSleep}
  <2>1. D \subseteq Nat /\ D # {}
    BY NetworkAssumption DEF LoopInv, LoopTimers, O!Scheduled, O!DefaultSleep
  <2>2. \A n \in D : O!Min(D) <= n
    BY <2>1, EarliestTimer
  <2>3. O!Min(D) \in D
    BY <2>1, EarliestTimer
  <2>4. loop_until' = O!Min(D) /\ loop_fresh' = {} /\ loop_timers' = loop_timers
    BY <1>4 DEF O!FireEnds
  <2>5. ASSUME NEW t \in O!Scheduled PROVE loop_timers[t] >= loop_until'
    <3>1. loop_timers[t] \in D
      OBVIOUS
    <3> QED
      BY <2>1, <2>2, <2>3, <2>4, <3>1
  <2>6. LoopTimers'
    BY <1>4, <2>4, <2>5 DEF LoopInv, LoopTimers, O!FireEnds, O!Scheduled
  <2>7. UNCHANGED <<loop_listeners, loop_secondaries, loop_readers, loop_watched, loop_open>>
    BY <1>4 DEF O!FireEnds
  <2> QED
    BY <2>6, <2>7 DEF LoopInv, LoopTables, O!ReadersExact
<1> QED
  BY <1>1, <1>2, <1>3, <1>4 DEF O!HubStep

LEMMA LoopInvStep == LoopInv /\ (O!LoopNext \/ UNCHANGED loopVars) => LoopInv'
<1> SUFFICES ASSUME LoopInv, O!LoopNext \/ UNCHANGED loopVars PROVE LoopInv'
  OBVIOUS
<1>1. CASE O!Tick \/ (\E f \in Fds : O!Arrive(f)) \/ UNCHANGED loopVars
  <2>1. /\ UNCHANGED <<loop_listeners, loop_secondaries, loop_readers, loop_watched, loop_open,
                       loop_phase, loop_until, loop_timers, loop_fresh, loop_sleep_event>>
        /\ loop_now' \in {loop_now, loop_now + 1}
    BY <1>1 DEF O!Tick, O!Arrive, loopVars
  <2> QED
    BY <2>1 DEF LoopInv, LoopTables, LoopTimers, O!ReadersExact, O!Scheduled
<1>2. ASSUME NEW f \in Fds, O!FileCallback(f) PROVE LoopInv'
  <2>1. CASE loop_at[loop_readers[f]] = "dead"
    <3>1. /\ UNCHANGED <<loop_listeners, loop_secondaries, loop_readers, loop_watched, loop_open,
                         loop_phase, loop_now, loop_until, loop_timers, loop_fresh>>
          /\ loop_sleep_event'
      BY <1>2, <2>1 DEF O!FileCallback
    <3> QED
      BY <3>1 DEF LoopInv, LoopTables, LoopTimers, O!ReadersExact
  <2>2. CASE loop_at[loop_readers[f]] # "dead"
    BY <1>2, <2>2, LoopResumes DEF O!FileCallback
  <2> QED
    BY <2>1, <2>2
<1> QED
  BY <1>1, <1>2, LoopHubStep, LoopThreadStep DEF O!LoopNext

-----------------------------------------------------------------------------
(* The components together: a behaviour is one of its subject. *)

NetworkInv ==
  /\ subject = "hub" => L!ListenersInv
  /\ subject = "crowd" => M!ListenersInv
  /\ subject = "loop" => LoopInv
  /\ subject = "await" => AwaitInv
  /\ subject = "query" => QueryInv
  /\ subject = "lookup" => LookupInv
  /\ subject = "zmq" => ZmqInv
  /\ subject = "green" => L!GreenInv

LEMMA NetworkInvInit == Init => NetworkInv
  BY HubInvInit, CrowdInvInit, LoopInvInit, AwaitInvInit, QueryInvInit, LookupInvInit, ZmqInvInit,
     L!GreenInvInit
     DEF Init, NetworkInv

LEMMA NetworkInvStep == NetworkInv /\ [Next]_vars => NetworkInv'
<1> SUFFICES ASSUME NetworkInv, [Next]_vars PROVE NetworkInv'
  OBVIOUS
<1>1. CASE InAwait(W!AwaitNext)
  <2>1. subject = "await" /\ subject' = "await" /\ W!AwaitNext
    BY <1>1 DEF InAwait
  <2> QED
    BY <2>1, AwaitInvStep DEF NetworkInv
<1>2. CASE InQuery(Q!QueryNext)
  <2>1. subject = "query" /\ subject' = "query" /\ Q!QueryNext
    BY <1>2 DEF InQuery
  <2> QED
    BY <2>1, QueryInvStep DEF NetworkInv
<1>3. CASE InLookup(H!LookupNext)
  <2>1. subject = "lookup" /\ subject' = "lookup" /\ H!LookupNext
    BY <1>3 DEF InLookup
  <2> QED
    BY <2>1, LookupInvStep DEF NetworkInv
<1>4. CASE InZmq(Z!ZmqNext)
  <2>1. subject = "zmq" /\ subject' = "zmq" /\ Z!ZmqNext
    BY <1>4 DEF InZmq
  <2> QED
    BY <2>1, ZmqInvStep DEF NetworkInv
<1>5. CASE InHub(L!Next)
  <2>1. subject = "hub" /\ subject' = "hub" /\ L!Next
    BY <1>5 DEF InHub
  <2> QED
    BY <2>1, HubInvStep DEF NetworkInv
<1>6. CASE InCrowd(M!Next)
  <2>1. subject = "crowd" /\ subject' = "crowd" /\ M!Next
    BY <1>6 DEF InCrowd
  <2> QED
    BY <2>1, CrowdInvStep DEF NetworkInv
<1>7. CASE InLoop(O!LoopNext)
  <2>1. subject = "loop" /\ subject' = "loop" /\ O!LoopNext
    BY <1>7 DEF InLoop
  <2> QED
    BY <2>1, LoopInvStep DEF NetworkInv
<1>8. CASE InGreen(L!GreenNext)
  <2>1. subject = "green" /\ subject' = "green" /\ L!GreenNext
    BY <1>8 DEF InGreen
  <2>2. L!GreenInv'
    BY <2>1, StreamInvStep DEF NetworkInv
  <2> QED
    BY <2>1, <2>2 DEF NetworkInv
<1>9. CASE UNCHANGED vars
  <2>1. /\ subject' = subject /\ UNCHANGED awaitVars /\ UNCHANGED queryVars
        /\ UNCHANGED lookupVars /\ UNCHANGED zmqVars /\ UNCHANGED hubVars
        /\ UNCHANGED loopVars /\ UNCHANGED greenVars
    BY <1>9 DEF vars
  <2>2. /\ L!ListenersInv => L!ListenersInv'
        /\ M!ListenersInv => M!ListenersInv'
        /\ LoopInv => LoopInv'
        /\ AwaitInv => AwaitInv'
        /\ QueryInv => QueryInv'
        /\ LookupInv => LookupInv'
        /\ ZmqInv => ZmqInv'
        /\ L!GreenInv => L!GreenInv'
    BY <2>1, HubInvStep, CrowdInvStep, LoopInvStep, AwaitInvStep, QueryInvStep, LookupInvStep,
       ZmqInvStep, StreamInvStep
  <2> QED
    BY <2>1, <2>2 DEF NetworkInv
<1> QED
  BY <1>1, <1>2, <1>3, <1>4, <1>5, <1>6, <1>7, <1>8, <1>9 DEF Next

\* What the proofs of this module rest on holds in every reachable state.
THEOREM NetworkInvariant == Spec => []NetworkInv
<1>1. Init => NetworkInv
  BY NetworkInvInit
<1>2. NetworkInv /\ [Next]_vars => NetworkInv'
  BY NetworkInvStep
<1> QED
  BY <1>1, <1>2, PTL DEF Spec

\* hubs/hub.py:153-274, poll.py:26-118, for any threads, descriptors and kind of hub:
\* a thread in trampoline() is in the tables, alone with its listener, or among those
\* that will be told that their number was recycled; the kernel polls an open file for
\* what they wait for, and nobody is left to a file not its own.  hubs/asyncio.py:73-178:
\* the loop calls the listeners of the hub, and the hub never sleeps over a timer.
THEOREM ListenersStayExact == Spec => []ListenersExact
<1>1. NetworkInv => ListenersExact
  BY HubInvExact, LoopInvExact DEF NetworkInv, ListenersExact
<1> QED
  BY <1>1, NetworkInvariant, PTL

\* asyncio.py:16-57, greenthread.py:191-232, for any tasks that await one greenthread:
\* the end of a future wakes its greenthread and a kill cancels it; the end of the
\* greenthread, unless it is an exception, reaches who awaits it, and the end of a
\* task that awaits kills it.
THEOREM AwaitLosesNothing == Spec => []AwaitExact
<1>1. NetworkInv => AwaitExact
  BY DEF NetworkInv, AwaitInv, AwaitExact
<1> QED
  BY <1>1, NetworkInvariant, PTL

\* greendns.py:358-574, 690-860, for any timeout, any responses and any change of the
\* hosts file: a response that is taken is to the query and in time; who is in the
\* hosts file is not asked of a nameserver, and what the sources answer, an address
\* or no answer, is what the lookup gives.
THEOREM DnsAnswersSound == Spec => []DnsSound
<1>1. NetworkInv => DnsSound
  BY QueryInvSound, LookupInvSound DEF NetworkInv, DnsSound
<1> QED
  BY <1>1, NetworkInvariant, PTL

\* green/zmq.py:48-185, for any senders and receivers, parts of a message and high-water
\* mark: the thread that is in the calls of a side holds its lock, while threads wait
\* the lock is held or on its way to the first of them, and nobody blocks for what is
\* there who is not going to be woken.
THEOREM ZmqKeepsOrder == Spec => []ZmqExact
<1>1. NetworkInv => ZmqExact
  BY ZmqInvExact DEF NetworkInv, ZmqExact
<1> QED
  BY <1>1, NetworkInvariant, PTL

\* greenio/base.py:318-419, green/ssl.py:168-300, for any capacity of the kernel, size
\* of a message and size of a record, over a socket, a pipe or TLS: what was sent is
\* what was received, what the TLS engine keeps and what is on its way, in order and
\* each byte once.
THEOREM StreamsStayIntact == Spec => []StreamIntact
<1>1. NetworkInv => StreamIntact
  BY L!GreenInvExact DEF NetworkInv, StreamIntact
<1> QED
  BY <1>1, NetworkInvariant, PTL

=============================================================================
