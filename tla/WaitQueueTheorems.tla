--------------------------- MODULE WaitQueueTheorems ---------------------------
(***************************************************************************)
(* Facts about the deques in which eventlet keeps suspended greenthreads   *)
(* (self._waiters of Semaphore and of Channel): how append, popleft and    *)
(* remove change who is in the deque.  A deque is injective: a thread is   *)
(* in it at most once.                                                     *)
(***************************************************************************)
EXTENDS Integers, Sequences, SequencesExt, SequenceTheorems, TLAPS

\* What is left of a sequence when its k-th element is taken out.
LEMMA RemoveAtProperties ==
  ASSUME NEW S, NEW q \in Seq(S), NEW k \in 1..Len(q)
  PROVE  /\ RemoveAt(q, k) \in Seq(S)
         /\ Len(RemoveAt(q, k)) = Len(q) - 1
         /\ \A i \in 1..Len(q) - 1 :
               RemoveAt(q, k)[i] = IF i < k THEN q[i] ELSE q[i + 1]
<1> DEFINE a == SubSeq(q, 1, k - 1)
           b == SubSeq(q, k + 1, Len(q))
<1>1. \A i \in 1..Len(q) : q[i] \in S
  BY ElementOfSeq
<1>2. /\ a \in Seq(S) /\ Len(a) = k - 1
      /\ \A i \in 1..k - 1 : a[i] = q[i]
  <2>1. /\ SubSeq(q, 1, k - 1) \in Seq(S)
        /\ Len(SubSeq(q, 1, k - 1)) = IF 1 <= k - 1 THEN (k - 1) - 1 + 1 ELSE 0
        /\ \A i \in 1..(k - 1) - 1 + 1 : SubSeq(q, 1, k - 1)[i] = q[1 + i - 1]
    <3>1. \A i \in 1..k - 1 : q[i] \in S
      BY <1>1
    <3> QED
      BY <3>1, SubSeqProperties
  <2> QED
    BY <2>1
<1>3. /\ b \in Seq(S) /\ Len(b) = Len(q) - k
      /\ \A i \in 1..Len(q) - k : b[i] = q[k + i]
  <2>1. /\ SubSeq(q, k + 1, Len(q)) \in Seq(S)
        /\ Len(SubSeq(q, k + 1, Len(q)))
             = IF k + 1 <= Len(q) THEN Len(q) - (k + 1) + 1 ELSE 0
        /\ \A i \in 1..Len(q) - (k + 1) + 1 :
              SubSeq(q, k + 1, Len(q))[i] = q[(k + 1) + i - 1]
    <3>1. \A i \in k + 1..Len(q) : q[i] \in S
      BY <1>1
    <3> QED
      BY <3>1, SubSeqProperties
  <2> QED
    BY <2>1
<1> HIDE DEF a, b
<1>4. RemoveAt(q, k) = a \o b
  BY DEF RemoveAt, a, b
<1>5. /\ a \o b \in Seq(S) /\ Len(a \o b) = Len(a) + Len(b)
      /\ \A i \in 1..Len(a) + Len(b) :
            (a \o b)[i] = IF i <= Len(a) THEN a[i] ELSE b[i - Len(a)]
  BY <1>2, <1>3, ConcatProperties
<1> QED
  BY <1>2, <1>3, <1>4, <1>5

\* Taking a thread out of a queue that holds it at most once, as the finally
\* clause of acquire does: the result is a queue without that thread, with
\* all the others, still each at most once.
LEMMA RemoveFirstOnce ==
  ASSUME NEW S, NEW q \in Seq(S), NEW t, IsInjective(q)
  PROVE  /\ RemoveFirst(q, t) \in Seq(S)
         /\ Len(RemoveFirst(q, t)) = IF Contains(q, t) THEN Len(q) - 1 ELSE Len(q)
         /\ IsInjective(RemoveFirst(q, t))
         /\ \A u : Contains(RemoveFirst(q, t), u) <=> Contains(q, u) /\ u # t
<1>1. CASE \A i \in 1..Len(q) : q[i] # t
  <2>1. RemoveFirst(q, t) = q
    BY <1>1, Zenon DEF RemoveFirst
  <2> QED
    BY <2>1, <1>1 DEF Contains
<1>2. CASE \E i \in 1..Len(q) : q[i] = t
  <2>1. PICK k \in 1..Len(q) : q[k] = t
    BY <1>2
  <2>2. {i \in 1..Len(q) : q[i] = t} = {k}
    BY <2>1 DEF IsInjective
  <2>3. Min({k}) = k
    BY DEF Min
  <2> DEFINE r == RemoveAt(q, k)
  <2>4. RemoveFirst(q, t) = r
    <3>1. SelectInSeq(q, LAMBDA v : v = t) = k
      BY <2>2, <2>3, Zenon DEF SelectInSeq
    <3> QED
      BY <3>1, <1>2, Zenon DEF RemoveFirst
  <2>5. /\ r \in Seq(S)
        /\ Len(r) = Len(q) - 1
        /\ \A i \in 1..Len(r) : r[i] = IF i < k THEN q[i] ELSE q[i + 1]
    BY RemoveAtProperties
  <2> HIDE DEF r
  <2>6. IsInjective(r)
    <3>1. ASSUME NEW i \in 1..Len(r), NEW j \in 1..Len(r), r[i] = r[j]
          PROVE  i = j
      <4> DEFINE a == IF i < k THEN i ELSE i + 1
                 b == IF j < k THEN j ELSE j + 1
      <4>1. a \in 1..Len(q) /\ b \in 1..Len(q)
        BY <2>5
      <4>2. q[a] = r[i] /\ q[b] = r[j]
        BY <2>5
      <4>3. a = b
        BY <3>1, <4>1, <4>2 DEF IsInjective
      <4> QED
        BY <4>3
    <3> QED
      BY <2>5, <3>1 DEF IsInjective
  <2>7. \A u : Contains(r, u) <=> Contains(q, u) /\ u # t
    <3> TAKE u
    <3>1. ASSUME Contains(r, u) PROVE Contains(q, u) /\ u # t
      <4>1. PICK i \in 1..Len(r) : r[i] = u
        BY <3>1 DEF Contains
      <4>2. PICK j \in 1..Len(q) : q[j] = u /\ j # k
        BY <4>1, <2>5
      <4> QED
        BY <4>2, <2>1 DEF Contains, IsInjective
    <3>2. ASSUME Contains(q, u), u # t PROVE Contains(r, u)
      <4>1. PICK j \in 1..Len(q) : q[j] = u
        BY <3>2 DEF Contains
      <4>2. j # k
        BY <4>1, <3>2, <2>1
      <4>3. PICK i \in 1..Len(r) : r[i] = u
        <5>1. CASE j < k
          BY <5>1, <4>1, <2>5
        <5>2. CASE j > k
          <6>1. j - 1 \in 1..Len(r) /\ ~(j - 1 < k)
            BY <5>2, <2>5
          <6> QED
            BY <6>1, <4>1, <2>5
        <5> QED
          BY <5>1, <5>2, <4>2
      <4> QED
        BY <4>3 DEF Contains
    <3> QED
      BY <3>1, <3>2
  <2>8. Contains(q, t)
    BY <2>1 DEF Contains
  <2> QED
    BY <2>4, <2>5, <2>6, <2>7, <2>8
<1> QED
  BY <1>1, <1>2

\* A thread that is not in the queue joins it at the end.
LEMMA AppendNew ==
  ASSUME NEW S, NEW q \in Seq(S), NEW t \in S, IsInjective(q), ~Contains(q, t)
  PROVE  /\ Append(q, t) \in Seq(S)
         /\ Append(q, t) # <<>>
         /\ IsInjective(Append(q, t))
         /\ \A u : Contains(Append(q, t), u) <=> Contains(q, u) \/ u = t
<1> DEFINE r == Append(q, t)
<1>1. /\ r \in Seq(S) /\ r # <<>> /\ Len(r) = Len(q) + 1
      /\ \A i \in 1..Len(q) : r[i] = q[i]
      /\ r[Len(q) + 1] = t
  BY AppendProperties
<1> HIDE DEF r
<1>2. \A i \in 1..Len(q) : q[i] # t
  BY DEF Contains
<1>3. \A i \in 1..Len(r) : i \in 1..Len(q) \/ i = Len(q) + 1
  BY <1>1
<1>4. IsInjective(r)
  BY <1>1, <1>2, <1>3 DEF IsInjective
<1>5. \A u : Contains(r, u) <=> Contains(q, u) \/ u = t
  BY <1>1, <1>3 DEF Contains
<1> QED
  BY <1>1, <1>4, <1>5 DEF r

\* The oldest thread leaves the queue, as popleft does.
LEMMA TailOnce ==
  ASSUME NEW S, NEW q \in Seq(S), IsInjective(q), q # <<>>
  PROVE  /\ Head(q) \in S
         /\ Contains(q, Head(q))
         /\ Tail(q) \in Seq(S)
         /\ IsInjective(Tail(q))
         /\ \A u : Contains(Tail(q), u) <=> Contains(q, u) /\ u # Head(q)
<1> DEFINE r == Tail(q)
<1>1. /\ Head(q) \in S /\ r \in Seq(S) /\ Len(r) = Len(q) - 1
      /\ \A i \in 1..Len(r) : r[i] = q[i + 1]
  BY HeadTailProperties
<1>2. 1 \in 1..Len(q) /\ Head(q) = q[1]
  OBVIOUS
<1> HIDE DEF r
<1>3. IsInjective(r)
  <2>1. ASSUME NEW i \in 1..Len(r), NEW j \in 1..Len(r), r[i] = r[j]
        PROVE  i = j
    <3>1. /\ i + 1 \in 1..Len(q) /\ j + 1 \in 1..Len(q)
          /\ q[i + 1] = q[j + 1]
      BY <2>1, <1>1
    <3> QED
      BY <3>1 DEF IsInjective
  <2> QED
    BY <2>1, <1>1 DEF IsInjective
<1>4. ASSUME NEW u PROVE Contains(r, u) <=> Contains(q, u) /\ u # Head(q)
  <2>1. ASSUME Contains(r, u) PROVE Contains(q, u) /\ u # Head(q)
    <3>1. PICK i \in 1..Len(r) : r[i] = u
      BY <2>1 DEF Contains
    <3>2. i + 1 \in 1..Len(q) /\ i + 1 # 1 /\ q[i + 1] = u
      BY <1>1, <3>1
    <3>3. u # q[1]
      BY <1>2, <3>2 DEF IsInjective
    <3> QED
      BY <1>2, <3>2, <3>3 DEF Contains
  <2>2. ASSUME Contains(q, u), u # Head(q) PROVE Contains(r, u)
    <3>1. PICK j \in 1..Len(q) : q[j] = u
      BY <2>2 DEF Contains
    <3>2. j - 1 \in 1..Len(r) /\ (j - 1) + 1 = j
      BY <3>1, <2>2, <1>1, <1>2
    <3> QED
      BY <3>1, <3>2, <1>1 DEF Contains
  <2> QED
    BY <2>1, <2>2
<1> QED
  BY <1>1, <1>2, <1>3, <1>4 DEF r, Contains

\* The set of the threads in a queue.
LEMMA ElementsOfQueue ==
  ASSUME NEW S, NEW q \in Seq(S)
  PROVE  /\ ToSet(q) = {t \in S : Contains(q, t)}
         /\ ToSet(q) = {} <=> q = <<>>
<1>1. DOMAIN q = 1..Len(q) /\ \A i \in 1..Len(q) : q[i] \in S
  BY ElementOfSeq
<1>2. ToSet(q) = {t \in S : Contains(q, t)}
  BY <1>1 DEF ToSet, Contains
<1>3. CASE q = <<>>
  BY <1>1, <1>2, <1>3 DEF Contains
<1>4. CASE q # <<>>
  <2>1. 1 \in 1..Len(q)
    BY <1>4
  <2> QED
    BY <2>1, <1>1, <1>2, <1>4 DEF ToSet
<1> QED
  BY <1>2, <1>3, <1>4

================================================================================
