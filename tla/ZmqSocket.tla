------------------------------ MODULE ZmqSocket ------------------------------
(***************************************************************************)
(* eventlet/green/zmq.py: greenthreads that send and receive on one zmq    *)
(* socket.                                                                 *)
(*                                                                         *)
(* The descriptor of a zmq socket becomes readable when something happens, *)
(* and any call that processes the socket's events makes it unreadable     *)
(* again, whatever they were: a thread that calls send() takes the news    *)
(* from the one that waits for a message.  Each side has a _QueueLock and  *)
(* a _BlockedThread for the thread that holds the lock and found the       *)
(* socket not ready.  The zmq library and the peer are modelled as the     *)
(* code uses them.                                                         *)
(***************************************************************************)
EXTENDS Integers, Sequences, SequencesExt, FiniteSets

CONSTANTS
  Senders, Receivers,
  None,
  Parts,       \* parts of a message: more than one for send_multipart and such
  Capacity,    \* the high-water marks
  MaxSent      \* bound of the model: messages that arrive, room that is made

VARIABLES
  trouble,     \* what may happen: "steal", "kill"
  fd,          \* the descriptor is readable
  news,        \* per side: events that are not processed
  avail,       \* per side: messages to receive, room to send
  supply,      \* per side: how many events there were
  isClosed,    \* the socket is closed
  lockCount,   \* per side: _count
  holder,      \* per side: _holder
  lockQueue,   \* per side: _waiters of the lock
  waking,      \* per side: the thread that release() is going to switch to
  blocked,     \* per side: _blocked_thread
  wakeupper,   \* per side: a wake-up is scheduled for it
  thread,      \* per thread: "out", "queued", "tries", "blocks", "dead"
  left,        \* per thread: parts to go
  late         \* per receiver: its RCVTIMEO has passed

zlibVars == <<fd, news, avail, supply, isClosed>>
lockVars == <<lockCount, holder, lockQueue, waking>>
zmqVars == <<trouble, zlibVars, lockVars, blocked, wakeupper, thread, left, late>>

Sides == {"send", "recv"}
Opposite(s) == IF s = "send" THEN "recv" ELSE "send"
Side(t) == IF t \in Senders THEN "send" ELSE "recv"
ZThreads == Senders \cup Receivers

ZmqInit ==
  /\ trouble \in {{}, {"steal", "kill"}}
  /\ fd = FALSE /\ isClosed = FALSE
  /\ news = [s \in Sides |-> 0]
  /\ avail = [s \in Sides |-> IF s = "send" THEN Capacity ELSE 0]
  /\ supply = [s \in Sides |-> 0]
  /\ lockCount = [s \in Sides |-> 0]
  /\ holder = [s \in Sides |-> None]
  /\ lockQueue = [s \in Sides |-> <<>>]
  /\ waking = [s \in Sides |-> None]
  /\ blocked = [s \in Sides |-> None]
  /\ wakeupper = [s \in Sides |-> FALSE]
  /\ thread = [t \in ZThreads |-> "out"]
  /\ left = [t \in ZThreads |-> 0]
  /\ late = [t \in ZThreads |-> FALSE]

\* wake() of the given sides: nothing for a side where nobody blocks.
Woken(sides) == [s \in Sides |-> wakeupper[s] \/ (s \in sides /\ blocked[s] # None)]

\* What is there after the events are processed.
Processed == [s \in Sides |-> avail[s] + news[s]]

-----------------------------------------------------------------------------
(* The locks *)

LockFree(s) == lockQueue[s] = <<>> /\ lockCount[s] = 0

\* A call of n parts: the lock is taken, or waited for.
Call(t, n) ==
  /\ thread[t] = "out"
  /\ left' = [left EXCEPT ![t] = n]
  /\ late' = [late EXCEPT ![t] = FALSE]
  /\ LET s == Side(t)
     IN IF LockFree(s)
          THEN /\ lockCount' = [lockCount EXCEPT ![s] = @ + 1]
               /\ holder' = [holder EXCEPT ![s] = t]
               /\ thread' = [thread EXCEPT ![t] = "tries"]
               /\ UNCHANGED lockQueue
          ELSE /\ lockQueue' = [lockQueue EXCEPT ![s] = Append(@, t)]
               /\ thread' = [thread EXCEPT ![t] = "queued"]
               /\ UNCHANGED <<lockCount, holder>>
  /\ UNCHANGED <<trouble, zlibVars, waking, blocked, wakeupper>>

\* The first of the queue is switched to; the lock must be free, and a thread
\* that is dead does nothing.
LockWakes(s) ==
  /\ waking[s] # None
  /\ waking' = [waking EXCEPT ![s] = None]
  /\ IF thread[waking[s]] = "dead"
       THEN UNCHANGED <<lockCount, holder, lockQueue, thread>>
       ELSE /\ lockQueue' = [lockQueue EXCEPT ![s] = Tail(@)]
            /\ lockCount' = [lockCount EXCEPT ![s] = @ + 1]
            /\ holder' = [holder EXCEPT ![s] = waking[s]]
            /\ thread' = [thread EXCEPT ![waking[s]] = "tries"]
  /\ UNCHANGED <<trouble, zlibVars, blocked, wakeupper, left, late>>

\* Faulty: the next one is told only if the queue is longer.
TellsNextLate(s) == IF Len(lockQueue[s]) > 1 THEN Head(lockQueue[s]) ELSE waking[s]

TellsNext(s) == IF lockQueue[s] # <<>> THEN Head(lockQueue[s]) ELSE waking[s]

\* release(), as the call of t ends
ReleaseLock(t, how) ==
  LET s == Side(t)
  IN /\ lockCount' = [lockCount EXCEPT ![s] = @ - 1]
     /\ holder' = [holder EXCEPT ![s] = None]
     /\ waking' = [waking EXCEPT ![s] = TellsNext(s)]
     /\ thread' = [thread EXCEPT ![t] = how]
     /\ UNCHANGED lockQueue

-----------------------------------------------------------------------------
(* The calls of the library *)

TellOther(t) == {Opposite(Side(t))}

\* It succeeds, with or without a look at the events, and the other side is told
\* that there may have been some for it.
Success(t) ==
  /\ thread[t] = "tries" /\ ~isClosed
  /\ \E look \in BOOLEAN :
       LET now == IF look THEN Processed ELSE avail
       IN /\ now[Side(t)] > 0
          /\ avail' = [now EXCEPT ![Side(t)] = @ - 1]
          /\ news' = IF look THEN [s \in Sides |-> 0] ELSE news
          /\ fd' = (fd /\ ~look)
  /\ wakeupper' = Woken(TellOther(t))
  /\ left' = [left EXCEPT ![t] = @ - 1]
  /\ IF left[t] = 1 THEN ReleaseLock(t, "out") ELSE UNCHANGED <<lockVars, thread>>
  /\ UNCHANGED <<trouble, supply, isClosed, blocked, late>>

\* EAGAIN: it has looked at the events and found none for itself.  It blocks,
\* and the finally clause tells the other side only when that is over: it may
\* have taken the other's news ("steal").
Eagain(t) ==
  /\ thread[t] = "tries" /\ ~isClosed
  /\ Processed[Side(t)] = 0 /\ ~late[t]
  /\ "steal" \in trouble \/ news[Opposite(Side(t))] = 0 \/ blocked[Opposite(Side(t))] = None
  /\ avail' = Processed
  /\ news' = [s \in Sides |-> 0]
  /\ fd' = FALSE
  /\ blocked' = [blocked EXCEPT ![Side(t)] = t]
  /\ thread' = [thread EXCEPT ![t] = "blocks"]
  /\ UNCHANGED <<trouble, supply, isClosed, lockVars, wakeupper, left, late>>

\* The socket is closed, or the deadline has passed: an exception.
Fails(t) ==
  /\ thread[t] = "tries"
  /\ isClosed \/ (late[t] /\ Processed[Side(t)] = 0)
  /\ avail' = Processed
  /\ news' = [s \in Sides |-> 0]
  /\ fd' = FALSE
  /\ wakeupper' = Woken(TellOther(t))
  /\ left' = [left EXCEPT ![t] = 0]
  /\ ReleaseLock(t, "out")
  /\ UNCHANGED <<trouble, supply, isClosed, blocked, late>>

\* The blocked thread of a side goes on; the finally clause tells the other.
Unblock(s) ==
  /\ wakeupper[s]
  /\ blocked' = [blocked EXCEPT ![s] = None]
  /\ wakeupper' = [Woken({Opposite(s)}) EXCEPT ![s] = FALSE]
  /\ thread' = [thread EXCEPT ![blocked[s]] = "tries"]
  /\ UNCHANGED <<trouble, zlibVars, lockVars, left, late>>

\* The timer of block(deadline)
Deadline(t) ==
  /\ t \in Receivers /\ thread[t] = "blocks" /\ ~late[t]
  /\ late' = [late EXCEPT ![t] = TRUE]
  /\ wakeupper' = Woken({"recv"})
  /\ UNCHANGED <<trouble, zlibVars, lockVars, blocked, thread, left>>

\* send or recv with NOBLOCK by any other thread: both sides are told.
Nowait(s) ==
  /\ ~isClosed
  /\ Processed[s] > 0
  /\ avail' = [Processed EXCEPT ![s] = @ - 1]
  /\ news' = [x \in Sides |-> 0]
  /\ fd' = FALSE
  /\ wakeupper' = Woken(Sides)
  /\ UNCHANGED <<trouble, supply, isClosed, lockVars, blocked, thread, left, late>>

\* getsockopt(EVENTS) tells the sides that are ready.
GetEvents ==
  /\ ~isClosed
  /\ avail' = Processed
  /\ news' = [s \in Sides |-> 0]
  /\ fd' = FALSE
  /\ wakeupper' = Woken({s \in Sides : Processed[s] > 0})
  /\ UNCHANGED <<trouble, supply, isClosed, lockVars, blocked, thread, left, late>>

\* The hub finds the descriptor readable: event().  If there was nobody to wake
\* the events are processed, so that it does not come back at once.
FdEvent ==
  /\ fd /\ ~isClosed
  /\ wakeupper' = Woken(Sides)
  /\ IF wakeupper' = wakeupper
       THEN /\ avail' = Processed
            /\ news' = [s \in Sides |-> 0]
            /\ fd' = FALSE
       ELSE UNCHANGED <<avail, news, fd>>
  /\ UNCHANGED <<trouble, supply, isClosed, lockVars, blocked, thread, left, late>>

CloseSocket ==
  /\ ~isClosed
  /\ isClosed' = TRUE
  /\ wakeupper' = Woken(Sides)
  /\ UNCHANGED <<trouble, fd, news, avail, supply, lockVars, blocked, thread, left, late>>

\* A message arrives, or the peer makes room.
Arrives(s) ==
  /\ ~isClosed /\ supply[s] < MaxSent
  /\ Processed[s] < Capacity
  /\ supply' = [supply EXCEPT ![s] = @ + 1]
  /\ news' = [news EXCEPT ![s] = @ + 1]
  /\ fd' = TRUE
  /\ UNCHANGED <<trouble, avail, isClosed, lockVars, blocked, wakeupper, thread, left, late>>

\* A kill ends block(), and the lock is released; in the queue of the lock the
\* thread stays where it is.
KillThread(t) ==
  /\ "kill" \in trouble
  /\ \/ /\ thread[t] = "blocks"
        /\ blocked' = [blocked EXCEPT ![Side(t)] = None]
        /\ wakeupper' = [Woken({Opposite(Side(t))}) EXCEPT ![Side(t)] = FALSE]
        /\ ReleaseLock(t, "dead")
     \/ /\ thread[t] = "queued"
        /\ thread' = [thread EXCEPT ![t] = "dead"]
        /\ UNCHANGED <<lockVars, blocked, wakeupper>>
  /\ left' = [left EXCEPT ![t] = 0]
  /\ UNCHANGED <<trouble, zlibVars, late>>

Runs(t) == Success(t) \/ Eagain(t) \/ Fails(t)

ZmqNext ==
  \/ \E t \in ZThreads, n \in Parts : Call(t, n)
  \/ \E t \in ZThreads : Runs(t) \/ Deadline(t) \/ KillThread(t)
  \/ \E s \in Sides : LockWakes(s) \/ Unblock(s) \/ Nowait(s) \/ Arrives(s)
  \/ GetEvents \/ FdEvent \/ CloseSocket

ZmqSpec == ZmqInit /\ [][ZmqNext]_zmqVars

-----------------------------------------------------------------------------
\* zmq.py:48-75.  One thread at a time is in the calls of a side, the assertions
\* of acquire() hold when the next one is woken, and while threads wait the lock
\* is held or on its way to the first of them (unless that one was killed).
LocksFair ==
  \A s \in Sides :
    /\ {t \in ZThreads : Side(t) = s /\ thread[t] \in {"tries", "blocks"}}
         = (IF lockCount[s] = 0 THEN {} ELSE {holder[s]})
    /\ waking[s] # None => lockCount[s] = 0 /\ Head(lockQueue[s]) = waking[s]
    /\ lockQueue[s] # <<>> /\ thread[Head(lockQueue[s])] # "dead" /\ lockCount[s] = 0
         => waking[s] # None

\* zmq.py:150-185.  The hub is going to be told of events that are not processed,
\* and nobody blocks on a closed socket without being woken.  Nor does anyone
\* block for what the events have shown; this is said where trouble = {} only,
\* that is, without the steal: a call that processes the events, gets EAGAIN and
\* blocks runs its finally clause, which wakes the other side, only when it is
\* unblocked (299-307), and who blocks there meanwhile may sleep on.
NoNewsLost ==
  \A s \in Sides :
    /\ news[s] > 0 /\ ~isClosed => fd
    /\ blocked[s] # None /\ isClosed => wakeupper[s]
    /\ trouble = {} /\ blocked[s] # None /\ avail[s] > 0 => wakeupper[s]
=============================================================================
