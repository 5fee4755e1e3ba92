-------------------------------- MODULE Tpool --------------------------------
(***************************************************************************)
(* eventlet/tpool.py: calls that native threads make for greenthreads.     *)
(*                                                                         *)
(* execute() puts a request on a queue and waits for an event.  A native   *)
(* worker makes the call, puts the reply on a second queue and writes a    *)
(* byte to a socket; the greenthread tpool_trampoline() reads bytes one by *)
(* one and each time sends the events of all replies there are.  Workers   *)
(* run at any time; greenthreads one at a time, `main' says whether one of *)
(* them is in the middle of something.                                     *)
(***************************************************************************)
EXTENDS Integers, Sequences, SequencesExt, FiniteSets

CONSTANTS
  Calls,      \* calls of execute(), each made once at most
  Workers,    \* native threads
  None,
  MaxSetups   \* bound of the model: how often the pool is set up

VARIABLES
  accidents,  \* what may happen: "die" in a worker, "late" calls in killall()
  setups,     \* how often setup() ran
  up,         \* _setup_already
  reqq,       \* requests, and None for each worker that is to stop
  rspq,       \* replies
  bytes,      \* bytes in the socket
  worker,     \* per worker: "off", "idle", the call it makes, or "signal"
  call,       \* per call: "new", "wait", "sent", "over"
  trampoline, \* "off", "recv" or "drain"
  killall     \* "no", "yields", "joins", "kills"

tpoolVars == <<accidents, setups, up, reqq, rspq, bytes, worker, call, trampoline, killall>>

TpoolInit ==
  /\ accidents \in {{}, {"die", "late"}}
  /\ setups = 0 /\ up = FALSE
  /\ reqq = <<>> /\ rspq = <<>> /\ bytes = 0
  /\ worker = [w \in Workers |-> "off"]
  /\ call = [c \in Calls |-> "new"]
  /\ trampoline = "off"
  /\ killall = "no"

\* A greenthread may run: none is draining replies, or joining the workers.
MainFree == trampoline # "drain" /\ killall # "joins"

-----------------------------------------------------------------------------
(* The greenthreads *)

setup ==
  /\ MainFree /\ ~up /\ setups < MaxSetups
  /\ setups' = setups + 1
  /\ up' = TRUE
  /\ reqq' = <<>> /\ rspq' = <<>> /\ bytes' = 0
  /\ worker' = [w \in Workers |-> "idle"]
  /\ trampoline' = "recv"
  /\ UNCHANGED <<accidents, call, killall>>

\* While killall() is suspended in kill(), setup() takes the pool for usable,
\* though its workers are gone: "late".
execute(c) ==
  /\ MainFree /\ up /\ call[c] = "new"
  /\ killall = "kills" => "late" \in accidents
  /\ reqq' = Append(reqq, c)
  /\ call' = [call EXCEPT ![c] = "wait"]
  /\ UNCHANGED <<accidents, setups, up, rspq, bytes, worker, trampoline, killall>>

Return(c) ==
  /\ MainFree /\ call[c] = "sent"
  /\ call' = [call EXCEPT ![c] = "over"]
  /\ UNCHANGED <<accidents, setups, up, reqq, rspq, bytes, worker, trampoline, killall>>

\* A Timeout or a kill ends the wait; the request stays where it is.
GiveUp(c) ==
  /\ MainFree /\ call[c] = "wait"
  /\ call' = [call EXCEPT ![c] = "over"]
  /\ UNCHANGED <<accidents, setups, up, reqq, rspq, bytes, worker, trampoline, killall>>

\* e.send()
Sent(c) == [call EXCEPT ![c] = IF @ = "wait" THEN "sent" ELSE @]

Recv ==
  /\ MainFree /\ trampoline = "recv" /\ bytes > 0
  /\ bytes' = bytes - 1
  /\ trampoline' = "drain"
  /\ UNCHANGED <<accidents, setups, up, reqq, rspq, worker, call, killall>>

Drain ==
  /\ trampoline = "drain" /\ rspq # <<>>
  /\ rspq' = Tail(rspq)
  /\ call' = Sent(Head(rspq))
  /\ UNCHANGED <<accidents, setups, up, reqq, bytes, worker, trampoline, killall>>

DrainEnds ==
  /\ trampoline = "drain" /\ rspq = <<>>
  /\ trampoline' = "recv"
  /\ UNCHANGED <<accidents, setups, up, reqq, rspq, bytes, worker, call, killall>>

-----------------------------------------------------------------------------
(* killall() *)

KillallBegins ==
  /\ MainFree /\ up /\ killall = "no"
  /\ killall' = "yields"
  /\ UNCHANGED <<accidents, setups, up, reqq, rspq, bytes, worker, call, trampoline>>

Stops == [i \in 1..Cardinality(Workers) |-> None]

KillallStops ==
  /\ MainFree /\ killall = "yields"
  /\ reqq' = reqq \o Stops
  /\ killall' = "joins"
  /\ UNCHANGED <<accidents, setups, up, rspq, bytes, worker, call, trampoline>>

\* Faulty: it forgets the replies that are left.
JoinedKeeping == call

Joined == [c \in Calls |-> IF Contains(rspq, c) THEN Sent(c)[c] ELSE call[c]]

\* Every worker has ended: what is left of the replies is sent, and the
\* trampoline is killed, which suspends killall().
KillallJoins ==
  /\ killall = "joins"
  /\ \A w \in Workers : worker[w] = "off"
  /\ call' = Joined
  /\ rspq' = <<>>
  /\ trampoline' = "off"
  /\ killall' = "kills"
  /\ UNCHANGED <<accidents, setups, up, reqq, bytes, worker>>

KillallEnds ==
  /\ killall = "kills"
  /\ up' = FALSE
  /\ bytes' = 0
  /\ killall' = "no"
  /\ UNCHANGED <<accidents, setups, reqq, rspq, worker, call, trampoline>>

-----------------------------------------------------------------------------
(* tworker() *)

Take(w) ==
  /\ worker[w] = "idle" /\ reqq # <<>>
  /\ reqq' = Tail(reqq)
  /\ worker' = [worker EXCEPT ![w] = IF Head(reqq) = None THEN "off" ELSE Head(reqq)]
  /\ UNCHANGED <<accidents, setups, up, rspq, bytes, call, trampoline, killall>>

Reply(w) ==
  /\ worker[w] \in Calls
  /\ rspq' = Append(rspq, worker[w])
  /\ worker' = [worker EXCEPT ![w] = "signal"]
  /\ UNCHANGED <<accidents, setups, up, reqq, bytes, call, trampoline, killall>>

Signal(w) ==
  /\ worker[w] = "signal"
  /\ bytes' = bytes + 1
  /\ worker' = [worker EXCEPT ![w] = "idle"]
  /\ UNCHANGED <<accidents, setups, up, reqq, rspq, call, trampoline, killall>>

\* SystemExit, KeyboardInterrupt, or another exception that is neither an
\* Exception nor a Timeout: the worker ends, with no reply.
Die(w) ==
  /\ "die" \in accidents
  /\ worker[w] \in Calls
  /\ worker' = [worker EXCEPT ![w] = "off"]
  /\ UNCHANGED <<accidents, setups, up, reqq, rspq, bytes, call, trampoline, killall>>

Works(w) == Take(w) \/ Reply(w) \/ Signal(w)
Trampoline == Recv \/ Drain \/ DrainEnds
Killall == KillallStops \/ KillallJoins \/ KillallEnds

TpoolNext ==
  \/ setup \/ Trampoline \/ KillallBegins \/ Killall
  \/ \E c \in Calls : execute(c) \/ Return(c) \/ GiveUp(c)
  \/ \E w \in Workers : Works(w) \/ Die(w)

\* The calls end, native threads run, and the hub serves the socket and its timers.
TpoolFairness ==
  /\ \A w \in Workers : WF_tpoolVars(Works(w))
  /\ WF_tpoolVars(Trampoline)
  /\ WF_tpoolVars(Killall)

TpoolSpec == TpoolInit /\ [][TpoolNext]_tpoolVars /\ TpoolFairness

-----------------------------------------------------------------------------
(* Properties *)

\* tpool.py:46-92.  A reply on the queue is going to be seen: there is a byte
\* for it, or a worker that is about to write one, or the trampoline is not
\* done; and a call that waits is somewhere, once.  Workers that die and calls
\* during the end of killall() are the exceptions.
Places(c) ==
  Cardinality({i \in 1..Len(reqq) : reqq[i] = c}) + Cardinality({i \in 1..Len(rspq) : rspq[i] = c})
    + Cardinality({w \in Workers : worker[w] = c})

RepliesSeen ==
  /\ rspq # <<>> =>
       bytes > 0 \/ trampoline = "drain" \/ killall = "joins" \/ \E w \in Workers : worker[w] = "signal"
  /\ \A c \in Calls : Places(c) <= 1
  /\ accidents = {} => \A c \in Calls : call[c] = "wait" => Places(c) = 1

\* tpool.py:96-128.  Every call of execute() ends, also when killall() comes in
\* between, unless one of those two accidents happens.
Calling(c) == accidents = {} /\ call[c] = "wait"

CallsEnd == \A c \in Calls : Calling(c) ~> ~Calling(c)
=============================================================================
