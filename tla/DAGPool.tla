------------------------------- MODULE DAGPool -------------------------------
(***************************************************************************)
(* eventlet/dagpool.py: greenthreads that produce the values of keys and   *)
(* wait for the values of others.                                          *)
(*                                                                         *)
(* wait_each() is a generator: it hands the caller every pending key that  *)
(* has a value, and when none is left it waits on the pool's event, which  *)
(* post() sends and replaces by a new one.  The caller's loop runs between *)
(* two items of the generator: it may post there itself, and may switch,   *)
(* so that others run.                                                     *)
(*                                                                         *)
(* Left out: a second kill() of a greenthread that was killed before it    *)
(* ran, while the first one has not returned.                              *)
(***************************************************************************)
EXTENDS FiniteSets

CONSTANTS
  Keys,
  Coros,       \* greenthreads of the pool, each spawned once at most
  Outsiders,   \* threads outside the pool: they wait, post and kill
  None

VARIABLES
  values,      \* per key: None, "ok" or "error" (a PropagateError)
  coros,       \* self.coros: per key None or the greenthread
  key,         \* per greenthread of the pool: the key it was spawned with
  pc,          \* where everybody is
  pending,     \* the keys a generator has not delivered yet
  scan,        \* the keys its loop over the copy of `pending' has still to look at
  victim,      \* per outsider: the key it is killing
  missed,      \* history: per loop, keys that got a value after its scan had passed them
  raced        \* history: keys spawned again while a kill() of them was under way

dagVars == <<values, coros, key, pc, pending, scan, victim, missed, raced>>

Everybody == Coros \union Outsiders

DagInit ==
  /\ values \in [Keys -> {None, "ok"}]
  /\ coros = [k \in Keys |-> None]
  /\ key = [c \in Coros |-> None]
  /\ pc = [i \in Everybody |-> IF i \in Coros THEN "unborn" ELSE "runs"]
  /\ pending = [i \in Everybody |-> {}]
  /\ scan = [i \in Everybody |-> {}]
  /\ victim = [o \in Outsiders |-> None]
  /\ missed = [i \in Everybody |-> {}]
  /\ raced = {}

Available == {k \in Keys : values[k] # None}

-----------------------------------------------------------------------------
(* post() *)

\* Faulty: the waiters of the key alone are told.
WakeFirst(p, k) ==
  [i \in Everybody |-> IF p[i] = "wait" /\ pending[i] = {k} THEN "scan" ELSE p[i]]

\* self.event.send(): every waiter is going to look at its keys again.
Wake(p, k) == [i \in Everybody |-> IF p[i] = "wait" THEN "scan" ELSE p[i]]

\* What they look at: a new copy of what is pending.
Rescan(p) ==
  [i \in Everybody |-> IF pc[i] = "wait" /\ p[i] = "scan" THEN pending[i] ELSE scan[i]]

\* A loop in its body has passed the key, and will not look at it before it waits.
Missed(k) ==
  [i \in Everybody |->
     CASE pc[i] = "wait" -> {}
       [] pc[i] = "body" /\ k \in pending[i] \ scan[i] -> missed[i] \union {k}
       [] OTHER -> missed[i]]

\* Thread i posts: a Collision for the key of another running greenthread, and
\* for a key with a value unless it is to be replaced.
Post(i, k, v, replace) ==
  /\ pc[i] \in {"runs", "body"}
  /\ coros[k] \in {None, i}
  /\ k \in Available => replace
  /\ values' = [values EXCEPT ![k] = v]
  /\ pc' = Wake(pc, k)
  /\ scan' = Rescan(pc')
  /\ missed' = Missed(k)
  /\ UNCHANGED <<coros, key, pending, victim, raced>>

-----------------------------------------------------------------------------
(* spawn(), and the greenthreads of the pool *)

Spawn(c, k, depends) ==
  /\ pc[c] = "unborn"
  /\ coros[k] = None /\ k \notin Available
  /\ coros' = [coros EXCEPT ![k] = c]
  /\ key' = [key EXCEPT ![c] = k]
  /\ pc' = [pc EXCEPT ![c] = "spawned"]
  /\ pending' = [pending EXCEPT ![c] = depends]
  /\ scan' = [scan EXCEPT ![c] = depends]
  /\ raced' = raced \union ({k} \intersect {victim[o] : o \in Outsiders})
  /\ UNCHANGED <<values, victim, missed>>

\* It runs for the first time, and may iterate over its results, or not.
Start(c) ==
  /\ pc[c] = "spawned"
  /\ pc' = [pc EXCEPT ![c] = "body"]
  /\ UNCHANGED <<values, coros, key, pending, scan, victim, missed, raced>>

\* Faulty: the greenthread is still known while it posts.
UnregisteredLate(k) == coros

Unregistered(k) == [coros EXCEPT ![k] = None]

\* The generator of i is finished with or dropped; the history in m is kept for
\* the others.
Gone(i, sc, m) ==
  /\ pending' = [pending EXCEPT ![i] = {}]
  /\ scan' = [sc EXCEPT ![i] = {}]
  /\ missed' = [m EXCEPT ![i] = {}]

\* The function returns or raises: it is forgotten, and its result posted
\* unless the key has a value already.  Without an entry to delete the KeyError
\* takes the place of the result, and nothing is posted.
Finish(c, v) ==
  /\ pc[c] \in {"body", "runs"} /\ c \in Coros
  /\ coros' = Unregistered(key[c])
  /\ IF coros[key[c]] = None \/ key[c] \in Available
       THEN /\ pc' = [pc EXCEPT ![c] = "dead"]
            /\ Gone(c, scan, missed)
            /\ UNCHANGED values
       ELSE /\ values' = [values EXCEPT ![key[c]] = v]
            /\ pc' = [Wake(pc, key[c]) EXCEPT ![c] = "dead"]
            /\ Gone(c, Rescan(pc'), Missed(key[c]))
  /\ UNCHANGED <<key, victim, raced>>

-----------------------------------------------------------------------------
(* wait_each() and its relatives *)

\* An outsider asks for keys, or for all the pool knows of.
WaitEach(o, keys) ==
  /\ pc[o] = "runs"
  /\ pending' = [pending EXCEPT ![o] = keys]
  /\ scan' = [scan EXCEPT ![o] = keys]
  /\ pc' = [pc EXCEPT ![o] = "scan"]
  /\ missed' = [missed EXCEPT ![o] = {}]
  /\ UNCHANGED <<values, coros, key, victim, raced>>

\* It begins, or goes on from its body: it finds a key with a value, after
\* others without one, and yields it; a PropagateError is raised in the caller
\* instead, which ends the generator, but for wait_each_success and
\* wait_each_exception.
Deliver(i) ==
  /\ pc[i] \in {"scan", "body"}
  /\ \E k \in scan[i] \intersect Available :
       \/ /\ \E passed \in SUBSET (scan[i] \ Available) :
               scan' = [scan EXCEPT ![i] = @ \ (passed \union {k})]
          /\ pending' = [pending EXCEPT ![i] = @ \ {k}]
          /\ pc' = [pc EXCEPT ![i] = "body"]
          /\ UNCHANGED missed
       \/ /\ values[k] = "error"
          /\ Gone(i, scan, missed)
          /\ pc' = [pc EXCEPT ![i] = "runs"]
  /\ UNCHANGED <<values, coros, key, victim, raced>>

\* All of the copy is seen: everything is delivered, or it waits.
ScanEnds(i) ==
  /\ pc[i] = "scan" \/ (pc[i] = "body" /\ pending[i] # {})
  /\ scan[i] \intersect Available = {}
  /\ scan' = [scan EXCEPT ![i] = {}]
  /\ pc' = [pc EXCEPT ![i] = IF pending[i] = {} THEN "runs" ELSE "wait"]
  /\ UNCHANGED <<values, coros, key, pending, victim, missed, raced>>

\* An outsider leaves the loop, at its end or before.
Leave(o) ==
  /\ pc[o] = "body"
  /\ pc' = [pc EXCEPT ![o] = "runs"]
  /\ Gone(o, scan, missed)
  /\ UNCHANGED <<values, coros, key, victim, raced>>

-----------------------------------------------------------------------------
(* kill() *)

\* The victim ends at once.  If it had started, its own finally clause forgets
\* it.  The killer comes back by a timer.
Kill(o, k) ==
  /\ pc[o] = "runs" /\ coros[k] # None
  /\ pc[coros[k]] # "dead"
  /\ victim' = [victim EXCEPT ![o] = k]
  /\ coros' = IF pc[coros[k]] = "spawned" THEN coros ELSE Unregistered(k)
  /\ pc' = [pc EXCEPT ![o] = "kills", ![coros[k]] = "dead"]
  /\ Gone(coros[k], scan, missed)
  /\ UNCHANGED <<values, key, raced>>

\* kill() forgets the key: KeyError if the victim did so, and whoever was
\* spawned with the key meanwhile loses its entry.
KillReturns(o) ==
  /\ pc[o] = "kills"
  /\ coros' = Unregistered(victim[o])
  /\ victim' = [victim EXCEPT ![o] = None]
  /\ pc' = [pc EXCEPT ![o] = "runs"]
  /\ UNCHANGED <<values, key, pending, scan, missed, raced>>

Results == {"ok", "error"}

Progress(i) ==
  \/ Deliver(i) \/ ScanEnds(i)
  \/ i \in Coros /\ (Start(i) \/ \E v \in Results : Finish(i, v))
  \/ i \in Outsiders /\ (Leave(i) \/ KillReturns(i))

DagNext ==
  \/ \E i \in Everybody : Progress(i)
  \/ \E i \in Everybody, k \in Keys, v \in Results, replace \in BOOLEAN : Post(i, k, v, replace)
  \/ \E c \in Coros, k \in Keys, depends \in SUBSET Keys : Spawn(c, k, depends)
  \/ \E o \in Outsiders, keys \in SUBSET Keys : WaitEach(o, keys)
  \/ \E o \in Outsiders, k \in Keys : Kill(o, k)

\* Bodies go on or end, and who is ready runs: no thread keeps the control for
\* ever, and the hub's timers are served in turn (NeverOversleeps of HubTimers).
DagFairness == \A i \in Everybody : SF_dagVars(Progress(i))

DagSpec == DagInit /\ [][DagNext]_dagVars /\ DagFairness

-----------------------------------------------------------------------------
(* Properties *)

Alive(c) == pc[c] \notin {"unborn", "dead"}

\* dagpool.py:331-383, 405-408.  self.coros knows exactly the greenthreads that
\* have not ended, and those killed before they ran until kill() returns: what
\* post() and spawn() refuse is right, and every function's result is posted.
\* A key spawned again while a kill() of it is under way is the exception.
CorosExact ==
  \A c \in Coros : key[c] \notin raced =>
    /\ Alive(c) => coros[key[c]] = c
    /\ pc[c] = "dead" /\ coros[key[c]] = c => \E o \in Outsiders : victim[o] = key[c]

\* dagpool.py:290-306.  A loop that waits has been handed every key that has a
\* value, except one that got it while the loop was in its body and that the scan
\* had passed before.
NoneOverlooked ==
  \A i \in Everybody : pc[i] = "wait" => pending[i] \intersect Available \subseteq missed[i]

\* dagpool.py:414-418, the docstring of post(): "the first post() of a relevant
\* key ensures that it will resume eventually, and when it does it will catch up
\* with all relevant post() calls."  A key with a value that was not passed over
\* is handed to the loop, unless the loop is left or its greenthread ends.
Due(i, k) ==
  /\ pc[i] \in {"wait", "scan", "body"}
  /\ k \in (pending[i] \intersect Available) \ missed[i]

Delivered == \A i \in Everybody, k \in Keys : Due(i, k) ~> ~Due(i, k)

\* dagpool.py:191-193, the docstring of wait_each(): "If multiple keys are
\* available at the same time, wait_each() delivers each of the ready ones in
\* arbitrary order before blocking again."
ReadyDelivered ==
  \A i \in Everybody : pc[i] = "wait" => pending[i] \intersect Available = {}

\* dagpool.py:420-423, the docstring of post(): "Calling post(key, value) when there
\* is a running greenthread with that same *key* raises Collision": the pool knows
\* the greenthreads that are running.
RunningKnown == \A c \in Coros : Alive(c) => coros[key[c]] = c
=============================================================================
