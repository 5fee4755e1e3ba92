------------------------------- MODULE Buffer -------------------------------
(***************************************************************************)
(* What a queue promises about the items put into it: a put() that returns *)
(* has handed over its item once, one that raises Full has not; a get()    *)
(* that returns has taken one item, one that raises none; and items and    *)
(* threads that want them do not stay apart.  Callers other than the       *)
(* threads (callbacks of the hub) put and get, too.  How much the queue    *)
(* may hold is no part of it.  LightQueue is shown to implement it.        *)
(***************************************************************************)
EXTENDS Naturals

CONSTANT Threads

VARIABLES held,     \* how many items are in the queue
          doing,    \* what each thread is blocked in: "put", "get" or "none"
          result    \* how the last call of each thread ended

vars == <<held, doing, result>>

Init ==
  /\ held = 0
  /\ doing = [t \in Threads |-> "none"]
  /\ result = [t \in Threads |-> "ok"]

Block(t, op) ==
  /\ doing[t] = "none"
  /\ doing' = [doing EXCEPT ![t] = op]
  /\ UNCHANGED <<held, result>>

Done(t, r) ==
  /\ doing' = [doing EXCEPT ![t] = "none"]
  /\ result' = [result EXCEPT ![t] = r]

\* put() returns, whether it had to wait or not.
Put(t) ==
  /\ doing[t] # "get"
  /\ held' = held + 1
  /\ Done(t, "ok")

Get(t) ==
  /\ doing[t] # "put"
  /\ held > 0
  /\ held' = held - 1
  /\ Done(t, "ok")

\* t hands its item to u.
Pass(t, u) ==
  /\ doing[t] = "put" /\ doing[u] = "get"
  /\ held = 0
  /\ doing' = [doing EXCEPT ![t] = "none", ![u] = "none"]
  /\ result' = [result EXCEPT ![t] = "ok", ![u] = "ok"]
  /\ UNCHANGED held

Fail(t) ==
  /\ \/ doing[t] # "get" /\ Done(t, "full")
     \/ doing[t] # "put" /\ Done(t, "empty")
     \/ Done(t, "interrupted")
  /\ UNCHANGED held

\* Callbacks: in the third case the item reaches a waiting thread.
Callback ==
  \/ held' = held + 1 /\ UNCHANGED <<doing, result>>
  \/ held > 0 /\ held' = held - 1 /\ UNCHANGED <<doing, result>>
  \/ \E t \in Threads : doing[t] = "get" /\ Done(t, "ok") /\ UNCHANGED held

Next ==
  \/ \E t \in Threads :
       \/ Block(t, "put") \/ Block(t, "get")
       \/ Put(t) \/ Get(t) \/ Fail(t)
       \/ \E u \in Threads : Pass(t, u)
  \/ Callback

Safety == Init /\ [][Next]_vars

\* Neither an item nor a putter stays apart for ever from a thread in get().
BringsTogether ==
  /\ WF_vars(\E t \in Threads : doing[t] = "get" /\ Get(t))
  /\ WF_vars(\E t, u \in Threads : Pass(t, u))

Spec == Safety /\ BringsTogether

=============================================================================
