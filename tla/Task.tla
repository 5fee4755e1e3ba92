-------------------------------- MODULE Task --------------------------------
(***************************************************************************)
(* What a greenthread promises about its function and its links: the       *)
(* function runs at most once and not at all if the thread is killed       *)
(* first, the outcome is decided once, and the linked functions are called *)
(* after it, one at a time, in the order they were linked.  GreenThread is *)
(* shown to implement it.                                                  *)
(***************************************************************************)
EXTENDS Sequences, SequencesExt

CONSTANTS Links, NoLink

VARIABLES phase,     \* "pending", "running", "done"
          outcome,   \* "unset", "value", "error"
          linked,    \* the functions still to be called
          busy       \* the one that is being called, or NoLink

vars == <<phase, outcome, linked, busy>>

Init ==
  /\ phase = "pending"
  /\ outcome = "unset"
  /\ linked = <<>>
  /\ busy = NoLink

Start ==
  /\ phase = "pending"
  /\ phase' = "running"
  /\ UNCHANGED <<outcome, linked, busy>>

Finish(o) ==
  /\ phase = "running"
  /\ phase' = "done"
  /\ outcome' = o
  /\ UNCHANGED <<linked, busy>>

\* Killed before it began.
Abandon ==
  /\ phase = "pending"
  /\ phase' = "done"
  /\ outcome' = "error"
  /\ UNCHANGED <<linked, busy>>

Link(f) ==
  /\ linked' = Append(linked, f)
  /\ UNCHANGED <<phase, outcome, busy>>

Unlink(f) ==
  /\ linked' = RemoveFirst(linked, f)
  /\ UNCHANGED <<phase, outcome, busy>>

Call ==
  /\ phase = "done" /\ busy = NoLink /\ linked # <<>>
  /\ busy' = Head(linked)
  /\ linked' = Tail(linked)
  /\ UNCHANGED <<phase, outcome>>

Return ==
  /\ busy # NoLink
  /\ busy' = NoLink
  /\ UNCHANGED <<phase, outcome, linked>>

Next ==
  \/ Start \/ Abandon \/ Call \/ Return
  \/ \E o \in {"value", "error"} : Finish(o)
  \/ \E f \in Links : Link(f) \/ Unlink(f)

Safety == Init /\ [][Next]_vars

\* A linked function of a finished thread is called in the end.
CallsLinks == WF_vars(Call)

Spec == Safety /\ CallsLinks

=============================================================================
