----------------------------- MODULE SocketProofs -----------------------------
(***************************************************************************)
(* Proofs about Listeners: each thread in trampoline() is known to the     *)
(* hub, once, the kernel polls for exactly what the hub knows, and no      *)
(* listener is left to a file that has the number of its own.  Proofs      *)
(* about GreenSocket: the bytes of a stream arrive in order, once.  They   *)
(* hold for any threads, numbers, backends, buffers and messages;          *)
(* NetworkProofs takes them over for the instances of MCNetwork.           *)
(*                                                                         *)
(* A side is what waits for one event of one number: a listener and those  *)
(* that queue behind it.  What a step does to the tables is said by what   *)
(* it does to the set of the listeners of each side.                       *)
(***************************************************************************)
EXTENDS Listeners, GreenSocket, WaitQueueTheorems, SequenceTheorems

Side(p, q) == ({p} \ {None}) \cup ToSet(q)

\* Nobody queues behind nobody, and nobody is on a side twice.
InLine(p, q) ==
  /\ p = None => q = <<>>
  /\ IsInjective(q)
  /\ ~Contains(q, p)

SideOf(e, f) == Side(listeners[e][f], secondaries[e][f])

LinesKept == \A e \in Events, f \in Fds : InLine(listeners[e][f], secondaries[e][f])

\* Who is in the tables waits, was not told to give up, and waits for the file
\* that is open, if any is.
EntriesWait ==
  \A e \in Events, f \in Fds : \A l \in SideOf(e, f) :
    /\ l.ev = e /\ l.fd = f
    /\ at[l.th] = l
    /\ l \notin spent
    /\ files[f] \in {0, l.file}

\* Who waits has a listener of its own, in the tables or among the closed ones.
WaitersListed ==
  \A t \in Threads : Waiting(t) =>
    /\ at[t].th = t
    /\ at[t] \notin spent => at[t] \in SideOf(at[t].ev, at[t].fd)
    /\ at[t] \in spent => Contains(closed, at[t])

KernelTold ==
  \A f \in Fds : files[f] # 0 => interest[f] = {e \in Events : listeners[e][f] # None}

\* Everybody who is on a side of the number being removed is going to be called.
RemovalReaches ==
  removing.fd # None =>
    \A e \in Events : SideOf(e, removing.fd) \subseteq ToSet(removing.todo)

RunnerIsAway == current \in Threads => at[current] = Away

ListenersInv ==
  /\ TypeOK
  /\ LinesKept /\ EntriesWait /\ WaitersListed /\ KernelTold
  /\ RemovalReaches /\ RunnerIsAway

-----------------------------------------------------------------------------
(* Sides *)

LEMMA ListenerFields ==
  ASSUME NEW l \in Listener
  PROVE  /\ l.th \in Threads /\ l.ev \in Events /\ l.fd \in Fds /\ l.file \in Files
         /\ ValuesApart => l \notin {None, Away, Dead}
  BY DEF Listener, ValuesApart

\* A side holds listeners, and is empty when nobody is its first.
LEMMA SideProperties ==
  ASSUME ValuesApart, NEW p \in Listener \cup {None}, NEW q \in Seq(Listener), InLine(p, q)
  PROVE  /\ Side(p, q) = {l \in Listener : l = p \/ Contains(q, l)}
         /\ Side(p, q) = {} <=> p = None
<1>1. ToSet(q) = {l \in Listener : Contains(q, l)}
  BY ElementsOfQueue
<1>2. None \notin Listener
  BY DEF ValuesApart
<1>3. p = None => ToSet(q) = {}
  BY ElementsOfQueue DEF InLine
<1> QED
  BY <1>1, <1>2, <1>3 DEF Side

\* The first leaves, and the head of the queue follows.
Follower(q) == IF q = <<>> THEN None ELSE Head(q)
Rest(q) == IF q = <<>> THEN <<>> ELSE Tail(q)

LEMMA FirstLeaves ==
  ASSUME ValuesApart, NEW p \in Listener, NEW q \in Seq(Listener), InLine(p, q)
  PROVE  /\ Follower(q) \in Listener \cup {None} /\ Rest(q) \in Seq(Listener)
         /\ InLine(Follower(q), Rest(q))
         /\ Side(Follower(q), Rest(q)) = Side(p, q) \ {p}
<1> DEFINE r == Follower(q)
           s == Rest(q)
<1> HIDE DEF r, s
<1>1. CASE q = <<>>
  <2>1. r = None /\ s = <<>>
    BY <1>1 DEF r, s, Follower, Rest
  <2>2. InLine(r, s) /\ s \in Seq(Listener)
    BY <2>1 DEF InLine, IsInjective, Contains
  <2>3. \A l : ~Contains(q, l)
    BY <1>1 DEF Contains
  <2>4. Side(p, q) = {p}
    BY <2>3, SideProperties
  <2>5. Side(r, s) = {}
    BY <2>1, <2>2, SideProperties
  <2>6. Side(r, s) = Side(p, q) \ {p}
    BY <2>4, <2>5
  <2>7. r \in Listener \cup {None}
    BY <2>1
  <2> QED
    BY <2>2, <2>6, <2>7 DEF r, s
<1>2. CASE q # <<>>
  <2>1. r = Head(q) /\ s = Tail(q) /\ IsInjective(q) /\ ~Contains(q, p)
    BY <1>2 DEF InLine, r, s, Follower, Rest
  <2>2. /\ r \in Listener /\ Contains(q, r)
        /\ s \in Seq(Listener) /\ IsInjective(s)
        /\ \A l : Contains(s, l) <=> Contains(q, l) /\ l # r
    BY <1>2, <2>1, TailOnce
  <2>3. InLine(r, s)
    BY <2>2 DEF InLine, ValuesApart
  <2>4. Side(p, q) = {l \in Listener : l = p \/ Contains(q, l)}
    BY SideProperties
  <2>5. Side(r, s) = {l \in Listener : l = r \/ Contains(s, l)}
    BY <2>2, <2>3, SideProperties
  <2>6. Side(r, s) = Side(p, q) \ {p}
    BY <2>1, <2>2, <2>4, <2>5
  <2> QED
    BY <2>2, <2>3, <2>6 DEF r, s
<1> QED
  BY <1>1, <1>2

\* Another leaves the queue.
LEMMA QueuedLeaves ==
  ASSUME ValuesApart, NEW p \in Listener, NEW q \in Seq(Listener), InLine(p, q),
         NEW l \in Listener, Contains(q, l)
  PROVE  /\ RemoveFirst(q, l) \in Seq(Listener)
         /\ InLine(p, RemoveFirst(q, l))
         /\ Side(p, RemoveFirst(q, l)) = Side(p, q) \ {l}
<1> DEFINE s == RemoveFirst(q, l)
<1>1. /\ s \in Seq(Listener) /\ IsInjective(s)
      /\ \A u : Contains(s, u) <=> Contains(q, u) /\ u # l
  BY RemoveFirstOnce DEF InLine
<1> HIDE DEF s
<1>2. p # None /\ p # l /\ ~Contains(q, p)
  BY DEF InLine, ValuesApart
<1>3. InLine(p, s)
  BY <1>1, <1>2 DEF InLine
<1>4. Side(p, s) = Side(p, q) \ {l}
  BY <1>1, <1>2, <1>3, SideProperties
<1> QED
  BY <1>1, <1>3, <1>4 DEF s

\* Somebody comes: as the first, or behind the others.
LEMMA SideJoined ==
  ASSUME ValuesApart, NEW p \in Listener \cup {None}, NEW q \in Seq(Listener), InLine(p, q),
         NEW l \in Listener, l \notin Side(p, q)
  PROVE  /\ p = None => InLine(l, q) /\ Side(l, q) = Side(p, q) \cup {l}
         /\ p # None => /\ Append(q, l) \in Seq(Listener)
                        /\ InLine(p, Append(q, l))
                        /\ Side(p, Append(q, l)) = Side(p, q) \cup {l}
<1>1. l # p /\ ~Contains(q, l) /\ l # None /\ IsInjective(q)
  BY SideProperties DEF ValuesApart, InLine
<1>2. ASSUME p = None
      PROVE  InLine(l, q) /\ Side(l, q) = Side(p, q) \cup {l}
  <2>1. InLine(l, q)
    BY <1>1 DEF InLine
  <2>2. \A u \in Listener : u # p
    BY <1>2 DEF ValuesApart
  <2> QED
    BY <2>1, <2>2, SideProperties
<1>3. ASSUME p # None
      PROVE  /\ Append(q, l) \in Seq(Listener)
             /\ InLine(p, Append(q, l))
             /\ Side(p, Append(q, l)) = Side(p, q) \cup {l}
  <2> DEFINE s == Append(q, l)
  <2>1. /\ s \in Seq(Listener) /\ IsInjective(s)
        /\ \A u : Contains(s, u) <=> Contains(q, u) \/ u = l
    BY <1>1, AppendNew
  <2> HIDE DEF s
  <2>2. InLine(p, s)
    BY <1>1, <1>3, <2>1 DEF InLine
  <2>3. Side(p, s) = Side(p, q) \cup {l}
    BY <2>1, <2>2, SideProperties
  <2> QED
    BY <2>1, <2>2, <2>3 DEF s
<1> QED
  BY <1>2, <1>3

LEMMA EmptySide == InLine(None, <<>>) /\ Side(None, <<>>) = {}
<1>1. <<>> \in Seq({})
  OBVIOUS
<1>2. ToSet(<<>>) = {}
  BY <1>1, ElementsOfQueue
<1> QED
  BY <1>2 DEF InLine, Side, IsInjective, Contains

\* Sequences in a row hold what each of them holds.
LEMMA ElementsOfConcat ==
  ASSUME NEW a \in Seq(Listener), NEW b \in Seq(Listener)
  PROVE  /\ a \o b \in Seq(Listener)
         /\ ToSet(a \o b) = ToSet(a) \cup ToSet(b)
<1>1. a \o b \in Seq(Listener)
  BY ConcatProperties
<1>2. Range(a \o b) = Range(a) \cup Range(b)
  BY RangeConcatenation
<1> QED
  BY <1>1, <1>2 DEF ToSet, Range

-----------------------------------------------------------------------------
(* What a step does to the tables *)

TablesTyped ==
  /\ listeners \in [Events -> [Fds -> Listener \cup {None}]]
  /\ secondaries \in [Events -> [Fds -> Seq(Listener)]]
  /\ interest \in [Fds -> SUBSET Events]

\* The mask of a number is set anew.
Registered(f) ==
  interest' = [interest EXCEPT ![f] =
    IF backend = "epoll" /\ files[f] = 0 THEN {} ELSE {e \in Events : listeners'[e][f] # None}]

KernelFollows ==
  \A f \in Fds : files[f] # 0 => interest'[f] = {e \in Events : listeners'[e][f] # None}

LEMMA SideTyped ==
  ASSUME ValuesApart, TablesTyped, LinesKept, NEW e \in Events, NEW f \in Fds
  PROVE  /\ listeners[e][f] \in Listener \cup {None}
         /\ secondaries[e][f] \in Seq(Listener)
         /\ InLine(listeners[e][f], secondaries[e][f])
         /\ SideOf(e, f) = {l \in Listener : l = listeners[e][f] \/ Contains(secondaries[e][f], l)}
         /\ SideOf(e, f) = {} <=> listeners[e][f] = None
<1>1. /\ listeners[e][f] \in Listener \cup {None}
      /\ secondaries[e][f] \in Seq(Listener)
  BY DEF TablesTyped
<1>2. InLine(listeners[e][f], secondaries[e][f])
  BY DEF LinesKept
<1> QED
  BY <1>1, <1>2, SideProperties DEF SideOf

\* One side changes.
LEMMA SideChanges ==
  ASSUME ValuesApart, TablesTyped, LinesKept, NEW e \in Events, NEW f \in Fds,
         NEW r \in Listener \cup {None}, NEW s \in Seq(Listener), InLine(r, s),
         listeners' = [listeners EXCEPT ![e][f] = r],
         secondaries' = [secondaries EXCEPT ![e][f] = s],
         KernelTold, Registered(f)
  PROVE  /\ TablesTyped' /\ LinesKept' /\ KernelFollows
         /\ SideOf(e, f)' = Side(r, s)
         /\ \A d \in Events, g \in Fds : <<d, g>> # <<e, f>> => SideOf(d, g)' = SideOf(d, g)
<1>1. /\ listeners'[e][f] = r /\ secondaries'[e][f] = s
      /\ \A d \in Events, g \in Fds : d # e \/ g # f =>
            listeners'[d][g] = listeners[d][g] /\ secondaries'[d][g] = secondaries[d][g]
  BY DEF TablesTyped
<1>2. TablesTyped'
  <2>1. listeners' \in [Events -> [Fds -> Listener \cup {None}]]
    BY DEF TablesTyped
  <2>2. secondaries' \in [Events -> [Fds -> Seq(Listener)]]
    BY DEF TablesTyped
  <2>3. interest' \in [Fds -> SUBSET Events]
    BY DEF TablesTyped, Registered
  <2> QED
    BY <2>1, <2>2, <2>3 DEF TablesTyped
<1>3. ASSUME NEW d \in Events, NEW g \in Fds
      PROVE  InLine(listeners'[d][g], secondaries'[d][g])
  <2>1. CASE d = e /\ g = f
    BY <1>1, <2>1
  <2>2. CASE d # e \/ g # f
    BY <1>1, <2>2 DEF LinesKept
  <2> QED
    BY <2>1, <2>2
<1>4. LinesKept'
  BY <1>3 DEF LinesKept
<1>5. KernelFollows
  <2>1. ASSUME NEW g \in Fds, files[g] # 0
        PROVE  interest'[g] = {d \in Events : listeners'[d][g] # None}
    <3>1. CASE g = f
      BY <2>1, <3>1 DEF Registered, TablesTyped
    <3>2. CASE g # f
      <4>1. interest'[g] = interest[g]
        BY <3>2 DEF Registered, TablesTyped
      <4>2. interest[g] = {d \in Events : listeners[d][g] # None}
        BY <2>1 DEF KernelTold
      <4> QED
        BY <1>1, <3>2, <4>1, <4>2
    <3> QED
      BY <3>1, <3>2
  <2> QED
    BY <2>1 DEF KernelFollows
<1>6. SideOf(e, f)' = Side(r, s)
  BY <1>1 DEF SideOf
<1>7. ASSUME NEW d \in Events, NEW g \in Fds, <<d, g>> # <<e, f>>
      PROVE  SideOf(d, g)' = SideOf(d, g)
  <2>1. d # e \/ g # f
    BY <1>7
  <2> QED
    BY <1>1, <2>1 DEF SideOf
<1> QED
  BY <1>2, <1>4, <1>5, <1>6, <1>7

\* A listener is out of the tables.
Gone(l) ==
  /\ TablesTyped' /\ LinesKept' /\ KernelFollows
  /\ \A e \in Events, f \in Fds : SideOf(e, f)' = SideOf(e, f) \ {l}

\* remove(), for a listener that is in the tables or spent.
LEMMA WithoutGone ==
  ASSUME ValuesApart, ListenersInv, NEW l \in Listener,
         l \notin spent => l \in SideOf(l.ev, l.fd),
         SetTables(Without(l))
  PROVE  Gone(l)
<1> DEFINE e == l.ev
           f == l.fd
           p == listeners[e][f]
           q == secondaries[e][f]
<1>1. TablesTyped /\ LinesKept /\ KernelTold /\ e \in Events /\ f \in Fds
  BY ListenerFields DEF ListenersInv, TypeOK, TablesTyped
<1>2. /\ p \in Listener \cup {None} /\ q \in Seq(Listener) /\ InLine(p, q)
      /\ SideOf(e, f) = {u \in Listener : u = p \/ Contains(q, u)}
  BY <1>1, SideTyped
<1>3. \A d \in Events, g \in Fds : <<d, g>> # <<e, f>> => l \notin SideOf(d, g)
  BY DEF ListenersInv, EntriesWait
<1>4. ASSUME NEW r \in Listener \cup {None}, NEW s \in Seq(Listener), InLine(r, s),
             Side(r, s) = SideOf(e, f) \ {l},
             listeners' = [listeners EXCEPT ![e][f] = r],
             secondaries' = [secondaries EXCEPT ![e][f] = s],
             Registered(f)
      PROVE  Gone(l)
  <2>1. /\ TablesTyped' /\ LinesKept' /\ KernelFollows
        /\ SideOf(e, f)' = Side(r, s)
        /\ \A d \in Events, g \in Fds : <<d, g>> # <<e, f>> => SideOf(d, g)' = SideOf(d, g)
    BY <1>1, <1>4, SideChanges
  <2>2. ASSUME NEW d \in Events, NEW g \in Fds
        PROVE  SideOf(d, g)' = SideOf(d, g) \ {l}
    <3>1. CASE <<d, g>> = <<e, f>>
      <4>1. d = e /\ g = f
        BY <3>1
      <4> QED
        BY <1>4, <2>1, <4>1
    <3>2. CASE <<d, g>> # <<e, f>>
      BY <1>3, <2>1, <3>2
    <3> QED
      BY <3>1, <3>2
  <2> QED
    BY <2>1, <2>2 DEF Gone
<1>5. CASE l \in spent
  <2>1. listeners' = listeners /\ secondaries' = secondaries /\ Registered(f)
    BY <1>5 DEF SetTables, Without, Register, Tables, Mask, Registered
  <2>2. l \notin SideOf(e, f)
    BY <1>1, <1>5 DEF ListenersInv, EntriesWait
  <2>3. /\ listeners' = [listeners EXCEPT ![e][f] = p]
        /\ secondaries' = [secondaries EXCEPT ![e][f] = q]
    BY <1>1, <2>1 DEF TablesTyped
  <2>4. Side(p, q) = SideOf(e, f) \ {l}
    BY <2>2 DEF SideOf
  <2> QED
    BY <1>2, <1>4, <2>1, <2>3, <2>4
<1>6. CASE l \notin spent /\ p = l
  <2> DEFINE r == Follower(q)
             s == Rest(q)
  <2>1. /\ listeners' = [listeners EXCEPT ![e][f] = r]
        /\ secondaries' = [secondaries EXCEPT ![e][f] = s]
        /\ Registered(f)
    BY <1>6 DEF SetTables, Without, Register, Tables, Mask, Registered, Follower, Rest
  <2>2. /\ r \in Listener \cup {None} /\ s \in Seq(Listener)
        /\ InLine(r, s)
        /\ Side(r, s) = SideOf(e, f) \ {l}
    <3>1. InLine(l, q) /\ SideOf(e, f) = Side(l, q)
      BY <1>2, <1>6 DEF SideOf
    <3> QED
      BY <1>2, <3>1, FirstLeaves
  <2> HIDE DEF r, s
  <2> QED
    BY <1>4, <2>1, <2>2
<1>7. CASE l \notin spent /\ p # l
  <2>1. Contains(q, l) /\ p # None
    <3>1. l \in SideOf(e, f)
      BY <1>7
    <3>2. Contains(q, l)
      BY <1>2, <1>7, <3>1
    <3>3. q # <<>>
      BY <1>2, <3>2 DEF Contains
    <3> QED
      BY <1>2, <3>2, <3>3 DEF InLine
  <2> DEFINE s == RemoveFirst(q, l)
  <2>2. /\ listeners' = listeners
        /\ secondaries' = [secondaries EXCEPT ![e][f] = s]
        /\ Registered(f)
    BY <1>7, <2>1 DEF SetTables, Without, Register, Tables, Mask, Registered
  <2>3. /\ s \in Seq(Listener)
        /\ InLine(p, s)
        /\ Side(p, s) = SideOf(e, f) \ {l}
    BY <1>2, <2>1, QueuedLeaves DEF SideOf
  <2> HIDE DEF s
  <2>4. listeners' = [listeners EXCEPT ![e][f] = p]
    BY <1>1, <2>2 DEF TablesTyped
  <2> QED
    BY <1>2, <1>4, <2>2, <2>3, <2>4
<1> QED
  BY <1>5, <1>6, <1>7

\* add(), for a listener that is in no table.
LEMMA AddedJoins ==
  ASSUME ValuesApart, ListenersInv, NEW l \in Listener, l \notin SideOf(l.ev, l.fd),
         SetTables(Added(l))
  PROVE  /\ TablesTyped' /\ LinesKept' /\ KernelFollows
         /\ SideOf(l.ev, l.fd)' = SideOf(l.ev, l.fd) \cup {l}
         /\ \A d \in Events, g \in Fds :
               <<d, g>> # <<l.ev, l.fd>> => SideOf(d, g)' = SideOf(d, g)
<1> DEFINE e == l.ev
           f == l.fd
           p == listeners[e][f]
           q == secondaries[e][f]
<1>1. TablesTyped /\ LinesKept /\ KernelTold /\ e \in Events /\ f \in Fds
  BY ListenerFields DEF ListenersInv, TypeOK, TablesTyped
<1>2. /\ p \in Listener \cup {None} /\ q \in Seq(Listener) /\ InLine(p, q)
      /\ l \notin Side(p, q)
  BY <1>1, SideTyped DEF SideOf
<1> DEFINE Joined ==
      /\ TablesTyped' /\ LinesKept' /\ KernelFollows
      /\ SideOf(e, f)' = SideOf(e, f) \cup {l}
      /\ \A d \in Events, g \in Fds : <<d, g>> # <<e, f>> => SideOf(d, g)' = SideOf(d, g)
<1>5. ASSUME NEW r \in Listener \cup {None}, NEW s \in Seq(Listener), InLine(r, s),
             Side(r, s) = SideOf(e, f) \cup {l},
             listeners' = [listeners EXCEPT ![e][f] = r],
             secondaries' = [secondaries EXCEPT ![e][f] = s],
             Registered(f)
      PROVE  Joined
  <2>1. /\ TablesTyped' /\ LinesKept' /\ KernelFollows
        /\ SideOf(e, f)' = Side(r, s)
        /\ \A d \in Events, g \in Fds : <<d, g>> # <<e, f>> => SideOf(d, g)' = SideOf(d, g)
    BY <1>1, <1>5, SideChanges
  <2> QED
    BY <1>5, <2>1
<1> HIDE DEF Joined
<1>3. ASSUME p = None PROVE Joined
  <2>1. /\ listeners' = [listeners EXCEPT ![e][f] = l]
        /\ secondaries' = secondaries
        /\ Registered(f)
    BY <1>3 DEF SetTables, Added, Register, Tables, Mask, Registered
  <2>2. secondaries' = [secondaries EXCEPT ![e][f] = q]
    BY <1>1, <2>1 DEF TablesTyped
  <2>3. InLine(l, q) /\ Side(l, q) = SideOf(e, f) \cup {l}
    BY <1>2, <1>3, SideJoined DEF SideOf
  <2> QED
    BY <1>2, <1>5, <2>1, <2>2, <2>3
<1>4. ASSUME p # None PROVE Joined
  <2> DEFINE s == Append(q, l)
  <2>1. /\ listeners' = listeners
        /\ secondaries' = [secondaries EXCEPT ![e][f] = s]
        /\ Registered(f)
    BY <1>4 DEF SetTables, Added, Register, Tables, Mask, Registered
  <2>2. listeners' = [listeners EXCEPT ![e][f] = p]
    BY <1>1, <2>1 DEF TablesTyped
  <2>3. s \in Seq(Listener) /\ InLine(p, s) /\ Side(p, s) = SideOf(e, f) \cup {l}
    BY <1>2, <1>4, SideJoined DEF SideOf
  <2> HIDE DEF s
  <2> QED
    BY <1>2, <1>5, <2>1, <2>2, <2>3
<1> QED
  BY <1>3, <1>4 DEF Joined

\* A number is dropped from all tables.
LEMMA ClearedEmpty ==
  ASSUME ValuesApart, ListenersInv, NEW f \in Fds, SetTables(Cleared(f))
  PROVE  /\ TablesTyped' /\ LinesKept'
         /\ \A g \in Fds : g = f \/ files[g] # 0 =>
               interest'[g] = {e \in Events : listeners'[e][g] # None}
         /\ \A e \in Events : SideOf(e, f)' = {}
         /\ \A e \in Events, g \in Fds : g # f => SideOf(e, g)' = SideOf(e, g)
<1>1. TablesTyped /\ LinesKept /\ KernelTold
  BY DEF ListenersInv, TypeOK, TablesTyped
<1>2. /\ listeners' = [e \in Events |-> [listeners[e] EXCEPT ![f] = None]]
      /\ secondaries' = [e \in Events |-> [secondaries[e] EXCEPT ![f] = <<>>]]
      /\ interest' = [interest EXCEPT ![f] = {}]
  BY DEF SetTables, Cleared
<1>3. ASSUME NEW e \in Events
      PROVE  /\ listeners'[e][f] = None /\ secondaries'[e][f] = <<>>
             /\ \A g \in Fds \ {f} : /\ listeners'[e][g] = listeners[e][g]
                                      /\ secondaries'[e][g] = secondaries[e][g]
  BY <1>1, <1>2 DEF TablesTyped
<1>4. TablesTyped'
  <2>1. <<>> \in Seq(Listener)
    OBVIOUS
  <2>2. listeners' \in [Events -> [Fds -> Listener \cup {None}]]
    BY <1>1, <1>2 DEF TablesTyped
  <2>3. secondaries' \in [Events -> [Fds -> Seq(Listener)]]
    BY <1>1, <1>2, <2>1 DEF TablesTyped
  <2>4. interest' \in [Fds -> SUBSET Events]
    BY <1>1, <1>2 DEF TablesTyped
  <2> QED
    BY <2>2, <2>3, <2>4 DEF TablesTyped
<1>5. ASSUME NEW e \in Events
      PROVE  /\ SideOf(e, f)' = {}
             /\ \A g \in Fds \ {f} : SideOf(e, g)' = SideOf(e, g)
             /\ \A g \in Fds : InLine(listeners'[e][g], secondaries'[e][g])
  BY <1>1, <1>3, EmptySide DEF LinesKept, SideOf
<1>6. LinesKept'
  BY <1>5 DEF LinesKept
<1>7. ASSUME NEW g \in Fds, g = f \/ files[g] # 0
      PROVE  interest'[g] = {e \in Events : listeners'[e][g] # None}
  <2>1. CASE g = f
    BY <1>1, <1>2, <1>3, <2>1 DEF TablesTyped
  <2>2. CASE g # f
    <3>1. interest'[g] = interest[g]
      BY <1>1, <1>2, <2>2 DEF TablesTyped
    <3>2. interest[g] = {e \in Events : listeners[e][g] # None}
      BY <1>1, <1>7, <2>2 DEF KernelTold
    <3> QED
      BY <1>3, <2>2, <3>1, <3>2
  <2> QED
    BY <2>1, <2>2
<1> QED
  BY <1>4, <1>5, <1>6, <1>7

\* The listeners of a number, in either order, are those of its sides.
LEMMA ListenersOfSides ==
  ASSUME ValuesApart, ListenersInv, NEW f \in Fds
  PROVE  LET first == First("read", f) \o First("write", f)
             rest == secondaries["read"][f] \o secondaries["write"][f]
         IN /\ first \o rest \in Seq(Listener) /\ rest \o first \in Seq(Listener)
            /\ \A e \in Events : /\ SideOf(e, f) \subseteq ToSet(first \o rest)
                                 /\ SideOf(e, f) \subseteq ToSet(rest \o first)
            /\ ToSet(rest \o first) \subseteq UNION {SideOf(e, f) : e \in Events}
<1> DEFINE first == First("read", f) \o First("write", f)
           rest == secondaries["read"][f] \o secondaries["write"][f]
<1>1. ASSUME NEW e \in Events
      PROVE  /\ First(e, f) \in Seq(Listener) /\ secondaries[e][f] \in Seq(Listener)
             /\ ToSet(First(e, f)) \cup ToSet(secondaries[e][f]) = SideOf(e, f)
  <2>1. /\ listeners[e][f] \in Listener \cup {None}
        /\ secondaries[e][f] \in Seq(Listener)
    BY DEF ListenersInv, TypeOK
  <2>2. CASE listeners[e][f] = None
    <3>1. First(e, f) = <<>>
      BY <2>2 DEF First
    <3>2. <<>> \in Seq(Listener)
      OBVIOUS
    <3>3. ToSet(<<>>) = {}
      BY <3>2, ElementsOfQueue
    <3> QED
      BY <2>1, <2>2, <3>1, <3>2, <3>3 DEF SideOf, Side
  <2>3. CASE listeners[e][f] # None
    <3>1. First(e, f) = <<listeners[e][f]>>
      BY <2>3 DEF First
    <3>2. First(e, f) \in Seq(Listener) /\ ToSet(First(e, f)) = {listeners[e][f]}
      BY <2>1, <2>3, <3>1 DEF ToSet
    <3> QED
      BY <2>1, <2>3, <3>2 DEF SideOf, Side
  <2> QED
    BY <2>2, <2>3
<1>2. "read" \in Events /\ "write" \in Events
  BY DEF Events
<1>3. /\ first \in Seq(Listener)
      /\ ToSet(first) = ToSet(First("read", f)) \cup ToSet(First("write", f))
  BY <1>1, <1>2, ElementsOfConcat
<1>4. /\ rest \in Seq(Listener)
      /\ ToSet(rest) = ToSet(secondaries["read"][f]) \cup ToSet(secondaries["write"][f])
  BY <1>1, <1>2, ElementsOfConcat
<1> HIDE DEF first, rest
<1>5. /\ first \o rest \in Seq(Listener) /\ rest \o first \in Seq(Listener)
      /\ ToSet(first \o rest) = ToSet(first) \cup ToSet(rest)
      /\ ToSet(rest \o first) = ToSet(first) \cup ToSet(rest)
  BY <1>3, <1>4, ElementsOfConcat
<1>6. ToSet(first) \cup ToSet(rest) = SideOf("read", f) \cup SideOf("write", f)
  BY <1>1, <1>2, <1>3, <1>4
<1>7. \A e \in Events : e \in {"read", "write"}
  BY DEF Events
<1> QED
  BY <1>2, <1>5, <1>6, <1>7 DEF first, rest

-----------------------------------------------------------------------------
(* The invariant *)

\* The variables apart from the tables and `at'.
OthersTyped ==
  /\ backend \in Backends
  /\ phase \in Phases
  /\ files \in [Fds -> 0..MaxFiles] /\ opened \in 0..MaxFiles
  /\ ready \in [Fds -> SUBSET Events]
  /\ spent \subseteq Listener
  /\ closed \in Seq(Listener)
  /\ result \in [Fds -> SUBSET (Events \cup {"invalid"})]
  /\ callbacks \subseteq Listener
  /\ removing \in [fd : Fds \cup {None}, todo : Seq(Listener)]
  /\ cause \in Fds \cup {None}

AtTyped == current \in Threads \cup {Hub} /\ at \in [Threads -> {Away, Dead} \cup Listener]

LEMMA TypeParts == TypeOK <=> OthersTyped /\ AtTyped /\ TablesTyped
  BY DEF TypeOK, OthersTyped, AtTyped, TablesTyped

LEMMA ListenersInvInit == ValuesApart /\ Init => ListenersInv
<1> SUFFICES ASSUME ValuesApart, Init PROVE ListenersInv
  OBVIOUS
<1>1. TypeOK
  <2>1. <<>> \in Seq(Listener)
    OBVIOUS
  <2> QED
    BY <2>1 DEF Init, TypeOK, Phases, Idle, ValuesApart
<1>2. \A e \in Events, f \in Fds : listeners[e][f] = None /\ secondaries[e][f] = <<>>
  BY DEF Init
<1>3. \A e \in Events, f \in Fds :
        InLine(listeners[e][f], secondaries[e][f]) /\ SideOf(e, f) = {}
  BY <1>2, EmptySide DEF SideOf
<1>4. LinesKept /\ EntriesWait
  BY <1>3 DEF LinesKept, EntriesWait
<1>5. WaitersListed /\ KernelTold /\ RemovalReaches /\ RunnerIsAway
  BY DEF Init, WaitersListed, Waiting, KernelTold, RemovalReaches, Idle, RunnerIsAway, ValuesApart
<1> QED
  BY <1>1, <1>4, <1>5 DEF ListenersInv

\* Who waits is at a listener of its own.
LEMMA WaiterProperties ==
  ASSUME ValuesApart, ListenersInv, NEW t \in Threads, Waiting(t)
  PROVE  /\ at[t] \in Listener /\ at[t].th = t /\ at[t].ev \in Events /\ at[t].fd \in Fds
         /\ at[t] \notin spent => at[t] \in SideOf(at[t].ev, at[t].fd)
         /\ at[t] \in spent => Contains(closed, at[t])
<1>1. at[t] \in Listener
  BY DEF ListenersInv, TypeOK, Waiting
<1> QED
  BY <1>1, ListenerFields DEF ListenersInv, WaitersListed

LEMMA EntriesAreListeners ==
  ASSUME ValuesApart, ListenersInv, NEW e \in Events, NEW f \in Fds, NEW l \in SideOf(e, f)
  PROVE  /\ l \in Listener /\ l.ev = e /\ l.fd = f /\ l.th \in Threads
         /\ at[l.th] = l /\ l \notin spent /\ files[f] \in {0, l.file}
<1>1. l \in Listener
  BY SideTyped DEF ListenersInv, TypeOK, TablesTyped
<1> QED
  BY <1>1, ListenerFields DEF ListenersInv, EntriesWait

\* Thread t has got control; of whom waited, its own listener is out of the tables.
Left(t) ==
  /\ current' = t
  /\ at' = [at EXCEPT ![t] = Away]
  /\ Gone(at[t])

LEMMA ResumeLeaves ==
  ASSUME ValuesApart, ListenersInv, NEW t \in Threads, at[t] # Dead, Resume(t)
  PROVE  Left(t)
<1>1. current' = t /\ at' = [at EXCEPT ![t] = Away]
  BY DEF Resume
<1>2. CASE Waiting(t)
  <2>1. SetTables(Without(at[t]))
    BY <1>2 DEF Resume
  <2>2. /\ at[t] \in Listener
        /\ at[t] \notin spent => at[t] \in SideOf(at[t].ev, at[t].fd)
    BY <1>2, WaiterProperties
  <2>3. Gone(at[t])
    BY <2>1, <2>2, WithoutGone
  <2> QED
    BY <1>1, <2>3 DEF Left
<1>3. CASE ~Waiting(t)
  <2>1. at[t] = Away
    BY <1>3 DEF Waiting
  <2>2. listeners' = listeners /\ secondaries' = secondaries /\ interest' = interest
    BY <1>3 DEF Resume
  <2>3. TablesTyped' /\ LinesKept' /\ KernelFollows
    BY <2>2 DEF ListenersInv, TypeOK, TablesTyped, LinesKept, KernelTold, KernelFollows
  <2>4. ASSUME NEW e \in Events, NEW f \in Fds
        PROVE  SideOf(e, f)' = SideOf(e, f) \ {Away}
    <3>1. SideOf(e, f)' = SideOf(e, f)
      BY <2>2 DEF SideOf
    <3>2. Away \notin SideOf(e, f)
      BY EntriesAreListeners DEF ValuesApart
    <3> QED
      BY <3>1, <3>2
  <2>5. Gone(at[t])
    BY <2>1, <2>3, <2>4 DEF Gone
  <2> QED
    BY <1>1, <2>5 DEF Left
<1> QED
  BY <1>2, <1>3

\* The rest of a step in which a thread gets control.
LEMMA LeftInv ==
  ASSUME ValuesApart, ListenersInv, NEW t \in Threads, Left(t),
         UNCHANGED <<backend, spent, world>>,
         phase' \in Phases, callbacks' \subseteq Listener,
         result' \in [Fds -> SUBSET (Events \cup {"invalid"})],
         cause' \in Fds \cup {None},
         removing' \in [fd : Fds \cup {None}, todo : Seq(Listener)],
         closed' \in Seq(Listener),
         \A u \in Threads \ {t} : Waiting(u) /\ Contains(closed, at[u]) => Contains(closed', at[u]),
         RemovalReaches'
  PROVE  ListenersInv'
<1>1. /\ current' = t /\ at' = [at EXCEPT ![t] = Away] /\ at \in [Threads -> {Away, Dead} \cup Listener]
      /\ TablesTyped' /\ LinesKept' /\ KernelFollows
      /\ \A e \in Events, f \in Fds : SideOf(e, f)' = SideOf(e, f) \ {at[t]}
      /\ spent' = spent /\ files' = files
  BY DEF Left, Gone, world, ListenersInv, TypeOK
<1>2. TypeOK'
  <2>1. OthersTyped'
    <3>1. OthersTyped
      BY TypeParts DEF ListenersInv
    <3> QED
      BY <3>1 DEF OthersTyped, world
  <2>2. AtTyped'
    BY <1>1 DEF AtTyped
  <2> QED
    BY <1>1, <2>1, <2>2, TypeParts DEF TypeOK, OthersTyped, AtTyped, TablesTyped
<1>3. EntriesWait'
  <2>1. ASSUME NEW e \in Events, NEW f \in Fds, NEW l \in SideOf(e, f)'
        PROVE  l.ev = e /\ l.fd = f /\ at'[l.th] = l /\ l \notin spent' /\ files'[f] \in {0, l.file}
    <3>1. l \in SideOf(e, f) /\ l # at[t]
      BY <1>1
    <3>2. /\ l.ev = e /\ l.fd = f /\ l.th \in Threads /\ at[l.th] = l
          /\ l \notin spent /\ files[f] \in {0, l.file}
      BY <3>1, EntriesAreListeners
    <3> QED
      BY <1>1, <3>1, <3>2
  <2> QED
    BY <2>1 DEF EntriesWait
<1>4. WaitersListed'
  <2>1. ASSUME NEW u \in Threads, Waiting(u)'
        PROVE  (/\ at[u].th = u
                /\ at[u] \notin spent => at[u] \in SideOf(at[u].ev, at[u].fd)
                /\ at[u] \in spent => Contains(closed, at[u]))'
    <3>1. u # t /\ at'[u] = at[u] /\ Waiting(u)
      BY <1>1, <2>1 DEF Waiting
    <3>2. /\ at[u].th = u /\ at[u].ev \in Events /\ at[u].fd \in Fds
          /\ at[u] \notin spent => at[u] \in SideOf(at[u].ev, at[u].fd)
          /\ at[u] \in spent => Contains(closed, at[u])
      BY <3>1, WaiterProperties
    <3>3. at[u] # at[t]
      <4>1. CASE Waiting(t)
        BY <3>1, <3>2, <4>1, WaiterProperties
      <4>2. CASE ~Waiting(t)
        BY <3>1, <4>2 DEF Waiting
      <4> QED
        BY <4>1, <4>2
    <3>4. at[u] \notin spent => at[u] \in SideOf(at[u].ev, at[u].fd)'
      <4>1. SideOf(at[u].ev, at[u].fd)' = SideOf(at[u].ev, at[u].fd) \ {at[t]}
        BY <1>1, <3>1, <3>2
      <4> QED
        BY <3>2, <3>3, <4>1
    <3>5. at[u] \in spent => Contains(closed', at[u])
      BY <3>1, <3>2
    <3> QED
      BY <1>1, <3>1, <3>2, <3>4, <3>5
  <2> QED
    BY <2>1 DEF WaitersListed
<1>5. KernelTold'
  BY <1>1 DEF KernelFollows, KernelTold
<1>6. RunnerIsAway'
  BY <1>1 DEF RunnerIsAway
<1> QED
  BY <1>1, <1>2, <1>3, <1>4, <1>5, <1>6 DEF ListenersInv

\* While nothing is dropped that was going to be called, it is still going to be.
LEMMA LeftRemovalReaches ==
  ASSUME ValuesApart, ListenersInv, NEW t \in Threads, Left(t), removing' = removing
  PROVE  RemovalReaches'
<1>1. removing \in [fd : Fds \cup {None}, todo : Seq(Listener)]
  BY DEF ListenersInv, TypeOK
<1>2. \A e \in Events, f \in Fds : SideOf(e, f)' \subseteq SideOf(e, f)
  BY DEF Left, Gone
<1>3. ASSUME removing.fd # None, NEW e \in Events
      PROVE  SideOf(e, removing.fd)' \subseteq ToSet(removing.todo)
  BY <1>1, <1>2, <1>3 DEF ListenersInv, RemovalReaches
<1> QED
  BY <1>3 DEF RemovalReaches

-----------------------------------------------------------------------------
(* The steps *)

\* A step that leaves the tables alone, and who waits where.
LEMMA QuietInv ==
  ASSUME ValuesApart, ListenersInv,
         listeners' = listeners, secondaries' = secondaries,
         \A u \in Threads : /\ Waiting(u) => at'[u] = at[u]
                            /\ ~Waiting(u) => at'[u] \in {Away, Dead},
         \A u \in Threads : Waiting(u) => (at[u] \in spent' <=> at[u] \in spent),
         \A u \in Threads : Waiting(u) /\ at[u] \in spent => Contains(closed', at[u]),
         \A f \in Fds : files'[f] \in {0, files[f]},
         OthersTyped', AtTyped', TablesTyped', KernelTold', RemovalReaches', RunnerIsAway'
  PROVE  ListenersInv'
<1>1. \A e \in Events, f \in Fds : SideOf(e, f)' = SideOf(e, f)
  BY DEF SideOf
<1>2. LinesKept'
  BY DEF ListenersInv, LinesKept
<1>3. EntriesWait'
  <2>1. ASSUME NEW e \in Events, NEW f \in Fds, NEW l \in SideOf(e, f)'
        PROVE  l.ev = e /\ l.fd = f /\ at'[l.th] = l /\ l \notin spent' /\ files'[f] \in {0, l.file}
    <3>1. /\ l \in Listener /\ l.ev = e /\ l.fd = f /\ l.th \in Threads /\ at[l.th] = l
          /\ l \notin spent /\ files[f] \in {0, l.file}
      BY <1>1, <2>1, EntriesAreListeners
    <3>2. Waiting(l.th)
      BY <3>1, ListenerFields DEF Waiting
    <3>3. at'[l.th] = l /\ l \notin spent'
      BY <3>1, <3>2
    <3>4. files'[f] \in {0, l.file}
      BY <3>1
    <3> QED
      BY <3>1, <3>3, <3>4
  <2> QED
    BY <2>1 DEF EntriesWait
<1>4. WaitersListed'
  <2>1. ASSUME NEW u \in Threads, Waiting(u)'
        PROVE  (/\ at[u].th = u
                /\ at[u] \notin spent => at[u] \in SideOf(at[u].ev, at[u].fd)
                /\ at[u] \in spent => Contains(closed, at[u]))'
    <3>1. Waiting(u) /\ at'[u] = at[u]
      BY <2>1 DEF Waiting
    <3>2. /\ at[u].th = u /\ at[u].ev \in Events /\ at[u].fd \in Fds
          /\ at[u] \notin spent => at[u] \in SideOf(at[u].ev, at[u].fd)
      BY <3>1, WaiterProperties
    <3>3. SideOf(at[u].ev, at[u].fd)' = SideOf(at[u].ev, at[u].fd)
      BY <1>1, <3>1, <3>2
    <3> QED
      BY <3>1, <3>2, <3>3
  <2> QED
    BY <2>1 DEF WaitersListed
<1> QED
  BY <1>2, <1>3, <1>4, TypeParts DEF ListenersInv, TypeOK, OthersTyped, AtTyped, TablesTyped

\* The parts of QuietInv that hold when their variables do not change.
LEMMA SameTables ==
  ASSUME ListenersInv, UNCHANGED <<listeners, secondaries, interest, files>>
  PROVE  TablesTyped' /\ KernelTold'
  BY DEF ListenersInv, TypeOK, TablesTyped, KernelTold

LEMMA SameRemoval ==
  ASSUME ListenersInv, UNCHANGED <<listeners, secondaries, removing>>
  PROVE  RemovalReaches'
  BY DEF ListenersInv, RemovalReaches, SideOf

\* A step that changes none of the tables, and nothing of the threads.
LEMMA HubQuietInv ==
  ASSUME ValuesApart, ListenersInv,
         UNCHANGED <<backend, at, listeners, secondaries, interest, closed, files>>,
         current' \in {current, Hub},
         phase' \in Phases, opened' = opened, ready' \in [Fds -> SUBSET Events],
         spent' \subseteq Listener,
         \A u \in Threads : Waiting(u) => (at[u] \in spent' <=> at[u] \in spent),
         result' \in [Fds -> SUBSET (Events \cup {"invalid"})],
         callbacks' \subseteq Listener, cause' \in Fds \cup {None},
         removing' \in [fd : Fds \cup {None}, todo : Seq(Listener)],
         RemovalReaches'
  PROVE  ListenersInv'
<1>1. OthersTyped /\ AtTyped
  BY TypeParts DEF ListenersInv
<1>2. OthersTyped' /\ AtTyped'
  BY <1>1 DEF OthersTyped, AtTyped
<1>3. TablesTyped' /\ KernelTold'
  BY SameTables
<1>4. RunnerIsAway'
  BY DEF ListenersInv, RunnerIsAway, ValuesApart
<1>5. \A u \in Threads : /\ Waiting(u) => at'[u] = at[u]
                         /\ ~Waiting(u) => at'[u] \in {Away, Dead}
  BY DEF Waiting
<1>6. \A u \in Threads : Waiting(u) /\ at[u] \in spent => Contains(closed', at[u])
  BY WaiterProperties
<1>7. \A f \in Fds : files'[f] \in {0, files[f]}
  OBVIOUS
<1> QED
  BY <1>2, <1>3, <1>4, <1>5, <1>6, <1>7, QuietInv

LEMMA NoneClosedStep ==
  ASSUME ValuesApart, ListenersInv, NoneClosed
  PROVE  ListenersInv'
<1> USE DEF NoneClosed
<1>1. OthersTyped
  BY TypeParts DEF ListenersInv
<1>2. \A u \in Threads : Waiting(u) => at[u] \in Referenced
  BY DEF Referenced
<1>3. RemovalReaches'
  BY SameRemoval
<1> QED
  BY <1>1, <1>2, <1>3, HubQuietInv DEF OthersTyped, Phases, world

LEMMA TimersDoneStep ==
  ASSUME ValuesApart, ListenersInv, TimersDone
  PROVE  ListenersInv'
<1> USE DEF TimersDone
<1>1. OthersTyped
  BY TypeParts DEF ListenersInv
<1>2. RemovalReaches'
  BY SameRemoval DEF tables
<1> QED
  BY <1>1, <1>2, HubQuietInv DEF OthersTyped, Phases, world, tables

LEMMA PollStep ==
  ASSUME ValuesApart, ListenersInv, Poll
  PROVE  ListenersInv'
<1>1. OthersTyped /\ TablesTyped
  BY TypeParts DEF ListenersInv
<1>2. \A f \in Fds : Polled(f) \in SUBSET (Events \cup {"invalid"})
  BY <1>1 DEF OthersTyped, TablesTyped, Polled
<1>3. result' \in [Fds -> SUBSET (Events \cup {"invalid"})]
  BY <1>2 DEF Poll
<1>4. RemovalReaches'
  BY SameRemoval DEF Poll, tables
<1> QED
  BY <1>1, <1>3, <1>4, HubQuietInv DEF Poll, OthersTyped, Phases, world, tables

\* Who is going to be called when a number is dropped, is everybody on its sides.
LEMMA RemovalStarts ==
  ASSUME ValuesApart, ListenersInv, NEW f \in Fds,
         removing' = [fd |-> f, todo |-> ListenersOf(f)],
         UNCHANGED <<listeners, secondaries>>
  PROVE  /\ removing' \in [fd : Fds \cup {None}, todo : Seq(Listener)]
         /\ RemovalReaches'
<1>1. /\ ListenersOf(f) \in Seq(Listener)
      /\ \A e \in Events : SideOf(e, f) \subseteq ToSet(ListenersOf(f))
  BY ListenersOfSides DEF ListenersOf
<1>2. \A e \in Events : SideOf(e, f)' = SideOf(e, f)
  BY DEF SideOf
<1>3. removing'.fd = f /\ removing'.todo = ListenersOf(f)
  OBVIOUS
<1>4. RemovalReaches'
  <2>1. ASSUME NEW e \in Events
        PROVE  SideOf(e, removing.fd)' \subseteq ToSet(removing'.todo)
    BY <1>1, <1>2, <1>3 DEF SideOf
  <2> QED
    BY <2>1 DEF RemovalReaches
<1> QED
  BY <1>1, <1>4

LEMMA NoRemoval ==
  ASSUME removing' = Idle
  PROVE  /\ removing' \in [fd : Fds \cup {None}, todo : Seq(Listener)]
         /\ RemovalReaches'
<1>1. <<>> \in Seq(Listener)
  OBVIOUS
<1> QED
  BY <1>1 DEF Idle, RemovalReaches

LEMMA GatherStep ==
  ASSUME ValuesApart, ListenersInv, NEW f \in Fds, Gather(f)
  PROVE  ListenersInv'
<1>1. OthersTyped /\ TablesTyped
  BY TypeParts DEF ListenersInv
<1>2. result' \in [Fds -> SUBSET (Events \cup {"invalid"})]
  BY <1>1 DEF Gather, OthersTyped
<1>3. callbacks' \subseteq Listener
  <2>1. \A e \in Events : listeners[e][f] \in Listener \cup {None}
    BY <1>1 DEF TablesTyped
  <2> QED
    BY <1>1, <2>1 DEF Gather, OthersTyped
<1>4. /\ removing' \in [fd : Fds \cup {None}, todo : Seq(Listener)]
      /\ RemovalReaches'
  <2> DEFINE bad == "invalid" \in result[f] /\ (backend = "select" => files[f] = 0)
  <2>1. CASE bad
    BY <2>1, RemovalStarts DEF Gather, tables
  <2>2. CASE ~bad
    BY <2>2, NoRemoval DEF Gather
  <2> QED
    BY <2>1, <2>2
<1> QED
  BY <1>1, <1>2, <1>3, <1>4, HubQuietInv DEF Gather, OthersTyped, world, tables

LEMMA GatheredStep ==
  ASSUME ValuesApart, ListenersInv, Gathered
  PROVE  ListenersInv'
<1> USE DEF Gathered
<1>1. OthersTyped
  BY TypeParts DEF ListenersInv
<1>2. RemovalReaches'
  BY SameRemoval DEF tables
<1> QED
  BY <1>1, <1>2, HubQuietInv DEF OthersTyped, Phases, world, tables

LEMMA DispatchedStep ==
  ASSUME ValuesApart, ListenersInv, Dispatched
  PROVE  ListenersInv'
<1> USE DEF Dispatched
<1>1. OthersTyped
  BY TypeParts DEF ListenersInv
<1>2. RemovalReaches'
  BY SameRemoval DEF tables
<1> QED
  BY <1>1, <1>2, HubQuietInv DEF OthersTyped, Phases, world, tables

LEMMA SwitchAwayStep ==
  ASSUME ValuesApart, ListenersInv, NEW t \in Threads, SwitchAway(t)
  PROVE  ListenersInv'
<1> USE DEF SwitchAway
<1>1. OthersTyped
  BY TypeParts DEF ListenersInv
<1>2. RemovalReaches'
  BY SameRemoval DEF tables, hubVars
<1> QED
  BY <1>1, <1>2, HubQuietInv DEF OthersTyped, world, tables, hubVars

LEMMA ConsumeStep ==
  ASSUME ValuesApart, ListenersInv, NEW t \in Threads, NEW e, NEW f \in Fds, Consume(t, e, f)
  PROVE  ListenersInv'
<1> USE DEF Consume
<1>1. OthersTyped
  BY TypeParts DEF ListenersInv
<1>2. RemovalReaches'
  BY SameRemoval DEF tables, hubVars
<1>3. ready' \in [Fds -> SUBSET Events]
  BY <1>1 DEF OthersTyped
<1> QED
  BY <1>1, <1>2, <1>3, HubQuietInv DEF OthersTyped, tables, hubVars

LEMMA ArriveStep ==
  ASSUME ValuesApart, ListenersInv, NEW e \in Events, NEW f \in Fds, Arrive(e, f)
  PROVE  ListenersInv'
<1> USE DEF Arrive
<1>1. OthersTyped
  BY TypeParts DEF ListenersInv
<1>2. RemovalReaches'
  BY SameRemoval DEF tables, hubVars
<1>3. ready' \in [Fds -> SUBSET Events]
  BY <1>1 DEF OthersTyped
<1> QED
  BY <1>1, <1>2, <1>3, HubQuietInv DEF OthersTyped, tables, hubVars

LEMMA FrontKeeps ==
  ASSUME NEW q \in Seq(Listener), q # <<>>
  PROVE  /\ Last(q) \in Listener /\ Front(q) \in Seq(Listener)
         /\ \A x : Contains(q, x) /\ x # Last(q) => Contains(Front(q), x)
<1>1. Len(q) \in Nat /\ Len(q) >= 1 /\ \A i \in 1..Len(q) : q[i] \in Listener
  BY ElementOfSeq
<1>2. Last(q) \in Listener
  BY <1>1 DEF Last
<1>3. /\ Front(q) \in Seq(Listener) /\ Len(Front(q)) = Len(q) - 1
      /\ \A i \in 1..Len(q) - 1 : Front(q)[i] = q[i]
  <2> DEFINE n == Len(q) - 1
             s == SubSeq(q, 1, n)
  <2>1. n \in Nat /\ \A i \in 1..n : q[i] \in Listener
    BY <1>1
  <2> HIDE DEF n
  <2>2. /\ s \in Seq(Listener)
        /\ Len(s) = IF 1 <= n THEN n - 1 + 1 ELSE 0
        /\ \A i \in 1..n - 1 + 1 : s[i] = q[1 + i - 1]
    BY <2>1, SubSeqProperties
  <2>3. Front(q) = s
    BY DEF Front, n
  <2> HIDE DEF s
  <2>4. /\ s \in Seq(Listener) /\ Len(s) = n
        /\ \A i \in 1..n : s[i] = q[i]
    BY <2>1, <2>2
  <2> QED
    BY <2>3, <2>4 DEF n
<1>4. ASSUME NEW x, Contains(q, x), x # Last(q)
      PROVE  Contains(Front(q), x)
  <2>1. PICK i \in 1..Len(q) : q[i] = x
    BY <1>4 DEF Contains
  <2>2. i \in 1..Len(q) - 1
    BY <1>1, <1>4, <2>1 DEF Last
  <2> QED
    BY <1>3, <2>1, <2>2 DEF Contains
<1> QED
  BY <1>2, <1>3, <1>4

LEMMA CloseOneStep ==
  ASSUME ValuesApart, ListenersInv, CloseOne
  PROVE  ListenersInv'
<1> DEFINE l == Last(closed)
<1>1. OthersTyped /\ AtTyped
  BY TypeParts DEF ListenersInv
<1>2. /\ l \in Listener /\ closed' = Front(closed) /\ closed' \in Seq(Listener)
      /\ \A x : Contains(closed, x) /\ x # l => Contains(closed', x)
  BY <1>1, FrontKeeps DEF CloseOne, OthersTyped
<1>3. l.th \in Threads
  BY <1>2, ListenerFields
<1>4. UNCHANGED <<backend, phase, result, callbacks, removing, cause, spent, files, opened, ready>>
  BY DEF CloseOne, hubVars, world
<1> HIDE DEF l
<1>5. CASE at[l.th] = Dead
  <2>1. UNCHANGED <<current, at, listeners, secondaries, interest>>
    BY <1>5 DEF CloseOne, l
  <2>2. \A u \in Threads : Waiting(u) /\ at[u] \in spent => Contains(closed', at[u])
    <3>1. ASSUME NEW u \in Threads, Waiting(u), at[u] \in spent
          PROVE  Contains(closed', at[u])
      <4>1. at[u].th = u /\ Contains(closed, at[u])
        BY <3>1, WaiterProperties
      <4>2. at[u] # l
        BY <1>5, <3>1, <4>1 DEF Waiting
      <4> QED
        BY <1>2, <4>1, <4>2
    <3> QED
      BY <3>1
  <2>3. OthersTyped' /\ AtTyped'
    BY <1>1, <1>2, <1>4, <2>1 DEF OthersTyped, AtTyped
  <2>4. TablesTyped' /\ KernelTold' /\ RemovalReaches' /\ RunnerIsAway'
    BY <1>4, <2>1, SameTables, SameRemoval DEF ListenersInv, RunnerIsAway
  <2>5. \A u \in Threads : /\ Waiting(u) => at'[u] = at[u]
                           /\ ~Waiting(u) => at'[u] \in {Away, Dead}
    BY <2>1 DEF Waiting
  <2>6. \A f \in Fds : files'[f] \in {0, files[f]}
    BY <1>4
  <2>7. \A u \in Threads : Waiting(u) => (at[u] \in spent' <=> at[u] \in spent)
    BY <1>4
  <2> QED
    BY <2>1, <2>2, <2>3, <2>4, <2>5, <2>6, <2>7, QuietInv
<1>6. CASE at[l.th] # Dead
  <2>1. Left(l.th)
    BY <1>3, <1>6, ResumeLeaves DEF CloseOne, l
  <2>2. RemovalReaches'
    BY <1>3, <1>4, <2>1, LeftRemovalReaches
  <2>3. \A u \in Threads \ {l.th} : Waiting(u) /\ Contains(closed, at[u]) => Contains(closed', at[u])
    BY <1>2, WaiterProperties
  <2>4. /\ UNCHANGED <<backend, spent, world>>
        /\ phase' \in Phases /\ callbacks' \subseteq Listener
        /\ result' \in [Fds -> SUBSET (Events \cup {"invalid"})]
        /\ cause' \in Fds \cup {None}
        /\ removing' \in [fd : Fds \cup {None}, todo : Seq(Listener)]
    BY <1>1, <1>4 DEF OthersTyped, world
  <2> QED
    BY <1>2, <1>3, <2>1, <2>2, <2>3, <2>4, LeftInv
<1> QED
  BY <1>5, <1>6

\* A thread gets control, and nothing else happens.
LEMMA ResumeInv ==
  ASSUME ValuesApart, ListenersInv, NEW t \in Threads, at[t] # Dead, Resume(t),
         UNCHANGED <<backend, phase, removing, spent, closed, world>>,
         result' \in [Fds -> SUBSET (Events \cup {"invalid"})],
         callbacks' \subseteq Listener, cause' \in Fds \cup {None}
  PROVE  ListenersInv'
<1>1. OthersTyped
  BY TypeParts DEF ListenersInv
<1>2. Left(t)
  BY ResumeLeaves
<1>3. RemovalReaches'
  BY <1>2, LeftRemovalReaches
<1> QED
  BY <1>1, <1>2, <1>3, LeftInv DEF OthersTyped

LEMMA TimerFiresStep ==
  ASSUME ValuesApart, ListenersInv, NEW t \in Threads, TimerFires(t)
  PROVE  ListenersInv'
<1>1. OthersTyped
  BY TypeParts DEF ListenersInv
<1> QED
  BY <1>1, ResumeInv DEF TimerFires, hubVars, OthersTyped

LEMMA ThrowStep ==
  ASSUME ValuesApart, ListenersInv, NEW t \in Threads, NEW u \in Threads, Throw(t, u)
  PROVE  ListenersInv'
<1>1. OthersTyped
  BY TypeParts DEF ListenersInv
<1> QED
  BY <1>1, ResumeInv DEF Throw, hubVars, OthersTyped

LEMMA DispatchStep ==
  ASSUME ValuesApart, ListenersInv, NEW l, Dispatch(l)
  PROVE  ListenersInv'
<1>1. OthersTyped
  BY TypeParts DEF ListenersInv
<1>2. l \in Listener /\ l.th \in Threads /\ l.fd \in Fds
  BY <1>1, ListenerFields DEF Dispatch, OthersTyped
<1>3. /\ callbacks' \subseteq Listener /\ cause' \in Fds \cup {None}
      /\ result' \in [Fds -> SUBSET (Events \cup {"invalid"})]
  BY <1>1, <1>2 DEF Dispatch, OthersTyped
<1>4. UNCHANGED <<backend, phase, result, removing, spent, closed, world>>
  BY DEF Dispatch
<1>5. CASE l \in spent \/ at[l.th] = Dead
  <2>1. UNCHANGED <<current, at, listeners, secondaries, interest>>
    BY <1>5 DEF Dispatch, Call
  <2>2. RemovalReaches'
    BY <1>4, <2>1, SameRemoval
  <2> QED
    BY <1>1, <1>3, <1>4, <2>1, <2>2, HubQuietInv DEF OthersTyped, world
<1>6. CASE ~(l \in spent \/ at[l.th] = Dead)
  <2>1. Resume(l.th) /\ at[l.th] # Dead
    BY <1>6 DEF Dispatch, Call
  <2> QED
    BY <1>2, <1>3, <1>4, <2>1, ResumeInv
<1> QED
  BY <1>5, <1>6

LEMMA LookUpStep ==
  ASSUME ValuesApart, ListenersInv, NEW e \in Events, NEW f \in Fds, LookUp(e, f)
  PROVE  ListenersInv'
<1> DEFINE l == listeners[e][f]
<1>1. OthersTyped /\ TablesTyped
  BY TypeParts DEF ListenersInv
<1>2. /\ callbacks' \subseteq Listener /\ cause' \in Fds \cup {None}
      /\ result' \in [Fds -> SUBSET (Events \cup {"invalid"})]
      /\ UNCHANGED <<backend, phase, removing, spent, closed, world>>
  BY <1>1 DEF LookUp, OthersTyped
<1>3. CASE l = None \/ l \in spent \/ at[l.th] = Dead
  <2>1. UNCHANGED <<current, at, listeners, secondaries, interest>>
    BY <1>3 DEF LookUp, Call
  <2>2. RemovalReaches'
    BY <1>2, <2>1, SameRemoval
  <2> QED
    BY <1>1, <1>2, <2>1, <2>2, HubQuietInv DEF OthersTyped, world
<1>4. CASE ~(l = None \/ l \in spent \/ at[l.th] = Dead)
  <2>1. l \in Listener
    BY <1>1, <1>4 DEF TablesTyped
  <2>2. l.th \in Threads
    BY <2>1, ListenerFields
  <2>3. Resume(l.th) /\ at[l.th] # Dead
    BY <1>4 DEF LookUp, Call
  <2> QED
    BY <1>2, <2>2, <2>3, ResumeInv
<1> QED
  BY <1>3, <1>4

LEMMA TailKeeps ==
  ASSUME NEW q \in Seq(Listener), q # <<>>
  PROVE  /\ Head(q) \in Listener /\ Tail(q) \in Seq(Listener)
         /\ \A x : x \in ToSet(q) /\ x # Head(q) => x \in ToSet(Tail(q))
<1>1. /\ Head(q) \in Listener /\ Head(q) = q[1] /\ Tail(q) \in Seq(Listener) /\ Len(q) \in Nat
      /\ Len(Tail(q)) = Len(q) - 1
      /\ \A i \in 1..Len(Tail(q)) : Tail(q)[i] = q[i + 1]
  BY HeadTailProperties
<1>2. DOMAIN q = 1..Len(q) /\ DOMAIN Tail(q) = 1..Len(q) - 1
  BY <1>1
<1>3. ASSUME NEW x \in ToSet(q), x # Head(q)
      PROVE  x \in ToSet(Tail(q))
  <2>1. PICK i \in 1..Len(q) : q[i] = x
    BY <1>2 DEF ToSet
  <2>2. i - 1 \in 1..Len(q) - 1 /\ (i - 1) + 1 = i
    BY <1>1, <1>3, <2>1
  <2>3. Tail(q)[i - 1] = x
    BY <1>1, <2>1, <2>2
  <2> QED
    BY <1>2, <2>2, <2>3 DEF ToSet
<1> QED
  BY <1>1, <1>3

LEMMA RemoveCallsStep ==
  ASSUME ValuesApart, ListenersInv, RemoveCalls
  PROVE  ListenersInv'
<1> DEFINE l == Head(removing.todo)
<1>1. OthersTyped
  BY TypeParts DEF ListenersInv
<1>2. removing.todo \in Seq(Listener) /\ removing.todo # <<>> /\ removing.fd \in Fds \cup {None}
  BY <1>1 DEF OthersTyped, RemoveCalls
<1>3. /\ l \in Listener /\ Tail(removing.todo) \in Seq(Listener)
      /\ \A x : x \in ToSet(removing.todo) /\ x # l => x \in ToSet(Tail(removing.todo))
  BY <1>2, TailKeeps
<1>4. /\ removing'.fd = removing.fd /\ removing'.todo = Tail(removing.todo)
      /\ removing' \in [fd : Fds \cup {None}, todo : Seq(Listener)]
  BY <1>1, <1>3 DEF RemoveCalls, OthersTyped
<1>5. UNCHANGED <<backend, phase, result, callbacks, cause, spent, closed, world>> /\ Call(l)
  BY DEF RemoveCalls
<1>6. l.th \in Threads
  BY <1>3, ListenerFields
<1> HIDE DEF l
<1>7. ASSUME \A e \in Events, f \in Fds : SideOf(e, f)' \subseteq SideOf(e, f) /\ l \notin SideOf(e, f)'
      PROVE  RemovalReaches'
  <2>1. ASSUME removing.fd # None, NEW e \in Events
        PROVE  SideOf(e, removing.fd)' \subseteq ToSet(removing'.todo)
    <3>1. removing.fd \in Fds
      BY <1>2, <2>1
    <3>2. SideOf(e, removing.fd) \subseteq ToSet(removing.todo)
      BY <2>1 DEF ListenersInv, RemovalReaches
    <3>3. ASSUME NEW f \in Fds, f = removing.fd
          PROVE  SideOf(e, f)' \subseteq ToSet(removing'.todo)
      BY <1>3, <1>4, <1>7, <3>2, <3>3
    <3> QED
      BY <1>4, <3>1, <3>3 DEF SideOf
  <2> QED
    BY <1>4, <2>1 DEF RemovalReaches
<1>8. CASE l \in spent \/ at[l.th] = Dead
  <2>1. UNCHANGED <<current, at, listeners, secondaries, interest>>
    BY <1>5, <1>8 DEF Call
  <2>2. ASSUME NEW e \in Events, NEW f \in Fds
        PROVE  SideOf(e, f)' \subseteq SideOf(e, f) /\ l \notin SideOf(e, f)'
    <3>1. SideOf(e, f)' = SideOf(e, f)
      BY <2>1 DEF SideOf
    <3>2. l \notin SideOf(e, f)
      BY <1>3, <1>8, EntriesAreListeners DEF ValuesApart
    <3> QED
      BY <3>1, <3>2
  <2>3. RemovalReaches'
    BY <1>7, <2>2
  <2> QED
    BY <1>1, <1>4, <1>5, <2>1, <2>3, HubQuietInv DEF OthersTyped, world
<1>9. CASE ~(l \in spent \/ at[l.th] = Dead)
  <2>1. Resume(l.th) /\ at[l.th] # Dead
    BY <1>5, <1>9 DEF Call
  <2>2. Left(l.th)
    BY <1>6, <2>1, ResumeLeaves
  <2>3. ASSUME NEW e \in Events, NEW f \in Fds
        PROVE  SideOf(e, f)' \subseteq SideOf(e, f) /\ l \notin SideOf(e, f)'
    <3>1. SideOf(e, f)' = SideOf(e, f) \ {at[l.th]}
      BY <2>2 DEF Left, Gone
    <3>2. l \in SideOf(e, f) => at[l.th] = l
      BY EntriesAreListeners
    <3> QED
      BY <3>1, <3>2
  <2>4. RemovalReaches'
    BY <1>7, <2>3
  <2> QED
    BY <1>1, <1>4, <1>5, <1>6, <2>2, <2>4, LeftInv DEF OthersTyped
<1> QED
  BY <1>8, <1>9

LEMMA RemoveEndsStep ==
  ASSUME ValuesApart, ListenersInv, RemoveEnds
  PROVE  ListenersInv'
<1> DEFINE f == removing.fd
<1>1. OthersTyped /\ AtTyped /\ TablesTyped
  BY TypeParts DEF ListenersInv
<1>2. f \in Fds /\ removing.todo = <<>>
  BY <1>1 DEF RemoveEnds, OthersTyped, Idle
<1>3. f # None
  BY <1>2 DEF ValuesApart
<1>4. SetTables(Cleared(f))
  BY DEF RemoveEnds
<1>5. UNCHANGED <<backend, current, at, phase, result, callbacks, cause, spent, closed, files, opened, ready>>
  BY DEF RemoveEnds, world
<1>6. \A e \in Events : listeners[e][f] = None /\ secondaries[e][f] = <<>>
  <2>1. ToSet(<<>>) = {}
    BY EmptySide DEF Side
  <2>2. \A e \in Events : SideOf(e, f) = {}
    BY <1>2, <1>3, <2>1 DEF ListenersInv, RemovalReaches
  <2>3. \A e \in Events : listeners[e][f] = None
    BY <1>1, <1>2, <2>2, SideTyped DEF ListenersInv
  <2> QED
    BY <1>2, <2>3 DEF ListenersInv, LinesKept, InLine
<1> HIDE DEF f
<1>7. listeners' = listeners
  BY <1>1, <1>2, <1>4, <1>6 DEF SetTables, Cleared, TablesTyped
<1>8. secondaries' = secondaries
  BY <1>1, <1>2, <1>4, <1>6 DEF SetTables, Cleared, TablesTyped
<1>9. TablesTyped' /\ KernelTold'
  <2>1. /\ TablesTyped'
        /\ \A g \in Fds : g = f \/ files[g] # 0 =>
              interest'[g] = {e \in Events : listeners'[e][g] # None}
    BY <1>2, <1>4, ClearedEmpty
  <2> QED
    BY <1>5, <2>1 DEF KernelTold
<1>10. /\ removing' \in [fd : Fds \cup {None}, todo : Seq(Listener)]
       /\ RemovalReaches'
  BY NoRemoval DEF RemoveEnds
<1>11. OthersTyped' /\ AtTyped' /\ RunnerIsAway'
  BY <1>1, <1>5, <1>10 DEF OthersTyped, AtTyped, ListenersInv, RunnerIsAway
<1>12. \A u \in Threads : /\ Waiting(u) => at'[u] = at[u]
                          /\ ~Waiting(u) => at'[u] \in {Away, Dead}
  BY <1>5 DEF Waiting
<1>13. /\ \A u \in Threads : Waiting(u) /\ at[u] \in spent => Contains(closed', at[u])
       /\ \A u \in Threads : Waiting(u) => (at[u] \in spent' <=> at[u] \in spent)
       /\ \A g \in Fds : files'[g] \in {0, files[g]}
  BY <1>5, WaiterProperties
<1> QED
  BY <1>7, <1>8, <1>9, <1>10, <1>11, <1>12, <1>13, QuietInv

LEMMA TrampolineStep ==
  ASSUME ValuesApart, ~Readding, ListenersInv, NEW t \in Threads, NEW e \in Events, NEW f \in Fds,
         Trampoline(t, e, f)
  PROVE  ListenersInv'
<1>1. OthersTyped /\ AtTyped
  BY TypeParts DEF ListenersInv
<1>2. PICK n \in 1..MaxSerial :
        Joins([th |-> t, ev |-> e, fd |-> f, file |-> files[f], n |-> n])
  BY DEF Trampoline
<1> DEFINE l == [th |-> t, ev |-> e, fd |-> f, file |-> files[f], n |-> n]
<1>3. l \notin Referenced /\ SetTables(Added(l)) /\ at' = [at EXCEPT ![t] = l] /\ spent' = spent \ {l}
  BY <1>2 DEF Joins
<1>4. /\ l \in Listener
      /\ l.th = t /\ l.ev = e /\ l.fd = f /\ l.file = files[f]
  BY <1>1 DEF Trampoline, OthersTyped, Listener, Files
<1> HIDE DEF l
<1>5. /\ current = t /\ current' = Hub /\ at[t] = Away /\ removing.fd # f
      /\ UNCHANGED <<backend, phase, result, callbacks, removing, cause, closed, files, opened, ready>>
  BY DEF Trampoline, hubVars, world, ListenersInv, RunnerIsAway
<1>6. l \notin SideOf(e, f)
  <2>1. l \in SideOf(e, f) => at[t] = l
    BY <1>4, EntriesAreListeners
  <2> QED
    BY <1>4, <1>5, <2>1 DEF ValuesApart
<1>7. /\ TablesTyped' /\ LinesKept' /\ KernelFollows
      /\ SideOf(e, f)' = SideOf(e, f) \cup {l}
      /\ \A d \in Events, g \in Fds : <<d, g>> # <<e, f>> => SideOf(d, g)' = SideOf(d, g)
  BY <1>3, <1>4, <1>6, AddedJoins
<1>8. at \in [Threads -> {Away, Dead} \cup Listener]
  BY <1>1 DEF AtTyped
<1>9. OthersTyped' /\ AtTyped'
  <2>1. AtTyped'
    BY <1>3, <1>4, <1>5, <1>8 DEF AtTyped
  <2> QED
    BY <1>1, <1>3, <1>5, <2>1 DEF OthersTyped
<1>10. EntriesWait'
  <2>1. ASSUME NEW d \in Events, NEW g \in Fds, NEW m \in SideOf(d, g)'
        PROVE  m.ev = d /\ m.fd = g /\ at'[m.th] = m /\ m \notin spent' /\ files'[g] \in {0, m.file}
    <3>1. CASE m \in SideOf(d, g)
      <4>1. /\ m \in Listener /\ m.ev = d /\ m.fd = g /\ m.th \in Threads /\ at[m.th] = m
            /\ m \notin spent /\ files[g] \in {0, m.file}
        BY <3>1, EntriesAreListeners
      <4>2. m.th # t
        BY <1>5, <4>1 DEF ValuesApart
      <4> QED
        BY <1>3, <1>5, <1>8, <4>1, <4>2
    <3>2. CASE m \notin SideOf(d, g)
      <4>1. <<d, g>> = <<e, f>> /\ m = l
        BY <1>7, <2>1, <3>2
      <4>2. d = e /\ g = f
        BY <4>1
      <4> QED
        BY <1>3, <1>4, <1>5, <1>8, <4>1, <4>2
    <3> QED
      BY <3>1, <3>2
  <2> QED
    BY <2>1 DEF EntriesWait
<1>11. WaitersListed'
  <2>1. ASSUME NEW u \in Threads, Waiting(u)'
        PROVE  (/\ at[u].th = u
                /\ at[u] \notin spent => at[u] \in SideOf(at[u].ev, at[u].fd)
                /\ at[u] \in spent => Contains(closed, at[u]))'
    <3>1. CASE u = t
      <4>1. at'[u] = l /\ l.th = u /\ l \notin spent'
        BY <1>3, <1>4, <1>8, <3>1
      <4>2. l \in SideOf(at[u].ev, at[u].fd)'
        BY <1>4, <1>7, <4>1
      <4> QED
        BY <4>1, <4>2
    <3>2. CASE u # t
      <4>1. at'[u] = at[u] /\ Waiting(u)
        BY <1>3, <1>8, <2>1, <3>2 DEF Waiting
      <4>2. /\ at[u].th = u /\ at[u].ev \in Events /\ at[u].fd \in Fds
            /\ at[u] \notin spent => at[u] \in SideOf(at[u].ev, at[u].fd)
            /\ at[u] \in spent => Contains(closed, at[u])
        BY <4>1, WaiterProperties
      <4>3. at[u] \in spent' <=> at[u] \in spent
        BY <1>3, <1>4, <3>2, <4>2
      <4>4. SideOf(at[u].ev, at[u].fd) \subseteq SideOf(at[u].ev, at[u].fd)'
        BY <1>7, <4>1, <4>2
      <4> QED
        BY <1>5, <4>1, <4>2, <4>3, <4>4
    <3> QED
      BY <3>1, <3>2
  <2> QED
    BY <2>1 DEF WaitersListed
<1>12. KernelTold'
  BY <1>5, <1>7 DEF KernelFollows, KernelTold
<1>13. RemovalReaches'
  <2>1. ASSUME removing.fd # None, NEW d \in Events
        PROVE  SideOf(d, removing.fd)' \subseteq ToSet(removing'.todo)
    <3>1. removing.fd \in Fds /\ SideOf(d, removing.fd) \subseteq ToSet(removing.todo)
      BY <1>1, <2>1 DEF OthersTyped, ListenersInv, RemovalReaches
    <3>2. ASSUME NEW g \in Fds, g = removing.fd
          PROVE  SideOf(d, g)' = SideOf(d, g)
      BY <1>5, <1>7, <3>2
    <3> QED
      BY <1>5, <3>1, <3>2 DEF SideOf
  <2> QED
    BY <1>5, <2>1 DEF RemovalReaches
<1>14. RunnerIsAway'
  BY <1>5 DEF RunnerIsAway, ValuesApart
<1> QED
  BY <1>7, <1>9, <1>10, <1>11, <1>12, <1>13, <1>14, TypeParts
     DEF ListenersInv, TypeOK, OthersTyped, AtTyped, TablesTyped

\* A thread that runs ends.
LEMMA DeadInv ==
  ASSUME ValuesApart, ListenersInv, NEW t \in Threads, current = t, current' = Hub,
         at' = [at EXCEPT ![t] = Dead],
         UNCHANGED <<backend, phase, result, callbacks, cause, tables, world>>,
         removing' \in [fd : Fds \cup {None}, todo : Seq(Listener)],
         RemovalReaches'
  PROVE  ListenersInv'
<1>1. OthersTyped /\ AtTyped /\ at[t] = Away
  BY TypeParts DEF ListenersInv, RunnerIsAway
<1>2. OthersTyped' /\ AtTyped'
  BY <1>1 DEF OthersTyped, AtTyped, tables, world
<1>3. TablesTyped' /\ KernelTold'
  BY SameTables DEF tables, world
<1>4. \A u \in Threads : /\ Waiting(u) => at'[u] = at[u]
                         /\ ~Waiting(u) => at'[u] \in {Away, Dead}
  BY <1>1 DEF AtTyped, Waiting
<1>5. /\ \A u \in Threads : Waiting(u) /\ at[u] \in spent => Contains(closed', at[u])
      /\ \A u \in Threads : Waiting(u) => (at[u] \in spent' <=> at[u] \in spent)
      /\ \A f \in Fds : files'[f] \in {0, files[f]}
  BY WaiterProperties DEF tables, world
<1>6. RunnerIsAway'
  BY DEF RunnerIsAway, ValuesApart
<1> QED
  BY <1>2, <1>3, <1>4, <1>5, <1>6, QuietInv DEF tables

LEMMA ExitStep ==
  ASSUME ValuesApart, ListenersInv, NEW t \in Threads, Exit(t)
  PROVE  ListenersInv'
<1>1. OthersTyped
  BY TypeParts DEF ListenersInv
<1>2. RemovalReaches'
  BY SameRemoval DEF Exit, tables, hubVars
<1> QED
  BY <1>1, <1>2, DeadInv DEF Exit, hubVars, OthersTyped

LEMMA ExitRaisingStep ==
  ASSUME ValuesApart, ListenersInv, NEW t \in Threads, ExitRaising(t)
  PROVE  ListenersInv'
<1>1. cause \in Fds
  BY TypeParts DEF ListenersInv, OthersTyped, ExitRaising
<1>2. /\ removing' \in [fd : Fds \cup {None}, todo : Seq(Listener)]
      /\ RemovalReaches'
  BY <1>1, RemovalStarts DEF ExitRaising, tables
<1> QED
  BY <1>2, DeadInv DEF ExitRaising

LEMMA CloseStep ==
  ASSUME ValuesApart, ListenersInv, NEW t \in Threads, NEW f \in Fds, Close(t, f)
  PROVE  ListenersInv'
<1>1. OthersTyped /\ AtTyped /\ TablesTyped
  BY TypeParts DEF ListenersInv
<1>2. /\ files' = [files EXCEPT ![f] = 0] /\ ready' = [ready EXCEPT ![f] = {}]
      /\ UNCHANGED <<backend, current, at, phase, result, callbacks, removing, cause,
                     listeners, secondaries, spent, closed, opened>>
  BY DEF Close, hubVars
<1>3. interest' \in [Fds -> SUBSET Events] /\ \A g \in Fds \ {f} : interest'[g] = interest[g]
  BY <1>1 DEF Close, TablesTyped
<1>4. OthersTyped' /\ AtTyped' /\ TablesTyped'
  <2>1. files' \in [Fds -> 0..MaxFiles] /\ ready' \in [Fds -> SUBSET Events]
    BY <1>1, <1>2 DEF OthersTyped, ValuesApart
  <2> QED
    BY <1>1, <1>2, <1>3, <2>1 DEF OthersTyped, AtTyped, TablesTyped
<1>5. \A g \in Fds : files'[g] \in {0, files[g]} /\ (files'[g] # 0 => g # f /\ files[g] # 0)
  BY <1>1, <1>2 DEF OthersTyped
<1>6. KernelTold'
  BY <1>2, <1>3, <1>5 DEF ListenersInv, KernelTold
<1>7. RemovalReaches' /\ RunnerIsAway'
  BY <1>2, SameRemoval DEF ListenersInv, RunnerIsAway
<1>8. \A u \in Threads : /\ Waiting(u) => at'[u] = at[u]
                         /\ ~Waiting(u) => at'[u] \in {Away, Dead}
  BY <1>2 DEF Waiting
<1>9. /\ \A u \in Threads : Waiting(u) /\ at[u] \in spent => Contains(closed', at[u])
      /\ \A u \in Threads : Waiting(u) => (at[u] \in spent' <=> at[u] \in spent)
  BY <1>2, WaiterProperties
<1> QED
  BY <1>2, <1>4, <1>5, <1>6, <1>7, <1>8, <1>9, QuietInv

LEMMA OpenStep ==
  ASSUME ValuesApart, ListenersInv, NEW t \in Threads, NEW f \in Fds, Open(t, f)
  PROVE  ListenersInv'
<1> DEFINE told == (secondaries["read"][f] \o secondaries["write"][f])
                     \o (First("read", f) \o First("write", f))
<1>1. OthersTyped /\ AtTyped
  BY TypeParts DEF ListenersInv
<1>2. /\ told \in Seq(Listener)
      /\ \A e \in Events : SideOf(e, f) \subseteq ToSet(told)
      /\ ToSet(told) \subseteq UNION {SideOf(e, f) : e \in Events}
  BY ListenersOfSides
<1>3. /\ closed' = closed \o told /\ spent' = spent \cup ToSet(told)
      /\ SetTables(Cleared(f))
  BY DEF Open, Obsolete
<1> HIDE DEF told
<1>4. /\ files[f] = 0 /\ files' = [files EXCEPT ![f] = opened + 1]
      /\ opened' = opened + 1 /\ opened < MaxFiles
      /\ UNCHANGED <<backend, current, at, phase, result, callbacks, removing, cause, ready>>
  BY DEF Open, hubVars
<1>5. /\ TablesTyped' /\ LinesKept'
      /\ \A g \in Fds : g = f \/ files[g] # 0 =>
            interest'[g] = {e \in Events : listeners'[e][g] # None}
      /\ \A e \in Events : SideOf(e, f)' = {}
      /\ \A e \in Events, g \in Fds : g # f => SideOf(e, g)' = SideOf(e, g)
  BY <1>3, ClearedEmpty
<1>6. /\ closed' \in Seq(Listener)
      /\ \A x : Contains(closed, x) \/ x \in ToSet(told) => Contains(closed', x)
  <2>1. /\ closed' \in Seq(Listener) /\ ToSet(closed') = ToSet(closed) \cup ToSet(told)
    BY <1>1, <1>2, <1>3, ElementsOfConcat DEF OthersTyped
  <2>2. \A x : x \in ToSet(closed') => Contains(closed', x)
    BY <2>1, ElementsOfQueue
  <2>3. \A x : Contains(closed, x) => x \in ToSet(closed)
    BY <1>1 DEF OthersTyped, Contains, ToSet
  <2> QED
    BY <2>1, <2>2, <2>3
<1>7. ToSet(told) \subseteq Listener
  BY <1>2, ElementsOfQueue
<1>8. \A g \in Fds : g # f => files'[g] = files[g]
  BY <1>1, <1>4 DEF OthersTyped
<1>9. TypeOK'
  <2>1. opened' \in 0..MaxFiles /\ files' \in [Fds -> 0..MaxFiles]
    <3>1. opened + 1 \in 0..MaxFiles
      BY <1>1, <1>4 DEF OthersTyped, ValuesApart
    <3> QED
      BY <1>1, <1>4, <3>1 DEF OthersTyped
  <2>2. OthersTyped' /\ AtTyped'
    BY <1>1, <1>3, <1>4, <1>6, <1>7, <2>1 DEF OthersTyped, AtTyped
  <2> QED
    BY <1>5, <2>2, TypeParts DEF TypeOK, OthersTyped, AtTyped, TablesTyped
<1>10. EntriesWait'
  <2>1. ASSUME NEW e \in Events, NEW g \in Fds, NEW l \in SideOf(e, g)'
        PROVE  l.ev = e /\ l.fd = g /\ at'[l.th] = l /\ l \notin spent' /\ files'[g] \in {0, l.file}
    <3>1. g # f /\ l \in SideOf(e, g)
      BY <1>5, <2>1
    <3>2. /\ l.ev = e /\ l.fd = g /\ at[l.th] = l
          /\ l \notin spent /\ files[g] \in {0, l.file}
      BY <3>1, EntriesAreListeners
    <3>3. l \notin ToSet(told)
      <4>1. ASSUME l \in ToSet(told) PROVE FALSE
        <5>1. PICK d \in Events : l \in SideOf(d, f)
          BY <1>2, <4>1
        <5>2. l.fd = f
          BY <5>1, EntriesAreListeners
        <5> QED
          BY <3>1, <3>2, <5>2
      <4> QED
        BY <4>1
    <3> QED
      BY <1>3, <1>4, <1>8, <3>1, <3>2, <3>3
  <2> QED
    BY <2>1 DEF EntriesWait
<1>11. WaitersListed'
  <2>1. ASSUME NEW u \in Threads, Waiting(u)'
        PROVE  (/\ at[u].th = u
                /\ at[u] \notin spent => at[u] \in SideOf(at[u].ev, at[u].fd)
                /\ at[u] \in spent => Contains(closed, at[u]))'
    <3>1. at'[u] = at[u] /\ Waiting(u)
      BY <1>4, <2>1 DEF Waiting
    <3>2. /\ at[u].th = u /\ at[u].ev \in Events /\ at[u].fd \in Fds
          /\ at[u] \notin spent => at[u] \in SideOf(at[u].ev, at[u].fd)
          /\ at[u] \in spent => Contains(closed, at[u])
      BY <3>1, WaiterProperties
    <3>3. at[u] \in spent' => Contains(closed', at[u])
      BY <1>3, <1>6, <3>2
    <3>4. ASSUME at[u] \notin spent' PROVE at[u] \in SideOf(at[u].ev, at[u].fd)'
      <4>1. at[u] \in SideOf(at[u].ev, at[u].fd) /\ at[u] \notin ToSet(told)
        BY <1>3, <3>2, <3>4
      <4>2. at[u].fd # f
        BY <1>2, <3>2, <4>1
      <4>3. SideOf(at[u].ev, at[u].fd)' = SideOf(at[u].ev, at[u].fd)
        BY <1>5, <3>1, <3>2, <4>2
      <4> QED
        BY <4>1, <4>3
    <3> QED
      BY <3>1, <3>2, <3>3, <3>4
  <2> QED
    BY <2>1 DEF WaitersListed
<1>12. KernelTold'
  BY <1>5, <1>8 DEF KernelTold
<1>13. RemovalReaches'
  <2>1. ASSUME removing.fd # None, NEW e \in Events
        PROVE  SideOf(e, removing.fd)' \subseteq ToSet(removing'.todo)
    <3>1. removing.fd \in Fds /\ SideOf(e, removing.fd) \subseteq ToSet(removing.todo)
      BY <1>1, <2>1 DEF OthersTyped, ListenersInv, RemovalReaches
    <3>2. ASSUME NEW g \in Fds, g = removing.fd
          PROVE  SideOf(e, g)' \subseteq SideOf(e, g)
      BY <1>5, <3>2
    <3> QED
      BY <1>4, <3>1, <3>2 DEF SideOf
  <2> QED
    BY <1>4, <2>1 DEF RemovalReaches
<1>14. RunnerIsAway'
  BY <1>4 DEF ListenersInv, RunnerIsAway
<1> QED
  BY <1>5, <1>9, <1>10, <1>11, <1>12, <1>13, <1>14 DEF ListenersInv

-----------------------------------------------------------------------------
(* The properties *)

LEMMA ListenersInvStep ==
  ASSUME ValuesApart, Wanted \subseteq Events, ~Readding, ListenersInv, [Next]_vars
  PROVE  ListenersInv'
<1>1. CASE HubStep
  BY <1>1, CloseOneStep, NoneClosedStep, PollStep, GatheredStep, DispatchedStep, RemoveCallsStep,
     RemoveEndsStep, GatherStep, DispatchStep, LookUpStep DEF HubStep
<1>2. CASE TimersDone
  BY <1>2, TimersDoneStep
<1>3. CASE \E t \in Threads : TimerFires(t) \/ Yields(t) \/ ExitRaising(t)
  BY <1>3, TimerFiresStep, SwitchAwayStep, ExitStep, ExitRaisingStep DEF Yields
<1>4. CASE \E t, u \in Threads : Throw(t, u)
  BY <1>4, ThrowStep
<1>5. CASE \E t \in Threads, f \in Fds : Close(t, f) \/ Open(t, f)
  BY <1>5, CloseStep, OpenStep
<1>6. CASE \E t \in Threads, e \in Wanted, f \in Fds : Trampoline(t, e, f) \/ Consume(t, e, f)
  BY <1>6, TrampolineStep, ConsumeStep
<1>7. CASE \E e \in Wanted, f \in Fds : Arrive(e, f)
  BY <1>7, ArriveStep
<1>8. CASE UNCHANGED vars
  <2>1. OthersTyped
    BY TypeParts DEF ListenersInv
  <2>2. RemovalReaches'
    BY <1>8, SameRemoval DEF vars, tables, hubVars
  <2> QED
    BY <1>8, <2>1, <2>2, HubQuietInv DEF OthersTyped, vars, tables, hubVars, world
<1> QED
  BY <1>1, <1>2, <1>3, <1>4, <1>5, <1>6, <1>7, <1>8 DEF Next

\* The tables hold exactly who waits and was not told, the kernel was told what
\* they wait for, and none of them waits for an older file than the one there.
LEMMA ListenersInvExact ==
  ASSUME ValuesApart, ListenersInv
  PROVE  WaitersKnown /\ MaskExact /\ NoneOutlivesItsFile
<1> DEFINE InTables == {l \in Listener : l \in SideOf(l.ev, l.fd)}
<1>1. Primaries \cup Queued = InTables
  <2>1. ASSUME NEW l \in Primaries \cup Queued PROVE l \in InTables
    <3>1. \E e \in Events, f \in Fds : l \in SideOf(e, f)
      BY <2>1 DEF Primaries, Queued, SideOf, Side
    <3> QED
      BY <3>1, EntriesAreListeners
  <2>2. ASSUME NEW l \in InTables PROVE l \in Primaries \cup Queued
    <3>1. l.ev \in Events /\ l.fd \in Fds /\ l \in SideOf(l.ev, l.fd)
      BY <2>2, ListenerFields
    <3> QED
      BY <3>1 DEF Primaries, Queued, SideOf, Side
  <2> QED
    BY <2>1, <2>2
<1> HIDE DEF InTables
<1>2. InTables = {at[t] : t \in {u \in Threads : Waiting(u)}} \ spent
  <2>1. ASSUME NEW l \in InTables
        PROVE  l \in {at[t] : t \in {u \in Threads : Waiting(u)}} \ spent
    <3>1. l \in Listener /\ l.ev \in Events /\ l.fd \in Fds /\ l \in SideOf(l.ev, l.fd)
      BY <2>1, ListenerFields DEF InTables
    <3>2. l.th \in Threads /\ at[l.th] = l /\ l \notin spent
      BY <3>1, EntriesAreListeners
    <3>3. Waiting(l.th)
      BY <3>1, <3>2 DEF Waiting, ValuesApart
    <3> QED
      BY <3>2, <3>3
  <2>2. ASSUME NEW t \in Threads, Waiting(t), at[t] \notin spent
        PROVE  at[t] \in InTables
    BY <2>2, WaiterProperties DEF InTables
  <2> QED
    BY <2>1, <2>2
<1>3. WaitersKnown
  <2>1. \A t \in Threads : Waiting(t) /\ at[t] \in spent => Contains(closed, at[t])
    BY WaiterProperties
  <2> QED
    BY <1>1, <1>2, <2>1 DEF WaitersKnown
<1>4. MaskExact
  <2>1. ASSUME NEW f \in Fds, files[f] # 0, NEW e \in Events
        PROVE  listeners[e][f] # None <=> \E t \in Threads : WaitsFor(t, e, f)
    <3>1. listeners[e][f] # None <=> SideOf(e, f) # {}
      BY SideTyped, TypeParts DEF ListenersInv
    <3>2. ASSUME NEW l \in SideOf(e, f) PROVE WaitsFor(l.th, e, f) /\ l.th \in Threads
      BY <3>2, EntriesAreListeners DEF WaitsFor, Waiting, ValuesApart
    <3>3. ASSUME NEW t \in Threads, WaitsFor(t, e, f) PROVE at[t] \in SideOf(e, f)
      BY <3>3, WaiterProperties DEF WaitsFor
    <3> QED
      BY <3>1, <3>2, <3>3
  <2>2. ASSUME NEW f \in Fds, files[f] # 0
        PROVE  interest[f] = {e \in Events : \E t \in Threads : WaitsFor(t, e, f)}
    <3>1. interest[f] = {e \in Events : listeners[e][f] # None}
      BY <2>2 DEF ListenersInv, KernelTold
    <3> QED
      BY <2>1, <2>2, <3>1
  <2> QED
    BY <2>2 DEF MaskExact
<1>5. NoneOutlivesItsFile
  <2>1. ASSUME NEW l \in InTables PROVE files[l.fd] \in {0, l.file}
    BY <2>1, ListenerFields, EntriesAreListeners DEF InTables
  <2> QED
    BY <1>1, <2>1 DEF NoneOutlivesItsFile
<1> QED
  BY <1>3, <1>4, <1>5

\* The invariant the properties rest on holds in every reachable state.
THEOREM ListenersInvariant ==
  ASSUME ValuesApart, Wanted \subseteq Events, ~Readding
  PROVE  Spec => []ListenersInv
<1>1. Init => ListenersInv
  BY ListenersInvInit
<1>2. ListenersInv /\ [Next]_vars => ListenersInv'
  BY ListenersInvStep
<1> QED
  BY <1>1, <1>2, PTL DEF Spec

\* hub.py:153-274, poll.py:26-118, for any threads, numbers and kind of hub: a thread in
\* trampoline() is in the tables of the hub, alone with its listener, or among those
\* that are going to be told that their number was recycled; the kernel polls an open
\* file for exactly what they wait for, and nobody is left to a file not its own.
THEOREM WaitersStayKnown ==
  ASSUME ValuesApart, Wanted \subseteq Events, ~Readding
  PROVE  Spec => [](WaitersKnown /\ MaskExact /\ NoneOutlivesItsFile)
<1>1. ListenersInv => WaitersKnown /\ MaskExact /\ NoneOutlivesItsFile
  BY ListenersInvExact
<1> QED
  BY <1>1, ListenersInvariant, PTL

-----------------------------------------------------------------------------
(* GreenSocket *)

Calls == {"connect", "accept", "handshake", "send", "recv", "failed"}
Talk(e) == IF e = "client" THEN <<"send", "recv">> ELSE <<"recv", "send">>
Shakes(e) == IF e = "client" THEN <<"handshake", "send", "recv">> ELSE <<"handshake", "recv", "send">>

\* What an endpoint has left to do; early, while the handshake lasts.
Early(e) == {Failed, Script(e), Shakes(e)}
Plans(e) == {Failed, <<>>, Talk(e), Tail(Talk(e)), Script(e)} \cup (IF kind = "tls" THEN {Shakes(e)} ELSE {})

GreenTyped ==
  /\ net \in [Ends -> Seq(Seq(Nat))]
  /\ flights \in [Ends -> 0..3]
  /\ inHead \in [Ends -> BOOLEAN] /\ outHead \in [Ends -> BOOLEAN]
  /\ engine \in [Ends -> Seq(Nat)] /\ tail \in [Ends -> Nat] /\ got \in [Ends -> Seq(Nat)]
GreenShape ==
  /\ link \in {"none", "syn", "refused", "up"}
  /\ todo \in [Ends -> Seq(Calls)]
  /\ GreenTyped
  /\ \A e \in Ends : todo[e] \in Plans(e)

\* Of a socket without TLS, or a pipe, a unit is the next byte.
PlainUnits(e) ==
  /\ engine[e] = <<>>
  /\ got[e] = BytesAfter(0, Len(got[e]))
  /\ Len(net[e]) = tail[Peer(e)] - Len(got[e])
  /\ \A i \in 1..Len(net[e]) : net[e][i] = <<Len(got[e]) + i>>

\* Units in which heads and bodies of records take turns, with the bytes after a, to b;
\* ha and hb tell whether a head comes before the first unit and is the last.
Strung(q, a, b, ha, hb) ==
  \E from \in [1..(Len(q) + 1) -> 0..b], h \in [1..(Len(q) + 1) -> BOOLEAN] :
    /\ from[1] = a /\ from[Len(q) + 1] = b
    /\ h[1] = ha /\ h[Len(q) + 1] = hb
    /\ \A i \in 1..Len(q) :
         /\ from[i] <= from[i + 1] /\ h[i + 1] = ~h[i]
         /\ q[i] = BytesAfter(from[i], from[i + 1] - from[i])
         /\ ~h[i] => from[i + 1] = from[i]

\* A flight of the handshake is on its way before all records.
Expects(e) == flights[Peer(e)] > flights[e]
Records(e) == IF Expects(e) THEN Tail(net[e]) ELSE net[e]

\* The flights go to and fro; until its last an endpoint sends nothing else.
TurnsKept ==
  LET c == flights["client"]
      s == flights["server"]
  IN c = s \/ (c = s + 1 /\ s \in {0, 2}) \/ (c = 1 /\ s = 2)
HandshakeFirst(e) ==
  /\ flights[e] # 3 => tail[e] = 0 /\ ~outHead[e] /\ Records(Peer(e)) = <<>>
  /\ Expects(e) =>
       /\ net[e] # <<>> /\ Head(net[e]) = Flight
       /\ got[e] = <<>> /\ engine[e] = <<>> /\ ~inHead[e]

TlsUnits(e) ==
  /\ got[e] = BytesAfter(0, Len(got[e]))
  /\ engine[e] = BytesAfter(Len(got[e]), Len(engine[e]))
  /\ Strung(Records(e), Len(got[e]) + Len(engine[e]), tail[Peer(e)],
            inHead[e], outHead[Peer(e)])

GreenInv ==
  /\ GreenShape
  /\ kind # "tls" => \A e \in Ends : PlainUnits(e)
  /\ kind = "tls" =>
       /\ TurnsKept
       /\ \A e \in Ends : HandshakeFirst(e) /\ TlsUnits(e) /\ (flights[e] # 3 => todo[e] \in Early(e))

\* Two endpoints, each the peer of the other.
LEMMA PeerIs ==
  /\ Ends = {"client", "server"} /\ Peer("client") = "server" /\ Peer("server") = "client"
  /\ \A e \in Ends : Peer(e) \in Ends /\ Peer(e) # e /\ Peer(Peer(e)) = e
  /\ \A e, p \in Ends : p # e => p = Peer(e)
<1>1. Ends = {"client", "server"} BY DEF Ends
<1>2. "client" # "server" OBVIOUS
<1>3. Peer("client") = "server" /\ Peer("server") = "client"
  <2>1. \E p \in Ends : p # "client" BY <1>1, <1>2
  <2>2. \E p \in Ends : p # "server" BY <1>1, <1>2
  <2>3. Peer("client") \in Ends /\ Peer("client") # "client" BY <2>1 DEF Peer
  <2>4. Peer("server") \in Ends /\ Peer("server") # "server" BY <2>2 DEF Peer
  <2>5. QED BY <1>1, <2>3, <2>4
<1>4. QED BY <1>1, <1>2, <1>3

\* Runs of bytes.
LEMMA BytesRun ==
  ASSUME NEW a \in Nat, NEW n \in Nat
  PROVE  /\ BytesAfter(a, n) \in Seq(Nat) /\ Len(BytesAfter(a, n)) = n
         /\ \A i \in 1..n : BytesAfter(a, n)[i] = a + i
BY DEF BytesAfter

LEMMA OneByte == \A a \in Nat : <<a + 1>> = BytesAfter(a, 1)
BY DEF BytesAfter

LEMMA NoBytes == \A a : BytesAfter(a, 0) = <<>>
BY DEF BytesAfter

LEMMA Chained ==
  ASSUME NEW p \in Seq(Nat), NEW q \in Seq(Nat), \A i \in 1..Len(p) : p[i] = i,
         \A i \in 1..Len(q) : q[i] = Len(p) + i
  PROVE  /\ p \o q \in Seq(Nat) /\ Len(p \o q) = Len(p) + Len(q)
         /\ \A i \in 1..(Len(p) + Len(q)) : (p \o q)[i] = 0 + i
<1>1. Len(p) \in Nat /\ Len(q) \in Nat /\ p \o q \in Seq(Nat) /\ Len(p \o q) = Len(p) + Len(q) OBVIOUS
<1>2. ASSUME NEW i \in 1..(Len(p) + Len(q)) PROVE (p \o q)[i] = 0 + i
  <2>1. CASE i \in 1..Len(p)
    <3>1. (p \o q)[i] = p[i] BY <2>1
    <3>2. QED BY <2>1, <3>1
  <2>2. CASE i \notin 1..Len(p)
    <3>1. i - Len(p) \in 1..Len(q) BY <1>1, <2>2
    <3>2. (p \o q)[i] = q[i - Len(p)] BY <1>1, <2>2
    <3>3. QED BY <1>1, <3>1, <3>2
  <2>3. QED BY <2>1, <2>2
<1>3. QED BY <1>1, <1>2

LEMMA BytesAre ==
  ASSUME NEW s \in Seq(Nat), NEW n \in Nat, NEW a \in Nat, Len(s) = n, \A i \in 1..n : s[i] = a + i
  PROVE  s = BytesAfter(a, n)
<1>1. s = [i \in 1..n |-> s[i]] OBVIOUS
<1>2. QED BY <1>1 DEF BytesAfter

LEMMA BytesJoin ==
  ASSUME NEW g \in Nat, NEW d \in Nat PROVE BytesAfter(0, g) \o BytesAfter(g, d) = BytesAfter(0, g + d)
<1> DEFINE before == BytesAfter(0, g)
           data == BytesAfter(g, d)
<1>1. /\ before \in Seq(Nat) /\ Len(before) = g /\ \A i \in 1..g : before[i] = i
      /\ data \in Seq(Nat) /\ Len(data) = d /\ \A i \in 1..d : data[i] = g + i
  <2>1. before \in Seq(Nat) /\ Len(before) = g /\ \A i \in 1..g : before[i] = 0 + i BY BytesRun
  <2>2. data \in Seq(Nat) /\ Len(data) = d /\ \A i \in 1..d : data[i] = g + i BY BytesRun
  <2>3. QED BY <2>1, <2>2
<1> HIDE DEF before, data
<1>2. before \o data = BytesAfter(0, g + d)
  <2> DEFINE all == before \o data
  <2>1. all \in Seq(Nat) /\ Len(all) = g + d /\ \A i \in 1..(g + d) : all[i] = 0 + i
    <3>1. (\A i \in 1..Len(before) : before[i] = i) /\ \A i \in 1..Len(data) : data[i] = Len(before) + i BY <1>1
    <3>2. /\ all \in Seq(Nat) /\ Len(all) = Len(before) + Len(data)
          /\ \A i \in 1..(Len(before) + Len(data)) : all[i] = 0 + i
      BY <1>1, <3>1, Chained
    <3>3. QED BY <1>1, <3>2
  <2> HIDE DEF all
  <2>2. all = BytesAfter(0, g + d) BY <2>1, BytesAre
  <2>3. QED BY <2>2 DEF all
<1>3. QED BY <1>2 DEF before, data

LEMMA BytesMove ==
  ASSUME NEW g \in Nat, NEW d \in Nat, NEW k \in Nat, k <= d
  PROVE  /\ BytesAfter(0, g) \o SubSeq(BytesAfter(g, d), 1, k) = BytesAfter(0, g + k)
         /\ SubSeq(BytesAfter(g, d), k + 1, Len(BytesAfter(g, d))) = BytesAfter(g + k, d - k)
<1> DEFINE before == BytesAfter(0, g)
           data == BytesAfter(g, d)
<1>1. /\ before \in Seq(Nat) /\ Len(before) = g /\ \A i \in 1..g : before[i] = i
      /\ data \in Seq(Nat) /\ Len(data) = d /\ \A i \in 1..d : data[i] = g + i
  <2>1. before \in Seq(Nat) /\ Len(before) = g /\ \A i \in 1..g : before[i] = 0 + i BY BytesRun
  <2>2. data \in Seq(Nat) /\ Len(data) = d /\ \A i \in 1..d : data[i] = g + i BY BytesRun
  <2>3. QED BY <2>1, <2>2
<1> HIDE DEF before, data
<1>2. before \o SubSeq(data, 1, k) = BytesAfter(0, g + k)
  <2> DEFINE part == SubSeq(data, 1, k)
             all == before \o part
  <2>1. part \in Seq(Nat) /\ Len(part) = k /\ \A i \in 1..k : part[i] = g + i BY <1>1
  <2> HIDE DEF part
  <2>2. all \in Seq(Nat) /\ Len(all) = g + k /\ \A i \in 1..(g + k) : all[i] = 0 + i
    <3>1. (\A i \in 1..Len(before) : before[i] = i) /\ \A i \in 1..Len(part) : part[i] = Len(before) + i BY <1>1, <2>1
    <3>2. /\ all \in Seq(Nat) /\ Len(all) = Len(before) + Len(part)
          /\ \A i \in 1..(Len(before) + Len(part)) : all[i] = 0 + i
      BY <1>1, <2>1, <3>1, Chained
    <3>3. QED BY <1>1, <2>1, <3>2
  <2> HIDE DEF all
  <2>3. all = BytesAfter(0, g + k) BY <2>2, BytesAre
  <2>4. QED BY <2>3 DEF all, part
<1>3. SubSeq(data, k + 1, Len(data)) = BytesAfter(g + k, d - k)
  <2> DEFINE part == SubSeq(data, k + 1, Len(data))
  <2>1. part \in Seq(Nat) /\ Len(part) = d - k /\ \A i \in 1..(d - k) : part[i] = (g + k) + i BY <1>1
  <2> HIDE DEF part
  <2>2. part = BytesAfter(g + k, d - k) BY <2>1, BytesAre
  <2>3. QED BY <2>2 DEF part
<1>4. QED BY <1>2, <1>3 DEF before, data

\* Records that come, and that are taken.
LEMMA StrungNone == \A a \in Nat, h \in BOOLEAN : Strung(<<>>, a, a, h, h)
<1> SUFFICES ASSUME NEW a \in Nat, NEW h \in BOOLEAN PROVE Strung(<<>>, a, a, h, h) OBVIOUS
<1> DEFINE from == [i \in 1..1 |-> a]
           hs == [i \in 1..1 |-> h]
<1>1. from \in [1..1 -> 0..a] /\ hs \in [1..1 -> BOOLEAN] /\ from[1] = a /\ hs[1] = h OBVIOUS
<1>2. Len(<<>>) + 1 = 1 /\ \A i \in 1..Len(<<>>) : FALSE OBVIOUS
<1> HIDE DEF from, hs
<1>3. /\ from \in [1..(Len(<<>>) + 1) -> 0..a] /\ hs \in [1..(Len(<<>>) + 1) -> BOOLEAN]
      /\ from[Len(<<>>) + 1] = a /\ hs[Len(<<>>) + 1] = h
  BY <1>1, <1>2
<1>4. QED BY <1>1, <1>2, <1>3 DEF Strung

LEMMA StrungAppend ==
  ASSUME NEW q \in Seq(Seq(Nat)), NEW a, NEW b \in Nat, NEW ha, NEW hb \in BOOLEAN, Strung(q, a, b, ha, hb),
         NEW n \in Nat, ~hb => n = 0
  PROVE  Strung(Append(q, BytesAfter(b, n)), a, b + n, ha, ~hb)
<1> DEFINE k == Len(q)
           r == Append(q, BytesAfter(b, n))
<1>1. PICK from \in [1..(k + 1) -> 0..b], h \in [1..(k + 1) -> BOOLEAN] :
        /\ from[1] = a /\ from[k + 1] = b /\ h[1] = ha /\ h[k + 1] = hb
        /\ \A i \in 1..k :
             /\ from[i] <= from[i + 1] /\ h[i + 1] = ~h[i]
             /\ q[i] = BytesAfter(from[i], from[i + 1] - from[i])
             /\ ~h[i] => from[i + 1] = from[i]
  BY DEF Strung
<1>2. /\ BytesAfter(b, n) \in Seq(Nat) /\ k \in Nat
      /\ r \in Seq(Seq(Nat)) /\ Len(r) = k + 1 /\ r[k + 1] = BytesAfter(b, n)
      /\ \A i \in 1..k : r[i] = q[i]
  <2> DEFINE last == BytesAfter(b, n)
  <2>1. last \in Seq(Nat) BY BytesRun
  <2> HIDE DEF last
  <2>2. /\ k \in Nat /\ Append(q, last) \in Seq(Seq(Nat)) /\ Len(Append(q, last)) = k + 1
        /\ Append(q, last)[k + 1] = last /\ \A i \in 1..k : Append(q, last)[i] = q[i]
    BY <2>1
  <2>3. QED BY <2>1, <2>2 DEF last
<1> DEFINE from2 == [i \in 1..(k + 2) |-> IF i = k + 2 THEN b + n ELSE from[i]]
           h2 == [i \in 1..(k + 2) |-> IF i = k + 2 THEN ~hb ELSE h[i]]
<1>3. /\ from2 \in [1..(k + 2) -> 0..(b + n)] /\ h2 \in [1..(k + 2) -> BOOLEAN]
      /\ from2[k + 2] = b + n /\ h2[k + 2] = ~hb
      /\ \A i \in 1..(k + 1) : from2[i] = from[i] /\ h2[i] = h[i]
  <2> HIDE DEF k
  <2>1. k \in Nat BY <1>2
  <2>2. \A i \in 1..(k + 2) : i # k + 2 => i \in 1..(k + 1) BY <2>1
  <2>3. k + 2 \in 1..(k + 2) /\ \A i \in 1..(k + 1) : i \in 1..(k + 2) /\ i # k + 2 BY <2>1
  <2>4. b + n \in 0..(b + n) /\ \A x \in 0..b : x \in 0..(b + n) OBVIOUS
  <2>5. from2 \in [1..(k + 2) -> 0..(b + n)] /\ from2[k + 2] = b + n /\ \A i \in 1..(k + 1) : from2[i] = from[i]
    BY <2>2, <2>3, <2>4
  <2>6. h2 \in [1..(k + 2) -> BOOLEAN] /\ h2[k + 2] = ~hb /\ \A i \in 1..(k + 1) : h2[i] = h[i]
    BY <2>2, <2>3
  <2>7. QED BY <2>5, <2>6
<1> HIDE DEF from2, h2, r, k
<1>4. from2[1] = a /\ h2[1] = ha BY <1>1, <1>2, <1>3
<1>5. ASSUME NEW i \in 1..(k + 1)
      PROVE  /\ from2[i] <= from2[i + 1] /\ h2[i + 1] = ~h2[i]
             /\ r[i] = BytesAfter(from2[i], from2[i + 1] - from2[i])
             /\ ~h2[i] => from2[i + 1] = from2[i]
  <2>1. CASE i \in 1..k
    <3>1. i + 1 \in 1..(k + 1) /\ i \in 1..(k + 1) BY <1>2, <2>1
    <3>2. from2[i] = from[i] /\ h2[i] = h[i] /\ from2[i + 1] = from[i + 1] /\ h2[i + 1] = h[i + 1]
      BY <1>3, <3>1
    <3>3. /\ from[i] <= from[i + 1] /\ h[i + 1] = ~h[i]
          /\ q[i] = BytesAfter(from[i], from[i + 1] - from[i])
          /\ ~h[i] => from[i + 1] = from[i]
      BY <1>1, <2>1
    <3>4. r[i] = q[i] BY <1>2, <2>1
    <3>5. QED BY <3>2, <3>3, <3>4
  <2>2. CASE i = k + 1
    <3>1. from2[i] = b /\ from2[i + 1] = b + n /\ h2[i] = hb /\ h2[i + 1] = ~hb BY <1>1, <1>2, <1>3, <2>2
    <3>2. from2[i + 1] - from2[i] = n /\ r[i] = BytesAfter(b, n) BY <1>2, <2>2, <3>1
    <3>3. QED BY <3>1, <3>2
  <2>3. QED BY <1>2, <2>1, <2>2
<1>6. Len(r) + 1 = k + 2 BY <1>2
<1>7. Strung(r, a, b + n, ha, ~hb)
  <2>1. /\ from2 \in [1..(Len(r) + 1) -> 0..(b + n)] /\ h2 \in [1..(Len(r) + 1) -> BOOLEAN]
        /\ from2[Len(r) + 1] = b + n /\ h2[Len(r) + 1] = ~hb
    BY <1>3, <1>6
  <2> DEFINE Is(f, g) ==
        /\ f[1] = a /\ f[Len(r) + 1] = b + n
        /\ g[1] = ha /\ g[Len(r) + 1] = ~hb
        /\ \A i \in 1..Len(r) :
             /\ f[i] <= f[i + 1] /\ g[i + 1] = ~g[i]
             /\ r[i] = BytesAfter(f[i], f[i + 1] - f[i])
             /\ ~g[i] => f[i + 1] = f[i]
  <2>2. Len(r) = k + 1 BY <1>2
  <2>3. Is(from2, h2) BY <1>4, <1>5, <2>1, <2>2
  <2> HIDE DEF Is
  <2>4. \E f \in [1..(Len(r) + 1) -> 0..(b + n)], g \in [1..(Len(r) + 1) -> BOOLEAN] : Is(f, g) BY <2>1, <2>3
  <2>5. QED BY <2>4 DEF Strung, Is
<1>8. QED BY <1>7 DEF r

LEMMA StrungTail ==
  ASSUME NEW q \in Seq(Seq(Nat)), NEW a, NEW b \in Nat, NEW ha, NEW hb, Strung(q, a, b, ha, hb), q # <<>>
  PROVE  \E n \in Nat : /\ Head(q) = BytesAfter(a, n) /\ (~ha => n = 0)
                        /\ Strung(Tail(q), a + n, b, ~ha, hb)
<1> DEFINE k == Len(q)
           r == Tail(q)
<1>1. PICK from \in [1..(k + 1) -> 0..b], h \in [1..(k + 1) -> BOOLEAN] :
        /\ from[1] = a /\ from[k + 1] = b /\ h[1] = ha /\ h[k + 1] = hb
        /\ \A i \in 1..k :
             /\ from[i] <= from[i + 1] /\ h[i + 1] = ~h[i]
             /\ q[i] = BytesAfter(from[i], from[i + 1] - from[i])
             /\ ~h[i] => from[i + 1] = from[i]
  BY DEF Strung
<1>2. /\ k \in Nat \ {0} /\ Head(q) = q[1] /\ r \in Seq(Seq(Nat)) /\ Len(r) = k - 1
      /\ \A i \in 1..(k - 1) : r[i] = q[i + 1]
  OBVIOUS
<1> DEFINE from2 == [i \in 1..k |-> from[i + 1]]
           h2 == [i \in 1..k |-> h[i + 1]]
           n == from[2] - from[1]
<1>3. from2 \in [1..k -> 0..b] /\ h2 \in [1..k -> BOOLEAN] /\ \A i \in 1..k : from2[i] = from[i + 1] /\ h2[i] = h[i + 1]
  BY <1>2
<1>4. 1 \in 1..k /\ 1 + 1 = 2 /\ from[1] \in Nat /\ from[2] \in Nat /\ from[1] <= from[2] /\ h[2] = ~h[1]
  <2> HIDE DEF k
  <2>1. 1 \in 1..k /\ 1 \in 1..(k + 1) /\ 2 \in 1..(k + 1) /\ 1 + 1 = 2 BY <1>2
  <2>2. from[1] <= from[1 + 1] /\ h[1 + 1] = ~h[1] BY <1>1, <2>1
  <2>3. from[1] \in 0..b /\ from[2] \in 0..b BY <2>1
  <2>4. QED BY <2>1, <2>2, <2>3
<1>5. n \in Nat /\ a + n = from[2] /\ Head(q) = BytesAfter(a, n) /\ (~ha => n = 0) BY <1>1, <1>2, <1>4
<1> HIDE DEF from2, h2, r, k, n
<1>6. Strung(r, a + n, b, ~ha, hb)
  <2>1. Len(r) + 1 = k BY <1>2
  <2>2. from2[1] = a + n /\ h2[1] = ~ha BY <1>1, <1>3, <1>4, <1>5
  <2>3. from2[k] = b /\ h2[k] = hb BY <1>1, <1>2, <1>3
  <2>4. ASSUME NEW i \in 1..(k - 1)
        PROVE  /\ from2[i] <= from2[i + 1] /\ h2[i + 1] = ~h2[i]
               /\ r[i] = BytesAfter(from2[i], from2[i + 1] - from2[i])
               /\ ~h2[i] => from2[i + 1] = from2[i]
    <3>1. i \in 1..k /\ i + 1 \in 1..k BY <1>2
    <3> DEFINE j == i + 1
    <3>2. j \in 1..k /\ j = i + 1 BY <3>1
    <3> HIDE DEF j
    <3>3. /\ from2[i] = from[j] /\ h2[i] = h[j]
          /\ from2[i + 1] = from[j + 1] /\ h2[i + 1] = h[j + 1]
      BY <1>3, <3>1, <3>2
    <3>4. /\ from[j] <= from[j + 1] /\ h[j + 1] = ~h[j]
          /\ q[j] = BytesAfter(from[j], from[j + 1] - from[j])
          /\ ~h[j] => from[j + 1] = from[j]
      BY <1>1, <3>2
    <3>5. r[i] = q[j] BY <1>2, <3>2
    <3>6. QED BY <3>3, <3>4, <3>5
  <2>5. from2 \in [1..(Len(r) + 1) -> 0..b] /\ h2 \in [1..(Len(r) + 1) -> BOOLEAN] BY <1>3, <2>1
  <2>6. /\ from2[Len(r) + 1] = b /\ h2[Len(r) + 1] = hb
        /\ \A i \in 1..Len(r) :
             /\ from2[i] <= from2[i + 1] /\ h2[i + 1] = ~h2[i]
             /\ r[i] = BytesAfter(from2[i], from2[i + 1] - from2[i])
             /\ ~h2[i] => from2[i + 1] = from2[i]
    BY <1>2, <2>1, <2>3, <2>4
  <2> DEFINE Is(f, g) ==
        /\ f[1] = a + n /\ f[Len(r) + 1] = b
        /\ g[1] = ~ha /\ g[Len(r) + 1] = hb
        /\ \A i \in 1..Len(r) :
             /\ f[i] <= f[i + 1] /\ g[i + 1] = ~g[i]
             /\ r[i] = BytesAfter(f[i], f[i + 1] - f[i])
             /\ ~g[i] => f[i + 1] = f[i]
  <2>7. Is(from2, h2) BY <2>2, <2>6
  <2> HIDE DEF Is
  <2>8. \E f \in [1..(Len(r) + 1) -> 0..b], g \in [1..(Len(r) + 1) -> BOOLEAN] : Is(f, g) BY <2>5, <2>7
  <2>9. QED BY <2>8 DEF Strung, Is
<1>7. QED BY <1>5, <1>6 DEF r

\* Of no records.
LEMMA StrungNothing ==
  ASSUME NEW a, NEW b, NEW ha, NEW hb, Strung(<<>>, a, b, ha, hb) PROVE a = b /\ ha = hb
<1>1. Len(<<>>) + 1 = 1 OBVIOUS
<1>2. QED BY <1>1 DEF Strung

\* What an endpoint does, in full.
LEMMA Scripts ==
  ASSUME NEW e \in Ends
  PROVE  /\ kind = "pipe" => Script(e) = Talk(e)
         /\ kind = "tls" => Script(e) # <<>> /\ Head(Script(e)) \in {"connect", "accept"} /\ Tail(Script(e)) = Shakes(e)
         /\ kind \notin {"pipe", "tls"} =>
              Script(e) # <<>> /\ Head(Script(e)) \in {"connect", "accept"} /\ Tail(Script(e)) = Talk(e)
         /\ Script(e) \in Seq(Calls) /\ Shakes(e) \in Seq(Calls) /\ Talk(e) \in Seq(Calls)
         /\ Failed \in Seq(Calls)
<1>1. CASE e = "client"
  <2>1. kind = "tls" => Script(e) = <<"connect", "handshake", "send", "recv">> BY <1>1 DEF Script
  <2>2. kind = "pipe" => Script(e) = <<"send", "recv">> BY <1>1 DEF Script
  <2>3. kind \notin {"pipe", "tls"} => Script(e) = <<"connect", "send", "recv">> BY <1>1 DEF Script
  <2>4. Talk(e) = <<"send", "recv">> /\ Shakes(e) = <<"handshake", "send", "recv">> BY <1>1 DEF Talk, Shakes
  <2>5. <<"send", "recv">> \in Seq(Calls) /\ <<"connect", "send", "recv">> \in Seq(Calls) BY DEF Calls
  <2>6. <<"connect", "handshake", "send", "recv">> \in Seq(Calls) /\ <<"handshake", "send", "recv">> \in Seq(Calls) BY DEF Calls
  <2>7. <<"failed">> \in Seq(Calls) BY DEF Calls
  <2>8. Script(e) \in Seq(Calls) /\ Shakes(e) \in Seq(Calls) /\ Talk(e) \in Seq(Calls) /\ Failed \in Seq(Calls)
    BY <2>1, <2>2, <2>3, <2>4, <2>5, <2>6, <2>7 DEF Failed
  <2>9. kind = "tls" =>
          Script(e) # <<>> /\ Head(Script(e)) \in {"connect", "accept"} /\ Tail(Script(e)) = Shakes(e)
    <3>1. Head(<<"connect", "handshake", "send", "recv">>) = "connect" OBVIOUS
    <3>2. Tail(<<"connect", "handshake", "send", "recv">>) = <<"handshake", "send", "recv">> OBVIOUS
    <3>3. <<"connect", "handshake", "send", "recv">> # <<>> OBVIOUS
    <3>4. QED BY <2>1, <2>4, <3>1, <3>2, <3>3
  <2>10. kind \notin {"pipe", "tls"} =>
          Script(e) # <<>> /\ Head(Script(e)) \in {"connect", "accept"} /\ Tail(Script(e)) = Talk(e)
    <3>1. Head(<<"connect", "send", "recv">>) = "connect" OBVIOUS
    <3>2. Tail(<<"connect", "send", "recv">>) = <<"send", "recv">> OBVIOUS
    <3>3. <<"connect", "send", "recv">> # <<>> OBVIOUS
    <3>4. QED BY <2>3, <2>4, <3>1, <3>2, <3>3
  <2>11. QED BY <2>2, <2>4, <2>8, <2>9, <2>10
<1>2. CASE e = "server"
  <2>1. kind = "tls" => Script(e) = <<"accept", "handshake", "recv", "send">> BY <1>2 DEF Script
  <2>2. kind = "pipe" => Script(e) = <<"recv", "send">> BY <1>2 DEF Script
  <2>3. kind \notin {"pipe", "tls"} => Script(e) = <<"accept", "recv", "send">> BY <1>2 DEF Script
  <2>4. Talk(e) = <<"recv", "send">> /\ Shakes(e) = <<"handshake", "recv", "send">> BY <1>2 DEF Talk, Shakes
  <2>5. <<"recv", "send">> \in Seq(Calls) /\ <<"accept", "recv", "send">> \in Seq(Calls) BY DEF Calls
  <2>6. <<"accept", "handshake", "recv", "send">> \in Seq(Calls) /\ <<"handshake", "recv", "send">> \in Seq(Calls) BY DEF Calls
  <2>7. <<"failed">> \in Seq(Calls) BY DEF Calls
  <2>8. Script(e) \in Seq(Calls) /\ Shakes(e) \in Seq(Calls) /\ Talk(e) \in Seq(Calls) /\ Failed \in Seq(Calls)
    BY <2>1, <2>2, <2>3, <2>4, <2>5, <2>6, <2>7 DEF Failed
  <2>9. kind = "tls" =>
          Script(e) # <<>> /\ Head(Script(e)) \in {"connect", "accept"} /\ Tail(Script(e)) = Shakes(e)
    <3>1. Head(<<"accept", "handshake", "recv", "send">>) = "accept" OBVIOUS
    <3>2. Tail(<<"accept", "handshake", "recv", "send">>) = <<"handshake", "recv", "send">> OBVIOUS
    <3>3. <<"accept", "handshake", "recv", "send">> # <<>> OBVIOUS
    <3>4. QED BY <2>1, <2>4, <3>1, <3>2, <3>3
  <2>10. kind \notin {"pipe", "tls"} =>
          Script(e) # <<>> /\ Head(Script(e)) \in {"connect", "accept"} /\ Tail(Script(e)) = Talk(e)
    <3>1. Head(<<"accept", "recv", "send">>) = "accept" OBVIOUS
    <3>2. Tail(<<"accept", "recv", "send">>) = <<"recv", "send">> OBVIOUS
    <3>3. <<"accept", "recv", "send">> # <<>> OBVIOUS
    <3>4. QED BY <2>3, <2>4, <3>1, <3>2, <3>3
  <2>11. QED BY <2>2, <2>4, <2>8, <2>9, <2>10
<1>3. QED BY <1>1, <1>2, PeerIs

\* From one to the next.
LEMMA PlanSteps ==
  ASSUME NEW e \in Ends, todo[e] \in Plans(e), todo[e] # <<>>
  PROVE  /\ Head(todo[e]) \in {"connect", "accept"} =>
              Tail(todo[e]) \in Plans(e) /\ (kind = "tls" => Tail(todo[e]) \in Early(e))
         /\ Head(todo[e]) = "handshake" => kind = "tls" /\ Tail(todo[e]) \in Plans(e)
         /\ Head(todo[e]) \in {"send", "recv"} =>
              Tail(todo[e]) \in Plans(e) /\ (kind = "tls" => todo[e] \notin Early(e))
<1>1. e = "client" \/ e = "server" BY PeerIs
<1>2. Talk(e) \in {<<"send", "recv">>, <<"recv", "send">>} BY <1>1 DEF Talk
<1>3. /\ Talk(e) # <<>> /\ Head(Talk(e)) \in {"send", "recv"} /\ Tail(Talk(e)) # <<>>
      /\ Head(Tail(Talk(e))) \in {"send", "recv"} /\ Tail(Tail(Talk(e))) = <<>>
  <2>1. CASE Talk(e) = <<"send", "recv">>
    <3>1. Tail(<<"send", "recv">>) = <<"recv">> /\ Tail(<<"recv">>) = <<>> OBVIOUS
    <3>2. Head(<<"send", "recv">>) = "send" /\ Head(<<"recv">>) = "recv" OBVIOUS
    <3>3. <<"send", "recv">> # <<>> /\ <<"recv">> # <<>> OBVIOUS
    <3>4. QED BY <2>1, <3>1, <3>2, <3>3
  <2>2. CASE Talk(e) = <<"recv", "send">>
    <3>1. Tail(<<"recv", "send">>) = <<"send">> /\ Tail(<<"send">>) = <<>> OBVIOUS
    <3>2. Head(<<"recv", "send">>) = "recv" /\ Head(<<"send">>) = "send" OBVIOUS
    <3>3. <<"recv", "send">> # <<>> /\ <<"send">> # <<>> OBVIOUS
    <3>4. QED BY <2>2, <3>1, <3>2, <3>3
  <2>3. QED BY <1>2, <2>1, <2>2
<1>4. Shakes(e) # <<>> /\ Head(Shakes(e)) = "handshake" /\ Tail(Shakes(e)) = Talk(e) BY <1>1 DEF Shakes, Talk
<1>5. Head(Failed) = "failed" BY DEF Failed
<1> HIDE DEF Talk, Shakes
<1>6. CASE todo[e] = Failed BY <1>5, <1>6
<1>7. CASE todo[e] \in {Talk(e), Tail(Talk(e))}
  <2>1. Head(todo[e]) \in {"send", "recv"} /\ Tail(todo[e]) \in {Tail(Talk(e)), <<>>} BY <1>3, <1>7
  <2>2. kind = "tls" => todo[e] \notin Early(e)
    <3>1. kind = "tls" => Head(Script(e)) \in {"connect", "accept"} BY Scripts
    <3>2. QED BY <1>4, <1>5, <2>1, <3>1 DEF Early
  <2>3. QED BY <2>1, <2>2 DEF Plans
<1>8. CASE todo[e] = Script(e) /\ kind # "pipe"
  <2>1. /\ Head(todo[e]) \in {"connect", "accept"}
        /\ Tail(todo[e]) = IF kind = "tls" THEN Shakes(e) ELSE Talk(e)
    BY <1>8, Scripts
  <2>2. QED BY <2>1 DEF Plans, Early
<1>9. CASE todo[e] = Shakes(e) /\ kind = "tls"
  BY <1>4, <1>9 DEF Plans
<1>10. kind = "pipe" => Script(e) = Talk(e) BY Scripts
<1>11. QED BY <1>6, <1>7, <1>8, <1>9, <1>10 DEF Plans

LEMMA PlansAreSeqs ==
  ASSUME NEW e \in Ends, NEW plan \in Plans(e) PROVE plan \in Seq(Calls)
<1>1. Talk(e) \in Seq(Calls) /\ Shakes(e) \in Seq(Calls) /\ Script(e) \in Seq(Calls) /\ Failed \in Seq(Calls)
  BY Scripts
<1>2. Talk(e) # <<>> BY DEF Talk
<1>3. Tail(Talk(e)) \in Seq(Calls) /\ <<>> \in Seq(Calls) BY <1>1, <1>2
<1>4. QED BY <1>1, <1>3 DEF Plans

\* How a step changes what is left to do.
LEMMA TodoChanges ==
  ASSUME link \in {"none", "syn", "refused", "up"}, GreenNext \/ UNCHANGED greenVars
  PROVE  /\ kind' = kind /\ link' \in {"none", "syn", "refused", "up"}
         /\ \/ todo' = todo
            \/ \E e \in Ends : todo' = [todo EXCEPT ![e] = Failed]
            \/ \E e \in Ends :
                 /\ todo' = [todo EXCEPT ![e] = Tail(@)] /\ todo[e] # <<>>
                 /\ \/ Head(todo[e]) \in {"connect", "accept", "send", "recv"}
                    \/ Head(todo[e]) = "handshake" /\ flights[e] = 3
<1>1. CASE Kernel \/ UNCHANGED greenVars BY <1>1 DEF Kernel, Resolve, greenVars
<1>2. ASSUME NEW e \in Ends, Wake(e) \/ Expire(e)
      PROVE  kind' = kind /\ link' = link /\ (todo' = todo \/ todo' = [todo EXCEPT ![e] = Failed])
  BY <1>2 DEF Wake, Expire, Fails
<1>3. ASSUME NEW e \in Ends, Step(e)
      PROVE  /\ kind' = kind /\ link' \in {"none", "syn", "refused", "up"}
             /\ \/ todo' = todo
                \/ todo' = [todo EXCEPT ![e] = Failed]
                \/ /\ todo' = [todo EXCEPT ![e] = Tail(@)] /\ todo[e] # <<>>
                   /\ \/ Head(todo[e]) \in {"connect", "accept", "send", "recv"}
                      \/ Head(todo[e]) = "handshake" /\ flights[e] = 3
  <2>1. CASE connect(e)
    <3>1. Runs(e, "connect") /\ kind' = kind BY <2>1 DEF connect
    <3>2. /\ todo' = todo \/ Next1(e) \/ Fails(e)
          /\ link' \in {"none", "syn", "refused", "up"}
      <4>1. CASE link = "none" BY <2>1, <4>1 DEF connect
      <4>2. CASE link = "syn" BY <2>1, <4>2 DEF connect
      <4>3. CASE link = "up" BY <2>1, <4>3 DEF connect
      <4>4. CASE link = "refused" BY <2>1, <4>4 DEF connect
      <4>5. QED BY <4>1, <4>2, <4>3, <4>4
    <3>3. QED BY <3>1, <3>2 DEF Runs, Next1, Fails
  <2>6. CASE accept(e)
    <3>1. Runs(e, "accept") /\ kind' = kind /\ link' = link BY <2>6 DEF accept
    <3>2. todo' = todo \/ Next1(e) \/ Fails(e) BY <2>6 DEF accept
    <3>3. QED BY <3>1, <3>2 DEF Runs, Next1, Fails
  <2>2. CASE HandshakeWrites(e) \/ HandshakeReads(e) \/ HandshakeEnds(e)
    BY <2>2 DEF HandshakeWrites, HandshakeReads, HandshakeEnds, Runs, Next1, Fails
  <2>3. CASE SendFails(e) \/ SendPlain(e) \/ SendTls(e) \/ SendEnds(e)
    BY <2>3 DEF SendFails, SendPlain, SendTls, SendEnds, Runs, Next1, Fails
  <2>4. CASE RecvPlain(e) \/ RecvTls(e) \/ RecvTlsNothing(e) \/ RecvEnds(e)
    BY <2>4 DEF RecvPlain, RecvTls, RecvTlsNothing, RecvEnds, Runs, Next1, Fails
  <2>5. QED BY <1>3, <2>1, <2>2, <2>3, <2>4, <2>6 DEF Step
<1>4. QED BY <1>1, <1>2, <1>3 DEF GreenNext

LEMMA PlansKept ==
  ASSUME GreenInv, GreenNext \/ UNCHANGED greenVars
  PROVE  /\ kind' = kind /\ todo' \in [Ends -> Seq(Calls)]
         /\ link' \in {"none", "syn", "refused", "up"}
         /\ \A e \in Ends : todo'[e] \in Plans(e)
         /\ kind = "tls" => \A e \in Ends : flights[e] # 3 => todo'[e] \in Early(e)
<1>1. /\ todo \in [Ends -> Seq(Calls)] /\ \A e \in Ends : todo[e] \in Plans(e)
      /\ link \in {"none", "syn", "refused", "up"}
      /\ kind = "tls" => \A e \in Ends : flights[e] # 3 => todo[e] \in Early(e)
  BY DEF GreenInv, GreenShape, HandshakeFirst
<1>2. CASE todo' = todo BY <1>1, <1>2, TodoChanges
<1>3. ASSUME NEW e \in Ends, NEW plan \in Plans(e), todo' = [todo EXCEPT ![e] = plan],
             kind = "tls" /\ flights[e] # 3 => plan \in Early(e)
      PROVE  /\ todo' \in [Ends -> Seq(Calls)]
             /\ \A d \in Ends : todo'[d] \in Plans(d)
             /\ kind = "tls" => \A d \in Ends : flights[d] # 3 => todo'[d] \in Early(d)
  <2>1. plan \in Seq(Calls) BY PlansAreSeqs
  <2>2. todo'[e] = plan /\ \A d \in Ends \ {e} : todo'[d] = todo[d] BY <1>1, <1>3
  <2>3. todo' \in [Ends -> Seq(Calls)] BY <1>1, <1>3, <2>1
  <2>4. QED BY <1>1, <1>3, <2>2, <2>3
<1>4. ASSUME NEW e \in Ends, todo' = [todo EXCEPT ![e] = Failed]
      PROVE  /\ todo' \in [Ends -> Seq(Calls)]
             /\ \A d \in Ends : todo'[d] \in Plans(d)
             /\ kind = "tls" => \A d \in Ends : flights[d] # 3 => todo'[d] \in Early(d)
  <2>1. Failed \in Plans(e) /\ Failed \in Early(e) BY DEF Plans, Early
  <2>2. QED BY <1>3, <1>4, <2>1
<1>5. ASSUME NEW e \in Ends, todo' = [todo EXCEPT ![e] = Tail(@)], todo[e] # <<>>,
             \/ Head(todo[e]) \in {"connect", "accept", "send", "recv"}
             \/ Head(todo[e]) = "handshake" /\ flights[e] = 3
      PROVE  /\ todo' \in [Ends -> Seq(Calls)]
             /\ \A d \in Ends : todo'[d] \in Plans(d)
             /\ kind = "tls" => \A d \in Ends : flights[d] # 3 => todo'[d] \in Early(d)
  <2>1. Tail(todo[e]) \in Plans(e) BY <1>1, <1>5, PlanSteps
  <2>2. kind = "tls" /\ flights[e] # 3 => Tail(todo[e]) \in Early(e) BY <1>1, <1>5, PlanSteps
  <2>3. todo' = [todo EXCEPT ![e] = Tail(todo[e])] BY <1>5
  <2>4. QED BY <1>3, <2>1, <2>2, <2>3
<1>6. QED BY <1>1, <1>2, <1>4, <1>5, TodoChanges

LEMMA PlansSame ==
  ASSUME kind' = kind PROVE \A e : Plans(e)' = Plans(e) /\ Early(e)' = Early(e)
BY DEF Plans, Early, Talk, Shakes, Script, Failed

\* What is left to show of a step.
LEMMA GreenParts ==
  ASSUME GreenInv, GreenNext \/ UNCHANGED greenVars, GreenTyped',
         \A e \in Ends : flights'[e] # 3 => flights[e] # 3,
         kind # "tls" => \A e \in Ends : PlainUnits(e)',
         kind = "tls" => TurnsKept' /\ \A e \in Ends : HandshakeFirst(e)' /\ TlsUnits(e)'
  PROVE  GreenInv'
<1>1. /\ kind' = kind /\ todo' \in [Ends -> Seq(Calls)]
      /\ link' \in {"none", "syn", "refused", "up"}
      /\ \A e \in Ends : todo'[e] \in Plans(e)
      /\ kind = "tls" => \A e \in Ends : flights[e] # 3 => todo'[e] \in Early(e)
  BY PlansKept
<1>2. \A e : Plans(e)' = Plans(e) /\ Early(e)' = Early(e) BY <1>1, PlansSame
<1>3. Ends' = Ends BY DEF Ends
<1>4. GreenShape' BY <1>1, <1>2, <1>3 DEF GreenShape
<1>5. QED BY <1>1, <1>2, <1>3, <1>4 DEF GreenInv

LEMMA GreenInvInit == ASSUME GreenInit PROVE GreenInv
<1>1. GreenShape BY PeerIs, Scripts DEF GreenInit, GreenShape, GreenTyped, Plans
<1>2. ASSUME NEW e \in Ends
      PROVE  /\ engine[e] = <<>> /\ got[e] = <<>> /\ net[e] = <<>>
             /\ tail[e] = 0 /\ flights[e] = 0
  BY DEF GreenInit
<1>10. ASSUME NEW e \in Ends
       PROVE  inHead[e] = FALSE /\ outHead[e] = FALSE /\ todo[e] \in Early(e)
  BY DEF GreenInit, Early
<1>3. \A e \in Ends : Peer(e) \in Ends BY PeerIs
<1>4. Len(<<>>) = 0 /\ BytesAfter(0, 0) = <<>> BY NoBytes
<1>5. ASSUME NEW e \in Ends PROVE PlainUnits(e)
  <2>1. Len(got[e]) = 0 /\ Len(net[e]) = 0 BY <1>2, <1>4
  <2>2. tail[Peer(e)] = 0 BY <1>2, <1>3
  <2>3. QED BY <1>2, <1>4, <2>1, <2>2 DEF PlainUnits
<1>6. TurnsKept BY <1>2, PeerIs DEF TurnsKept
<1>7. ASSUME NEW e \in Ends PROVE ~Expects(e) /\ Records(e) = <<>>
  <2>1. flights[Peer(e)] = 0 /\ flights[e] = 0 BY <1>2, <1>3
  <2>2. QED BY <1>2, <2>1 DEF Expects, Records
<1>8. ASSUME NEW e \in Ends PROVE HandshakeFirst(e) /\ TlsUnits(e)
  <2>1. HandshakeFirst(e) BY <1>2, <1>3, <1>7, <1>10 DEF HandshakeFirst
  <2>2. Strung(<<>>, 0, 0, FALSE, FALSE) BY StrungNone
  <2>3. Len(got[e]) + Len(engine[e]) = 0
    <3>1. Len(got[e]) = 0 /\ Len(engine[e]) = 0 BY <1>2, <1>4
    <3>2. QED BY <3>1
  <2>4. TlsUnits(e) BY <1>2, <1>3, <1>4, <1>7, <1>10, <2>2, <2>3 DEF TlsUnits
  <2>5. QED BY <2>1, <2>4
<1>9. QED BY <1>1, <1>5, <1>6, <1>8, <1>10 DEF GreenInv

\* A step of no unit.
LEMMA QuietStep ==
  ASSUME GreenInv, GreenNext \/ UNCHANGED greenVars, UNCHANGED peerVars
  PROVE  GreenInv'
<1>1. /\ net' = net /\ flights' = flights /\ inHead' = inHead
      /\ outHead' = outHead /\ engine' = engine /\ tail' = tail
      /\ got' = got
  BY DEF peerVars
<1>2. GreenTyped' BY <1>1 DEF GreenInv, GreenShape, GreenTyped
<1>3. ASSUME NEW e \in Ends
      PROVE  PlainUnits(e)' = PlainUnits(e) /\ HandshakeFirst(e)' = HandshakeFirst(e) /\ TlsUnits(e)' = TlsUnits(e)
  BY <1>1 DEF PlainUnits, HandshakeFirst, TlsUnits, Records, Expects, Strung
<1>4. TurnsKept' = TurnsKept BY <1>1 DEF TurnsKept
<1>5. QED BY <1>1, <1>2, <1>3, <1>4, GreenParts DEF GreenInv

\* The handshake.
LEMMA RecordsSame ==
  ASSUME GreenInv, kind = "tls",
         UNCHANGED <<inHead, outHead, engine, tail, got>>,
         \A e \in Ends : Records(e)' = Records(e)
  PROVE  \A e \in Ends : TlsUnits(e)'
<1> SUFFICES ASSUME NEW e \in Ends PROVE TlsUnits(e)' OBVIOUS
<1>1. TlsUnits(e) BY DEF GreenInv
<1>2. Records(e)' = Records(e) OBVIOUS
<1>3. Strung(Records(e)', Len(got[e]) + Len(engine[e]), tail[Peer(e)], inHead[e],
             outHead[Peer(e)])
  BY <1>1, <1>2 DEF TlsUnits
<1>4. QED BY <1>1, <1>3 DEF TlsUnits

LEMMA FlightSent ==
  ASSUME GreenInv, kind = "tls", NEW e \in Ends, NEW p \in Ends, p = Peer(e), e = Peer(p), e # p,
         GreenNext \/ UNCHANGED greenVars, Mine(e), flights[e] < 3,
         net' = [net EXCEPT ![p] = Append(@, Flight)],
         flights' = [flights EXCEPT ![e] = @ + 1],
         UNCHANGED <<inHead, outHead, engine, tail, got>>
  PROVE  GreenInv'
<1>1. /\ GreenTyped /\ TurnsKept
      /\ flights \in [Ends -> 0..3] /\ net \in [Ends -> Seq(Seq(Nat))]
      /\ \A d \in Ends : HandshakeFirst(d) /\ TlsUnits(d)
  BY DEF GreenInv, GreenShape, GreenTyped
<1>2. Ends = {"client", "server"} BY PeerIs
<1>3. (e = "client" /\ p = "server") \/ (e = "server" /\ p = "client") BY <1>2
<1>4. flights["client"] \in 0..3 /\ flights["server"] \in 0..3 BY <1>1, <1>2
<1>5. flights[e] = flights[p]
  <2>1. CASE e = "client" BY <1>1, <1>3, <1>4, <2>1 DEF TurnsKept, Mine
  <2>2. CASE e = "server" BY <1>1, <1>3, <1>4, <2>2 DEF TurnsKept, Mine
  <2>3. QED BY <1>3, <2>1, <2>2
<1>23. PICK f \in 0..3 : flights[e] = f /\ flights[p] = f BY <1>1, <1>5
<1>6. flights'[e] = flights[e] + 1 /\ flights'[p] = flights[p] BY <1>1
<1>7. TurnsKept'
  <2>1. CASE e = "client" BY <1>3, <1>4, <1>5, <1>6, <2>1 DEF TurnsKept, Mine
  <2>2. CASE e = "server" BY <1>3, <1>4, <1>5, <1>6, <2>2 DEF TurnsKept, Mine
  <2>3. QED BY <1>3, <2>1, <2>2
<1>8. flights[e] # 3 /\ flights[p] # 3 BY <1>23
<1>9. /\ Records(p) = <<>> /\ tail[e] = 0 /\ ~outHead[e]
      /\ Records(e) = <<>> /\ tail[p] = 0 /\ ~outHead[p]
  BY <1>1, <1>8 DEF HandshakeFirst
<1>10. ~Expects(e) /\ ~Expects(p) /\ ~Expects(e)' /\ Expects(p)'
  <2>1. flights[e] \in 0..3 /\ flights[p] \in 0..3 BY <1>1
  <2>2. ~Expects(e) /\ ~Expects(p) BY <1>23 DEF Expects
  <2>3. Expects(e)' = (flights'[p] > flights'[e]) /\ Expects(p)' = (flights'[e] > flights'[p])
    BY DEF Expects
  <2>4. ~(flights'[p] > flights'[e]) /\ flights'[e] > flights'[p] BY <1>6, <1>23
  <2>5. QED BY <2>2, <2>3, <2>4
<1>11. net[e] = <<>> /\ net[p] = <<>> BY <1>9, <1>10 DEF Records
<1>12. net'[e] = <<>> /\ net'[p] = <<Flight>>
  <2>1. net'[e] = net[e] /\ net'[p] = Append(net[p], Flight) BY <1>1
  <2>2. Append(<<>>, Flight) = <<Flight>> OBVIOUS
  <2>3. QED BY <1>11, <2>1, <2>2
<1>13. Head(<<Flight>>) = Flight /\ Tail(<<Flight>>) = <<>> /\ <<Flight>> # <<>> OBVIOUS
<1>14. Records(e)' = <<>> /\ Records(p)' = <<>> BY <1>10, <1>12, <1>13 DEF Records
<1>15. \A d \in Ends : d = e \/ d = p BY <1>2, <1>3
<1>16. \A d \in Ends : TlsUnits(d)' BY <1>9, <1>14, <1>15, RecordsSame
<1>17. got[p] = <<>> /\ engine[p] = <<>> /\ ~inHead[p]
  <2>1. Strung(<<>>, Len(got[p]) + Len(engine[p]), 0, inHead[p], outHead[e])
    BY <1>1, <1>9 DEF TlsUnits
  <2>2. Len(got[p]) + Len(engine[p]) = 0 /\ inHead[p] = outHead[e] BY <2>1, StrungNothing
  <2>3. got[p] \in Seq(Nat) /\ engine[p] \in Seq(Nat) BY <1>1 DEF GreenTyped
  <2>7. Len(got[p]) \in Nat /\ Len(engine[p]) \in Nat BY <2>3
  <2>8. \A x, y \in Nat : x + y = 0 => x = 0 /\ y = 0 OBVIOUS
  <2>4. Len(got[p]) = 0 /\ Len(engine[p]) = 0 BY <2>2, <2>7, <2>8, Zenon
  <2>5. got[p] = <<>> /\ engine[p] = <<>> BY <2>3, <2>4
  <2>6. QED BY <1>9, <2>2, <2>5
<1>18. HandshakeFirst(e)'
  BY <1>9, <1>10, <1>14, PeerIs DEF HandshakeFirst
<1>19. HandshakeFirst(p)'
  BY <1>9, <1>10, <1>12, <1>13, <1>14, <1>17, PeerIs DEF HandshakeFirst
<1>20. GreenTyped'
  <2>1. Flight \in Seq(Nat) BY DEF Flight
  <2>2. net' \in [Ends -> Seq(Seq(Nat))]
    <3>1. net[p] \in Seq(Seq(Nat)) BY <1>1
    <3>2. Append(net[p], Flight) \in Seq(Seq(Nat)) BY <2>1, <3>1
    <3>3. QED BY <1>1, <3>2
  <2>3. flights' \in [Ends -> 0..3]
    <3>3. flights[e] \in 0..3 BY <1>1
    <3>1. flights[e] + 1 \in 0..3 BY <3>3
    <3>2. QED BY <1>1, <3>1
  <2>4. QED BY <1>1, <2>2, <2>3 DEF GreenTyped, Ends
<1>21. \A d \in Ends : flights'[d] # 3 => flights[d] # 3 BY <1>6, <1>8, <1>15
<1>22. QED BY <1>7, <1>15, <1>16, <1>18, <1>19, <1>20, <1>21, GreenParts

LEMMA FlightTaken ==
  ASSUME GreenInv, kind = "tls", NEW e \in Ends, NEW p \in Ends, p = Peer(e), e = Peer(p), e # p,
         GreenNext \/ UNCHANGED greenVars, flights[e] < 3, net[e] # <<>>,
         net' = [net EXCEPT ![e] = Tail(@)],
         flights' = [flights EXCEPT ![e] = @ + 1],
         UNCHANGED <<inHead, outHead, engine, tail, got>>
  PROVE  GreenInv'
<1>1. /\ GreenTyped /\ TurnsKept
      /\ flights \in [Ends -> 0..3] /\ net \in [Ends -> Seq(Seq(Nat))]
      /\ \A d \in Ends : HandshakeFirst(d) /\ TlsUnits(d)
  BY DEF GreenInv, GreenShape, GreenTyped
<1>2. Ends = {"client", "server"} BY PeerIs
<1>3. (e = "client" /\ p = "server") \/ (e = "server" /\ p = "client") BY <1>2
<1>4. flights["client"] \in 0..3 /\ flights["server"] \in 0..3 BY <1>1, <1>2
<1>5. flights[e] \in 0..3 /\ flights[p] \in 0..3 BY <1>1
<1>6. flights'[e] = flights[e] + 1 /\ flights'[p] = flights[p] BY <1>1
<1>7. Expects(e)
  <2>1. SUFFICES ASSUME ~Expects(e) PROVE FALSE OBVIOUS
  <2>2. flights[p] # 3 BY <1>5, <2>1 DEF Expects
  <2>3. Records(e) = <<>> BY <1>1, <2>2 DEF HandshakeFirst
  <2>4. QED BY <2>1, <2>3 DEF Records
<1>8. flights[p] = flights[e] + 1
  <2>1. flights[p] > flights[e] BY <1>7 DEF Expects
  <2>2. CASE e = "client" BY <1>1, <1>3, <1>4, <2>1, <2>2 DEF TurnsKept
  <2>3. CASE e = "server" BY <1>1, <1>3, <1>4, <2>1, <2>3 DEF TurnsKept
  <2>4. QED BY <1>3, <2>2, <2>3
<1>9. TurnsKept' BY <1>3, <1>6, <1>8 DEF TurnsKept
<1>10. ~Expects(p) /\ ~Expects(e)' /\ ~Expects(p)' BY <1>5, <1>6, <1>8 DEF Expects
<1>11. net'[e] = Tail(net[e]) /\ net'[p] = net[p] BY <1>1
<1>12. Records(e)' = Records(e) /\ Records(p)' = Records(p) BY <1>7, <1>10, <1>11 DEF Records
<1>13. \A d \in Ends : d = e \/ d = p BY <1>2, <1>3
<1>14. \A d \in Ends : TlsUnits(d)' BY <1>12, <1>13, RecordsSame
<1>15. \A d \in Ends : flights'[d] # 3 => flights[d] # 3 BY <1>5, <1>6, <1>13
<1>16. HandshakeFirst(e)' BY <1>1, <1>10, <1>12, <1>15, PeerIs DEF HandshakeFirst
<1>17. HandshakeFirst(p)' BY <1>1, <1>10, <1>12, <1>15, PeerIs DEF HandshakeFirst
<1>18. GreenTyped'
  <2>1. net[e] \in Seq(Seq(Nat)) BY <1>1
  <2>2. Tail(net[e]) \in Seq(Seq(Nat)) BY <2>1
  <2>3. net' \in [Ends -> Seq(Seq(Nat))] BY <1>1, <2>2
  <2>4. flights' \in [Ends -> 0..3]
    <3>1. flights[e] + 1 \in 0..3 BY <1>5
    <3>2. QED BY <1>1, <3>1
  <2>5. QED BY <1>1, <2>3, <2>4 DEF GreenTyped, Ends
<1>19. QED BY <1>9, <1>13, <1>14, <1>15, <1>16, <1>17, <1>18, GreenParts

\* Bytes of a socket without TLS that go on their way, and that are received.
LEMMA BytesSent ==
  ASSUME GreenInv, kind # "tls", NEW e \in Ends, NEW p \in Ends, p = Peer(e), e = Peer(p), e # p,
         GreenNext \/ UNCHANGED greenVars, NEW n \in Nat,
         net' = [net EXCEPT ![p] = @ \o [i \in 1..n |-> <<tail[e] + i>>]],
         tail' = [tail EXCEPT ![e] = tail[e] + n],
         UNCHANGED <<flights, inHead, outHead, engine, got>>
  PROVE  GreenInv'
<1> DEFINE more == [i \in 1..n |-> <<tail[e] + i>>]
<1>1. GreenTyped /\ \A d \in Ends : PlainUnits(d) BY DEF GreenInv, GreenShape
<1>2. /\ net \in [Ends -> Seq(Seq(Nat))] /\ tail \in [Ends -> Nat]
      /\ got \in [Ends -> Seq(Nat)]
  BY <1>1 DEF GreenTyped
<1>3. \A d \in Ends : d = e \/ d = p BY PeerIs
<1>4. tail'[e] = tail[e] + n /\ tail'[p] = tail[p] BY <1>2
<1>5. more \in Seq(Seq(Nat)) /\ Len(more) = n /\ \A i \in 1..n : more[i] = <<tail[e] + i>>
  <2>1. PICK b \in Nat : tail[e] = b BY <1>2
  <2>2. \A i \in 1..n : <<b + i>> \in Seq(Nat) OBVIOUS
  <2>3. more = [i \in 1..n |-> <<b + i>>] BY <2>1
  <2>4. QED BY <2>1, <2>2, <2>3
<1> HIDE DEF more
<1>6. net' = [net EXCEPT ![p] = @ \o more] BY DEF more
<1>7. net'[e] = net[e] /\ net'[p] = net[p] \o more BY <1>2, <1>6
<1>8. PlainUnits(e)'
  <2>1. PlainUnits(e) BY <1>1
  <2>2. QED BY <1>4, <1>7, <2>1 DEF PlainUnits
<1>9. PlainUnits(p)'
  <2>1. PICK g \in Nat, k \in Nat, q \in Seq(Seq(Nat)) :
          g = Len(got[p]) /\ q = net[p] /\ k = Len(q)
    <3>1. got[p] \in Seq(Nat) /\ net[p] \in Seq(Seq(Nat)) BY <1>2
    <3>2. Len(got[p]) \in Nat /\ Len(net[p]) \in Nat BY <3>1
    <3>3. QED BY <3>1, <3>2
  <2>2. k = tail[e] - g /\ \A i \in 1..k : q[i] = <<g + i>> BY <1>1, <2>1 DEF PlainUnits
  <2>3. tail[e] \in Nat BY <1>2
  <2>4. tail[e] = g + k BY <2>2, <2>3
  <2>5. \A i \in 1..n : more[i] = <<g + k + i>> BY <1>5, <2>4
  <2>6. Len(q \o more) = k + n /\ \A i \in 1..(k + n) : (q \o more)[i] = <<g + i>>
    <3>5. \A x, y \in Seq(Seq(Nat)) : Len(x \o y) = Len(x) + Len(y) OBVIOUS
    <3>6. Len(q \o more) = Len(q) + Len(more) BY <1>5, <2>1, <3>5, Zenon
    <3>1. Len(q \o more) = k + n BY <1>5, <2>1, <3>6, Zenon
    <3>2. ASSUME NEW i \in 1..k PROVE (q \o more)[i] = <<g + i>>
      <4>1. (q \o more)[i] = q[i] BY <1>5, <2>1
      <4>2. QED BY <2>2, <4>1
    <3>3. ASSUME NEW i \in 1..(k + n), i \notin 1..k PROVE (q \o more)[i] = <<g + i>>
      <4>1. i - k \in 1..n /\ g + k + (i - k) = g + i BY <3>3
      <4>2. (q \o more)[i] = more[i - k] BY <1>5, <2>1, <3>3
      <4>3. QED BY <2>5, <4>1, <4>2
    <3>4. QED BY <3>1, <3>2, <3>3
  <2>7. tail'[e] - g = k + n BY <1>4, <2>4
  <2>8. engine[p] = <<>> /\ got[p] = BytesAfter(0, Len(got[p])) BY <1>1 DEF PlainUnits
  <2>9. net'[p] = q \o more BY <1>7, <2>1
  <2>10. /\ Len(net'[p]) = tail'[e] - Len(got[p])
         /\ \A i \in 1..Len(net'[p]) : net'[p][i] = <<Len(got[p]) + i>>
    BY <2>1, <2>6, <2>7, <2>9
  <2>11. QED BY <2>8, <2>10 DEF PlainUnits
<1>10. GreenTyped'
  <2>1. net[p] \o more \in Seq(Seq(Nat))
    <3>1. net[p] \in Seq(Seq(Nat)) BY <1>2
    <3>2. QED BY <1>5, <3>1
  <2>2. net' \in [Ends -> Seq(Seq(Nat))] BY <1>2, <1>6, <2>1
  <2>3. tail[e] + n \in Nat BY <1>2
  <2>4. tail' \in [Ends -> Nat] BY <1>2, <2>3
  <2>5. QED BY <1>1, <2>2, <2>4 DEF GreenTyped, Ends
<1>11. QED BY <1>3, <1>8, <1>9, <1>10, GreenParts

LEMMA BytesReceived ==
  ASSUME GreenInv, kind # "tls", NEW e \in Ends, NEW p \in Ends, p = Peer(e), e = Peer(p), e # p,
         GreenNext \/ UNCHANGED greenVars, NEW n \in 1..Len(net[e]),
         got' = [got EXCEPT ![e] = @ \o [i \in 1..n |-> Head(net[e][i])]],
         net' = [net EXCEPT ![e] = SubSeq(@, n + 1, Len(@))],
         UNCHANGED <<flights, inHead, outHead, engine, tail>>
  PROVE  GreenInv'
<1> DEFINE more == [i \in 1..n |-> Head(net[e][i])]
           rest == SubSeq(net[e], n + 1, Len(net[e]))
<1>1. GreenTyped /\ \A d \in Ends : PlainUnits(d) BY DEF GreenInv, GreenShape
<1>2. /\ net \in [Ends -> Seq(Seq(Nat))] /\ tail \in [Ends -> Nat]
      /\ got \in [Ends -> Seq(Nat)]
  BY <1>1 DEF GreenTyped
<1>3. \A d \in Ends : d = e \/ d = p BY PeerIs
<1>4. PICK g \in Nat, k \in Nat, q \in Seq(Seq(Nat)), b \in Nat :
        g = Len(got[e]) /\ q = net[e] /\ k = Len(q) /\ b = tail[p]
  <2>1. got[e] \in Seq(Nat) /\ net[e] \in Seq(Seq(Nat)) BY <1>2
  <2>2. Len(got[e]) \in Nat /\ Len(net[e]) \in Nat /\ tail[p] \in Nat BY <1>2, <2>1
  <2>3. QED BY <2>1, <2>2
<1>5. k = b - g /\ (\A i \in 1..k : q[i] = <<g + i>>) /\ got[e] = BytesAfter(0, g) /\ engine[e] = <<>>
  BY <1>1, <1>4 DEF PlainUnits
<1>6. n \in 1..k BY <1>4
<1>7. more = BytesAfter(g, n)
  <2>1. \A i \in 1..n : i \in 1..k BY <1>6
  <2>2. \A i \in 1..n : net[e][i] = <<g + i>> BY <1>4, <1>5, <2>1
  <2>3. \A i \in 1..n : Head(<<g + i>>) = g + i OBVIOUS
  <2>4. QED BY <2>2, <2>3 DEF BytesAfter
<1>8. rest \in Seq(Seq(Nat)) /\ Len(rest) = k - n /\ \A i \in 1..(k - n) : rest[i] = <<g + n + i>>
  <2>1. rest = SubSeq(q, n + 1, k) BY <1>4
  <2>2. SubSeq(q, n + 1, k) \in Seq(Seq(Nat)) /\ Len(SubSeq(q, n + 1, k)) = k - n BY <1>4, <1>6
  <2>3. ASSUME NEW i \in 1..(k - n) PROVE SubSeq(q, n + 1, k)[i] = <<g + n + i>>
    <3>1. n + i \in 1..k /\ g + (n + i) = g + n + i BY <1>6
    <3>2. SubSeq(q, n + 1, k)[i] = q[n + i] BY <1>4, <1>6
    <3>3. QED BY <1>5, <3>1, <3>2
  <2>4. QED BY <2>1, <2>2, <2>3
<1>9. got' = [got EXCEPT ![e] = @ \o more] /\ net' = [net EXCEPT ![e] = rest] OBVIOUS
<1> HIDE DEF more, rest
<1>10. /\ got'[e] = got[e] \o more /\ got'[p] = got[p]
       /\ net'[e] = rest /\ net'[p] = net[p]
  BY <1>2, <1>9
<1>11. PlainUnits(p)'
  <2>1. PlainUnits(p) BY <1>1
  <2>2. QED BY <1>10, <2>1 DEF PlainUnits
<1>12. got'[e] = BytesAfter(0, g + n)
  <2>1. n \in Nat /\ n \in 0..n BY <1>6
  <2>4. BytesAfter(0, g) \o BytesAfter(g, n) = BytesAfter(0, g + n) BY <2>1, BytesJoin
  <2>2. got[e] \o more = BytesAfter(0, g + n) BY <1>5, <1>7, <2>4
  <2>3. QED BY <1>10, <2>2
<1>13. g + n \in Nat /\ got'[e] \in Seq(Nat) /\ Len(got'[e]) = g + n
  <2>1. g + n \in Nat /\ 0 \in Nat BY <1>6
  <2>2. BytesAfter(0, g + n) \in Seq(Nat) /\ Len(BytesAfter(0, g + n)) = g + n BY <2>1, BytesRun
  <2>3. QED BY <1>12, <2>1, <2>2
<1>14. PlainUnits(e)'
  <2>1. Len(net'[e]) = tail[p] - Len(got'[e])
    <3>1. k - n = b - (g + n) BY <1>5, <1>6
    <3>2. QED BY <1>4, <1>8, <1>10, <1>13, <3>1
  <2>2. \A i \in 1..Len(net'[e]) : net'[e][i] = <<Len(got'[e]) + i>>
    BY <1>8, <1>10, <1>13
  <2>3. got'[e] = BytesAfter(0, Len(got'[e])) BY <1>12, <1>13
  <2>4. QED BY <1>5, <2>1, <2>2, <2>3 DEF PlainUnits
<1>15. GreenTyped'
  <2>1. got[e] \o more \in Seq(Nat) BY <1>10, <1>13
  <2>2. got' \in [Ends -> Seq(Nat)] BY <1>2, <1>9, <2>1
  <2>3. net' \in [Ends -> Seq(Seq(Nat))] BY <1>2, <1>8, <1>9
  <2>4. QED BY <1>1, <2>2, <2>3 DEF GreenTyped, Ends
<1>16. QED BY <1>3, <1>11, <1>14, <1>15, GreenParts

\* Who sends, or receives, over TLS has done the handshake.
LEMMA Shaken ==
  ASSUME GreenInv, kind = "tls", NEW e \in Ends, Runs(e, "send") \/ Runs(e, "recv")
  PROVE  flights[e] = 3 /\ ~Expects(e) /\ Records(e) = net[e]
<1>1. /\ todo[e] \in Plans(e) /\ flights \in [Ends -> 0..3]
      /\ flights[e] # 3 => todo[e] \in Early(e)
  BY DEF GreenInv, GreenShape, GreenTyped
<1>2. todo[e] # <<>> /\ Head(todo[e]) \in {"send", "recv"} BY DEF Runs
<1>3. todo[e] \notin Early(e) BY <1>1, <1>2, PlanSteps
<1>4. flights[e] = 3 BY <1>1, <1>3
<1>5. flights[Peer(e)] \in 0..3 BY <1>1, PeerIs
<1>6. ~Expects(e) BY <1>4, <1>5 DEF Expects
<1>7. QED BY <1>4, <1>6 DEF Records

\* Units of records that go on their way.
GoOn(more, b, n, o, h) ==
  \A q \in Seq(Seq(Nat)), a \in Nat, ha \in BOOLEAN :
    Strung(q, a, b, ha, o) => Strung(q \o more, a, b + n, ha, h)

LEMMA RecordsSent ==
  ASSUME GreenInv, kind = "tls", NEW e \in Ends, NEW p \in Ends, p = Peer(e), e = Peer(p), e # p,
         GreenNext \/ UNCHANGED greenVars, flights[e] = 3, ~Expects(e),
         NEW more \in Seq(Seq(Nat)), NEW n \in Nat, NEW h \in BOOLEAN,
         net' = [net EXCEPT ![p] = @ \o more],
         outHead' = [outHead EXCEPT ![e] = h],
         tail' = [tail EXCEPT ![e] = tail[e] + n],
         GoOn(more, tail[e], n, outHead[e], h),
         UNCHANGED <<flights, inHead, engine, got>>
  PROVE  GreenInv'
<1>1. GreenTyped /\ TurnsKept /\ \A d \in Ends : HandshakeFirst(d) /\ TlsUnits(d) BY DEF GreenInv, GreenShape
<1>2. /\ net \in [Ends -> Seq(Seq(Nat))] /\ tail \in [Ends -> Nat] /\ outHead \in [Ends -> BOOLEAN]
      /\ got \in [Ends -> Seq(Nat)] /\ engine \in [Ends -> Seq(Nat)] /\ inHead \in [Ends -> BOOLEAN]
  BY <1>1 DEF GreenTyped
<1>3. \A d \in Ends : d = e \/ d = p BY PeerIs
<1>4. /\ net'[e] = net[e] /\ net'[p] = net[p] \o more
      /\ tail'[p] = tail[p] /\ tail'[e] = tail[e] + n
  BY <1>2
<1>5. outHead'[p] = outHead[p] /\ outHead'[e] = h BY <1>2
<1>6. Expects(e)' = Expects(e) /\ Expects(p)' = Expects(p) BY DEF Expects
<1>7. Records(e)' = Records(e) BY <1>4, <1>6 DEF Records
<1>8. Records(p) \in Seq(Seq(Nat)) /\ Records(p)' = Records(p) \o more
  <2>1. net[p] \in Seq(Seq(Nat)) BY <1>2
  <2>2. CASE Expects(p)
    <3>1. net[p] # <<>> BY <1>1, <2>2 DEF HandshakeFirst
    <3>2. \A q \in Seq(Seq(Nat)) : q # <<>> => Tail(q) \in Seq(Seq(Nat)) /\ Tail(q \o more) = Tail(q) \o more
      <4>1. SUFFICES ASSUME NEW q \in Seq(Seq(Nat)), q # <<>>
                     PROVE  Tail(q) \in Seq(Seq(Nat)) /\ Tail(q \o more) = Tail(q) \o more
        OBVIOUS
      <4>2. Tail(q) \in Seq(Seq(Nat)) /\ Len(q) \in Nat \ {0} /\ Len(more) \in Nat BY <4>1
      <4>3. QED BY <4>1, <4>2
    <3>3. QED BY <1>4, <1>6, <2>1, <2>2, <3>1, <3>2 DEF Records
  <2>3. CASE ~Expects(p) BY <1>4, <1>6, <2>1, <2>3 DEF Records
  <2>4. QED BY <2>2, <2>3
<1>9. TlsUnits(e)'
  <2>1. Strung(Records(e), Len(got[e]) + Len(engine[e]), tail[p], inHead[e], outHead[p])
    BY <1>1 DEF TlsUnits
  <2>2. QED BY <1>1, <1>4, <1>5, <1>7, <2>1 DEF TlsUnits
<1>10. TlsUnits(p)'
  <2>1. Strung(Records(p), Len(got[p]) + Len(engine[p]), tail[e], inHead[p], outHead[e])
    BY <1>1 DEF TlsUnits
  <2>2. Len(got[p]) + Len(engine[p]) \in Nat /\ inHead[p] \in BOOLEAN
    <3>1. got[p] \in Seq(Nat) /\ engine[p] \in Seq(Nat) BY <1>2
    <3>2. Len(got[p]) \in Nat /\ Len(engine[p]) \in Nat BY <3>1
    <3>3. QED BY <1>2, <3>2
  <2>3. Strung(Records(p) \o more, Len(got[p]) + Len(engine[p]), tail[e] + n, inHead[p], h)
    BY <1>8, <2>1, <2>2 DEF GoOn
  <2>4. QED BY <1>1, <1>4, <1>5, <1>8, <2>3 DEF TlsUnits
<1>11. HandshakeFirst(e)'
  <2>1. flights'[e] = 3 /\ ~Expects(e)' BY <1>6
  <2>2. QED BY <2>1 DEF HandshakeFirst
<1>12. HandshakeFirst(p)'
  <2>1. HandshakeFirst(p) BY <1>1
  <2>2. Expects(p) => net'[p] # <<>> /\ Head(net'[p]) = Flight
    <3>1. net[p] \in Seq(Seq(Nat)) BY <1>2
    <3>2. \A q \in Seq(Seq(Nat)) : q # <<>> => q \o more # <<>> /\ Head(q \o more) = Head(q) OBVIOUS
    <3>3. Expects(p) => net[p] # <<>> /\ Head(net[p]) = Flight BY <2>1 DEF HandshakeFirst
    <3>4. QED BY <1>4, <3>1, <3>2, <3>3
  <2>3. QED BY <1>4, <1>5, <1>6, <1>7, <2>1, <2>2 DEF HandshakeFirst
<1>13. TurnsKept' BY <1>1 DEF TurnsKept
<1>14. GreenTyped'
  <2>1. net[p] \o more \in Seq(Seq(Nat))
    <3>1. net[p] \in Seq(Seq(Nat)) BY <1>2
    <3>2. QED BY <3>1
  <2>2. net' \in [Ends -> Seq(Seq(Nat))] BY <1>2, <2>1
  <2>3. tail[e] + n \in Nat BY <1>2
  <2>4. tail' \in [Ends -> Nat] BY <1>2, <2>3
  <2>5. outHead' \in [Ends -> BOOLEAN] BY <1>2
  <2>6. QED BY <1>1, <2>2, <2>4, <2>5 DEF GreenTyped, Ends
<1>15. QED BY <1>3, <1>9, <1>10, <1>11, <1>12, <1>13, <1>14, GreenParts

\* The units an endpoint has, with the head it has read.
Units(h, q) == (IF h THEN << <<>> >> ELSE <<>>) \o q

LEMMA FromThird ==
  ASSUME NEW q \in Seq(Seq(Nat)), NEW n \in Nat, n = Len(q), n >= 2
  PROVE  /\ SubSeq(q, 3, n) \in Seq(Seq(Nat)) /\ Len(SubSeq(q, 3, n)) = n - 2
         /\ \A i \in 1..(n - 2) : SubSeq(q, 3, n)[i] = q[i + 2]
<1>1. SubSeq(q, 3, n) \in Seq(Seq(Nat)) OBVIOUS
<1>2. Len(SubSeq(q, 3, n)) = n - 2 OBVIOUS
<1>3. ASSUME NEW i \in 1..(n - 2) PROVE SubSeq(q, 3, n)[i] = q[i + 2]
  <2>1. 3 + i - 1 = i + 2 OBVIOUS
  <2>2. SubSeq(q, 3, n)[i] = q[3 + i - 1]
    <3> DEFINE S == Seq(Nat)
    <3>1. q \in Seq(S) /\ n \in Nat /\ n = Len(q) /\ n >= 2 /\ i \in 1..(n - 2) OBVIOUS
    <3> HIDE DEF S
    <3>2. QED BY ONLY <3>1
  <2>3. QED BY <2>1, <2>2
<1>4. QED BY <1>1, <1>2, <1>3

LEMMA SameUnits ==
  ASSUME NEW x \in Seq(Seq(Nat)), NEW y \in Seq(Seq(Nat)), Len(x) = Len(y), \A i \in 1..Len(x) : x[i] = y[i]
  PROVE  x = y
<1>1. x = [i \in 1..Len(x) |-> x[i]] /\ y = [i \in 1..Len(y) |-> y[i]] OBVIOUS
<1>2. QED BY <1>1

\* The second unit has the bytes after a, and what follows those after them.
Follows(u, a, b, o) ==
  /\ SubSeq(u, 3, Len(u)) \in Seq(Seq(Nat))
  /\ \E m \in Nat : u[2] = BytesAfter(a, m) /\ Strung(SubSeq(u, 3, Len(u)), a + m, b, FALSE, o)

LEMMA FreshUnits ==
  ASSUME NEW q \in Seq(Seq(Nat)), NEW a \in Nat, NEW b \in Nat, NEW h \in BOOLEAN, NEW o \in BOOLEAN, Strung(q, a, b, h, o)
  PROVE  /\ Len(Units(h, q)) < 2 /\ (h \/ q # <<>>) => Strung(<<>>, a, b, TRUE, o)
         /\ Len(Units(h, q)) >= 2 => Follows(Units(h, q), a, b, o)
<1>1. CASE h = TRUE
  <2>1. Units(h, q) = << <<>> >> \o q BY <1>1 DEF Units
  <2> DEFINE u == << <<>> >> \o q
  <2>2. << <<>> >> \in Seq(Seq(Nat)) /\ Len(<< <<>> >>) = 1 OBVIOUS
  <2>3. u \in Seq(Seq(Nat)) /\ Len(u) = Len(q) + 1 /\ \A i \in 1..Len(q) : u[i + 1] = q[i] BY <2>2
  <2> HIDE DEF u
  <2>4. Strung(q, a, b, TRUE, o) BY <1>1
  <2>5. Len(u) < 2 => q = <<>> BY <2>3
  <2>6. ASSUME Len(u) >= 2 PROVE Follows(u, a, b, o)
    <3>1. q # <<>> /\ Len(q) >= 1 BY <2>3, <2>6
    <3>2. u[2] = Head(q) BY <2>3, <3>1
    <3>3. SubSeq(u, 3, Len(u)) = Tail(q)
      <4> DEFINE x == SubSeq(u, 3, Len(u))
                 y == Tail(q)
      <4>1. x \in Seq(Seq(Nat)) /\ Len(x) = Len(q) - 1 /\ \A i \in 1..(Len(q) - 1) : x[i] = u[i + 2]
        <5>1. Len(u) \in Nat /\ Len(u) - 2 = Len(q) - 1 /\ Len(q) \in Nat BY <2>3
        <5>2. u \in Seq(Seq(Nat)) /\ Len(u) >= 2 BY <2>3, <2>6
        <5>3. /\ x \in Seq(Seq(Nat)) /\ Len(x) = Len(u) - 2
              /\ \A i \in 1..(Len(u) - 2) : x[i] = u[i + 2]
          BY ONLY <5>1, <5>2, FromThird
        <5>4. QED BY <5>1, <5>3
      <4>2. y \in Seq(Seq(Nat)) /\ Len(y) = Len(q) - 1 /\ \A i \in 1..(Len(q) - 1) : y[i] = q[i + 1] BY <3>1
      <4>3. ASSUME NEW i \in 1..(Len(q) - 1) PROVE u[i + 2] = q[i + 1]
        <5>1. i + 1 \in 1..Len(q) /\ (i + 1) + 1 = i + 2 BY <4>3
        <5>2. QED BY <2>3, <5>1
      <4> HIDE DEF x, y
      <4>6. Len(x) = Len(y) /\ \A i \in 1..Len(x) : x[i] = y[i] BY <4>1, <4>2, <4>3
      <4>4. x = y BY <4>1, <4>2, <4>6, SameUnits
      <4>5. QED BY <4>4 DEF x, y
    <3>4. PICK m \in Nat : Head(q) = BytesAfter(a, m) /\ Strung(Tail(q), a + m, b, ~TRUE, o) BY <2>4, <3>1, StrungTail
    <3>5. Tail(q) \in Seq(Seq(Nat)) BY <3>1
    <3>6. QED BY <3>2, <3>3, <3>4, <3>5 DEF Follows
  <2>7. QED BY <2>1, <2>4, <2>5, <2>6 DEF u
<1>2. CASE h = FALSE
  <2>1. Units(h, q) = q BY <1>2 DEF Units
  <2>2. Strung(q, a, b, FALSE, o) BY <1>2
  <2>3. ASSUME q # <<>> PROVE Tail(q) \in Seq(Seq(Nat)) /\ Strung(Tail(q), a, b, TRUE, o)
    <3>1. PICK m \in Nat : m = 0 /\ Strung(Tail(q), a + m, b, ~FALSE, o) BY <2>2, <2>3, StrungTail
    <3>2. a + 0 = a /\ ~FALSE = TRUE OBVIOUS
    <3>3. Tail(q) \in Seq(Seq(Nat)) BY <2>3
    <3>4. QED BY <3>1, <3>2, <3>3
  <2>4. Len(q) < 2 /\ q # <<>> => Tail(q) = <<>> OBVIOUS
  <2>5. ASSUME Len(q) >= 2 PROVE Follows(q, a, b, o)
    <3> DEFINE t == Tail(q)
    <3>1. q # <<>> BY <2>5
    <3>2. t \in Seq(Seq(Nat)) /\ Strung(t, a, b, TRUE, o) BY <2>3, <3>1
    <3>7. Len(t) = Len(q) - 1 /\ \A i \in 1..(Len(q) - 1) : t[i] = q[i + 1] BY <2>5
    <3> HIDE DEF t
    <3>8. t # <<>> /\ Head(t) = q[2] BY <2>5, <3>2, <3>7
    <3>9. Tail(t) = SubSeq(q, 3, Len(q))
      <4> DEFINE x == SubSeq(q, 3, Len(q))
                 y == Tail(t)
      <4>1. x \in Seq(Seq(Nat)) /\ Len(x) = Len(q) - 2 /\ \A i \in 1..(Len(q) - 2) : x[i] = q[i + 2]
        <5>1. Len(q) \in Nat OBVIOUS
        <5>2. QED BY <2>5, <5>1, FromThird
      <4>2. y \in Seq(Seq(Nat)) /\ Len(y) = Len(q) - 2 /\ \A i \in 1..(Len(q) - 2) : y[i] = t[i + 1] BY <2>5, <3>2, <3>7, <3>8
      <4>3. ASSUME NEW i \in 1..(Len(q) - 2) PROVE t[i + 1] = q[i + 2]
        <5>1. i + 1 \in 1..(Len(q) - 1) /\ (i + 1) + 1 = i + 2 BY <4>3
        <5>2. QED BY <3>7, <5>1
      <4> HIDE DEF x, y
      <4>6. Len(x) = Len(y) /\ \A i \in 1..Len(x) : x[i] = y[i] BY <4>1, <4>2, <4>3
      <4>4. x = y BY <4>1, <4>2, <4>6, SameUnits
      <4>5. QED BY <4>4 DEF x, y
    <3>3. t # <<>> /\ Head(t) = q[2] /\ Tail(t) = SubSeq(q, 3, Len(q)) BY <3>8, <3>9
    <3>4. PICK m \in Nat : Head(t) = BytesAfter(a, m) /\ Strung(Tail(t), a + m, b, ~TRUE, o) BY <3>2, <3>3, StrungTail
    <3>5. Tail(t) \in Seq(Seq(Nat)) BY <3>2, <3>3
    <3>6. QED BY <3>3, <3>4, <3>5 DEF Follows
  <2>6. QED BY <1>2, <2>1, <2>3, <2>4, <2>5
<1>3. QED BY <1>1, <1>2

LEMMA OneUnit ==
  ASSUME NEW q \in Seq(Seq(Nat)), NEW a \in Nat, NEW b \in Nat, NEW h \in BOOLEAN, NEW o \in BOOLEAN, Strung(q, a, b, h, o),
         Len(Units(h, q)) < 2, h \/ q # <<>>
  PROVE  Strung(<<>>, a, b, TRUE, o)
BY FreshUnits

LEMMA TwoUnits ==
  ASSUME NEW q \in Seq(Seq(Nat)), NEW a \in Nat, NEW b \in Nat, NEW h \in BOOLEAN, NEW o \in BOOLEAN, Strung(q, a, b, h, o),
         Len(Units(h, q)) >= 2
  PROVE  Follows(Units(h, q), a, b, o)
BY FreshUnits

\* What a read of TLS leaves.
LEMMA RecordsTaken ==
  ASSUME GreenInv, kind = "tls", NEW e \in Ends, NEW p \in Ends, p = Peer(e), e = Peer(p), e # p,
         GreenNext \/ UNCHANGED greenVars, flights[e] = 3, ~Expects(e), ~Nothing(e),
         NEW g \in Nat, NEW d \in Nat, NEW h \in BOOLEAN, GreenTyped',
         got'[e] = BytesAfter(0, g), engine'[e] = BytesAfter(g, d), inHead'[e] = h,
         got'[p] = got[p], engine'[p] = engine[p], inHead'[p] = inHead[p],
         net'[p] = net[p],
         Strung(net'[e], g + d, tail[p], h, outHead[p]),
         UNCHANGED <<flights, outHead, tail>>
  PROVE  GreenInv'
<1>1. GreenTyped /\ TurnsKept /\ \A c \in Ends : HandshakeFirst(c) /\ TlsUnits(c) BY DEF GreenInv, GreenShape
<1>2. \A c \in Ends : c = e \/ c = p BY PeerIs
<1>3. flights[p] = 3
  <2>1. SUFFICES ASSUME flights[p] # 3 PROVE FALSE OBVIOUS
  <2>2. Records(e) = <<>> BY <1>1, <2>1 DEF HandshakeFirst
  <2>3. tail[p] = 0 BY <1>1, <2>1 DEF HandshakeFirst
  <2>4. net[e] = <<>> BY <2>2 DEF Records
  <2>5. Strung(<<>>, Len(got[e]) + Len(engine[e]), 0, inHead[e], outHead[p])
    BY <1>1, <2>2, <2>3 DEF TlsUnits
  <2>6. Len(got[e]) + Len(engine[e]) = 0 BY <2>5, StrungNothing
  <2>7. got[e] \in Seq(Nat) /\ engine[e] \in Seq(Nat) BY <1>1 DEF GreenTyped
  <2>8. Len(got[e]) \in Nat /\ Len(engine[e]) \in Nat BY <2>7
  <2>9. \A x, y \in Nat : x + y = 0 => y = 0 OBVIOUS
  <2>10. Len(engine[e]) = 0 BY <2>6, <2>8, <2>9, Zenon
  <2>11. engine[e] = <<>> BY <2>7, <2>10
  <2>12. QED BY <2>4, <2>11 DEF Nothing
<1>4. ~Expects(e)' /\ ~Expects(p)' /\ ~Expects(p) BY <1>3 DEF Expects
<1>5. Records(e)' = net'[e] /\ Records(p)' = net'[p] /\ Records(p) = net[p] BY <1>4 DEF Records
<1>6. TlsUnits(e)'
  <2>1. Len(got'[e]) = g /\ Len(engine'[e]) = d BY BytesRun
  <2>2. QED BY <1>5, <2>1 DEF TlsUnits
<1>7. TlsUnits(p)'
  <2>1. /\ got[p] = BytesAfter(0, Len(got[p]))
        /\ engine[p] = BytesAfter(Len(got[p]), Len(engine[p]))
        /\ Strung(net[p], Len(got[p]) + Len(engine[p]), tail[e], inHead[p], outHead[e])
    BY <1>1, <1>5 DEF TlsUnits
  <2>2. QED BY <1>5, <2>1 DEF TlsUnits
<1>8. HandshakeFirst(e)' /\ HandshakeFirst(p)' BY <1>3, <1>4 DEF HandshakeFirst
<1>9. TurnsKept' BY <1>1 DEF TurnsKept
<1>10. QED BY <1>2, <1>6, <1>7, <1>8, <1>9, GreenParts

\* A head, its body, or both.
LEMMA HeadAndBody ==
  ASSUME NEW q \in Seq(Seq(Nat)), NEW a \in Nat, NEW b \in Nat, NEW ha \in BOOLEAN, NEW hb \in BOOLEAN,
         Strung(q, a, b, ha, hb), NEW n \in Nat
  PROVE  /\ hb => Strung(q \o <<BytesAfter(b, n)>>, a, b + n, ha, FALSE)
         /\ ~hb => Strung(q \o << <<>> >>, a, b, ha, TRUE)
         /\ ~hb => Strung((q \o << <<>> >>) \o <<BytesAfter(b, n)>>, a, b + n, ha, FALSE)
<1> DEFINE body == BytesAfter(b, n)
<1>1. body \in Seq(Nat) BY BytesRun
<1>2. \A r \in Seq(Seq(Nat)), x \in Seq(Nat) : r \o <<x>> = Append(r, x) /\ Append(r, x) \in Seq(Seq(Nat)) OBVIOUS
<1>3. <<>> \in Seq(Nat) OBVIOUS
<1>4. ASSUME NEW r \in Seq(Seq(Nat)), Strung(r, a, b, ha, TRUE) PROVE Strung(r \o <<body>>, a, b + n, ha, FALSE)
  <2>1. Strung(Append(r, body), a, b + n, ha, ~TRUE) BY <1>4, StrungAppend
  <2>2. r \o <<body>> = Append(r, body) BY <1>1, <1>2
  <2>3. QED BY <2>1, <2>2
<1>5. ASSUME ~hb PROVE q \o << <<>> >> \in Seq(Seq(Nat)) /\ Strung(q \o << <<>> >>, a, b, ha, TRUE)
  <2>1. Strung(q, a, b, ha, FALSE) BY <1>5
  <2>2. 0 \in Nat /\ b + 0 = b /\ BytesAfter(b, 0) = <<>> BY NoBytes
  <2>3. Strung(Append(q, BytesAfter(b, 0)), a, b + 0, ha, ~FALSE) BY <2>1, <2>2, StrungAppend
  <2>4. Strung(Append(q, <<>>), a, b, ha, TRUE) BY <2>2, <2>3
  <2>5. q \o << <<>> >> = Append(q, <<>>) /\ Append(q, <<>>) \in Seq(Seq(Nat)) BY <1>2, <1>3
  <2>6. QED BY <2>4, <2>5
<1>6. ~hb => Strung((q \o << <<>> >>) \o <<body>>, a, b + n, ha, FALSE) BY <1>4, <1>5
<1>7. hb => Strung(q, a, b, ha, TRUE) OBVIOUS
<1>8. hb => Strung(q \o <<body>>, a, b + n, ha, FALSE) BY <1>4, <1>7
<1>9. QED BY <1>5, <1>6, <1>8

\* Records are put on the wire one after the other, whatever the grouping.
LEMMA RecordsJoin ==
  ASSUME NEW x \in Seq(Seq(Nat)), NEW y \in Seq(Seq(Nat)), NEW z \in Seq(Seq(Nat))
  PROVE  (x \o y) \o z = x \o (y \o z)
<1> DEFINE S == Seq(Nat)
<1>1. x \in Seq(S) /\ y \in Seq(S) /\ z \in Seq(S) OBVIOUS
<1> HIDE DEF S
<1>2. QED BY ONLY <1>1

LEMMA SendTlsKeeps ==
  ASSUME Countable, GreenInv, NEW e \in Ends, GreenNext \/ UNCHANGED greenVars, SendTls(e) PROVE GreenInv'
<1> DEFINE p == Peer(e)
           n == IF Size - tail[e] < MaxRecord THEN Size - tail[e] ELSE MaxRecord
           head == IF outHead[e] THEN <<>> ELSE << <<>> >>
           body == <<BytesAfter(tail[e], n)>>
<1>1. p \in Ends /\ e = Peer(p) /\ e # p BY PeerIs
<1>2. kind = "tls" /\ Runs(e, "send") /\ tail[e] < Size BY DEF SendTls
<1>3. flights[e] = 3 /\ ~Expects(e) BY <1>2, Shaken
<1>4. /\ net \in [Ends -> Seq(Seq(Nat))] /\ tail \in [Ends -> Nat] /\ outHead \in [Ends -> BOOLEAN]
  BY DEF GreenInv, GreenShape, GreenTyped
<1>5. n \in Nat /\ tail[e] \in Nat /\ outHead[e] \in BOOLEAN
  <2>1. Size \in Nat /\ MaxRecord \in Nat BY DEF Countable
  <2>2. QED BY <1>2, <1>4, <2>1
<1>6. UNCHANGED <<flights, inHead, engine, got>> BY DEF SendTls
<1>7. BytesAfter(tail[e], n) \in Seq(Nat) BY <1>5, BytesRun
<1>8. head \in Seq(Seq(Nat)) /\ body \in Seq(Seq(Nat)) /\ head \o body \in Seq(Seq(Nat))
  <2>1. <<>> \in Seq(Seq(Nat)) /\ << <<>> >> \in Seq(Seq(Nat)) OBVIOUS
  <2>2. head \in Seq(Seq(Nat)) BY <2>1
  <2>3. body \in Seq(Seq(Nat)) BY <1>7
  <2> HIDE DEF head, body
  <2>4. QED BY <2>2, <2>3
<1>9. \A x \in Seq(Seq(Nat)) : (x \o head) \o body = x \o (head \o body)
  <2> HIDE DEF head, body
  <2>1. QED BY <1>8, RecordsJoin
<1>10. \/ /\ net' = [net EXCEPT ![p] = @ \o head \o body]
          /\ outHead' = [outHead EXCEPT ![e] = FALSE]
          /\ tail' = [tail EXCEPT ![e] = tail[e] + n]
       \/ /\ Room(e) <= Len(head)
          /\ net' = [net EXCEPT ![p] = @ \o SubSeq(head, 1, Room(e))]
          /\ outHead' = [outHead EXCEPT ![e] = @ \/ Room(e) = 1]
          /\ tail' = tail
  <2>1. Room(e) \in Int /\ Len(head) \in Nat
    <3>1. net[p] \in Seq(Seq(Nat)) /\ Capacity \in Nat BY <1>1, <1>4 DEF Countable
    <3>2. Len(net[p]) \in Nat BY <3>1
    <3>3. Len(head) \in Nat BY <1>8
    <3>4. QED BY <3>1, <3>2, <3>3 DEF Room
  <2>2. CASE Room(e) > Len(head) BY <2>2 DEF SendTls, Taken
  <2>3. CASE ~(Room(e) > Len(head))
    <3>1. Room(e) <= Len(head) BY <2>1, <2>3
    <3>2. QED BY <2>3, <3>1 DEF SendTls, Taken
  <2>4. QED BY <2>2, <2>3
<1>11. CASE /\ net' = [net EXCEPT ![p] = @ \o head \o body]
            /\ outHead' = [outHead EXCEPT ![e] = FALSE]
            /\ tail' = [tail EXCEPT ![e] = tail[e] + n]
  <2>1. net[p] \in Seq(Seq(Nat)) BY <1>1, <1>4
  <2>2. net' = [net EXCEPT ![p] = @ \o (head \o body)] BY <1>9, <1>11, <2>1
  <2>3. ASSUME NEW q \in Seq(Seq(Nat)), NEW a \in Nat, NEW ha \in BOOLEAN, Strung(q, a, tail[e], ha, outHead[e])
        PROVE  Strung(q \o (head \o body), a, tail[e] + n, ha, FALSE)
    <3>1. Strung((q \o head) \o body, a, tail[e] + n, ha, FALSE)
      <4>1. CASE outHead[e]
        <5>1. q \o head = q BY <4>1
        <5>2. Strung(q \o body, a, tail[e] + n, ha, FALSE) BY <1>5, <2>3, <4>1, HeadAndBody
        <5>3. QED BY <5>1, <5>2
      <4>2. CASE ~outHead[e]
        <5>1. head = << <<>> >> BY <4>2
        <5>2. Strung((q \o << <<>> >>) \o body, a, tail[e] + n, ha, FALSE)
          <6> DEFINE b == tail[e]
                     hb == outHead[e]
          <6>1. /\ q \in Seq(Seq(Nat)) /\ a \in Nat /\ b \in Nat /\ ha \in BOOLEAN /\ hb \in BOOLEAN
                /\ Strung(q, a, b, ha, hb) /\ n \in Nat /\ ~hb
            BY <1>5, <2>3, <4>2
          <6> HIDE DEF b, hb, n
          <6>2. Strung((q \o << <<>> >>) \o <<BytesAfter(b, n)>>, a, b + n, ha, FALSE)
            BY ONLY <6>1, HeadAndBody
          <6>3. QED BY <6>2 DEF b
        <5>3. QED BY <5>1, <5>2
      <4>3. QED BY <4>1, <4>2
    <3>2. QED BY <1>9, <3>1
  <2> DEFINE more == head \o body
             h == FALSE
  <2>4. more \in Seq(Seq(Nat)) /\ net' = [net EXCEPT ![p] = @ \o more] BY <1>8, <2>2
  <2>5. GoOn(more, tail[e], n, outHead[e], h) BY <2>3 DEF GoOn
  <2>7. h \in BOOLEAN /\ outHead' = [outHead EXCEPT ![e] = h] BY <1>11
  <2>9. n \in Nat /\ tail' = [tail EXCEPT ![e] = tail[e] + n] BY <1>5, <1>11
  <2> HIDE DEF more, head, body, n, p, h
  <2>6. p = Peer(e) BY DEF p
  <2>8. QED BY <1>1, <1>2, <1>3, <1>6, <2>4, <2>5, <2>6, <2>7, <2>9, RecordsSent
<1>13. CASE /\ Room(e) <= Len(head)
            /\ net' = [net EXCEPT ![p] = @ \o SubSeq(head, 1, Room(e))]
            /\ outHead' = [outHead EXCEPT ![e] = @ \/ Room(e) = 1]
            /\ tail' = tail
  <2> DEFINE more == SubSeq(head, 1, Room(e))
             h == outHead[e] \/ Room(e) = 1
             z == 0
  <2>1. Room(e) \in Int
    <3>1. net[p] \in Seq(Seq(Nat)) /\ Capacity \in Nat BY <1>1, <1>4 DEF Countable
    <3>2. Len(net[p]) \in Nat BY <3>1
    <3>3. QED BY <3>1, <3>2 DEF Room
  <2>2. \/ more = <<>> /\ h = outHead[e]
        \/ more = << <<>> >> /\ h = TRUE /\ ~outHead[e]
    <3>1. CASE outHead[e]
      <4>1. head = <<>> /\ Len(head) = 0 BY <3>1
      <4>2. Room(e) <= 0 BY <1>13, <4>1
      <4>3. more = <<>> BY <2>1, <4>1, <4>2
      <4>4. h = TRUE /\ outHead[e] = TRUE BY <1>5, <3>1
      <4>5. QED BY <4>3, <4>4
    <3>2. CASE ~outHead[e]
      <4>1. head = << <<>> >> /\ Len(head) = 1 BY <3>2
      <4>2. Room(e) <= 0 \/ Room(e) = 1 BY <1>13, <2>1, <4>1
      <4>3. CASE Room(e) <= 0
        <5>1. more = <<>> BY <2>1, <4>1, <4>3
        <5>2. h = FALSE /\ outHead[e] = FALSE BY <1>5, <2>1, <3>2, <4>3
        <5>3. QED BY <5>1, <5>2
      <4>4. CASE Room(e) = 1
        <5>3. more = SubSeq(<< <<>> >>, 1, 1) BY <4>1, <4>4
        <5>4. SubSeq(<< <<>> >>, 1, 1) = << <<>> >>
          <6>1. << <<>> >> \in Seq(Seq(Nat)) /\ Len(<< <<>> >>) = 1 OBVIOUS
          <6>2. \A x \in Seq(Seq(Nat)) : SubSeq(x, 1, Len(x)) = x BY SubSeqFull
          <6>3. QED BY <6>1, <6>2
        <5>1. more = << <<>> >> BY <5>3, <5>4
        <5>2. h = TRUE BY <4>4
        <5>5. QED BY <3>2, <5>1, <5>2
      <4>5. QED BY <4>2, <4>3, <4>4
    <3>3. QED BY <3>1, <3>2
  <2>3. h \in BOOLEAN /\ outHead' = [outHead EXCEPT ![e] = h] BY <1>13
  <2>4. net' = [net EXCEPT ![p] = @ \o more] BY <1>13
  <2> HIDE DEF more, h
  <2>5. more \in Seq(Seq(Nat))
    <3>1. <<>> \in Seq(Seq(Nat)) /\ << <<>> >> \in Seq(Seq(Nat)) OBVIOUS
    <3>2. QED BY <2>2, <3>1
  <2>6. GoOn(more, tail[e], z, outHead[e], h)
    <3>1. SUFFICES ASSUME NEW q \in Seq(Seq(Nat)), NEW a \in Nat, NEW ha \in BOOLEAN,
                          Strung(q, a, tail[e], ha, outHead[e])
                   PROVE  Strung(q \o more, a, tail[e] + z, ha, h)
      BY DEF GoOn
    <3>2. tail[e] + z = tail[e] BY <1>5
    <3>3. CASE more = <<>> /\ h = outHead[e]
      <4>1. q \o more = q BY <3>3
      <4>2. QED BY <3>1, <3>2, <3>3, <4>1
    <3>4. CASE more = << <<>> >> /\ h = TRUE /\ ~outHead[e]
      <4>1. Strung(q \o << <<>> >>, a, tail[e], ha, TRUE) BY <1>5, <3>1, <3>4, HeadAndBody
      <4>2. QED BY <3>2, <3>4, <4>1
    <3>5. QED BY <2>2, <3>3, <3>4
  <2>7. z \in Nat /\ tail' = [tail EXCEPT ![e] = tail[e] + z] BY <1>4, <1>5, <1>13
  <2> HIDE DEF head, body, n, p, z
  <2>8. p = Peer(e) BY DEF p
  <2>9. QED BY <1>1, <1>2, <1>3, <1>6, <2>3, <2>4, <2>5, <2>6, <2>7, <2>8, RecordsSent
<1>14. QED BY <1>10, <1>11, <1>13

LEMMA RecvTlsKeeps ==
  ASSUME GreenInv, NEW e \in Ends, GreenNext \/ UNCHANGED greenVars, RecvTls(e) PROVE GreenInv'
<1> DEFINE p == Peer(e)
           u == Units(inHead[e], net[e])
<1>1. p \in Ends /\ e = Peer(p) /\ e # p BY PeerIs
<1>2. kind = "tls" /\ Runs(e, "recv") /\ ~Nothing(e) BY DEF RecvTls
<1>3. flights[e] = 3 /\ ~Expects(e) /\ Records(e) = net[e] BY <1>2, Shaken
<1>4. GreenTyped /\ TlsUnits(e) BY <1>2 DEF GreenInv, GreenShape
<1>5. /\ net \in [Ends -> Seq(Seq(Nat))] /\ inHead \in [Ends -> BOOLEAN]
      /\ got \in [Ends -> Seq(Nat)] /\ engine \in [Ends -> Seq(Nat)]
      /\ tail \in [Ends -> Nat] /\ outHead \in [Ends -> BOOLEAN]
  BY <1>4 DEF GreenTyped
<1>6. UNCHANGED <<flights, outHead, tail>> BY DEF RecvTls
<1>7. PICK g \in Nat, d \in Nat : g = Len(got[e]) /\ d = Len(engine[e])
  <2>1. got[e] \in Seq(Nat) /\ engine[e] \in Seq(Nat) BY <1>5
  <2>2. QED BY <2>1
<1>8. /\ got[e] = BytesAfter(0, g) /\ engine[e] = BytesAfter(g, d)
      /\ Strung(net[e], g + d, tail[p], inHead[e], outHead[p])
  BY <1>3, <1>4, <1>7 DEF TlsUnits
<1>9. net[e] \in Seq(Seq(Nat)) /\ inHead[e] \in BOOLEAN /\ tail[p] \in Nat /\ outHead[p] \in BOOLEAN
  BY <1>1, <1>5
<1>10. \/ /\ engine[e] = <<>> /\ Len(u) < 2
          /\ net' = [net EXCEPT ![e] = <<>>] /\ inHead' = [inHead EXCEPT ![e] = TRUE]
          /\ engine' = engine /\ got' = got
       \/ /\ engine[e] = <<>> /\ ~(Len(u) < 2)
          /\ \E n \in 1..Len(u[2]) :
               /\ got' = [got EXCEPT ![e] = @ \o SubSeq(u[2], 1, n)]
               /\ engine' = [engine EXCEPT ![e] = SubSeq(u[2], n + 1, Len(u[2]))]
          /\ net' = [net EXCEPT ![e] = SubSeq(u, 3, Len(u))] /\ inHead' = [inHead EXCEPT ![e] = FALSE]
       \/ /\ engine[e] # <<>>
          /\ \E n \in 1..Len(engine[e]) :
               /\ got' = [got EXCEPT ![e] = @ \o SubSeq(engine[e], 1, n)]
               /\ engine' = [engine EXCEPT ![e] = SubSeq(engine[e], n + 1, Len(engine[e]))]
          /\ net' = net /\ inHead' = inHead
  <2>1. CASE engine[e] = <<>> /\ Len(u) < 2 BY <2>1 DEF RecvTls, Units
  <2>2. CASE engine[e] = <<>> /\ ~(Len(u) < 2) BY <2>2 DEF RecvTls, Units
  <2>3. CASE engine[e] # <<>> BY <2>3 DEF RecvTls, Units
  <2>4. QED BY <2>1, <2>2, <2>3
<1> HIDE DEF u
\* What is read of a record, of which the engine keeps the rest.
<1>11. ASSUME NEW m \in Nat, NEW data, data = BytesAfter(g, m), NEW n \in 1..Len(data), NEW q \in Seq(Seq(Nat)),
              NEW h \in BOOLEAN, Strung(q, g + m, tail[p], h, outHead[p]),
              got' = [got EXCEPT ![e] = @ \o SubSeq(data, 1, n)],
              engine' = [engine EXCEPT ![e] = SubSeq(data, n + 1, Len(data))],
              net' \in [Ends -> Seq(Seq(Nat))], net'[e] = q, net'[p] = net[p],
              inHead' \in [Ends -> BOOLEAN], inHead'[e] = h, inHead'[p] = inHead[p]
       PROVE  GreenInv'
  <2>1. Len(data) = m BY <1>11, BytesRun
  <2>2. n \in Nat /\ n <= m /\ g + n \in Nat /\ m - n \in Nat /\ (g + n) + (m - n) = g + m BY <1>11, <2>1
  <2>3. /\ BytesAfter(0, g) \o SubSeq(BytesAfter(g, m), 1, n) = BytesAfter(0, g + n)
        /\ SubSeq(BytesAfter(g, m), n + 1, Len(BytesAfter(g, m))) = BytesAfter(g + n, m - n)
    <3>1. g \in Nat /\ m \in Nat /\ n \in Nat /\ n <= m BY <2>2
    <3>2. QED BY ONLY <3>1, BytesMove
  <2>4. got[e] \o SubSeq(data, 1, n) = BytesAfter(0, g + n) BY <1>8, <1>11, <2>3
  <2>5. SubSeq(data, n + 1, Len(data)) = BytesAfter(g + n, m - n) BY <1>11, <2>3
  <2>6. BytesAfter(0, g + n) \in Seq(Nat) /\ BytesAfter(g + n, m - n) \in Seq(Nat) BY <2>2, BytesRun
  <2>7. /\ got' \in [Ends -> Seq(Nat)] /\ got'[e] = BytesAfter(0, g + n) /\ got'[p] = got[p]
    <3>1. got' = [got EXCEPT ![e] = BytesAfter(0, g + n)] BY <1>11, <2>4
    <3>2. QED BY <1>1, <1>5, <2>6, <3>1
  <2>8. /\ engine' \in [Ends -> Seq(Nat)] /\ engine'[e] = BytesAfter(g + n, m - n)
        /\ engine'[p] = engine[p]
    <3>1. engine' = [engine EXCEPT ![e] = BytesAfter(g + n, m - n)] BY <1>11, <2>5
    <3>2. QED BY <1>1, <1>5, <2>6, <3>1
  <2>9. GreenTyped' BY <1>4, <1>6, <1>11, <2>7, <2>8 DEF GreenTyped, Ends
  <2> DEFINE a == g + n
             k == m - n
  <2>10. /\ a \in Nat /\ k \in Nat /\ got'[e] = BytesAfter(0, a) /\ engine'[e] = BytesAfter(a, k)
         /\ Strung(net'[e], a + k, tail[p], h, outHead[p])
    BY <1>11, <2>2, <2>7, <2>8
  <2>11. /\ got'[p] = got[p] /\ engine'[p] = engine[p] /\ inHead'[p] = inHead[p]
         /\ net'[p] = net[p] /\ inHead'[e] = h /\ h \in BOOLEAN
    BY <1>11, <2>7, <2>8
  <2> HIDE DEF a, k, p
  <2>12. p = Peer(e) BY DEF p
  <2>13. /\ GreenInv /\ (GreenNext \/ UNCHANGED greenVars) /\ GreenTyped'
         /\ kind = "tls" /\ flights[e] = 3 /\ ~Expects(e) /\ ~Nothing(e)
         /\ UNCHANGED <<flights, outHead, tail>>
    BY <1>2, <1>3, <1>6, <2>9
  <2>14. e \in Ends /\ p \in Ends /\ p = Peer(e) /\ e = Peer(p) /\ e # p BY <1>1, <2>12
  <2>15. QED BY ONLY <2>10, <2>11, <2>13, <2>14, RecordsTaken
<1>12. CASE /\ engine[e] = <<>> /\ Len(u) < 2
            /\ net' = [net EXCEPT ![e] = <<>>] /\ inHead' = [inHead EXCEPT ![e] = TRUE]
            /\ engine' = engine /\ got' = got
  <2>1. inHead[e] \/ net[e] # <<>> BY <1>2, <1>12 DEF Nothing
  <2>2. Strung(<<>>, g + d, tail[p], TRUE, outHead[p])
    <3> DEFINE a == g + d
    <3>1. a \in Nat /\ Strung(net[e], a, tail[p], inHead[e], outHead[p]) BY <1>8
    <3>2. Len(Units(inHead[e], net[e])) < 2 BY <1>12 DEF u
    <3> HIDE DEF a, p
    <3>3. Strung(<<>>, a, tail[p], TRUE, outHead[p]) BY <1>9, <2>1, <3>1, <3>2, OneUnit
    <3>4. QED BY <3>3 DEF a
  <2> DEFINE h == TRUE
  <2>9. net'[e] = <<>> BY <1>5, <1>12
  <2>3. /\ net' \in [Ends -> Seq(Seq(Nat))] /\ net'[p] = net[p]
        /\ inHead' \in [Ends -> BOOLEAN] /\ inHead'[e] = h /\ inHead'[p] = inHead[p]
    <3>1. <<>> \in Seq(Seq(Nat)) OBVIOUS
    <3>2. QED BY <1>1, <1>5, <1>12, <3>1
  <2>4. GreenTyped' BY <1>4, <1>6, <1>12, <2>3 DEF GreenTyped, Ends
  <2>5. /\ got'[e] = BytesAfter(0, g) /\ engine'[e] = BytesAfter(g, d)
        /\ got'[p] = got[p] /\ engine'[p] = engine[p]
        /\ Strung(net'[e], g + d, tail[p], h, outHead[p])
    BY <1>8, <1>12, <2>2, <2>9
  <2>6. /\ inHead'[e] = h /\ inHead'[p] = inHead[p] /\ net'[p] = net[p]
        /\ h \in BOOLEAN /\ g \in Nat /\ d \in Nat
    BY <2>3
  <2> HIDE DEF h, p
  <2>7. p = Peer(e) BY DEF p
  <2>8. QED BY <1>1, <1>2, <1>3, <1>6, <2>4, <2>5, <2>6, <2>7, RecordsTaken
<1>13. CASE /\ engine[e] = <<>> /\ ~(Len(u) < 2)
            /\ \E n \in 1..Len(u[2]) :
                 /\ got' = [got EXCEPT ![e] = @ \o SubSeq(u[2], 1, n)]
                 /\ engine' = [engine EXCEPT ![e] = SubSeq(u[2], n + 1, Len(u[2]))]
            /\ net' = [net EXCEPT ![e] = SubSeq(u, 3, Len(u))] /\ inHead' = [inHead EXCEPT ![e] = FALSE]
  <2> DEFINE q == SubSeq(u, 3, Len(u))
             data == u[2]
             h == FALSE
  <2>1. d = 0 BY <1>7, <1>13
  <2>2. g + d = g /\ g + d \in Nat BY <2>1
  <2>3. Len(u) >= 2
    <3>1. u \in Seq(Seq(Nat))
      <4>1. <<>> \in Seq(Seq(Nat)) /\ << <<>> >> \in Seq(Seq(Nat)) OBVIOUS
      <4>2. \A x, y \in Seq(Seq(Nat)) : x \o y \in Seq(Seq(Nat)) OBVIOUS
      <4>3. QED BY <1>9, <4>1, <4>2 DEF u, Units
    <3>2. Len(u) \in Nat BY <3>1
    <3>3. QED BY <1>13, <3>2
  <2>4. PICK m \in Nat : data = BytesAfter(g, m) /\ q \in Seq(Seq(Nat)) /\ Strung(q, g + m, tail[p], h, outHead[p])
    <3>1. Strung(net[e], g, tail[p], inHead[e], outHead[p]) BY <1>8, <2>2
    <3>2. Len(Units(inHead[e], net[e])) >= 2 BY <2>3 DEF u
    <3>3. Follows(u, g, tail[p], outHead[p]) BY <1>9, <3>1, <3>2, TwoUnits DEF u
    <3>4. QED BY <3>3 DEF Follows
  <2>5. PICK n \in 1..Len(data) :
          /\ got' = [got EXCEPT ![e] = @ \o SubSeq(data, 1, n)]
          /\ engine' = [engine EXCEPT ![e] = SubSeq(data, n + 1, Len(data))]
    BY <1>13
  <2>6. net' = [net EXCEPT ![e] = q] /\ inHead' = [inHead EXCEPT ![e] = h] /\ h \in BOOLEAN BY <1>13
  <2> HIDE DEF q, data, h, p
  <2>7. /\ net' \in [Ends -> Seq(Seq(Nat))] /\ net'[e] = q /\ net'[p] = net[p]
        /\ inHead' \in [Ends -> BOOLEAN] /\ inHead'[e] = h /\ inHead'[p] = inHead[p]
    BY <1>1, <1>5, <2>4, <2>6
  <2>8. m \in Nat /\ data = BytesAfter(g, m) /\ n \in 1..Len(data) /\ q \in Seq(Seq(Nat)) /\ h \in BOOLEAN
        /\ Strung(q, g + m, tail[p], h, outHead[p])
    BY <2>4, <2>5, <2>6
  <2>9. QED BY <1>11, <2>5, <2>7, <2>8
<1>14. CASE /\ engine[e] # <<>>
            /\ \E n \in 1..Len(engine[e]) :
                 /\ got' = [got EXCEPT ![e] = @ \o SubSeq(engine[e], 1, n)]
                 /\ engine' = [engine EXCEPT ![e] = SubSeq(engine[e], n + 1, Len(engine[e]))]
            /\ net' = net /\ inHead' = inHead
  <2> DEFINE data == engine[e]
             h == inHead[e]
             q == net[e]
  <2>1. PICK n \in 1..Len(data) :
          /\ got' = [got EXCEPT ![e] = @ \o SubSeq(data, 1, n)]
          /\ engine' = [engine EXCEPT ![e] = SubSeq(data, n + 1, Len(data))]
    BY <1>14
  <2>2. data = BytesAfter(g, d) /\ q \in Seq(Seq(Nat)) /\ h \in BOOLEAN /\ Strung(q, g + d, tail[p], h, outHead[p])
    BY <1>8, <1>9
  <2>3. /\ net' \in [Ends -> Seq(Seq(Nat))] /\ net'[e] = q /\ net'[p] = net[p]
        /\ inHead' \in [Ends -> BOOLEAN] /\ inHead'[e] = h /\ inHead'[p] = inHead[p]
    BY <1>5, <1>14
  <2> HIDE DEF q, data, h, p
  <2>4. QED BY <1>7, <1>11, <2>1, <2>2, <2>3
<1>15. QED BY <1>10, <1>12, <1>13, <1>14

LEMMA GreenStepKeeps ==
  ASSUME Countable, GreenInv, NEW e \in Ends, GreenNext \/ UNCHANGED greenVars, Step(e) PROVE GreenInv'
<1> DEFINE p == Peer(e)
<1>1. p \in Ends /\ p = Peer(e) /\ e = Peer(p) /\ e # p BY PeerIs
<1>2. CASE UNCHANGED peerVars BY <1>2, QuietStep
<1>3. CASE connect(e) \/ accept(e) \/ HandshakeEnds(e)
  <2>1. UNCHANGED peerVars BY <1>3 DEF connect, accept, HandshakeEnds
  <2>2. QED BY <1>2, <2>1
<1>4. CASE SendFails(e) \/ SendEnds(e) \/ RecvTlsNothing(e) \/ RecvEnds(e)
  <2>1. UNCHANGED peerVars BY <1>4 DEF SendFails, SendEnds, RecvTlsNothing, RecvEnds
  <2>2. QED BY <1>2, <2>1
<1>5. Runs(e, "handshake") => kind = "tls"
  <2>1. todo[e] \in Plans(e) BY DEF GreenInv, GreenShape
  <2>2. QED BY <2>1, PlanSteps DEF Runs
<1>6. CASE HandshakeWrites(e)
  <2>1. /\ Runs(e, "handshake") /\ Mine(e) /\ flights[e] < 3
        /\ UNCHANGED <<inHead, outHead, engine, tail, got>>
        /\ \/ UNCHANGED <<net, flights>>
           \/ /\ net' = [net EXCEPT ![p] = Append(@, Flight)]
              /\ flights' = [flights EXCEPT ![e] = @ + 1]
    BY <1>6 DEF HandshakeWrites
  <2>2. CASE UNCHANGED <<net, flights>>
    <3>1. UNCHANGED peerVars BY <2>1, <2>2 DEF peerVars
    <3>2. QED BY <1>2, <3>1
  <2>3. CASE /\ net' = [net EXCEPT ![p] = Append(@, Flight)]
             /\ flights' = [flights EXCEPT ![e] = @ + 1]
    <3> HIDE DEF p
    <3>1. QED BY <1>1, <1>5, <2>1, <2>3, FlightSent
  <2>4. QED BY <2>1, <2>2, <2>3
<1>7. CASE HandshakeReads(e)
  <2>1. /\ Runs(e, "handshake") /\ flights[e] < 3
        /\ UNCHANGED <<inHead, outHead, engine, tail, got>>
        /\ \/ UNCHANGED <<net, flights>>
           \/ /\ net[e] # <<>> /\ net' = [net EXCEPT ![e] = Tail(@)]
              /\ flights' = [flights EXCEPT ![e] = @ + 1]
    BY <1>7 DEF HandshakeReads
  <2>2. CASE UNCHANGED <<net, flights>>
    <3>1. UNCHANGED peerVars BY <2>1, <2>2 DEF peerVars
    <3>2. QED BY <1>2, <3>1
  <2>3. CASE /\ net[e] # <<>> /\ net' = [net EXCEPT ![e] = Tail(@)]
             /\ flights' = [flights EXCEPT ![e] = @ + 1]
    <3> HIDE DEF p
    <3>1. QED BY <1>1, <1>5, <2>1, <2>3, FlightTaken
  <2>4. QED BY <2>1, <2>2, <2>3
<1>8. CASE SendPlain(e)
  <2>1. kind # "tls" /\ UNCHANGED <<flights, inHead, outHead, engine, got>>
    BY <1>8 DEF SendPlain
  <2>2. CASE Room(e) = 0
    <3>1. UNCHANGED <<net, tail>> BY <1>8, <2>2 DEF SendPlain
    <3>2. UNCHANGED peerVars BY <2>1, <3>1 DEF peerVars
    <3>3. QED BY <1>2, <3>2
  <2>3. CASE Room(e) # 0
    <3>1. PICK n \in 1..(Size - tail[e]) :
            /\ net' = [net EXCEPT ![p] = @ \o [i \in 1..n |-> <<tail[e] + i>>]]
            /\ tail' = [tail EXCEPT ![e] = tail[e] + n]
      BY <1>8, <2>3 DEF SendPlain, Taken
    <3>2. n \in Nat
      <4>1. Size \in Nat /\ tail[e] \in Nat BY DEF Countable, GreenInv, GreenShape, GreenTyped
      <4>2. QED BY <4>1
    <3> HIDE DEF p
    <3>3. QED BY <1>1, <2>1, <3>1, <3>2, BytesSent
  <2>4. QED BY <2>2, <2>3
<1>9. CASE SendTls(e) BY <1>9, SendTlsKeeps
<1>10. CASE RecvPlain(e)
  <2>1. kind # "tls" /\ UNCHANGED <<flights, inHead, outHead, engine, tail>>
    BY <1>10 DEF RecvPlain
  <2>2. CASE net[e] = <<>>
    <3>1. UNCHANGED <<net, got>> BY <1>10, <2>2 DEF RecvPlain
    <3>2. UNCHANGED peerVars BY <2>1, <3>1 DEF peerVars
    <3>3. QED BY <1>2, <3>2
  <2>3. CASE net[e] # <<>>
    <3>1. PICK n \in 1..Len(net[e]) :
            /\ got' = [got EXCEPT ![e] = @ \o [i \in 1..n |-> Head(net[e][i])]]
            /\ net' = [net EXCEPT ![e] = SubSeq(@, n + 1, Len(@))]
      BY <1>10, <2>3 DEF RecvPlain
    <3> HIDE DEF p
    <3>2. QED BY <1>1, <2>1, <3>1, BytesReceived
  <2>4. QED BY <2>2, <2>3
<1>11. CASE RecvTls(e) BY <1>11, RecvTlsKeeps
<1>12. QED BY <1>3, <1>4, <1>6, <1>7, <1>8, <1>9, <1>10, <1>11 DEF Step

LEMMA GreenInvStep == ASSUME Countable, GreenInv, GreenNext \/ UNCHANGED greenVars PROVE GreenInv'
<1>1. CASE UNCHANGED peerVars BY <1>1, QuietStep
<1>2. CASE Kernel \/ UNCHANGED greenVars
  <2>1. UNCHANGED peerVars BY <1>2 DEF Kernel, Resolve, greenVars, peerVars
  <2>2. QED BY <1>1, <2>1
<1>3. ASSUME NEW e \in Ends, Wake(e) \/ Expire(e) PROVE GreenInv'
  <2>1. UNCHANGED peerVars BY <1>3 DEF Wake, Expire
  <2>2. QED BY <1>1, <2>1
<1>4. ASSUME NEW e \in Ends, Step(e) PROVE GreenInv' BY <1>4, GreenStepKeeps
<1>5. QED BY <1>2, <1>3, <1>4 DEF GreenNext

\* What the invariant says of the streams.
LEMMA PlainIntact ==
  ASSUME GreenInv, kind # "tls", NEW e \in Ends
  PROVE  \E from \in [1..(Len(net[e]) + 1) -> 0..tail[Peer(e)]] :
           /\ from[1] = Len(got[e]) /\ from[Len(net[e]) + 1] = tail[Peer(e)]
           /\ \A i \in 1..Len(net[e]) :
                from[i] <= from[i + 1] /\ net[e][i] = BytesAfter(from[i], from[i + 1] - from[i])
<1> DEFINE end == tail[Peer(e)]
<1>1. PICK g \in Nat, n \in Nat : g = Len(got[e]) /\ n = Len(net[e])
  <2>1. got[e] \in Seq(Nat) /\ net[e] \in Seq(Seq(Nat)) BY DEF GreenInv, GreenShape, GreenTyped
  <2>2. QED BY <2>1
<1>2. end \in Nat BY PeerIs DEF GreenInv, GreenShape, GreenTyped
<1>3. n = end - g /\ \A i \in 1..n : net[e][i] = <<g + i>> BY <1>1 DEF GreenInv, PlainUnits
<1> HIDE DEF end
<1> DEFINE from == [i \in 1..(n + 1) |-> g + i - 1]
<1>4. from \in [1..(n + 1) -> 0..end] /\ from[1] = g /\ from[n + 1] = end BY <1>2, <1>3
<1>5. ASSUME NEW i \in 1..n
      PROVE  from[i] <= from[i + 1] /\ net[e][i] = BytesAfter(from[i], from[i + 1] - from[i])
  <2>1. from[i] = g + i - 1 /\ from[i + 1] = g + i BY <1>5
  <2>2. from[i] <= from[i + 1] /\ from[i + 1] - from[i] = 1 /\ from[i] + 1 = g + i BY <2>1
  <2> HIDE DEF from
  <2>5. from[i] \in Nat BY <2>1, <2>2
  <2>3. <<from[i] + 1>> = BytesAfter(from[i], 1) BY <2>5, OneByte
  <2>4. QED BY <1>3, <2>2, <2>3
<1> HIDE DEF from
<1>6. QED BY <1>1, <1>4, <1>5 DEF end

LEMMA TlsIntact ==
  ASSUME GreenInv, kind = "tls", NEW e \in Ends
  PROVE  \E from \in [1..(Len(net[e]) + 1) -> 0..tail[Peer(e)]] :
           /\ from[1] = Len(got[e]) + Len(engine[e]) /\ from[Len(net[e]) + 1] = tail[Peer(e)]
           /\ \A i \in 1..Len(net[e]) :
                /\ from[i] <= from[i + 1]
                /\ \/ net[e][i] = Flight /\ from[i + 1] = from[i]
                   \/ net[e][i] = BytesAfter(from[i], from[i + 1] - from[i])
<1> DEFINE b == tail[Peer(e)]
           a == Len(got[e]) + Len(engine[e])
           q == net[e]
<1>1. /\ q \in Seq(Seq(Nat)) /\ b \in Nat
      /\ Strung(Records(e), a, b, inHead[e], outHead[Peer(e)])
      /\ Expects(e) => q # <<>> /\ Head(q) = Flight
  BY PeerIs DEF GreenInv, GreenShape, GreenTyped, TlsUnits, HandshakeFirst
<1>2. PICK r \in Seq(Seq(Nat)), n \in Nat :
        /\ r = Records(e) /\ n = Len(r)
        /\ Strung(r, a, b, inHead[e], outHead[Peer(e)])
  <2>1. Records(e) \in Seq(Seq(Nat)) BY <1>1 DEF Records
  <2> HIDE DEF a, b, q
  <2>2. Len(Records(e)) \in Nat BY <2>1
  <2>3. QED BY <1>1, <2>1, <2>2
<1> HIDE DEF a, b, q
<1>3. PICK f \in [1..(n + 1) -> 0..b] :
        /\ f[1] = a /\ f[n + 1] = b
        /\ \A i \in 1..n : f[i] <= f[i + 1] /\ r[i] = BytesAfter(f[i], f[i + 1] - f[i])
  <2> DEFINE ha == inHead[e]
             hb == outHead[Peer(e)]
  <2>1. Strung(r, a, b, ha, hb) BY <1>2
  <2> HIDE DEF ha, hb
  <2>2. PICK from \in [1..(Len(r) + 1) -> 0..b], h \in [1..(Len(r) + 1) -> BOOLEAN] :
          /\ from[1] = a /\ from[Len(r) + 1] = b
          /\ h[1] = ha /\ h[Len(r) + 1] = hb
          /\ \A i \in 1..Len(r) :
               /\ from[i] <= from[i + 1] /\ h[i + 1] = ~h[i]
               /\ r[i] = BytesAfter(from[i], from[i + 1] - from[i])
               /\ ~h[i] => from[i + 1] = from[i]
    BY <2>1 DEF Strung
  <2>3. Len(r) = n BY <1>2
  <2>4. /\ from \in [1..(n + 1) -> 0..b] /\ from[1] = a /\ from[n + 1] = b
        /\ \A i \in 1..n : from[i] <= from[i + 1] /\ r[i] = BytesAfter(from[i], from[i + 1] - from[i])
    BY <2>2, <2>3
  <2>5. QED BY <2>4
<1>4. CASE ~Expects(e)
  <2>1. q = r BY <1>2, <1>4 DEF Records, q
  <2>2. QED BY <1>2, <1>3, <2>1 DEF a, b, q
<1>5. CASE Expects(e)
  <2>1. r = Tail(q) /\ q # <<>> /\ Head(q) = Flight BY <1>1, <1>2, <1>5 DEF Records, q
  <2>2. Len(q) = n + 1 /\ q[1] = Flight /\ \A i \in 1..n : q[i + 1] = r[i] BY <1>1, <1>2, <2>1
  <2> DEFINE from == [i \in 1..(n + 2) |-> IF i = 1 THEN a ELSE f[i - 1]]
  <2>3. a \in 0..b
    <3>1. 1 \in 1..(n + 1) OBVIOUS
    <3>2. QED BY <1>3, <3>1
  <2>4. from \in [1..(n + 2) -> 0..b] /\ from[1] = a /\ \A i \in 1..(n + 1) : from[i + 1] = f[i]
    <3>1. \A i \in 1..(n + 2) : i # 1 => i - 1 \in 1..(n + 1) OBVIOUS
    <3>2. 1 \in 1..(n + 2) /\ \A i \in 1..(n + 1) : i + 1 \in 1..(n + 2) /\ i + 1 # 1 /\ (i + 1) - 1 = i OBVIOUS
    <3>3. QED BY <1>3, <2>3, <3>1, <3>2
  <2> HIDE DEF from
  <2>5. ASSUME NEW i \in 1..(n + 1)
        PROVE  /\ from[i] <= from[i + 1]
               /\ \/ q[i] = Flight /\ from[i + 1] = from[i]
                  \/ q[i] = BytesAfter(from[i], from[i + 1] - from[i])
    <3>1. CASE i = 1
      <4>1. from[2] = f[1] /\ 1 + 1 = 2
        <5>1. 1 \in 1..(n + 1) /\ 1 + 1 = 2 OBVIOUS
        <5>2. QED BY <2>4, <5>1
      <4>2. from[1] = a /\ from[2] = a /\ a <= a BY <1>1, <1>3, <2>3, <2>4, <4>1
      <4>3. QED BY <2>2, <3>1, <4>1, <4>2
    <3>2. CASE i # 1
      <4>1. i - 1 \in 1..n /\ i - 1 \in 1..(n + 1) /\ (i - 1) + 1 = i BY <3>2
      <4>2. from[i] = f[i - 1] /\ from[i + 1] = f[i] /\ q[i] = r[i - 1] BY <2>2, <2>4, <4>1
      <4>3. f[i - 1] <= f[i] /\ r[i - 1] = BytesAfter(f[i - 1], f[i] - f[i - 1]) BY <1>3, <4>1
      <4>4. QED BY <4>2, <4>3
    <3>3. QED BY <3>1, <3>2
  <2>6. from[n + 2] = b
    <3>1. n + 1 \in 1..(n + 1) /\ (n + 1) + 1 = n + 2 OBVIOUS
    <3>2. QED BY <1>3, <2>4, <3>1
  <2>7. Len(q) + 1 = n + 2 BY <2>2
  <2>8. QED BY <2>2, <2>4, <2>5, <2>6, <2>7 DEF a, b, q
<1>6. QED BY <1>4, <1>5

LEMMA GreenInvExact == GreenInv => StreamIntact
<1> SUFFICES ASSUME GreenInv, NEW e \in Ends
             PROVE  LET data == got[e] \o engine[e]
                        n == Len(net[e])
                        end == tail[Peer(e)]
                    IN /\ data = BytesAfter(0, Len(data))
                       /\ \E from \in [1..(n + 1) -> 0..end] :
                            /\ from[1] = Len(data) /\ from[n + 1] = end
                            /\ \A i \in 1..n :
                                 /\ from[i] <= from[i + 1]
                                 /\ \/ net[e][i] = Flight /\ from[i + 1] = from[i]
                                    \/ net[e][i] = BytesAfter(from[i], from[i + 1] - from[i])
  BY DEF StreamIntact
<1> DEFINE data == got[e] \o engine[e]
<1>1. got[e] \in Seq(Nat) /\ engine[e] \in Seq(Nat) BY DEF GreenInv, GreenShape, GreenTyped
<1>2. PICK g \in Nat, d \in Nat : g = Len(got[e]) /\ d = Len(engine[e])
  <2>1. Len(got[e]) \in Nat /\ Len(engine[e]) \in Nat BY <1>1
  <2>2. QED BY <2>1
<1>3. data = BytesAfter(0, g + d)
  <2>1. CASE kind = "tls"
    <3>1. got[e] = BytesAfter(0, g) /\ engine[e] = BytesAfter(g, d) BY <1>2, <2>1 DEF GreenInv, TlsUnits
    <3>2. BytesAfter(0, g) \o BytesAfter(g, d) = BytesAfter(0, g + d) BY BytesJoin
    <3>3. QED BY <3>1, <3>2
  <2>2. CASE kind # "tls"
    <3>1. got[e] = BytesAfter(0, g) /\ engine[e] = <<>> BY <1>2, <2>2 DEF GreenInv, PlainUnits
    <3>2. d = 0 /\ g + d = g BY <1>2, <3>1
    <3>3. data = got[e] BY <1>1, <3>1
    <3>4. QED BY <3>1, <3>2, <3>3
  <2>3. QED BY <2>1, <2>2
<1> HIDE DEF data
<1>4. Len(data) = g + d
  <2>1. g + d \in Nat OBVIOUS
  <2>2. 0 \in Nat /\ Len(BytesAfter(0, g + d)) = g + d BY <2>1, BytesRun
  <2>3. QED BY <1>3, <2>2
<1>5. data = BytesAfter(0, Len(data)) BY <1>3, <1>4
<1>6. CASE kind = "tls"
  <2>1. Len(data) = Len(got[e]) + Len(engine[e]) BY <1>2, <1>4
  <2>2. QED BY <1>5, <1>6, <2>1, TlsIntact DEF data
<1>7. CASE kind # "tls"
  <2>1. engine[e] = <<>> BY <1>7 DEF GreenInv, PlainUnits
  <2>2. Len(data) = Len(got[e]) BY <1>2, <1>4, <2>1
  <2>3. QED BY <1>5, <1>7, <2>2, PlainIntact DEF data
<1>8. QED BY <1>6, <1>7
=============================================================================
