----------------------------- MODULE GreenSocket -----------------------------
(***************************************************************************)
(* eventlet/greenio/base.py, greenio/py3.py and green/ssl.py: blocking     *)
(* calls made of a call that does not block and a trampoline.              *)
(*                                                                         *)
(* Two endpoints, both green, exchange a message each way: over a socket   *)
(* ("plain"), a TLS socket ("tls") or a pair of pipes ("pipe").  The       *)
(* kernel keeps Capacity units each way; a unit is a byte, or, for TLS,    *)
(* a flight of the handshake, the head of a record, or its body.  A        *)
(* trampoline returns when the hub sees what it waits for, or raises.      *)
(* Whether the ssl module notices that the other end has closed without a  *)
(* closing alert is left open: ssl.py:46-54 says that it does not, so that *)
(* reads and writes "simply hang", and 171-175 and 186-191 handle the      *)
(* exceptions it raises when it does.                                      *)
(***************************************************************************)
EXTENDS Integers, Sequences

CONSTANTS
  Kinds,        \* of {"plain", "tls", "pipe"}
  Capacity,     \* of each direction, in units
  Size,         \* of each message, in bytes
  MaxRecord     \* bytes in a TLS record

Countable == Capacity \in Nat /\ Size \in Nat /\ MaxRecord \in Nat

VARIABLES
  kind,
  impatient,    \* whether the sockets have a timeout
  notices,      \* whether the ssl module notices that the other end has closed
  link,         \* "none", "syn", "refused" or "up"
  todo,         \* per endpoint: what it is doing: Connect, Accept, ...
  waits,        \* per endpoint: "no", "read" or "write": in trampoline()
  net,          \* per endpoint: units it may read
  flights,      \* per endpoint: flights of the handshake done
  inHead,       \* per endpoint: the head of a record was read
  outHead,      \* per endpoint: the head of a record was written
  engine,       \* per endpoint: bytes of a record that were not asked for
  tail,         \* per endpoint: how many bytes were sent
  got           \* per endpoint: bytes received

peerVars == <<net, flights, inHead, outHead, engine, tail, got>>
greenVars == <<kind, impatient, notices, link, todo, waits, peerVars>>

Ends == {"client", "server"}
Peer(e) == CHOOSE p \in Ends : p # e

\* What an endpoint does, in this order.
Script(e) ==
  LET client == e = "client"
      hello == IF client THEN "connect" ELSE "accept"
      first == IF client THEN "send" ELSE "recv"
      second == IF client THEN "recv" ELSE "send"
  IN CASE kind = "pipe" -> <<first, second>>
       [] kind = "tls" -> <<hello, "handshake", first, second>>
       [] OTHER -> <<hello, first, second>>

GreenInit ==
  /\ kind \in Kinds /\ impatient \in BOOLEAN /\ notices \in BOOLEAN
  /\ kind # "tls" => notices
  /\ link = IF kind = "pipe" THEN "up" ELSE "none"
  /\ todo = [e \in Ends |-> Script(e)]
  /\ waits = [e \in Ends |-> "no"]
  /\ net = [e \in Ends |-> <<>>]
  /\ flights = [e \in Ends |-> 0]
  /\ inHead = [e \in Ends |-> FALSE] /\ outHead = [e \in Ends |-> FALSE]
  /\ engine = [e \in Ends |-> <<>>]
  /\ tail = [e \in Ends |-> 0] /\ got = [e \in Ends |-> <<>>]

\* An endpoint that is done, or has failed, closes.
Failed == <<"failed">>
Closed(e) == todo[e] \in {<<>>, Failed}
PeerGone(e) == Closed(Peer(e)) /\ notices
Runs(e, what) == todo[e] # <<>> /\ Head(todo[e]) = what /\ waits[e] = "no"
Next1(e) == todo' = [todo EXCEPT ![e] = Tail(@)]
Fails(e) == todo' = [todo EXCEPT ![e] = Failed]
Room(e) == Capacity - Len(net[Peer(e)])

\* trampoline(): returns when the hub sees what it waits for.
Suspends(e, for) == waits' = [waits EXCEPT ![e] = for]

-----------------------------------------------------------------------------
(* The hub *)

\* A refused connection ends the wait of connect() and not that of accept().
Ready(e) ==
  \/ link = "refused" /\ Head(todo[e]) = "connect"
  \/ /\ link = "up"
     /\ \/ Head(todo[e]) \in {"connect", "accept"}
        \/ waits[e] = "read" /\ net[e] # <<>>
        \/ waits[e] = "write" /\ Room(e) > 0
        \/ PeerGone(e)

Wake(e) ==
  /\ waits[e] # "no" /\ Ready(e)
  /\ waits' = [waits EXCEPT ![e] = "no"]
  /\ UNCHANGED <<kind, impatient, notices, link, todo, peerVars>>

\* socket_timeout, for the time of the trampoline, or of all of connect(); files
\* have none.
Expire(e) ==
  /\ impatient /\ kind # "pipe" /\ waits[e] # "no"
  /\ waits' = [waits EXCEPT ![e] = "no"]
  /\ Fails(e)
  /\ UNCHANGED <<kind, impatient, notices, link, peerVars>>

-----------------------------------------------------------------------------
(* connect(), accept() *)

\* connect_ex() says that the connection is on its way, made, or refused.
connect(e) ==
  /\ Runs(e, "connect")
  /\ CASE link = "none" -> link' = "syn" /\ Suspends(e, "write") /\ UNCHANGED todo
       [] link = "syn" -> Suspends(e, "write") /\ UNCHANGED <<link, todo>>
       [] link = "up" -> Next1(e) /\ UNCHANGED <<link, waits>>
       [] link = "refused" -> Fails(e) /\ UNCHANGED <<link, waits>>
  /\ UNCHANGED <<kind, impatient, notices, peerVars>>

Resolve(to) ==
  /\ link = "syn"
  /\ link' = IF todo["server"] = Failed THEN "refused" ELSE to
  /\ UNCHANGED <<kind, impatient, notices, todo, waits, peerVars>>

accept(e) ==
  /\ Runs(e, "accept")
  /\ CASE link = "up" -> Next1(e) /\ UNCHANGED waits
       [] OTHER -> Suspends(e, "read") /\ UNCHANGED todo
  /\ UNCHANGED <<kind, impatient, notices, link, peerVars>>

-----------------------------------------------------------------------------
(* do_handshake() *)

Flight == <<0>>

\* The client sends the first and third flight, the server the second.
Mine(e) == (flights[e] % 2 = 0) <=> (e = "client")

HandshakeWrites(e) ==
  /\ Runs(e, "handshake") /\ Mine(e) /\ flights[e] < 3
  /\ IF PeerGone(e)
     THEN Fails(e) /\ UNCHANGED <<net, flights, waits>>
     ELSE /\ IF Room(e) = 0
             THEN Suspends(e, "write") /\ UNCHANGED <<net, flights>>
             ELSE /\ net' = [net EXCEPT ![Peer(e)] = Append(@, Flight)]
                  /\ flights' = [flights EXCEPT ![e] = @ + 1]
                  /\ UNCHANGED waits
          /\ UNCHANGED todo
  /\ UNCHANGED <<kind, impatient, notices, link, inHead, outHead, engine, tail, got>>

HandshakeReads(e) ==
  /\ Runs(e, "handshake") /\ ~Mine(e) /\ flights[e] < 3
  /\ IF net[e] # <<>>
     THEN /\ net' = [net EXCEPT ![e] = Tail(@)]
          /\ flights' = [flights EXCEPT ![e] = @ + 1]
          /\ UNCHANGED <<waits, todo>>
     ELSE /\ IF PeerGone(e) THEN Fails(e) /\ UNCHANGED waits ELSE Suspends(e, "read") /\ UNCHANGED todo
          /\ UNCHANGED <<net, flights>>
  /\ UNCHANGED <<kind, impatient, notices, link, inHead, outHead, engine, tail, got>>

HandshakeEnds(e) ==
  /\ Runs(e, "handshake") /\ flights[e] = 3
  /\ Next1(e)
  /\ UNCHANGED <<kind, impatient, notices, link, waits, peerVars>>

-----------------------------------------------------------------------------
(* sendall() *)

BytesAfter(from, n) == [i \in 1..n |-> from + i]

\* Faulty: what send() took is not looked at.
AllTaken(e, n) == Size

Taken(e, n) == tail[e] + n

SendFails(e) ==
  /\ Runs(e, "send") /\ tail[e] < Size /\ PeerGone(e)
  /\ Fails(e)
  /\ UNCHANGED <<kind, impatient, notices, link, waits, peerVars>>

\* send() of a socket, write() of a file: it takes a part, or would block.
SendPlain(e) ==
  /\ Runs(e, "send") /\ kind # "tls" /\ tail[e] < Size /\ ~PeerGone(e)
  /\ IF Room(e) = 0
     THEN Suspends(e, "write") /\ UNCHANGED <<net, tail>>
     ELSE \E n \in 1..Size - tail[e] :
            /\ n <= Room(e)
            /\ net' = [net EXCEPT ![Peer(e)] = @ \o [i \in 1..n |-> <<tail[e] + i>>]]
            /\ tail' = [tail EXCEPT ![e] = Taken(e, n)]
            /\ UNCHANGED waits
  /\ UNCHANGED <<kind, impatient, notices, link, todo, flights, inHead, outHead, engine, got>>

\* A record: its head, then its body, which is sent when all of it was taken.
SendTls(e) ==
  /\ Runs(e, "send") /\ kind = "tls" /\ tail[e] < Size /\ ~PeerGone(e)
  /\ LET n == IF Size - tail[e] < MaxRecord THEN Size - tail[e] ELSE MaxRecord
         head == IF outHead[e] THEN <<>> ELSE << <<>> >>
     IN IF Room(e) > Len(head)
        THEN /\ net' = [net EXCEPT ![Peer(e)] = @ \o head \o <<BytesAfter(tail[e], n)>>]
             /\ outHead' = [outHead EXCEPT ![e] = FALSE]
             /\ tail' = [tail EXCEPT ![e] = Taken(e, n)]
             /\ UNCHANGED waits
        ELSE /\ net' = [net EXCEPT ![Peer(e)] = @ \o SubSeq(head, 1, Room(e))]
             /\ outHead' = [outHead EXCEPT ![e] = @ \/ Room(e) = 1]
             /\ Suspends(e, "write")
             /\ UNCHANGED tail
  /\ UNCHANGED <<kind, impatient, notices, link, todo, flights, inHead, engine, got>>

SendEnds(e) ==
  /\ Runs(e, "send") /\ tail[e] = Size
  /\ Next1(e)
  /\ UNCHANGED <<kind, impatient, notices, link, waits, peerVars>>

-----------------------------------------------------------------------------
(* recv(), until the message is complete *)

\* recv(n) of a socket, read(n) of a file: what there is, or it would block.
RecvPlain(e) ==
  /\ Runs(e, "recv") /\ kind # "tls" /\ Len(got[e]) < Size
  /\ IF net[e] # <<>>
     THEN \E n \in 1..Len(net[e]) :
            /\ got' = [got EXCEPT ![e] = @ \o [i \in 1..n |-> Head(net[e][i])]]
            /\ net' = [net EXCEPT ![e] = SubSeq(@, n + 1, Len(@))]
            /\ UNCHANGED <<todo, waits>>
     ELSE /\ IF PeerGone(e) THEN Fails(e) /\ UNCHANGED waits ELSE Suspends(e, "read") /\ UNCHANGED todo
          /\ UNCHANGED <<net, got>>
  /\ UNCHANGED <<kind, impatient, notices, link, flights, inHead, outHead, engine, tail>>

\* Faulty: nothing in the socket, nothing to read.
NothingInSocket(e) == net[e] = <<>>

Nothing(e) == net[e] = <<>> /\ engine[e] = <<>>

\* read(n) of TLS: from the last record, else from the next one.
RecvTls(e) ==
  /\ Runs(e, "recv") /\ kind = "tls" /\ Len(got[e]) < Size /\ ~Nothing(e)
  /\ LET units == (IF inHead[e] THEN << <<>> >> ELSE <<>>) \o net[e]
     IN IF engine[e] = <<>> /\ Len(units) < 2
        THEN /\ net' = [net EXCEPT ![e] = <<>>]
             /\ inHead' = [inHead EXCEPT ![e] = TRUE]
             /\ Suspends(e, "read")
             /\ UNCHANGED <<engine, got>>
        ELSE LET fresh == engine[e] = <<>>
                 data == IF fresh THEN units[2] ELSE engine[e]
             IN \E n \in 1..Len(data) :
                  /\ got' = [got EXCEPT ![e] = @ \o SubSeq(data, 1, n)]
                  /\ engine' = [engine EXCEPT ![e] = SubSeq(data, n + 1, Len(data))]
                  /\ net' = IF fresh THEN [net EXCEPT ![e] = SubSeq(units, 3, Len(units))] ELSE net
                  /\ inHead' = IF fresh THEN [inHead EXCEPT ![e] = FALSE] ELSE inHead
                  /\ UNCHANGED waits
  /\ UNCHANGED <<kind, impatient, notices, link, todo, flights, outHead, tail>>

RecvTlsNothing(e) ==
  /\ Runs(e, "recv") /\ kind = "tls" /\ Len(got[e]) < Size /\ Nothing(e)
  /\ IF PeerGone(e) THEN Fails(e) /\ UNCHANGED waits ELSE Suspends(e, "read") /\ UNCHANGED todo
  /\ UNCHANGED <<kind, impatient, notices, link, peerVars>>

RecvEnds(e) ==
  /\ Runs(e, "recv") /\ Len(got[e]) = Size
  /\ Next1(e)
  /\ UNCHANGED <<kind, impatient, notices, link, waits, peerVars>>

Step(e) ==
  \/ connect(e) \/ accept(e)
  \/ HandshakeWrites(e) \/ HandshakeReads(e) \/ HandshakeEnds(e)
  \/ SendFails(e) \/ SendPlain(e) \/ SendTls(e) \/ SendEnds(e)
  \/ RecvPlain(e) \/ RecvTls(e) \/ RecvTlsNothing(e) \/ RecvEnds(e)

Kernel == Resolve("up") \/ Resolve("refused")

GreenNext == Kernel \/ \E e \in Ends : Step(e) \/ Wake(e) \/ Expire(e)

\* Greenthreads run, the hub sees what is ready and fires its timers, and a
\* connection is made or refused in the end.
GreenFairness ==
  /\ WF_greenVars(Kernel)
  /\ \A e \in Ends : WF_greenVars(Step(e)) /\ WF_greenVars(Wake(e)) /\ WF_greenVars(Expire(e))

GreenSpec == GreenInit /\ [][GreenNext]_greenVars /\ GreenFairness

-----------------------------------------------------------------------------
(* Properties *)

\* greenio/base.py:318-419, green/ssl.py:168-300.  What was sent is what was
\* received, what the TLS engine keeps, and what is on its way: in order, and
\* each byte once.  A unit on its way has the bytes after from, to where the next begins.
StreamIntact ==
  \A e \in Ends :
    LET data == got[e] \o engine[e]
        n == Len(net[e])
        end == tail[Peer(e)]
    IN /\ data = BytesAfter(0, Len(data))
       /\ \E from \in [1..(n + 1) -> 0..end] :
            /\ from[1] = Len(data) /\ from[n + 1] = end
            /\ \A i \in 1..n :
                 /\ from[i] <= from[i + 1]
                 /\ \/ net[e][i] = Flight /\ from[i + 1] = from[i]
                    \/ net[e][i] = BytesAfter(from[i], from[i + 1] - from[i])

\* greenio/base.py:207-292, green/ssl.py:142-184.  Two green endpoints never
\* wait for each other for ever: once they are connected, both come to the end
\* of the exchange; with a timeout, every call ends whatever becomes of the
\* other end, also one that closes unnoticed; and a connect() that is refused
\* fails.  An accept() without a timeout may wait for ever.
Promised(e) == link = "up" \/ impatient \/ (link = "refused" /\ e = "client")
ExchangeEnds == \A e \in Ends : Promised(e) ~> Closed(e)
=============================================================================
