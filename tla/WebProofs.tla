------------------------------ MODULE WebProofs ------------------------------
(***************************************************************************)
(* Proofs about WsgiServer, WsgiRequest, WebSocket and CookieJar, for any  *)
(* connections, sizes of the pool, requests and habits of applications,    *)
(* messages and senders, cookies and hosts.  What they ask of the          *)
(* constants are definitions, for MCServers instantiates this module.      *)
(***************************************************************************)
EXTENDS WsgiServer, WsgiRequest, WebSocket, CookieJar, WaitQueueTheorems, FiniteSetTheorems,
        SequenceTheorems, TLAPS

-----------------------------------------------------------------------------
(* WsgiServer *)

\* Connections of clients with addresses of their own, as TCP gives them.
AddressesApart ==
  /\ NoConn \notin Conns
  /\ \A c, d \in Conns : Addr[c] = Addr[d] => c = d

WsgiTypeOK ==
  /\ loop \in {"accept", "spawn", "drain", "end"}
  /\ accepted \in Conns \union {NoConn}
  /\ connections \in [{Addr[c] : c \in Conns} -> Conns \union {NoConn}]
  /\ conn_state \in [Conns -> {"idle", "request", "close"}]
  /\ handlers \in [Conns -> {"none", "queued", "reads", "serves", "websocket", "over"}]
  /\ shut \in SUBSET Conns

Accepting == loop \in {"accept", "spawn"}

\* A connection waits for a greenthread in one place of the loop.
SpawnPending ==
  /\ loop = "accept" => accepted = NoConn
  /\ loop = "spawn" => accepted \in Conns /\ handlers[accepted] = "none"

\* A record is that of its own address, and lasts as long as the greenthread.
RecordsKept ==
  \A c \in Conns :
    /\ connections[Addr[c]] \in {NoConn, c}
    /\ c \in Running => connections[Addr[c]] = c
    /\ Accepting /\ connections[Addr[c]] = c => c \in Running \/ c = accepted
    /\ loop = "spawn" => connections[Addr[accepted]] = accepted

ForClient == {"queued", "reads"}

\* While the server accepts, a connection that waits for its client is idle; then
\* it is shut, and one that serves a request knows that it is the last, unless a
\* websocket begins.
StatesTold ==
  \A c \in Conns :
    /\ Accepting /\ handlers[c] \in {"none", "queued", "reads", "websocket"} => conn_state[c] = "idle"
    /\ loop = "drain" /\ handlers[c] \in ForClient => c \in shut
    /\ loop = "drain" /\ handlers[c] = "serves" => c \in shut \/ conn_state[c] = "close"
    /\ loop = "drain" /\ handlers[c] = "websocket" => c \in shut \/ conn_state[c] = "idle"

WsgiIInv == WsgiTypeOK /\ SpawnPending /\ RecordsKept /\ StatesTold

LEMMA WsgiInitIInv ==
  ASSUME AddressesApart, WsgiInit PROVE WsgiIInv
<1>1. WsgiTypeOK BY DEF WsgiInit, WsgiTypeOK
<1>2. SpawnPending BY DEF WsgiInit, SpawnPending
<1>3. RecordsKept BY DEF WsgiInit, RecordsKept, AddressesApart, Running, Accepting
<1>4. StatesTold BY DEF WsgiInit, StatesTold, Accepting
<1>5. QED BY <1>1, <1>2, <1>3, <1>4 DEF WsgiIInv

\* What the client does is no concern of the records.
LEMMA WsgiClientKeeps ==
  ASSUME WsgiIInv, UNCHANGED <<loop, accepted, connections, conn_state, handlers, shut>>
  PROVE  WsgiIInv'
BY DEF WsgiIInv, WsgiTypeOK, SpawnPending, RecordsKept, StatesTold, Running, Accepting

LEMMA AcceptKeeps ==
  ASSUME AddressesApart, WsgiIInv, NEW c \in Conns, Accept(c) PROVE WsgiIInv'
<1> USE DEF WsgiIInv, WsgiTypeOK, Accept
<1>1. WsgiTypeOK' OBVIOUS
<1>2. SpawnPending' BY DEF SpawnPending
<1>3. RecordsKept' BY DEF AddressesApart, SpawnPending, RecordsKept, Running, Accepting
<1>4. StatesTold' BY DEF SpawnPending, StatesTold, Accepting
<1>5. QED BY <1>1, <1>2, <1>3, <1>4

LEMMA SpawnKeeps ==
  ASSUME AddressesApart, WsgiIInv, Spawn PROVE WsgiIInv'
<1> USE DEF WsgiIInv, WsgiTypeOK, Spawn
<1>1. WsgiTypeOK' OBVIOUS
<1>2. SpawnPending' BY DEF SpawnPending
<1>3. RecordsKept' BY DEF AddressesApart, SpawnPending, RecordsKept, Running, Accepting
<1>4. StatesTold' BY DEF SpawnPending, StatesTold, Accepting
<1>5. QED BY <1>1, <1>2, <1>3, <1>4

\* The records are what is served or about to be.
LEMMA KnownIsServed ==
  ASSUME AddressesApart, WsgiIInv, Accepting
  PROVE  Known = Running \union ({accepted} \ {NoConn})
<1>1. ASSUME NEW c \in Known PROVE c \in Running \union ({accepted} \ {NoConn})
  <2>1. PICK d \in Conns : connections[Addr[d]] = c BY <1>1 DEF Known, WsgiIInv, WsgiTypeOK
  <2>2. c = d BY <1>1, <2>1 DEF Known, WsgiIInv, RecordsKept
  <2>3. QED BY <2>1, <2>2 DEF WsgiIInv, RecordsKept, AddressesApart
<1>2. ASSUME NEW c \in Running \union ({accepted} \ {NoConn}) PROVE c \in Known
  <2>1. c \in Conns /\ connections[Addr[c]] = c
    BY <1>2 DEF Running, WsgiIInv, WsgiTypeOK, RecordsKept, SpawnPending, Accepting
  <2>2. QED BY <2>1 DEF Known, WsgiIInv, WsgiTypeOK, AddressesApart
<1>3. QED BY <1>1, <1>2

LEMMA StopKeeps ==
  ASSUME AddressesApart, WsgiIInv, Stop PROVE WsgiIInv'
<1>1. Accepting BY DEF Stop, Accepting
<1>2. Known = Running \union ({accepted} \ {NoConn}) BY <1>1, KnownIsServed
<1> USE DEF WsgiIInv, WsgiTypeOK, Stop
<1>3. Known \subseteq Conns BY <1>2 DEF Running
<1>4. conn_state' \in [Conns -> {"idle", "request", "close"}] BY DEF Marked
<1>5. WsgiTypeOK' BY <1>3, <1>4 DEF Shut
<1>6. SpawnPending' BY DEF SpawnPending
<1>7. RecordsKept' BY DEF RecordsKept, Running, Accepting
<1>8. ASSUME NEW c \in Conns, handlers[c] \in ForClient \union {"serves", "websocket"} PROVE c \in Known
  BY <1>2, <1>8 DEF Running, ForClient
<1>9. ASSUME NEW c \in Conns, handlers[c] \in ForClient \union {"websocket"} PROVE c \in shut'
  BY <1>1, <1>8, <1>9 DEF StatesTold, Shut, ForClient
<1>10. ASSUME NEW c \in Conns, handlers[c] = "serves" PROVE conn_state'[c] = "close"
  BY <1>8, <1>10 DEF Marked
<1>11. StatesTold' BY <1>9, <1>10 DEF StatesTold, Accepting
<1>12. QED BY <1>5, <1>6, <1>7, <1>11

LEMMA ExitKeeps ==
  ASSUME WsgiIInv, Exit PROVE WsgiIInv'
BY DEF WsgiIInv, WsgiTypeOK, Exit, SpawnPending, RecordsKept, StatesTold, Running, Accepting

LEMMA EndsKeeps ==
  ASSUME AddressesApart, WsgiIInv, NEW c \in Conns, handlers[c] \notin {"none", "over"}, Ends(c)
  PROVE  WsgiIInv'
<1> USE DEF WsgiIInv, WsgiTypeOK, Ends, Popped
<1>1. WsgiTypeOK' OBVIOUS
<1>2. SpawnPending' BY DEF SpawnPending
<1>3. RecordsKept' BY DEF AddressesApart, SpawnPending, RecordsKept, Running, Accepting
<1>4. StatesTold' BY DEF StatesTold, Accepting, ForClient
<1>5. QED BY <1>1, <1>2, <1>3, <1>4

\* A greenthread goes on: the records stay.
LEMMA GoesOnKeeps ==
  ASSUME WsgiIInv, NEW c \in Conns, handlers[c] \notin {"none", "over"},
         NEW h \in {"reads", "serves", "websocket"}, NEW s \in {"idle", "request", "close"},
         handlers' = [handlers EXCEPT ![c] = h], conn_state' = [conn_state EXCEPT ![c] = s],
         Accepting /\ h \in {"reads", "websocket"} => s = "idle",
         loop = "drain" =>
           c \in shut \/ (h = "serves" /\ s = "close") \/ (h = "websocket" /\ s = "idle"),
         UNCHANGED <<loop, accepted, connections, shut>>
  PROVE  WsgiIInv'
<1> USE DEF WsgiIInv, WsgiTypeOK
<1>1. WsgiTypeOK' OBVIOUS
<1>2. SpawnPending' BY DEF SpawnPending
<1>3. RecordsKept' BY DEF RecordsKept, Running, Accepting
<1>4. StatesTold' BY DEF StatesTold, Accepting, ForClient
<1>5. QED BY <1>1, <1>2, <1>3, <1>4

LEMMA WsgiNextIInv ==
  ASSUME AddressesApart, WsgiIInv, [WsgiNext]_wsgiVars PROVE WsgiIInv'
<1>1. CASE Spawn BY <1>1, SpawnKeeps
<1>2. CASE Stop BY <1>2, StopKeeps
<1>3. CASE Exit BY <1>3, ExitKeeps
<1>4. CASE UNCHANGED wsgiVars BY <1>4, WsgiClientKeeps DEF wsgiVars
<1>5. ASSUME NEW c \in Conns,
             \/ Connect(c) \/ Request(c) \/ StopsReading(c) \/ Resumes(c) \/ Leave(c) \/ Accept(c)
             \/ Begin(c) \/ ReadLine(c) \/ ReadNothing(c) \/ KeepaliveOver(c)
             \/ Serves(c) \/ Upgrade(c) \/ WebsocketEnds(c) \/ WebsocketReturns(c)
      PROVE  WsgiIInv'
  <2>1. CASE Connect(c) \/ Request(c) \/ StopsReading(c) \/ Resumes(c) \/ Leave(c)
    BY <2>1, WsgiClientKeeps DEF Connect, Request, StopsReading, Resumes, Leave
  <2>2. CASE Accept(c) BY <2>2, AcceptKeeps
  <2>3. CASE Begin(c)
    <3>1. conn_state = [conn_state EXCEPT ![c] = conn_state[c]] /\ conn_state[c] \in {"idle", "request", "close"}
      BY DEF WsgiIInv, WsgiTypeOK
    <3>2. Accepting => conn_state[c] = "idle" BY <2>3 DEF WsgiIInv, StatesTold, Begin
    <3>3. loop = "drain" => c \in shut BY <2>3 DEF WsgiIInv, StatesTold, Begin, ForClient
    <3>4. conn_state' = [conn_state EXCEPT ![c] = conn_state[c]] BY <2>3, <3>1 DEF Begin
    <3>5. handlers' = [handlers EXCEPT ![c] = "reads"] /\ handlers[c] = "queued"
      BY <2>3 DEF Begin
    <3>6. UNCHANGED <<loop, accepted, connections, shut>> BY <2>3 DEF Begin
    <3>7. QED BY <3>1, <3>2, <3>3, <3>4, <3>5, <3>6, GoesOnKeeps
  <2>4. CASE ReadLine(c)
    <3>1. loop = "drain" => c \in shut BY <2>4 DEF WsgiIInv, StatesTold, ReadLine, ForClient
    <3>2. QED BY <2>4, <3>1, GoesOnKeeps DEF ReadLine, ForClient
  <2>5. CASE Upgrade(c) BY <2>5, GoesOnKeeps DEF Upgrade, ForClient
  <2>6. CASE AnswerAndGoOn(c) /\ KeepsOn(c)
    <3>1. loop = "drain" => FALSE BY <2>6 DEF WsgiIInv, StatesTold, AnswerAndGoOn, KeepsOn
    <3>2. QED BY <2>6, <3>1, GoesOnKeeps DEF AnswerAndGoOn, ForClient
  <2>7. CASE \/ ReadNothing(c) \/ KeepaliveOver(c) \/ WebsocketEnds(c) \/ WebsocketReturns(c)
             \/ AnswerAndClose(c) \/ (AnswerAndGoOn(c) /\ ~KeepsOn(c))
    BY <2>7, EndsKeeps DEF ReadNothing, KeepaliveOver, WebsocketEnds, WebsocketReturns,
       AnswerAndClose, AnswerAndGoOn
  <2>8. CASE Serves(c) BY <2>6, <2>7, <2>8 DEF Serves
  <2>9. QED BY <1>5, <2>1, <2>2, <2>3, <2>4, <2>5, <2>7, <2>8
<1>6. QED BY <1>1, <1>2, <1>3, <1>4, <1>5 DEF WsgiNext

LEMMA WsgiIInvIsExact ==
  ASSUME AddressesApart, WsgiIInv PROVE RecordsExact /\ IdleIsShut
<1>1. RecordsExact BY KnownIsServed DEF RecordsExact, Accepting
<1>2. IdleIsShut BY DEF IdleIsShut, WsgiIInv, StatesTold, ForClient
<1>3. QED BY <1>1, <1>2

\* wsgi.py:1060-1092.  Whatever connections come and go, the server's records are those it
\* serves or is about to serve, and when it waits for its pool, every connection that waits
\* for its client was shut down.
THEOREM ServerKnowsItsConnections ==
  ASSUME AddressesApart PROVE WsgiSpec => [](RecordsExact /\ IdleIsShut)
<1>1. WsgiInit => WsgiIInv BY WsgiInitIInv
<1>2. WsgiIInv /\ [WsgiNext]_wsgiVars => WsgiIInv' BY WsgiNextIInv
<1>3. WsgiIInv => RecordsExact /\ IdleIsShut BY WsgiIInvIsExact
<1>4. QED BY <1>1, <1>2, <1>3, PTL DEF WsgiSpec

-----------------------------------------------------------------------------
(* WsgiRequest *)

\* A request without a body has no data.
RequestsFramed ==
  /\ Heads \subseteq [keep : BOOLEAN, http11 : BOOLEAN, expect : BOOLEAN,
                      framing : {"none", "length", "chunked"}, units : Nat]
  /\ \A r \in Heads : r.framing = "none" => r.units = 0

BodyTokens == {[kind |-> "data"], [kind |-> "last"]}
HeadTokens == {[kind |-> "head", request |-> r] : r \in Heads}
Tokens == BodyTokens \union HeadTokens

PeerTypeOK ==
  /\ habits \subseteq Habits /\ keepalive \in BOOLEAN /\ asked \in Nat
  /\ owed \in Seq(BodyTokens) /\ expecting \in BOOLEAN /\ eof \in BOOLEAN
InputTypeOK == position \in Nat /\ ended \in BOOLEAN /\ continued \in BOOLEAN /\ hundred \in BOOLEAN
AnswerTypeOK ==
  /\ headers_set \in {"no", "length", "bare", "bodyless"}
  /\ headers_sent \in BOOLEAN /\ use_chunked \in BOOLEAN /\ towrite \in BOOLEAN
  /\ just_written \in BOOLEAN /\ complete \in BOOLEAN
ServerTypeOK ==
  /\ stream \in Seq(Tokens) /\ served \in Nat /\ head \in Heads /\ close \in BOOLEAN
  /\ pc \in {"reads", "app", "awaits", "discards", "closed"}

RequestTypeOK == PeerTypeOK /\ InputTypeOK /\ AnswerTypeOK /\ ServerTypeOK

\* What was written before the end of an answer settled its framing, and data did it
\* unless the application called write().
AnswerFramed ==
  /\ pc \in {"reads", "discards"} /\ "write" \notin habits => complete
  /\ pc \in {"app", "awaits"} /\ headers_sent =>
       /\ headers_set # "no"
       /\ headers_set = "bare" => use_chunked \/ close
       /\ "write" \notin habits => just_written
  /\ pc = "discards" => headers_sent

\* "100 Continue" is settled before the server waits for a body.
HundredSettled ==
  /\ continued => hundred \/ (headers_sent /\ "lateread" \in habits)
  /\ pc \in {"awaits", "discards"} => ~should_send_hundred_continue
  /\ pc = "reads" /\ headers_sent => ~should_send_hundred_continue

\* Heads that are read are heads that were sent.
HeadCount(s) == Cardinality({i \in 1..Len(s) : s[i].kind = "head"})
HeadsCounted == served + HeadCount(stream) <= asked

\* A client that expects an answer has sent a head and nothing of its body.
ExpectingBegins ==
  expecting =>
    IF stream = <<>> THEN served = asked => head.expect /\ owed = Body(head)
    ELSE /\ stream[Len(stream)].kind = "head"
         /\ stream[Len(stream)].request.expect
         /\ owed = Body(stream[Len(stream)].request)
ExpectingOwes == expecting => owed # <<>>

\* What is left of the body of the request that is served.
Left == Len(Body(head)) - position - (IF ended THEN 1 ELSE 0)

\* What is sent and not read, and what the client is going to send: the rest of a body b,
\* of n tokens, then heads, each with its body.
FollowedByBody(w, i) ==
  LET b == Body(w[i].request)
  IN /\ i + Len(b) <= Len(w)
     /\ \A j \in 1..Len(b) : w[i + j] = b[j]
     /\ i + Len(b) + 1 <= Len(w) => w[i + Len(b) + 1].kind = "head"
RestOfBody(w, b, n) ==
  /\ n \in 0..Len(w) /\ n <= Len(b)
  /\ \A i \in 1..n : w[i] = b[Len(b) - n + i]
  /\ n + 1 <= Len(w) => w[n + 1].kind = "head"
WholeRequests(w) == \A i \in 1..Len(w) : w[i].kind = "head" => FollowedByBody(w, i)

OnBoundary ==
  /\ RestOfBody(stream \o owed, Body(head), Left)
  /\ WholeRequests(stream \o owed)
  /\ position <= head.units /\ (ended => chunked_input /\ position = head.units)
  /\ pc = "awaits" => Remains
  /\ pc = "reads" => Left = 0

\* The client has left the body out, and the connection is going to be closed.
LeftOut == pc = "app" /\ headers_sent /\ should_send_hundred_continue

\* The client has left in the middle of a body.
Drained == eof /\ stream = <<>>

Alignment == "lateread" \in habits \/ pc = "closed" \/ LeftOut \/ Drained \/ OnBoundary

RequestIInv ==
  /\ RequestTypeOK /\ AnswerFramed /\ HundredSettled
  /\ HeadsCounted /\ ExpectingBegins /\ ExpectingOwes /\ Alignment

\* A body is its data and, if it is chunked, the last chunk.
LEMMA BodyShape ==
  ASSUME RequestsFramed, NEW r \in Heads
  PROVE  /\ Body(r) \in Seq(BodyTokens)
         /\ r.units \in Nat
         /\ Len(Body(r)) = r.units + (IF r.framing = "chunked" THEN 1 ELSE 0)
         /\ \A i \in 1..r.units : Body(r)[i] = [kind |-> "data"]
         /\ r.framing = "chunked" => Body(r)[r.units + 1] = [kind |-> "last"]
<1> DEFINE data == [i \in 1..r.units |-> [kind |-> "data"]]
           end == IF r.framing = "chunked" THEN <<[kind |-> "last"]>> ELSE <<>>
<1>1. r.units \in Nat BY DEF RequestsFramed
<1>2. data \in Seq(BodyTokens) /\ Len(data) = r.units BY <1>1 DEF BodyTokens
<1>3. end \in Seq(BodyTokens) /\ Len(end) = IF r.framing = "chunked" THEN 1 ELSE 0
  <2>1. CASE r.framing = "chunked" BY <2>1 DEF BodyTokens
  <2>2. CASE r.framing # "chunked" BY <2>2
  <2>3. QED BY <2>1, <2>2
<1>4. r.framing = "chunked" => end[1] = [kind |-> "last"] OBVIOUS
<1>5. \A i \in 1..r.units : data[i] = [kind |-> "data"] OBVIOUS
<1>6. Body(r) = data \o end BY DEF Body
<1> HIDE DEF data, end
<1>7. data \in Seq(BodyTokens) /\ end \in Seq(BodyTokens) BY <1>2, <1>3
<1>8. data \o end \in Seq(BodyTokens) /\ Len(data \o end) = Len(data) + Len(end) BY ONLY <1>7
<1>9. \A i \in 1..Len(data) : (data \o end)[i] = data[i] BY ONLY <1>7
<1>10. Len(end) = 1 => (data \o end)[Len(data) + 1] = end[1]
  <2>1. \A j \in 1..Len(end) : (data \o end)[Len(data) + j] = end[j] BY ONLY <1>7
  <2>2. ASSUME Len(end) = 1 PROVE 1 \in 1..Len(end) BY ONLY <2>2
  <2>3. ASSUME 1 \in 1..Len(end) PROVE (data \o end)[Len(data) + 1] = end[1] BY ONLY <2>1, <2>3
  <2>4. QED BY ONLY <2>2, <2>3
<1>11. QED BY <1>1, <1>2, <1>3, <1>4, <1>5, <1>6, <1>8, <1>9, <1>10

\* What the tokens of a stream are.
LEMMA TokenKinds ==
  /\ \A t \in BodyTokens : t.kind \in {"data", "last"}
  /\ \A t \in HeadTokens : t.kind = "head" /\ t.request \in Heads
  /\ \A t \in Tokens : t.kind = "head" => t \in HeadTokens
BY DEF BodyTokens, HeadTokens, Tokens

LEMMA RequestInitIInv ==
  ASSUME RequestsFramed, RequestInit PROVE RequestIInv
<1> USE DEF RequestInit
<1>1. RequestTypeOK
  <2>1. <<>> \in Seq(BodyTokens) /\ <<>> \in Seq(Tokens) OBVIOUS
  <2>2. PeerTypeOK /\ ServerTypeOK BY <2>1 DEF PeerTypeOK, ServerTypeOK
  <2>3. InputTypeOK /\ AnswerTypeOK BY DEF InputTypeOK, AnswerTypeOK
  <2>4. QED BY <2>2, <2>3 DEF RequestTypeOK
<1>2. AnswerFramed BY DEF AnswerFramed
<1>3. HundredSettled BY DEF HundredSettled
<1>4. HeadCount(<<>>) = 0 BY FS_EmptySet DEF HeadCount
<1>5. HeadsCounted BY <1>4 DEF HeadsCounted
<1>6. ExpectingBegins /\ ExpectingOwes BY DEF ExpectingBegins, ExpectingOwes
<1>7. Len(Body(head)) = 0 /\ head.units = 0 BY BodyShape DEF RequestsFramed
<1>8. Left = 0
  <2>1. position = 0 /\ ~ended OBVIOUS
  <2>2. Left = Len(Body(head)) - position - 0 BY ONLY <2>1 DEF Left
  <2>3. QED BY <1>7, <2>1, <2>2
<1>9. stream \o owed = <<>> OBVIOUS
<1>10. RestOfBody(<<>>, Body(head), 0) BY <1>7 DEF RestOfBody
<1>11. WholeRequests(<<>>) BY DEF WholeRequests
<1>12. OnBoundary BY <1>7, <1>8, <1>9, <1>10, <1>11 DEF OnBoundary
<1>13. QED BY <1>1, <1>2, <1>3, <1>5, <1>6, <1>12 DEF RequestIInv, Alignment

LEMMA GroupsKept ==
  ASSUME RequestTypeOK
  PROVE  /\ UNCHANGED peerVars => PeerTypeOK'
         /\ UNCHANGED inputVars => InputTypeOK'
         /\ UNCHANGED answerVars => AnswerTypeOK'
         /\ UNCHANGED <<stream, served, pc, head, close>> => ServerTypeOK'
<1> USE DEF RequestTypeOK
<1>1. UNCHANGED peerVars => PeerTypeOK' BY DEF PeerTypeOK, peerVars
<1>2. UNCHANGED inputVars => InputTypeOK' BY DEF InputTypeOK, inputVars
<1>3. UNCHANGED answerVars => AnswerTypeOK' BY DEF AnswerTypeOK, answerVars
<1>4. UNCHANGED <<stream, served, pc, head, close>> => ServerTypeOK' BY DEF ServerTypeOK
<1>5. QED BY <1>1, <1>2, <1>3, <1>4

LEMMA RequestTypeStep ==
  ASSUME RequestsFramed, RequestTypeOK, [RequestNext]_requestVars PROVE RequestTypeOK'
<1>0. PeerTypeOK /\ InputTypeOK /\ AnswerTypeOK /\ ServerTypeOK BY DEF RequestTypeOK
<1>1. ASSUME NEW r \in Heads, Ask(r) PROVE RequestTypeOK'
  <2>1. Body(r) \in Seq(BodyTokens) BY BodyShape
  <2>2. [kind |-> "head", request |-> r] \in HeadTokens BY DEF HeadTokens
  <2>3. stream' \in Seq(Tokens) BY <1>0, <1>1, <2>2 DEF Ask, Tokens, ServerTypeOK
  <2>4. ServerTypeOK' BY <1>0, <1>1, <2>3 DEF Ask, ServerTypeOK
  <2>5. PeerTypeOK' BY <1>0, <1>1, <2>1 DEF Ask, PeerTypeOK
  <2>6. QED BY <1>1, <2>4, <2>5, GroupsKept DEF Ask, RequestTypeOK
<1>2. CASE SendBody
  <2>1. Head(owed) \in BodyTokens /\ Tail(owed) \in Seq(BodyTokens) BY <1>0, <1>2 DEF SendBody, PeerTypeOK
  <2>2. stream' \in Seq(Tokens) BY <1>0, <1>2, <2>1 DEF SendBody, Tokens, ServerTypeOK
  <2>3. ServerTypeOK' BY <1>0, <1>2, <2>2 DEF SendBody, ServerTypeOK
  <2>4. PeerTypeOK' BY <1>0, <1>2, <2>1 DEF SendBody, PeerTypeOK
  <2>5. QED BY <1>2, <2>3, <2>4, GroupsKept DEF SendBody, RequestTypeOK
<1>3. CASE Proceed \/ Skip \/ HangUp
  <2>1. UNCHANGED <<stream, served, pc, head, inputVars, answerVars, close>>
    BY <1>3 DEF Proceed, Skip, HangUp
  <2>2. PeerTypeOK'
    <3>1. CASE Proceed BY <1>0, <3>1 DEF Proceed, PeerTypeOK
    <3>2. CASE Skip
      <4>1. owed' = <<>> /\ expecting' = FALSE BY <3>2 DEF Skip
      <4>2. <<>> \in Seq(BodyTokens) OBVIOUS
      <4>3. QED BY <1>0, <3>2, <4>1, <4>2 DEF Skip, PeerTypeOK
    <3>3. CASE HangUp BY <1>0, <3>3 DEF HangUp, PeerTypeOK
    <3>4. QED BY <1>3, <3>1, <3>2, <3>3
  <2>3. QED BY <2>1, <2>2, GroupsKept DEF RequestTypeOK
<1>4. CASE ReadRequest
  <2>1. Head(stream) \in Tokens /\ Tail(stream) \in Seq(Tokens) BY <1>0, <1>4 DEF ReadRequest, ServerTypeOK
  <2>2. Head(stream).kind = "head" BY <1>4 DEF ReadRequest, Kind
  <2>3. Head(stream) \in HeadTokens BY <2>1, <2>2, TokenKinds DEF Tokens
  <2>4. head' \in Heads BY <1>4, <2>3, TokenKinds DEF ReadRequest
  <2>5. close' = ~head'.keep BY <1>4 DEF ReadRequest
  <2>6. close' \in BOOLEAN BY <2>5
  <2>7. ServerTypeOK' BY <1>0, <1>4, <2>1, <2>4, <2>6 DEF ReadRequest, ServerTypeOK
  <2>8. InputTypeOK' /\ AnswerTypeOK' BY <1>4 DEF ReadRequest, InputTypeOK, AnswerTypeOK
  <2>9. QED BY <1>4, <2>7, <2>8, GroupsKept DEF ReadRequest, RequestTypeOK
<1>5. CASE ReadGarbage \/ ReadEof
  <2>1. UNCHANGED <<peerVars, inputVars, answerVars, stream, served, head>> /\ close' = TRUE /\ pc' = "closed"
    BY <1>5 DEF ReadGarbage, ReadEof, Handled
  <2>2. ServerTypeOK' BY <1>0, <2>1 DEF ServerTypeOK
  <2>3. QED BY <2>1, <2>2, GroupsKept DEF RequestTypeOK
<1>6. ASSUME NEW shape \in {"length", "bare", "bodyless"}, StartResponse(shape) PROVE RequestTypeOK'
  <2>1. AnswerTypeOK' BY <1>0, <1>6 DEF StartResponse, AnswerTypeOK
  <2>2. QED BY <1>6, <2>1, GroupsKept DEF StartResponse, RequestTypeOK
<1>7. CASE AppRead
  <2>1. InputTypeOK'
    <3>1. CASE should_send_hundred_continue
      <4>1. position' = position /\ ended' = ended /\ continued' = TRUE /\ hundred' = (hundred \/ ~headers_sent)
        BY <1>7, <3>1 DEF AppRead, SendHundred
      <4>2. hundred' \in BOOLEAN BY <4>1
      <4>3. QED BY <1>0, <4>1, <4>2 DEF InputTypeOK
    <3>2. CASE ~should_send_hundred_continue
      BY <1>0, <1>7, <3>2 DEF AppRead, SendHundred, InputTypeOK
    <3>3. QED BY <3>1, <3>2
  <2>2. ServerTypeOK' BY <1>0, <1>7 DEF AppRead, ServerTypeOK
  <2>3. QED BY <1>7, <2>1, <2>2, GroupsKept DEF AppRead, RequestTypeOK
<1>8. ASSUME NEW k \in {"no", "length", "bare", "bodyless"}, NEW c \in BOOLEAN
      PROVE  Framed(k, c).chunked \in BOOLEAN /\ Framed(k, c).close \in BOOLEAN
  <2>1. use_chunked \in BOOLEAN BY <1>0 DEF AnswerTypeOK
  <2>2. Framing(k, c).chunked \in BOOLEAN /\ Framing(k, c).close \in BOOLEAN
    BY DEF Framing
  <2>3. CASE headers_sent BY <2>1, <2>3 DEF Framed
  <2>4. CASE ~headers_sent BY <2>2, <2>4 DEF Framed
  <2>5. QED BY <2>3, <2>4
<1>9. should_send_hundred_continue \in BOOLEAN /\ Remains \in BOOLEAN /\ chunked_input \in BOOLEAN
  BY DEF should_send_hundred_continue, Remains, chunked_input
<1>10. close \in BOOLEAN /\ headers_set \in {"no", "length", "bare", "bodyless"}
  BY <1>0 DEF ServerTypeOK, AnswerTypeOK
<1>11. ASSUME Write PROVE headers_sent' \in BOOLEAN /\ use_chunked' \in BOOLEAN /\ close' \in BOOLEAN
  BY <1>8, <1>10, <1>11 DEF Write
<1>12. CASE Yield
  <2>1. /\ headers_sent' \in BOOLEAN /\ use_chunked' \in BOOLEAN /\ close' \in BOOLEAN
        /\ towrite' \in BOOLEAN /\ just_written' \in BOOLEAN
    <3>1. CASE Write /\ towrite' = FALSE /\ just_written' = TRUE BY <1>11, <3>1
    <3>2. CASE towrite' = TRUE /\ UNCHANGED <<headers_sent, use_chunked, close, just_written>>
      BY <1>0, <1>10, <3>2 DEF AnswerTypeOK
    <3>3. QED BY <1>12, <3>1, <3>2 DEF Yield
  <2>2. AnswerTypeOK' BY <1>0, <1>12, <2>1 DEF Yield, AnswerTypeOK
  <2>3. ServerTypeOK' BY <1>0, <1>12, <2>1 DEF Yield, ServerTypeOK
  <2>4. QED BY <1>12, <2>2, <2>3, GroupsKept DEF Yield, RequestTypeOK
<1>13. CASE CallWrite
  <2>1. headers_sent' \in BOOLEAN /\ use_chunked' \in BOOLEAN /\ close' \in BOOLEAN
    BY <1>11, <1>13 DEF CallWrite
  <2>2. AnswerTypeOK' BY <1>0, <1>13, <2>1 DEF CallWrite, AnswerTypeOK
  <2>3. ServerTypeOK' BY <1>0, <1>13, <2>1 DEF CallWrite, ServerTypeOK
  <2>4. QED BY <1>13, <2>2, <2>3, GroupsKept DEF CallWrite, RequestTypeOK
<1>14. ASSUME NEW c \in BOOLEAN, Finally(c)
       PROVE  close' \in BOOLEAN /\ pc' \in {"reads", "discards", "closed"}
  <2>1. close' = (c \/ should_send_hundred_continue) BY <1>14 DEF Finally
  <2>2. pc' \in {"reads", "discards", "closed"} BY <1>14 DEF Finally, Handled
  <2>3. QED BY <2>1, <2>2
<1>15. ASSUME NEW k \in {"no", "length", "bare", "bodyless"}, NEW c \in BOOLEAN, LastWrite(k, c)
       PROVE  /\ close' \in BOOLEAN /\ pc' \in {"reads", "discards", "closed"}
              /\ headers_sent' \in BOOLEAN /\ towrite' \in BOOLEAN
              /\ use_chunked' \in BOOLEAN /\ complete' \in BOOLEAN
  <2>1. Framed(k, c).chunked \in BOOLEAN /\ Framed(k, c).close \in BOOLEAN BY <1>8
  <2>2. headers_sent' = TRUE /\ towrite' = FALSE /\ use_chunked' = Framed(k, c).chunked
    BY <1>15 DEF LastWrite
  <2>3. Finally(Framed(k, c).close) BY <1>15 DEF LastWrite
  <2>4. complete' \in BOOLEAN BY <1>15 DEF LastWrite
  <2>5. close' \in BOOLEAN /\ pc' \in {"reads", "discards", "closed"} BY <1>14, <2>1, <2>3
  <2>6. QED BY <2>1, <2>2, <2>4, <2>5
<1>16. ASSUME /\ close' \in BOOLEAN /\ pc' \in {"reads", "discards", "closed"}
              /\ headers_sent' \in BOOLEAN /\ towrite' \in BOOLEAN
              /\ use_chunked' \in BOOLEAN /\ complete' \in BOOLEAN
              /\ headers_set' \in {"no", "length", "bare", "bodyless"}
              /\ UNCHANGED <<peerVars, inputVars, stream, served, head, just_written>>
       PROVE  RequestTypeOK'
  <2>1. AnswerTypeOK' BY <1>0, <1>16 DEF AnswerTypeOK
  <2>2. ServerTypeOK' BY <1>0, <1>16 DEF ServerTypeOK
  <2>3. QED BY <1>16, <2>1, <2>2, GroupsKept DEF RequestTypeOK
<1>17. CASE Finish
  <2>1. LastWrite(headers_set, close) BY <1>17 DEF Finish
  <2>2. headers_set' \in {"no", "length", "bare", "bodyless"} BY <1>10, <1>17 DEF Finish
  <2>3. UNCHANGED <<peerVars, inputVars, stream, served, head, just_written>> BY <1>17 DEF Finish
  <2>4. QED BY <1>10, <1>15, <1>16, <2>1, <2>2, <2>3
<1>18. CASE ReturnList
  <2>1. headers_set' \in {"no", "length", "bare", "bodyless"} BY <1>10, <1>18 DEF ReturnList
  <2>2. (close \/ should_send_hundred_continue) \in BOOLEAN BY <1>9
  <2>3. LastWrite(headers_set', close \/ should_send_hundred_continue) BY <1>18 DEF ReturnList
  <2>4. UNCHANGED <<peerVars, inputVars, stream, served, head, just_written>> BY <1>18 DEF ReturnList
  <2>5. QED BY <1>15, <1>16, <2>1, <2>2, <2>3, <2>4
<1>19. ASSUME Failed, UNCHANGED <<peerVars, inputVars, stream, served, head, use_chunked, towrite, just_written>>
       PROVE  RequestTypeOK'
  <2>1. Finally(TRUE) /\ headers_sent' = TRUE /\ complete' = (complete \/ ~headers_sent) BY <1>19 DEF Failed
  <2>2. complete' \in BOOLEAN BY <2>1
  <2>3. headers_set' \in {"no", "length", "bare", "bodyless"} BY <1>10, <1>19 DEF Failed
  <2>4. close' \in BOOLEAN /\ pc' \in {"reads", "discards", "closed"} BY <1>14, <2>1
  <2>5. use_chunked' \in BOOLEAN /\ towrite' \in BOOLEAN BY <1>0, <1>19 DEF AnswerTypeOK
  <2>6. UNCHANGED <<peerVars, inputVars, stream, served, head, just_written>> BY <1>19
  <2>7. headers_sent' \in BOOLEAN BY <2>1
  <2>8. QED BY <1>16, <2>2, <2>3, <2>4, <2>5, <2>6, <2>7
<1>20. CASE Raise BY <1>19, <1>20 DEF Raise
<1>21. ASSUME stream # <<>>, TakeToken, pc' \in {"app", "discards"}, close' = close,
              UNCHANGED <<peerVars, served, head, continued, hundred, answerVars>>
       PROVE  RequestTypeOK'
  <2>1. stream' = Tail(stream) BY <1>21 DEF TakeToken
  <2>2. stream' \in Seq(Tokens) BY <1>0, <1>21, <2>1 DEF ServerTypeOK
  <2>3. ServerTypeOK' BY <1>0, <1>21, <2>2 DEF ServerTypeOK
  <2>4. InputTypeOK'
    <3>1. CASE Kind = "last" BY <1>0, <1>21, <3>1 DEF TakeToken, InputTypeOK
    <3>2. CASE Kind # "last" BY <1>0, <1>21, <3>2 DEF TakeToken, InputTypeOK
    <3>3. QED BY <3>1, <3>2
  <2>5. QED BY <1>21, <2>3, <2>4, GroupsKept DEF RequestTypeOK
<1>22. CASE AwaitToken
  <2>1. CASE BadChunk
    <3>1. UNCHANGED <<peerVars, inputVars, stream, served, head, use_chunked, towrite, just_written>>
      BY <1>22, <2>1 DEF AwaitToken, inputVars
    <3>2. QED BY <1>19, <1>22, <2>1, <3>1 DEF AwaitToken
  <2>2. CASE ~BadChunk BY <1>21, <1>22, <2>2 DEF AwaitToken
  <2>3. QED BY <2>1, <2>2
<1>23. CASE AwaitEof
  <2>1. CASE chunked_input BY <1>19, <1>23, <2>1 DEF AwaitEof
  <2>2. CASE ~chunked_input
    <3>1. ServerTypeOK' BY <1>0, <1>23, <2>2 DEF AwaitEof, ServerTypeOK
    <3>2. QED BY <1>23, <2>2, <3>1, GroupsKept DEF AwaitEof, RequestTypeOK
  <2>3. QED BY <2>1, <2>2
<1>24. CASE DiscardToken
  <2>1. CASE BadChunk
    <3>1. /\ UNCHANGED <<peerVars, inputVars, answerVars, stream, served, head>>
          /\ close' = TRUE /\ pc' = "closed"
      BY <1>24, <2>1 DEF DiscardToken, Handled, inputVars
    <3>2. ServerTypeOK' BY <1>0, <3>1 DEF ServerTypeOK
    <3>3. QED BY <3>1, <3>2, GroupsKept DEF RequestTypeOK
  <2>2. CASE ~BadChunk BY <1>21, <1>24, <2>2 DEF DiscardToken
  <2>3. QED BY <2>1, <2>2
<1>25. CASE DiscardEnds
  <2>1. close' = (Remains /\ chunked_input) BY <1>25 DEF DiscardEnds
  <2>2. close' \in BOOLEAN BY <2>1
  <2>3. pc' \in {"reads", "closed"} BY <1>25 DEF DiscardEnds, Handled
  <2>4. ServerTypeOK' BY <1>0, <1>25, <2>2, <2>3 DEF DiscardEnds, ServerTypeOK
  <2>5. QED BY <1>25, <2>4, GroupsKept DEF DiscardEnds, RequestTypeOK
<1>26. CASE UNCHANGED requestVars
  BY <1>26, GroupsKept DEF requestVars, RequestTypeOK
<1>27. QED
  BY <1>1, <1>2, <1>3, <1>4, <1>5, <1>6, <1>7, <1>12, <1>13, <1>17, <1>18, <1>20, <1>22, <1>23,
     <1>24, <1>25, <1>26 DEF RequestNext

\* What is sent and what is going to be, when a token is read or sent.
LEMMA TailJoin ==
  ASSUME NEW S, NEW s \in Seq(S), NEW t \in Seq(S), s # <<>>
  PROVE  /\ Tail(s) \o t = Tail(s \o t)
         /\ s \o t # <<>> /\ (s \o t)[1] = Head(s)
<1>1. Tail(s) \o t \in Seq(S) /\ Tail(s \o t) \in Seq(S) OBVIOUS
<1>2. Len(Tail(s) \o t) = Len(s) + Len(t) - 1 /\ Len(Tail(s \o t)) = Len(s) + Len(t) - 1 OBVIOUS
<1>3. ASSUME NEW i \in 1..Len(s) + Len(t) - 1
      PROVE  (Tail(s) \o t)[i] = Tail(s \o t)[i]
  <2>1. Tail(s \o t)[i] = (s \o t)[i + 1] OBVIOUS
  <2>2. CASE i <= Len(s) - 1 BY <2>1, <2>2
  <2>3. CASE i > Len(s) - 1 BY <2>1, <2>3
  <2>4. QED BY <2>2, <2>3
<1>4. Tail(s) \o t = Tail(s \o t) BY <1>1, <1>2, <1>3, SeqEqual
<1>5. QED BY <1>4

LEMMA MoveHead ==
  ASSUME NEW S, NEW s \in Seq(S), NEW t \in Seq(S), t # <<>>
  PROVE  Append(s, Head(t)) \o Tail(t) = s \o t
<1>1. Append(s, Head(t)) \o Tail(t) \in Seq(S) /\ s \o t \in Seq(S) OBVIOUS
<1>2. Len(Append(s, Head(t)) \o Tail(t)) = Len(s) + Len(t) /\ Len(s \o t) = Len(s) + Len(t) OBVIOUS
<1>3. ASSUME NEW i \in 1..Len(s) + Len(t)
      PROVE  (Append(s, Head(t)) \o Tail(t))[i] = (s \o t)[i]
  <2>1. CASE i <= Len(s) BY <2>1
  <2>2. CASE i = Len(s) + 1 BY <2>2
  <2>3. CASE i > Len(s) + 1 BY <2>3
  <2>4. QED BY <2>1, <2>2, <2>3
<1>4. QED BY <1>1, <1>2, <1>3, SeqEqual

\* Heads are counted as they are sent and as they are read.
LEMMA HeadCountAppend ==
  ASSUME NEW s \in Seq(Tokens), NEW t \in Tokens
  PROVE  HeadCount(Append(s, t)) = HeadCount(s) + (IF t.kind = "head" THEN 1 ELSE 0)
<1> DEFINE C == {i \in 1..Len(s) : s[i].kind = "head"}
           D == {i \in 1..Len(Append(s, t)) : Append(s, t)[i].kind = "head"}
<1>0. HeadCount(s) = Cardinality(C) /\ HeadCount(Append(s, t)) = Cardinality(D) BY DEF HeadCount
<1>1. IsFiniteSet(C) BY FS_Subset, FS_Interval
<1>2. Len(s) + 1 \notin C OBVIOUS
<1>3. CASE t.kind = "head"
  <2>1. D = C \union {Len(s) + 1} BY <1>3
  <2>2. Cardinality(D) = Cardinality(C) + 1 BY <1>1, <1>2, <2>1, FS_AddElement
  <2>3. QED BY <1>0, <1>3, <2>2
<1>4. CASE t.kind # "head"
  <2>1. D = C BY <1>4
  <2>2. Cardinality(C) \in Nat BY <1>1, FS_CardinalityType
  <2> HIDE DEF C, D
  <2>3. QED BY <1>0, <1>4, <2>1, <2>2
<1>5. QED BY <1>3, <1>4

LEMMA HeadCountTail ==
  ASSUME NEW s \in Seq(Tokens), s # <<>>
  PROVE  HeadCount(s) = HeadCount(Tail(s)) + (IF Head(s).kind = "head" THEN 1 ELSE 0)
<1> DEFINE C == {i \in 1..Len(s) : s[i].kind = "head"}
           D == {i \in 1..Len(Tail(s)) : Tail(s)[i].kind = "head"}
           f == [i \in D |-> i + 1]
<1>0. HeadCount(s) = Cardinality(C) /\ HeadCount(Tail(s)) = Cardinality(D) BY DEF HeadCount
<1>1. IsFiniteSet(C) /\ IsFiniteSet(D) BY FS_Subset, FS_Interval
<1>2. \A i \in 1..Len(Tail(s)) : Tail(s)[i] = s[i + 1] OBVIOUS
<1>3. f \in Bijection(D, C \ {1})
  <2>1. f \in [D -> C \ {1}] BY <1>2
  <2>2. \A i, j \in D : f[i] = f[j] => i = j OBVIOUS
  <2>3. ASSUME NEW k \in C \ {1} PROVE \E i \in D : f[i] = k
    <3>1. k - 1 \in D BY <1>2
    <3>2. f[k - 1] = k BY <3>1
    <3>3. QED BY <3>1, <3>2
  <2>4. QED BY <2>1, <2>2, <2>3 DEF Bijection, Injection, Surjection, IsInjective
<1>4. Cardinality(C \ {1}) = Cardinality(D)
  <2>1. ExistsBijection(D, C \ {1}) BY <1>3 DEF ExistsBijection
  <2> HIDE DEF C, D
  <2>2. QED BY <1>1, <2>1, FS_Bijection
<1>5. Cardinality(C) \in Nat /\ Cardinality(D) \in Nat BY <1>1, FS_CardinalityType
<1>6. 1 \in C <=> Head(s).kind = "head" OBVIOUS
<1>7. CASE Head(s).kind = "head"
  <2>1. Cardinality(C \ {1}) = Cardinality(C) - 1 BY <1>1, <1>6, <1>7, FS_RemoveElement
  <2> HIDE DEF C, D
  <2>2. QED BY <1>0, <1>4, <1>5, <1>7, <2>1
<1>8. CASE Head(s).kind # "head"
  <2>1. C \ {1} = C BY <1>6, <1>8
  <2>2. Cardinality(C) = Cardinality(D) BY <1>4, <2>1
  <2> HIDE DEF C, D
  <2>3. QED BY <1>0, <1>5, <1>8, <2>2
<1>9. QED BY <1>7, <1>8

LEMMA HeadCountZero ==
  ASSUME NEW s \in Seq(Tokens)
  PROVE  /\ HeadCount(s) \in Nat
         /\ HeadCount(s) = 0 => \A i \in 1..Len(s) : s[i].kind # "head"
<1> DEFINE C == {i \in 1..Len(s) : s[i].kind = "head"}
<1>1. IsFiniteSet(C) BY FS_Subset, FS_Interval
<1>2. Cardinality(C) \in Nat /\ (Cardinality(C) = 0 => C = {}) BY <1>1, FS_CardinalityType, FS_EmptySet
<1>3. QED BY <1>2 DEF HeadCount

\* What the end of an answer leaves: the connection goes on only if the client saw the end.
LEMMA LastWriteDelimits ==
  ASSUME RequestTypeOK, AnswerFramed, pc = "app", "write" \notin habits,
         NEW k \in {"length", "bare", "bodyless"}, NEW c \in BOOLEAN, LastWrite(k, c),
         headers_sent => k = headers_set /\ c = close,
         pc' # "closed"
  PROVE  complete'
<1> DEFINE f == Framed(k, c)
           ends == (~headers_sent /\ ~towrite) \/ (f.chunked /\ (towrite \/ just_written))
<1>1. complete' = (complete \/ k \in {"length", "bodyless"} \/ (f.chunked /\ ends)) BY DEF LastWrite
<1>2. Finally(f.close) BY DEF LastWrite
<1>3. ~f.close BY <1>2 DEF Finally, Handled
<1>4. CASE k # "bare" BY <1>1, <1>4
<1>5. ASSUME k = "bare", headers_sent PROVE complete'
  <2>1. f.chunked = use_chunked /\ f.close = c BY <1>5 DEF Framed
  <2>2. use_chunked \/ close BY <1>5 DEF AnswerFramed
  <2>3. just_written BY <1>5 DEF AnswerFramed
  <2>4. f.chunked BY <1>3, <1>5, <2>1, <2>2
  <2> HIDE DEF f
  <2>5. QED BY <1>1, <2>3, <2>4
<1>6. ASSUME k = "bare", ~headers_sent PROVE complete'
  <2>1. f.chunked = (k = "bare" /\ head.http11)
        /\ f.close = (c \/ ~keepalive \/ (k = "bare" /\ ~head.http11))
    BY <1>6 DEF Framed, Framing
  <2>2. f.chunked BY <1>3, <1>6, <2>1
  <2> HIDE DEF f
  <2>3. towrite \in BOOLEAN BY DEF RequestTypeOK, AnswerTypeOK
  <2>4. QED BY <1>1, <1>6, <2>2, <2>3
<1>7. QED BY <1>4, <1>5, <1>6

\* Before the first piece is written, the answer's framing is settled.
LEMMA WriteFrames ==
  ASSUME RequestTypeOK, AnswerFramed, pc = "app", Write, headers_set \in {"length", "bare"}
  PROVE  headers_set = "bare" => use_chunked' \/ close'
<1>1. SUFFICES ASSUME headers_set = "bare" PROVE use_chunked' \/ close' OBVIOUS
<1>2. CASE headers_sent
  <2>1. use_chunked' = use_chunked /\ close' = close BY <1>2 DEF Write, Framed
  <2>2. use_chunked \/ close BY <1>1, <1>2 DEF AnswerFramed
  <2>3. QED BY <2>1, <2>2
<1>3. CASE ~headers_sent
  <2>1. use_chunked' = (headers_set = "bare" /\ head.http11)
        /\ close' = (close \/ ~keepalive \/ (headers_set = "bare" /\ ~head.http11))
    BY <1>3 DEF Write, Framed, Framing
  <2>2. QED BY <1>1, <2>1
<1>4. QED BY <1>2, <1>3

\* The body of a request with its end to the application, and answers that close.
LEMMA EndOfResponse ==
  ASSUME RequestTypeOK, pc \in {"app", "awaits"}, Failed
  PROVE  pc' = "closed"
BY DEF Failed, Finally, Handled

LEMMA AnswerFramedStep ==
  ASSUME RequestTypeOK, AnswerFramed, [RequestNext]_requestVars PROVE AnswerFramed'
<1>1. ASSUME UNCHANGED <<habits, pc, answerVars, close>> PROVE AnswerFramed'
  BY <1>1 DEF AnswerFramed, answerVars
<1>2. CASE (\E r \in Heads : Ask(r)) \/ SendBody \/ Proceed \/ Skip \/ HangUp \/ UNCHANGED requestVars
  BY <1>1, <1>2 DEF Ask, SendBody, Proceed, Skip, HangUp, requestVars, peerVars
<1>3. CASE ReadRequest BY <1>3 DEF ReadRequest, AnswerFramed
<1>4. CASE ReadGarbage \/ ReadEof BY <1>4 DEF ReadGarbage, ReadEof, Handled, AnswerFramed
<1>5. ASSUME NEW shape \in {"length", "bare", "bodyless"}, StartResponse(shape) PROVE AnswerFramed'
  <2>1. ~headers_sent BY <1>5 DEF StartResponse, AnswerFramed
  <2>2. QED BY <1>5, <2>1 DEF StartResponse, AnswerFramed
<1>6. CASE AppRead BY <1>6 DEF AppRead, AnswerFramed, answerVars, peerVars
<1>7. CASE Yield
  <2>1. pc' = "app" /\ headers_set' = headers_set /\ headers_set # "no" /\ habits' = habits
    BY <1>7 DEF Yield, peerVars
  <2>2. CASE Write /\ towrite' = FALSE /\ just_written' = TRUE
    <3>1. headers_set = "bare" => use_chunked' \/ close' BY <1>7, <2>2, WriteFrames DEF Yield
    <3>2. QED BY <2>1, <2>2, <3>1 DEF AnswerFramed
  <2>3. CASE towrite' = TRUE /\ UNCHANGED <<headers_sent, use_chunked, close, just_written>>
    <3>1. pc = "app" BY <1>7 DEF Yield
    <3>2. QED BY <2>1, <2>3, <3>1 DEF AnswerFramed
  <2>4. QED BY <1>7, <2>2, <2>3 DEF Yield
<1>8. CASE CallWrite
  <2>1. pc' = "app" /\ headers_set' = headers_set /\ headers_set # "no" /\ "write" \in habits'
    BY <1>8 DEF CallWrite, peerVars
  <2>2. headers_set = "bare" => use_chunked' \/ close' BY <1>8, WriteFrames DEF CallWrite
  <2>3. QED BY <2>1, <2>2 DEF AnswerFramed
<1>9. ASSUME pc' = "closed" PROVE AnswerFramed' BY <1>9 DEF AnswerFramed
<1>10. ASSUME pc' \in {"reads", "discards", "closed"}, headers_sent',
              pc' # "closed" /\ "write" \notin habits' => complete'
       PROVE  AnswerFramed'
  BY <1>10 DEF AnswerFramed
<1>11. ASSUME NEW k, NEW c, LastWrite(k, c) PROVE pc' \in {"reads", "discards", "closed"} /\ headers_sent'
  BY <1>11 DEF LastWrite, Finally, Handled
<1>12. close \in BOOLEAN /\ headers_set \in {"no", "length", "bare", "bodyless"}
  BY DEF RequestTypeOK, ServerTypeOK, AnswerTypeOK
<1>13. CASE Finish
  <2>1. LastWrite(headers_set, close) /\ pc = "app" /\ habits' = habits BY <1>13 DEF Finish, peerVars
  <2>2. headers_set \in {"length", "bare", "bodyless"} BY <1>12, <1>13 DEF Finish
  <2>3. pc' # "closed" /\ "write" \notin habits => complete' BY <1>12, <2>1, <2>2, LastWriteDelimits
  <2>4. QED BY <1>10, <1>11, <2>1, <2>3
<1>14. CASE ReturnList
  <2>1. LastWrite(headers_set', close \/ should_send_hundred_continue) BY <1>14 DEF ReturnList
  <2>2. headers_set' \in {"length", "bodyless"} BY <1>12, <1>14 DEF ReturnList
  <2>3. complete' BY <2>1, <2>2 DEF LastWrite
  <2>4. QED BY <1>10, <1>11, <2>1, <2>3
<1>15. CASE Raise BY <1>9, <1>15, EndOfResponse DEF Raise
<1>16. CASE AwaitToken
  <2>1. CASE BadChunk BY <1>9, <1>16, <2>1, EndOfResponse DEF AwaitToken
  <2>2. CASE ~BadChunk
    <3>1. pc = "awaits" /\ pc' = "app" /\ UNCHANGED <<habits, answerVars, close>>
      BY <1>16, <2>2 DEF AwaitToken, peerVars
    <3>2. QED BY <3>1 DEF AnswerFramed, answerVars
  <2>3. QED BY <2>1, <2>2
<1>17. CASE AwaitEof
  <2>1. CASE chunked_input BY <1>9, <1>17, <2>1, EndOfResponse DEF AwaitEof
  <2>2. CASE ~chunked_input
    <3>1. pc = "awaits" /\ pc' = "app" /\ UNCHANGED <<habits, answerVars, close>>
      BY <1>17, <2>2 DEF AwaitEof, peerVars
    <3>2. QED BY <3>1 DEF AnswerFramed, answerVars
  <2>3. QED BY <2>1, <2>2
<1>18. CASE DiscardToken \/ DiscardEnds
  <2>1. pc = "discards" /\ pc' \in {"reads", "discards", "closed"} /\ UNCHANGED <<habits, answerVars>>
    BY <1>18 DEF DiscardToken, DiscardEnds, Handled, peerVars
  <2>2. QED BY <2>1 DEF AnswerFramed, answerVars
<1>19. QED
  BY <1>2, <1>3, <1>4, <1>5, <1>6, <1>7, <1>8, <1>13, <1>14, <1>15, <1>16, <1>17, <1>18 DEF RequestNext

\* After an answer the connection goes on only if "100 Continue" is settled.
LEMMA GoingOnSettles ==
  ASSUME NEW c, Finally(c), pc' # "closed", continued' = continued, head' = head
  PROVE  pc' \in {"reads", "discards"} /\ ~c /\ ~should_send_hundred_continue /\ ~should_send_hundred_continue'
<1>1. ~(c \/ should_send_hundred_continue) BY DEF Finally, Handled
<1>2. pc' \in {"reads", "discards"} BY DEF Finally, Handled
<1>3. QED BY <1>1, <1>2 DEF should_send_hundred_continue

LEMMA HundredSettledStep ==
  ASSUME RequestTypeOK, HundredSettled, [RequestNext]_requestVars PROVE HundredSettled'
<1>1. ASSUME UNCHANGED <<habits, pc, inputVars, head, headers_sent>> PROVE HundredSettled'
  BY <1>1 DEF HundredSettled, inputVars, should_send_hundred_continue
<1>2. CASE (\E r \in Heads : Ask(r)) \/ SendBody \/ Proceed \/ Skip \/ HangUp \/ UNCHANGED requestVars
  BY <1>1, <1>2 DEF Ask, SendBody, Proceed, Skip, HangUp, requestVars, peerVars, answerVars
<1>3. CASE ReadRequest BY <1>3 DEF ReadRequest, HundredSettled
<1>4. CASE ReadGarbage \/ ReadEof
  BY <1>4 DEF ReadGarbage, ReadEof, Handled, HundredSettled, peerVars, inputVars, answerVars
<1>5. ASSUME NEW shape \in {"length", "bare", "bodyless"}, StartResponse(shape) PROVE HundredSettled'
  BY <1>1, <1>5 DEF StartResponse, peerVars
<1>6. CASE AppRead
  <2>1. UNCHANGED <<habits, head, headers_sent>> /\ pc' \in {"awaits", "app"}
        /\ (headers_sent /\ head.expect => "lateread" \in habits)
    BY <1>6 DEF AppRead, peerVars, answerVars
  <2>2. CASE should_send_hundred_continue
    <3>1. continued' = TRUE /\ hundred' = (hundred \/ ~headers_sent) BY <1>6, <2>2 DEF AppRead, SendHundred
    <3>2. ~should_send_hundred_continue' BY <3>1 DEF should_send_hundred_continue
    <3>3. head.expect BY <2>2 DEF should_send_hundred_continue
    <3>4. CASE headers_sent BY <2>1, <3>2, <3>3, <3>4 DEF HundredSettled
    <3>5. CASE ~headers_sent BY <2>1, <3>1, <3>2, <3>5 DEF HundredSettled
    <3>6. QED BY <3>4, <3>5
  <2>3. CASE ~should_send_hundred_continue
    <3>1. UNCHANGED <<continued, hundred>> BY <1>6, <2>3 DEF AppRead, SendHundred
    <3>2. QED BY <2>1, <2>3, <3>1 DEF HundredSettled, should_send_hundred_continue
  <2>4. QED BY <2>2, <2>3
<1>7. ASSUME UNCHANGED <<habits, inputVars, head>>, pc' = "app",
             headers_sent => headers_sent'
      PROVE  HundredSettled'
  BY <1>7 DEF HundredSettled, inputVars
<1>8. CASE Yield
  <2>1. headers_sent => headers_sent' BY <1>8 DEF Yield, Write
  <2>2. QED BY <1>7, <1>8, <2>1 DEF Yield, peerVars
<1>9. CASE CallWrite BY <1>7, <1>9 DEF CallWrite, Write, peerVars
<1>10. ASSUME NEW c, Finally(c), headers_sent', UNCHANGED <<habits, inputVars, head>>
       PROVE  HundredSettled'
  <2>1. UNCHANGED <<habits, continued, hundred, head>> BY <1>10 DEF inputVars
  <2>2. pc' \in {"reads", "discards", "closed"} BY <1>10 DEF Finally, Handled
  <2>3. pc' # "closed" => ~should_send_hundred_continue' BY <1>10, <2>1, GoingOnSettles
  <2>4. continued' => hundred' \/ (headers_sent' /\ "lateread" \in habits')
    BY <1>10, <2>1 DEF HundredSettled
  <2>5. QED BY <2>2, <2>3, <2>4 DEF HundredSettled
<1>11. ASSUME Failed, UNCHANGED <<habits, inputVars, head>> PROVE HundredSettled'
  BY <1>10, <1>11 DEF Failed
<1>12. CASE Finish BY <1>10, <1>12 DEF Finish, LastWrite, peerVars
<1>13. CASE ReturnList BY <1>10, <1>13 DEF ReturnList, LastWrite, peerVars
<1>14. CASE Raise BY <1>11, <1>14 DEF Raise, peerVars
<1>15. CASE AwaitToken
  <2>1. CASE BadChunk BY <1>11, <1>15, <2>1 DEF AwaitToken, peerVars, inputVars
  <2>2. CASE ~BadChunk
    <3>1. UNCHANGED <<habits, continued, hundred, head, headers_sent>> /\ pc' = "app"
      BY <1>15, <2>2 DEF AwaitToken, peerVars, answerVars
    <3>2. QED BY <3>1 DEF HundredSettled
  <2>3. QED BY <2>1, <2>2
<1>16. CASE AwaitEof
  <2>1. CASE chunked_input BY <1>11, <1>16, <2>1 DEF AwaitEof, peerVars
  <2>2. CASE ~chunked_input BY <1>7, <1>16, <2>2 DEF AwaitEof, peerVars, answerVars
  <2>3. QED BY <2>1, <2>2
<1>17. CASE DiscardToken \/ DiscardEnds
  <2>1. /\ pc = "discards" /\ pc' \in {"reads", "discards", "closed"}
        /\ UNCHANGED <<habits, continued, hundred, head, headers_sent>>
    BY <1>17 DEF DiscardToken, DiscardEnds, Handled, peerVars, answerVars, inputVars
  <2>2. ~should_send_hundred_continue BY <2>1 DEF HundredSettled
  <2>3. ~should_send_hundred_continue' BY <2>1, <2>2 DEF should_send_hundred_continue
  <2>4. QED BY <2>1, <2>3 DEF HundredSettled
<1>18. QED
  BY <1>2, <1>3, <1>4, <1>5, <1>6, <1>8, <1>9, <1>12, <1>13, <1>14, <1>15, <1>16, <1>17 DEF RequestNext

\* What a step does to what was sent and not read.
LEMMA StreamStep ==
  ASSUME RequestNext
  PROVE  \/ \E r \in Heads : Ask(r)
         \/ SendBody \/ ReadRequest
         \/ /\ pc \in {"awaits", "discards"} /\ stream # <<>> /\ ~BadChunk
            /\ TakeToken /\ pc' \in {"app", "discards"}
            /\ UNCHANGED <<peerVars, served, head, continued, hundred, answerVars, close>>
         \/ UNCHANGED <<stream, asked, served, head, owed, expecting>>
         \/ Proceed \/ Skip
<1>1. (\E shape \in {"length", "bare", "bodyless"} : StartResponse(shape)) \/ ReadGarbage \/ ReadEof
      \/ AppRead \/ Yield \/ CallWrite \/ Finish \/ ReturnList \/ Raise \/ AwaitEof \/ DiscardEnds
      => UNCHANGED <<stream, asked, served, head, owed, expecting>>
  BY DEF StartResponse, ReadGarbage, ReadEof, AppRead, Yield, CallWrite, Finish, ReturnList, Raise,
         AwaitEof, DiscardEnds, peerVars
<1>2. HangUp => UNCHANGED <<stream, asked, served, head, owed, expecting>> BY DEF HangUp
<1>3. AwaitToken \/ DiscardToken =>
        \/ /\ pc \in {"awaits", "discards"} /\ stream # <<>> /\ ~BadChunk
           /\ TakeToken /\ pc' \in {"app", "discards"}
           /\ UNCHANGED <<peerVars, served, head, continued, hundred, answerVars, close>>
        \/ UNCHANGED <<stream, asked, served, head, owed, expecting>>
  BY DEF AwaitToken, DiscardToken, peerVars
<1>4. QED BY <1>1, <1>2, <1>3 DEF RequestNext

LEMMA HeadsCountedStep ==
  ASSUME RequestsFramed, RequestTypeOK, HeadsCounted, [RequestNext]_requestVars PROVE HeadsCounted'
<1>1. stream \in Seq(Tokens) /\ owed \in Seq(BodyTokens) /\ asked \in Nat /\ served \in Nat
  BY DEF RequestTypeOK, ServerTypeOK, PeerTypeOK
<1>2. HeadCount(stream) \in Nat /\ served + HeadCount(stream) <= asked BY <1>1, HeadCountZero DEF HeadsCounted
<1>3. ASSUME UNCHANGED <<stream, asked, served>> PROVE HeadsCounted' BY <1>3 DEF HeadsCounted, HeadCount
<1>4. ASSUME NEW r \in Heads, Ask(r) PROVE HeadsCounted'
  <2>1. [kind |-> "head", request |-> r] \in Tokens BY DEF Tokens, HeadTokens
  <2>2. HeadCount(stream') = HeadCount(stream) + 1 BY <1>1, <1>4, <2>1, HeadCountAppend DEF Ask
  <2>3. served' = served /\ asked' = asked + 1 BY <1>4 DEF Ask
  <2>4. served' + HeadCount(stream') <= asked' BY <1>1, <1>2, <2>2, <2>3
  <2>5. QED BY <2>4 DEF HeadsCounted, HeadCount
<1>5. CASE SendBody
  <2>1. Head(owed) \in BodyTokens BY <1>1, <1>5 DEF SendBody
  <2>2. Head(owed) \in Tokens /\ Head(owed).kind # "head" BY <2>1 DEF Tokens, BodyTokens
  <2>3. HeadCount(stream') = HeadCount(stream) BY <1>1, <1>2, <1>5, <2>2, HeadCountAppend DEF SendBody
  <2>4. served' + HeadCount(stream') <= asked' BY <1>2, <1>5, <2>3 DEF SendBody
  <2>5. QED BY <2>4 DEF HeadsCounted, HeadCount
<1>6. ASSUME stream # <<>>, stream' = Tail(stream), asked' = asked,
             \/ served' = served + 1 /\ Kind = "head"
             \/ served' = served
      PROVE  HeadsCounted'
  <2>1. HeadCount(stream) = HeadCount(Tail(stream)) + (IF Kind = "head" THEN 1 ELSE 0)
    BY <1>1, <1>6, HeadCountTail DEF Kind
  <2>2. Tail(stream) \in Seq(Tokens) BY <1>1, <1>6
  <2>3. HeadCount(Tail(stream)) \in Nat BY <2>2, HeadCountZero
  <2>4. served' + HeadCount(Tail(stream)) <= asked' BY <1>1, <1>2, <1>6, <2>1, <2>3
  <2>5. QED BY <1>6, <2>4 DEF HeadsCounted, HeadCount
<1>7. CASE ReadRequest BY <1>6, <1>7 DEF ReadRequest, peerVars
<1>8. CASE /\ pc \in {"awaits", "discards"} /\ stream # <<>> /\ ~BadChunk
           /\ TakeToken /\ pc' \in {"app", "discards"}
           /\ UNCHANGED <<peerVars, served, head, continued, hundred, answerVars, close>>
  BY <1>6, <1>8 DEF TakeToken, peerVars
<1>9. CASE Proceed \/ Skip \/ UNCHANGED requestVars
  BY <1>3, <1>9 DEF Proceed, Skip, requestVars, peerVars
<1>10. CASE UNCHANGED <<stream, asked, served, head, owed, expecting>> BY <1>3, <1>10
<1>11. QED BY <1>4, <1>5, <1>7, <1>8, <1>9, <1>10, StreamStep

LEMMA ExpectingStep ==
  ASSUME RequestsFramed, RequestTypeOK, HeadsCounted, ExpectingBegins, ExpectingOwes,
         [RequestNext]_requestVars
  PROVE  ExpectingBegins' /\ ExpectingOwes'
<1>1. stream \in Seq(Tokens) /\ owed \in Seq(BodyTokens) /\ asked \in Nat /\ served \in Nat
  BY DEF RequestTypeOK, ServerTypeOK, PeerTypeOK
<1>2. HeadCount(stream) \in Nat /\ served + HeadCount(stream) <= asked BY <1>1, HeadCountZero DEF HeadsCounted
<1>3. ASSUME UNCHANGED <<stream, asked, served, head, owed, expecting>> PROVE ExpectingBegins' /\ ExpectingOwes'
  BY <1>3 DEF ExpectingBegins, ExpectingOwes
<1>4. ASSUME ~expecting' PROVE ExpectingBegins' /\ ExpectingOwes'
  BY <1>4 DEF ExpectingBegins, ExpectingOwes
<1>5. ASSUME NEW r \in Heads, Ask(r) PROVE ExpectingBegins' /\ ExpectingOwes'
  <2>1. [kind |-> "head", request |-> r] \in Tokens BY DEF Tokens, HeadTokens
  <2>2. /\ stream' # <<>> /\ stream'[Len(stream')] = [kind |-> "head", request |-> r]
        /\ owed' = Body(r) /\ expecting' = (r.expect /\ Body(r) # <<>>)
    BY <1>1, <1>5, <2>1 DEF Ask
  <2>3. stream'[Len(stream')].kind = "head" /\ stream'[Len(stream')].request = r BY <2>2
  <2>4. expecting' => r.expect /\ Body(r) # <<>> BY <2>2
  <2> DEFINE sent == stream'[Len(stream')]
  <2>5. expecting' => /\ stream' # <<>> /\ sent.kind = "head" /\ sent.request.expect
                      /\ owed' = Body(sent.request)
    BY <2>2, <2>3, <2>4
  <2>6. ExpectingBegins' BY <2>5 DEF ExpectingBegins, Body
  <2>7. ExpectingOwes' BY <2>2, <2>4 DEF ExpectingOwes
  <2>8. QED BY <2>6, <2>7
<1>6. CASE SendBody BY <1>4, <1>6 DEF SendBody
<1>7. CASE Proceed \/ Skip BY <1>4, <1>7 DEF Proceed, Skip
<1>8. ASSUME stream # <<>>, stream' = Tail(stream), UNCHANGED <<asked, owed, expecting>>, expecting,
             \/ served' = served + 1 /\ head' = Head(stream).request
             \/ served' = served /\ head' = head
      PROVE  ExpectingBegins' /\ ExpectingOwes'
  <2>1. ExpectingOwes' BY <1>8 DEF ExpectingOwes
  <2>2. /\ stream[Len(stream)].kind = "head"
        /\ stream[Len(stream)].request.expect
        /\ owed = Body(stream[Len(stream)].request)
    BY <1>8 DEF ExpectingBegins
  <2>3. CASE Tail(stream) = <<>>
    <3>0. Tail(stream) \in Seq(Tokens) /\ Len(Tail(stream)) = Len(stream) - 1 /\ Len(stream) \in Nat
      BY <1>1, <1>8
    <3>1. Len(stream) = 1 /\ Head(stream) = stream[Len(stream)]
      <4> DEFINE t == Tail(stream)
      <4>1. Len(t) = Len(stream) - 1 /\ Len(stream) \in Nat BY <3>0
      <4>2. t = <<>> BY <2>3
      <4> HIDE DEF t
      <4>3. Len(t) = 0 BY <4>2
      <4>4. Len(stream) = 1 BY <4>1, <4>3
      <4>5. Head(stream) = stream[1] BY <1>1, <1>8
      <4>6. QED BY <4>4, <4>5
    <3>2. HeadCount(stream) = HeadCount(Tail(stream)) + 1 BY <1>1, <1>8, <2>2, <3>1, HeadCountTail
    <3>3. HeadCount(Tail(stream)) \in Nat BY <3>0, HeadCountZero
    <3>4. served < asked BY <1>1, <1>2, <3>2, <3>3
    <3>5. served' = asked' => head' = stream[Len(stream)].request
      <4>1. CASE served' = served + 1 /\ head' = Head(stream).request BY <3>1, <4>1
      <4>2. CASE served' = served BY <1>1, <1>8, <3>4, <4>2
      <4>3. QED BY <1>8, <4>1, <4>2
    <3>6. QED BY <1>8, <2>1, <2>2, <2>3, <3>5 DEF ExpectingBegins, Body
  <2>4. CASE Tail(stream) # <<>>
    <3>1. Len(Tail(stream)) = Len(stream) - 1 /\ Tail(stream)[Len(Tail(stream))] = stream[Len(stream)]
      BY <1>1, <1>8, <2>4
    <3>2. QED BY <1>8, <2>1, <2>2, <2>4, <3>1 DEF ExpectingBegins, Body
  <2>5. QED BY <2>3, <2>4
<1>9. CASE ReadRequest BY <1>4, <1>8, <1>9 DEF ReadRequest, peerVars
<1>10. CASE /\ pc \in {"awaits", "discards"} /\ stream # <<>> /\ ~BadChunk
            /\ TakeToken /\ pc' \in {"app", "discards"}
            /\ UNCHANGED <<peerVars, served, head, continued, hundred, answerVars, close>>
  BY <1>4, <1>8, <1>10 DEF TakeToken, peerVars
<1>11. CASE UNCHANGED requestVars BY <1>3, <1>11 DEF requestVars, peerVars
<1>12. CASE UNCHANGED <<stream, asked, served, head, owed, expecting>> BY <1>3, <1>12
<1>13. QED BY <1>5, <1>6, <1>7, <1>9, <1>10, <1>11, <1>12, StreamStep

-----------------------------------------------------------------------------
(* The alignment of what is sent and what is read *)

\* What is sent and not read, and what is owed, are tokens.
LEMMA PendingTokens ==
  ASSUME RequestTypeOK
  PROVE  /\ stream \in Seq(Tokens) /\ owed \in Seq(Tokens) /\ stream \o owed \in Seq(Tokens)
         /\ Len(stream \o owed) = Len(stream) + Len(owed)
<1>1. BodyTokens \subseteq Tokens BY DEF Tokens
<1>2. stream \in Seq(Tokens) /\ owed \in Seq(BodyTokens) BY DEF RequestTypeOK, ServerTypeOK, PeerTypeOK
<1>3. owed \in Seq(Tokens) BY <1>1, <1>2
<1>4. QED BY <1>2, <1>3

\* A request appended to whole requests leaves them whole.
LEMMA AppendRequest ==
  ASSUME RequestsFramed, NEW w \in Seq(Tokens), NEW r \in Heads, NEW h, h = [kind |-> "head", request |-> r],
         NEW v, v = Append(w, h) \o Body(r)
  PROVE  /\ v \in Seq(Tokens)
         /\ WholeRequests(w) => WholeRequests(v)
         /\ \A b \in Seq(BodyTokens), n \in Nat : RestOfBody(w, b, n) => RestOfBody(v, b, n)
<1>1. h \in Tokens /\ h.kind = "head" /\ h.request = r BY DEF Tokens, HeadTokens
<1>2. Body(r) \in Seq(BodyTokens) /\ Body(r) \in Seq(Tokens)
  <2>1. BodyTokens \subseteq Tokens BY DEF Tokens
  <2>2. Body(r) \in Seq(BodyTokens) BY BodyShape
  <2>3. QED BY <2>1, <2>2
<1>3. Append(w, h) \in Seq(Tokens) /\ Len(Append(w, h)) = Len(w) + 1
      /\ Append(w, h)[Len(w) + 1] = h /\ \A i \in 1..Len(w) : Append(w, h)[i] = w[i]
  BY <1>1
<1>4. v \in Seq(Tokens) /\ Len(v) = Len(w) + 1 + Len(Body(r)) BY <1>2, <1>3
<1>5. \A i \in 1..Len(w) : v[i] = w[i] BY <1>2, <1>3
<1>6. v[Len(w) + 1] = h BY <1>2, <1>3
<1>7. \A j \in 1..Len(Body(r)) : v[Len(w) + 1 + j] = Body(r)[j] BY <1>2, <1>3
<1>8. \A j \in 1..Len(Body(r)) : Body(r)[j].kind # "head" BY <1>2 DEF BodyTokens
<1>9. Len(w) \in Nat /\ Len(Body(r)) \in Nat /\ Len(v) \in Nat BY <1>2, <1>4
<1>10. ASSUME NEW i \in 1..Len(v), WholeRequests(w), v[i].kind = "head" PROVE FollowedByBody(v, i)
  <2>1. CASE i <= Len(w)
    <3>1. i \in 1..Len(w) /\ w[i].kind = "head" /\ v[i] = w[i] BY <1>5, <1>9, <1>10, <2>1
    <3>2. FollowedByBody(w, i) BY <1>10, <3>1 DEF WholeRequests
    <3>3. w[i] \in HeadTokens BY <3>1, TokenKinds
    <3>4. w[i].request \in Heads BY <3>3, TokenKinds
    <3> DEFINE b == Body(w[i].request)
    <3>5. Len(b) \in Nat BY <3>4, BodyShape
    <3>6. /\ i + Len(b) <= Len(w)
          /\ \A j \in 1..Len(b) : w[i + j] = b[j]
          /\ i + Len(b) + 1 <= Len(w) => w[i + Len(b) + 1].kind = "head"
      BY <3>2 DEF FollowedByBody
    <3> HIDE DEF b
    <3>7. \A j \in 1..Len(b) : v[i + j] = b[j] BY <1>5, <1>9, <3>1, <3>5, <3>6
    <3>8. v[i + Len(b) + 1].kind = "head"
      <4>1. CASE i + Len(b) + 1 <= Len(w)
        <5>1. i + Len(b) + 1 \in 1..Len(w) BY <1>9, <3>1, <3>5, <4>1
        <5>2. QED BY <1>5, <3>6, <4>1, <5>1
      <4>2. CASE i + Len(b) = Len(w) BY <1>1, <1>6, <4>2
      <4>3. i \in Nat BY <3>1
      <4>4. i + Len(b) + 1 <= Len(w) \/ i + Len(b) = Len(w) BY <1>9, <3>5, <3>6, <4>3
      <4>5. QED BY <4>1, <4>2, <4>4
    <3>9. i + Len(b) <= Len(v) BY <1>4, <1>9, <3>1, <3>5, <3>6
    <3>10. QED BY <3>1, <3>7, <3>8, <3>9 DEF FollowedByBody, b
  <2>2. CASE i = Len(w) + 1
    <3>1. v[i].request = r BY <1>1, <1>6, <2>2
    <3>2. i + Len(Body(r)) = Len(v) BY <1>4, <1>9, <2>2
    <3>3. ~(i + Len(Body(r)) + 1 <= Len(v)) BY <1>9, <3>2
    <3>4. QED BY <1>7, <1>9, <2>2, <3>1, <3>2, <3>3 DEF FollowedByBody
  <2>3. CASE i > Len(w) + 1
    <3>1. i - Len(w) - 1 \in 1..Len(Body(r)) /\ i = Len(w) + 1 + (i - Len(w) - 1) BY <1>4, <1>9, <2>3
    <3>2. v[i].kind # "head" BY <1>7, <1>8, <3>1
    <3>3. QED BY <1>10, <3>2
  <2>4. QED BY <1>9, <2>1, <2>2, <2>3
<1>11. ASSUME NEW b \in Seq(BodyTokens), NEW n \in Nat, RestOfBody(w, b, n) PROVE RestOfBody(v, b, n)
  <2>1. /\ n \in 0..Len(w) /\ n <= Len(b)
        /\ \A i \in 1..n : w[i] = b[Len(b) - n + i]
        /\ n + 1 <= Len(w) => w[n + 1].kind = "head"
    BY <1>11 DEF RestOfBody
  <2>2. \A i \in 1..n : v[i] = b[Len(b) - n + i] BY <1>5, <1>9, <2>1
  <2>3. n + 1 <= Len(v) => v[n + 1].kind = "head"
    <3>1. CASE n + 1 <= Len(w) BY <1>5, <1>9, <2>1, <3>1
    <3>2. CASE n = Len(w) BY <1>1, <1>6, <3>2
    <3>3. QED BY <1>9, <2>1, <3>1, <3>2
  <2>4. n \in 0..Len(v) BY <1>4, <1>9, <2>1
  <2>5. QED BY <2>1, <2>2, <2>3, <2>4 DEF RestOfBody
<1>12. QED BY <1>4, <1>10, <1>11 DEF WholeRequests

\* A token taken from whole requests leaves them whole.
LEMMA TailWhole ==
  ASSUME RequestsFramed, NEW w \in Seq(Tokens), w # <<>>, WholeRequests(w)
  PROVE  /\ WholeRequests(Tail(w))
         /\ w[1].kind = "head" =>
              RestOfBody(Tail(w), Body(w[1].request), Len(Body(w[1].request)))
         /\ \A b \in Seq(BodyTokens), n \in Nat \ {0} : RestOfBody(w, b, n) => RestOfBody(Tail(w), b, n - 1)
<1>1. Tail(w) \in Seq(Tokens) /\ Len(Tail(w)) = Len(w) - 1 /\ Len(w) \in Nat \ {0} OBVIOUS
<1>2. \A i \in 1..Len(w) - 1 : Tail(w)[i] = w[i + 1] OBVIOUS
<1>3. ASSUME NEW i \in 1..Len(Tail(w)), Tail(w)[i].kind = "head" PROVE FollowedByBody(Tail(w), i)
  <2>1. Tail(w)[i] = w[i + 1] /\ i + 1 \in 1..Len(w) /\ i \in Nat BY <1>1, <1>2
  <2>2. FollowedByBody(w, i + 1) BY <1>3, <2>1 DEF WholeRequests
  <2>3. w[i + 1] \in HeadTokens BY <1>3, <2>1, TokenKinds
  <2>4. w[i + 1].request \in Heads BY <2>3, TokenKinds
  <2> DEFINE b == Body(w[i + 1].request)
  <2>5. Len(b) \in Nat BY <2>4, BodyShape
  <2>6. /\ i + 1 + Len(b) <= Len(w)
        /\ \A j \in 1..Len(b) : w[i + 1 + j] = b[j]
        /\ i + 1 + Len(b) + 1 <= Len(w) => w[i + 1 + Len(b) + 1].kind = "head"
    BY <2>2 DEF FollowedByBody
  <2> HIDE DEF b
  <2>7. ASSUME NEW j \in 1..Len(b) PROVE Tail(w)[i + j] = b[j]
    <3>1. i + j \in 1..Len(w) - 1 /\ i + j + 1 = i + 1 + j BY <1>1, <2>1, <2>5, <2>6
    <3>2. Tail(w)[i + j] = w[i + 1 + j] BY <1>2, <3>1
    <3>3. QED BY <2>6, <3>2
  <2>8. ASSUME i + Len(b) + 1 <= Len(Tail(w)) PROVE Tail(w)[i + Len(b) + 1].kind = "head"
    <3>1. i + Len(b) + 1 \in 1..Len(w) - 1 /\ i + Len(b) + 1 + 1 = i + 1 + Len(b) + 1
      BY <1>1, <2>1, <2>5, <2>8
    <3>2. Tail(w)[i + Len(b) + 1] = w[i + 1 + Len(b) + 1] BY <1>2, <3>1
    <3>3. i + 1 + Len(b) + 1 <= Len(w) BY <1>1, <2>1, <2>5, <2>8
    <3>4. QED BY <2>6, <3>2, <3>3
  <2>9. i + Len(b) <= Len(Tail(w)) BY <1>1, <2>1, <2>5, <2>6
  <2>10. QED BY <2>1, <2>7, <2>8, <2>9 DEF FollowedByBody, b
<1>4. ASSUME w[1].kind = "head"
      PROVE  RestOfBody(Tail(w), Body(w[1].request), Len(Body(w[1].request)))
  <2>1. FollowedByBody(w, 1) BY <1>1, <1>4 DEF WholeRequests
  <2>2. w[1] \in Tokens BY <1>1
  <2>3. w[1] \in HeadTokens BY <1>4, <2>2, TokenKinds
  <2>4. w[1].request \in Heads BY <2>3, TokenKinds
  <2> DEFINE b == Body(w[1].request)
  <2>5. Len(b) \in Nat BY <2>4, BodyShape
  <2>6. /\ 1 + Len(b) <= Len(w)
        /\ \A j \in 1..Len(b) : w[1 + j] = b[j]
        /\ 1 + Len(b) + 1 <= Len(w) => w[1 + Len(b) + 1].kind = "head"
    BY <2>1 DEF FollowedByBody
  <2> HIDE DEF b
  <2>7. ASSUME NEW j \in 1..Len(b) PROVE Tail(w)[j] = b[Len(b) - Len(b) + j]
    <3>1. j \in 1..Len(w) - 1 /\ j + 1 = 1 + j /\ Len(b) - Len(b) + j = j BY <1>1, <2>5, <2>6
    <3>2. Tail(w)[j] = w[1 + j] BY <1>2, <3>1
    <3>3. QED BY <2>6, <3>1, <3>2
  <2>8. ASSUME Len(b) + 1 <= Len(Tail(w)) PROVE Tail(w)[Len(b) + 1].kind = "head"
    <3>1. Len(b) + 1 \in 1..Len(w) - 1 /\ Len(b) + 1 + 1 = 1 + Len(b) + 1 BY <1>1, <2>5, <2>8
    <3>2. Tail(w)[Len(b) + 1] = w[1 + Len(b) + 1] BY <1>2, <3>1
    <3>3. 1 + Len(b) + 1 <= Len(w) BY <1>1, <2>5, <2>8
    <3>4. QED BY <2>6, <3>2, <3>3
  <2>9. Len(b) \in 0..Len(Tail(w)) /\ Len(b) <= Len(b) BY <1>1, <2>5, <2>6
  <2>10. RestOfBody(Tail(w), b, Len(b)) BY <2>7, <2>8, <2>9 DEF RestOfBody
  <2>11. QED BY <2>10 DEF b
<1>5. ASSUME NEW b \in Seq(BodyTokens), NEW n \in Nat \ {0}, RestOfBody(w, b, n)
      PROVE  RestOfBody(Tail(w), b, n - 1)
  <2>1. /\ n \in 0..Len(w) /\ n <= Len(b)
        /\ \A i \in 1..n : w[i] = b[Len(b) - n + i]
        /\ n + 1 <= Len(w) => w[n + 1].kind = "head"
    BY <1>5 DEF RestOfBody
  <2>2. Len(b) \in Nat OBVIOUS
  <2>3. ASSUME NEW i \in 1..n - 1 PROVE Tail(w)[i] = b[Len(b) - (n - 1) + i]
    <3>1. i \in 1..Len(w) - 1 /\ i + 1 \in 1..n /\ Len(b) - n + (i + 1) = Len(b) - (n - 1) + i
      BY <1>1, <2>1, <2>2
    <3>2. QED BY <1>2, <2>1, <3>1
  <2>4. ASSUME (n - 1) + 1 <= Len(Tail(w)) PROVE Tail(w)[(n - 1) + 1].kind = "head"
    <3>1. (n - 1) + 1 = n /\ n \in 1..Len(w) - 1 /\ n + 1 <= Len(w) BY <1>1, <2>4
    <3>2. QED BY <1>2, <2>1, <3>1
  <2>5. n - 1 \in 0..Len(Tail(w)) /\ n - 1 <= Len(b) BY <1>1, <2>1, <2>2
  <2>6. QED BY <2>3, <2>4, <2>5 DEF RestOfBody
<1>6. QED BY <1>3, <1>4, <1>5 DEF WholeRequests

\* How much of the body is left, and what comes next of it.
BodyPlace == position <= head.units /\ (ended => chunked_input /\ position = head.units)

LEMMA LeftOfBody ==
  ASSUME RequestsFramed, RequestTypeOK, BodyPlace
  PROVE  /\ Body(head) \in Seq(BodyTokens) /\ Left \in Nat
         /\ ~Remains => Left = 0
         /\ Remains => /\ Left # 0 /\ ~ended
                       /\ Len(Body(head)) - Left + 1 = position + 1
                       /\ position < head.units => Body(head)[position + 1].kind = "data"
                       /\ position = head.units => chunked_input /\ Body(head)[position + 1].kind = "last"
<1> DEFINE b == Body(head)
           c == IF chunked_input THEN 1 ELSE 0
           e == IF ended THEN 1 ELSE 0
<1>1. head \in Heads /\ position \in Nat /\ ended \in BOOLEAN
  BY DEF RequestTypeOK, ServerTypeOK, InputTypeOK
<1>2. /\ b \in Seq(BodyTokens) /\ head.units \in Nat /\ Len(b) = head.units + c
      /\ \A i \in 1..head.units : b[i] = [kind |-> "data"]
      /\ chunked_input => b[head.units + 1] = [kind |-> "last"]
  BY <1>1, BodyShape DEF chunked_input
<1>3. head.framing \in {"none", "length", "chunked"} /\ (head.framing = "none" => head.units = 0)
  BY <1>1 DEF RequestsFramed
<1>4. Left = Len(b) - position - e BY DEF Left
<1>5. position <= head.units /\ (ended => chunked_input /\ position = head.units) BY DEF BodyPlace
<1>6. c \in {0, 1} /\ (chunked_input => c = 1) /\ (~chunked_input => c = 0) OBVIOUS
<1>7. e \in {0, 1} /\ (ended => e = 1) /\ (~ended => e = 0) OBVIOUS
<1>8. Remains => (chunked_input /\ ~ended) \/ (~chunked_input /\ position < head.units)
  BY DEF Remains, chunked_input
<1>9. ~Remains => (chunked_input /\ ended) \/ (~chunked_input /\ position = head.units)
  <2>1. CASE chunked_input BY <2>1 DEF Remains
  <2>2. CASE ~chunked_input /\ head.framing = "length" BY <1>1, <1>2, <1>5, <2>2 DEF Remains
  <2>3. CASE ~chunked_input /\ head.framing = "none" BY <1>1, <1>2, <1>3, <1>5, <2>3
  <2>4. QED BY <1>3, <2>1, <2>2, <2>3 DEF chunked_input
<1> HIDE DEF b, c, e
<1>10. Left \in Nat
  <2>1. Len(b) \in Nat /\ c \in Nat BY <1>2, <1>6
  <2>2. CASE ended
    <3>1. e = 1 /\ c = 1 /\ position = head.units BY <1>5, <1>6, <1>7, <2>2
    <3>2. QED BY <1>1, <1>2, <1>4, <2>1, <3>1
  <2>3. CASE ~ended
    <3>1. e = 0 BY <1>7, <2>3
    <3>2. QED BY <1>1, <1>2, <1>4, <1>5, <2>1, <3>1
  <2>4. QED BY <2>2, <2>3
<1>11. ASSUME ~Remains PROVE Left = 0
  <2>1. CASE chunked_input /\ ended BY <1>1, <1>2, <1>4, <1>5, <1>6, <1>7, <2>1
  <2>2. CASE ~chunked_input /\ position = head.units
    <3>1. ~ended BY <1>5, <2>2
    <3>2. c = 0 /\ e = 0 BY <1>6, <1>7, <2>2, <3>1
    <3>3. QED BY <1>1, <1>2, <1>4, <2>2, <3>2
  <2>3. QED BY <1>9, <1>11, <2>1, <2>2
<1>12. ASSUME Remains PROVE ~ended /\ Left = Len(b) - position /\ position < head.units + c
  <2>1. ~ended BY <1>5, <1>8, <1>11, <1>12
  <2>2. e = 0 BY <1>7, <2>1
  <2>3. position < head.units + c
    <3>1. CASE chunked_input
      <4>1. c = 1 BY <1>6, <3>1
      <4>2. QED BY <1>1, <1>2, <1>5, <4>1
    <3>2. CASE ~chunked_input
      <4>1. c = 0 BY <1>6, <3>2
      <4>2. QED BY <1>1, <1>2, <1>8, <1>12, <3>2, <4>1
    <3>3. QED BY <3>1, <3>2
  <2>4. Left = Len(b) - position BY <1>1, <1>2, <1>4, <1>6, <2>2
  <2>5. QED BY <2>1, <2>3, <2>4
<1>13. ASSUME Remains PROVE Left # 0 /\ Len(b) - Left + 1 = position + 1
  <2>1. Len(b) \in Nat /\ Len(b) > position BY <1>1, <1>2, <1>6, <1>12, <1>13
  <2>2. QED BY <1>1, <1>12, <1>13, <2>1
<1>14. ASSUME position < head.units PROVE b[position + 1].kind = "data"
  <2>1. position + 1 \in 1..head.units BY <1>1, <1>2, <1>14
  <2>2. b[position + 1] = [kind |-> "data"] BY <1>2, <2>1
  <2>3. QED BY <2>2
<1>15. ASSUME Remains, position = head.units PROVE chunked_input /\ b[position + 1].kind = "last"
  <2>1. chunked_input BY <1>1, <1>2, <1>8, <1>15
  <2>2. b[position + 1] = [kind |-> "last"] BY <1>2, <1>15, <2>1
  <2>3. QED BY <2>1, <2>2
<1>16. QED BY <1>2, <1>10, <1>11, <1>12, <1>13, <1>14, <1>15 DEF b

\* A token of the body that is read leaves the rest of it.
LEMMA TakeAligned ==
  ASSUME RequestsFramed, RequestTypeOK, OnBoundary, Remains, stream # <<>>, TakeToken,
         owed' = owed, head' = head, pc' \in {"app", "discards"}
  PROVE  OnBoundary'
<1> DEFINE w == stream \o owed
           b == Body(head)
<1>1. /\ stream \in Seq(Tokens) /\ owed \in Seq(Tokens) /\ w \in Seq(Tokens)
  BY PendingTokens
<1>2. BodyPlace BY DEF OnBoundary, BodyPlace
<1>3. /\ b \in Seq(BodyTokens) /\ Left \in Nat /\ Left # 0 /\ ~ended
      /\ Len(b) - Left + 1 = position + 1
      /\ position < head.units => b[position + 1].kind = "data"
      /\ position = head.units => chunked_input /\ b[position + 1].kind = "last"
  BY <1>2, LeftOfBody
<1>4. position \in Nat /\ head.units \in Nat
  BY BodyShape DEF RequestTypeOK, InputTypeOK, ServerTypeOK
<1>5. RestOfBody(w, b, Left) /\ WholeRequests(w) BY DEF OnBoundary
<1>6. w # <<>> /\ w[1] = Head(stream) /\ Tail(stream) \o owed = Tail(w) BY <1>1, TailJoin
<1>7. (stream \o owed)' = Tail(w) BY <1>6 DEF TakeToken
<1>8. Kind = b[position + 1].kind
  <2>1. 1 \in 1..Left /\ \A i \in 1..Left : w[i] = b[Len(b) - Left + i] BY <1>3, <1>5 DEF RestOfBody
  <2>2. w[1] = b[position + 1] BY <1>3, <2>1
  <2>3. QED BY <1>6, <2>2 DEF Kind
<1>9. WholeRequests(Tail(w)) /\ RestOfBody(Tail(w), b, Left - 1)
  BY <1>1, <1>3, <1>5, <1>6, TailWhole
<1>10. Left = Len(b) - position - 0 BY <1>3 DEF Left
<1>11. chunked_input' = chunked_input BY DEF chunked_input
<1>12. (Body(head))' = b BY DEF Body
<1> HIDE DEF w, b
<1>13. Left' = Left - 1 /\ BodyPlace'
  <2>1. CASE position < head.units
    <3>1. position' = position + 1 /\ ~ended' BY <1>3, <1>8, <2>1 DEF TakeToken
    <3>2. Left' = Len(b) - position' - 0 BY <1>12, <3>1 DEF Left
    <3>3. Len(b) \in Nat BY <1>3
    <3>4. Left' = Left - 1 BY <1>4, <1>10, <3>1, <3>2, <3>3
    <3>5. QED BY <1>4, <2>1, <3>1, <3>4 DEF BodyPlace
  <2>2. CASE position = head.units
    <3>1. position' = position /\ ended' = TRUE BY <1>3, <1>8, <2>2 DEF TakeToken
    <3>2. Left' = Len(b) - position' - 1 BY <1>12, <3>1 DEF Left
    <3>3. Len(b) \in Nat BY <1>3
    <3>4. Left' = Left - 1 BY <1>4, <1>10, <3>1, <3>2, <3>3
    <3>5. QED BY <1>3, <1>4, <1>11, <2>2, <3>1, <3>4 DEF BodyPlace
  <2>3. QED BY <1>2, <1>4, <2>1, <2>2 DEF BodyPlace
<1>14. RestOfBody((stream \o owed)', (Body(head))', Left') /\ WholeRequests((stream \o owed)')
  BY <1>7, <1>9, <1>12, <1>13
<1>15. pc' # "awaits" /\ pc' # "reads" OBVIOUS
<1>16. QED BY <1>13, <1>14, <1>15 DEF OnBoundary, BodyPlace

\* The next request, whose body follows its head.
LEMMA ReadAligned ==
  ASSUME RequestsFramed, RequestTypeOK, RequestTypeOK', OnBoundary, ReadRequest PROVE OnBoundary'
<1> DEFINE w == stream \o owed
<1>1. /\ stream \in Seq(Tokens) /\ owed \in Seq(Tokens) /\ w \in Seq(Tokens)
  BY PendingTokens
<1>2. stream # <<>> /\ Kind = "head" /\ stream' = Tail(stream) /\ head' = Head(stream).request
      /\ position' = 0 /\ ended' = FALSE /\ pc' = "app" /\ owed' = owed
  BY DEF ReadRequest, peerVars
<1>3. w # <<>> /\ w[1] = Head(stream) /\ Tail(stream) \o owed = Tail(w) BY <1>1, <1>2, TailJoin
<1>4. WholeRequests(w) BY DEF OnBoundary
<1> DEFINE b == Body(w[1].request)
<1>5. WholeRequests(Tail(w)) /\ RestOfBody(Tail(w), b, Len(b)) BY <1>1, <1>2, <1>3, <1>4, TailWhole DEF Kind
<1>6. (Body(head))' = b BY <1>2, <1>3 DEF Body
<1>7. head' \in Heads BY DEF RequestTypeOK, ServerTypeOK
<1>8. b \in Seq(BodyTokens) /\ head'.units \in Nat BY <1>2, <1>3, <1>7, BodyShape
<1>9. (stream \o owed)' = Tail(w) BY <1>2, <1>3
<1> HIDE DEF w, b
<1>10. Left' = Len(b)
  <2>1. Left' = Len(b) - 0 - 0 BY <1>2, <1>6 DEF Left
  <2>2. QED BY <1>8, <2>1
<1>11. RestOfBody((stream \o owed)', (Body(head))', Left') /\ WholeRequests((stream \o owed)')
  BY <1>5, <1>6, <1>9, <1>10
<1>12. QED BY <1>2, <1>8, <1>11 DEF OnBoundary

\* A client that leaves the body out, of a connection that is going to be closed.
LEMMA SkipAligned ==
  ASSUME RequestTypeOK, HundredSettled, HeadsCounted, ExpectingBegins, Skip,
         "lateread" \notin habits, pc # "closed"
  PROVE  LeftOut'
<1>1. expecting /\ served = asked /\ headers_sent /\ ~hundred BY DEF Skip
<1>2. UNCHANGED <<pc, headers_sent, continued, head>> BY DEF Skip, inputVars, answerVars
<1>3. stream \in Seq(Tokens) /\ asked \in Nat BY DEF RequestTypeOK, ServerTypeOK, PeerTypeOK
<1>4. stream = <<>>
  <2>1. HeadCount(stream) \in Nat BY <1>3, HeadCountZero
  <2>2. served + HeadCount(stream) <= asked BY DEF HeadsCounted
  <2>3. HeadCount(stream) = 0 BY <1>1, <1>3, <2>1, <2>2
  <2>4. \A i \in 1..Len(stream) : stream[i].kind # "head" BY <1>3, <2>3, HeadCountZero
  <2>5. SUFFICES ASSUME stream # <<>> PROVE FALSE OBVIOUS
  <2>6. Len(stream) \in 1..Len(stream) BY <1>3, <2>5
  <2>7. stream[Len(stream)].kind = "head" BY <1>1, <2>5 DEF ExpectingBegins
  <2>8. QED BY <2>4, <2>6, <2>7
<1>5. head.expect BY <1>1, <1>4 DEF ExpectingBegins
<1>6. ~continued BY <1>1 DEF HundredSettled
<1>7. should_send_hundred_continue BY <1>5, <1>6 DEF should_send_hundred_continue
<1>8. pc = "app"
  <2>1. pc \in {"reads", "app", "awaits", "discards", "closed"} BY DEF RequestTypeOK, ServerTypeOK
  <2>2. QED BY <1>1, <1>7, <2>1 DEF HundredSettled
<1>9. QED BY <1>1, <1>2, <1>7, <1>8 DEF LeftOut, should_send_hundred_continue

\* The server's step that ends an answer.
LEMMA FinallyAligned ==
  ASSUME RequestsFramed, RequestTypeOK, Alignment, pc = "app", NEW c, Finally(c),
         UNCHANGED <<peerVars, stream, head, inputVars>>
  PROVE  Alignment'
<1>1. UNCHANGED <<habits, eof, owed, position, ended, continued>> BY DEF peerVars, inputVars
<1>2. CASE "lateread" \in habits BY <1>1, <1>2 DEF Alignment
<1>3. CASE Drained BY <1>1, <1>3 DEF Alignment, Drained
<1>4. CASE pc' = "closed" BY <1>4 DEF Alignment
<1>5. CASE LeftOut
  <2>1. should_send_hundred_continue BY <1>5 DEF LeftOut
  <2>2. pc' = "closed" BY <2>1 DEF Finally, Handled
  <2>3. QED BY <1>4, <2>2
<1>6. ASSUME OnBoundary, pc' # "closed" PROVE Alignment'
  <2>1. BodyPlace BY <1>6 DEF OnBoundary, BodyPlace
  <2>2. pc' \in {"reads", "discards"} BY <1>6 DEF Finally, Handled
  <2>3. pc' = "reads" => ~Remains
    <3>1. SUFFICES ASSUME pc' = "reads" PROVE ~Remains OBVIOUS
    <3>2. ~(Discards /\ ~(c \/ should_send_hundred_continue)) BY <3>1 DEF Finally
    <3>3. ~(c \/ should_send_hundred_continue) BY <1>6, <3>2 DEF Finally, Handled
    <3>4. QED BY <3>2, <3>3 DEF Discards
  <2>4. ~Remains => Left = 0 BY <2>1, LeftOfBody
  <2>5. Left' = Left /\ (Body(head))' = Body(head) /\ (stream \o owed)' = stream \o owed
        /\ chunked_input' = chunked_input
    BY <1>1 DEF Left, Body, chunked_input
  <2>6. OnBoundary' BY <1>1, <1>6, <2>2, <2>3, <2>4, <2>5 DEF OnBoundary, WholeRequests, FollowedByBody, RestOfBody
  <2>7. QED BY <2>6 DEF Alignment
<1>7. QED BY <1>2, <1>3, <1>4, <1>5, <1>6 DEF Alignment

LEMMA AlignmentStep ==
  ASSUME RequestsFramed, RequestIInv, RequestTypeOK', [RequestNext]_requestVars PROVE Alignment'
<1>0. /\ RequestTypeOK /\ AnswerFramed /\ HundredSettled /\ Alignment
      /\ HeadsCounted /\ ExpectingBegins /\ ExpectingOwes
  BY DEF RequestIInv
<1>1. ASSUME "lateread" \in habits' \/ pc' = "closed" PROVE Alignment' BY <1>1 DEF Alignment
<1>2. habits' = habits
  BY DEF RequestNext, Ask, SendBody, Proceed, Skip, HangUp, ReadRequest, ReadGarbage, ReadEof, StartResponse,
         AppRead, Yield, CallWrite, Finish, ReturnList, Raise, AwaitToken, AwaitEof, DiscardToken, DiscardEnds,
         requestVars, peerVars
<1>3. SUFFICES ASSUME "lateread" \notin habits, pc' # "closed" PROVE Alignment' BY <1>1, <1>2
<1>4. pc = "closed" => pc' = "closed"
  BY DEF RequestNext, Ask, SendBody, Proceed, Skip, HangUp, ReadRequest, ReadGarbage, ReadEof, StartResponse,
         AppRead, Yield, CallWrite, Finish, ReturnList, Raise, AwaitToken, AwaitEof, DiscardToken, DiscardEnds,
         requestVars
<1>5. LeftOut \/ Drained \/ OnBoundary BY <1>0, <1>3, <1>4 DEF Alignment
<1>6. ASSUME stream \o owed = (stream \o owed)',
             UNCHANGED <<head, position, ended>>,
             pc' = pc \/ (pc' = "app" /\ pc # "closed") \/ (pc' = "awaits" /\ Remains) \/ (pc' = "discards"),
             OnBoundary
      PROVE  OnBoundary'
  <2>1. Left' = Left /\ (Body(head))' = Body(head) /\ chunked_input' = chunked_input /\ Remains' = Remains
    BY <1>6 DEF Left, Body, chunked_input, Remains
  <2>2. /\ RestOfBody((stream \o owed)', (Body(head))', Left') /\ WholeRequests((stream \o owed)')
        /\ position' <= head'.units /\ (ended' => chunked_input' /\ position' = head'.units)
    BY <1>6, <2>1 DEF OnBoundary
  <2>3. (pc' = "awaits" => Remains') /\ (pc' = "reads" => Left' = 0)
    BY <1>6, <2>1 DEF OnBoundary
  <2>4. QED BY <2>2, <2>3 DEF OnBoundary, WholeRequests, FollowedByBody, RestOfBody
<1>7. ASSUME NEW r \in Heads, Ask(r) PROVE Alignment'
  <2>1. /\ ~eof /\ owed = <<>> /\ stream' = Append(stream, [kind |-> "head", request |-> r])
        /\ owed' = Body(r)
        /\ UNCHANGED <<pc, head, headers_sent, continued, position, ended>>
    BY <1>7 DEF Ask, inputVars, answerVars
  <2>2. CASE LeftOut BY <2>1, <2>2 DEF LeftOut, Alignment, should_send_hundred_continue
  <2>3. CASE OnBoundary
    <3>1. stream \in Seq(Tokens) /\ stream \o owed = stream BY <1>0, <2>1 DEF RequestTypeOK, ServerTypeOK
    <3>2. (stream \o owed)' = Append(stream, [kind |-> "head", request |-> r]) \o Body(r) BY <2>1
    <3>3. Body(head) \in Seq(BodyTokens) /\ Left \in Nat
      BY <1>0, <2>3, LeftOfBody DEF OnBoundary, BodyPlace
    <3>4. RestOfBody(stream, Body(head), Left) /\ WholeRequests(stream) BY <2>3, <3>1 DEF OnBoundary
    <3>5. RestOfBody((stream \o owed)', Body(head), Left) /\ WholeRequests((stream \o owed)')
      BY <3>1, <3>2, <3>3, <3>4, AppendRequest
    <3>6. Left' = Left /\ (Body(head))' = Body(head) /\ chunked_input' = chunked_input /\ Remains' = Remains
      BY <2>1 DEF Left, Body, chunked_input, Remains
    <3>7. OnBoundary' BY <2>1, <2>3, <3>5, <3>6 DEF OnBoundary, WholeRequests, FollowedByBody, RestOfBody
    <3>8. QED BY <3>7 DEF Alignment
  <2>4. CASE Drained BY <2>1, <2>4 DEF Drained
  <2>5. QED BY <1>5, <2>2, <2>3, <2>4
<1>8. CASE SendBody
  <2>1. /\ ~eof /\ owed # <<>> /\ stream' = Append(stream, Head(owed)) /\ owed' = Tail(owed)
        /\ UNCHANGED <<pc, head, headers_sent, continued, position, ended>>
    BY <1>8 DEF SendBody, inputVars, answerVars
  <2>2. (stream \o owed)' = stream \o owed BY <1>0, <2>1, PendingTokens, MoveHead
  <2>3. OnBoundary => OnBoundary' BY <1>6, <2>1, <2>2
  <2>4. LeftOut => LeftOut' BY <2>1 DEF LeftOut, should_send_hundred_continue
  <2>5. ~Drained BY <2>1 DEF Drained
  <2>6. QED BY <1>5, <2>3, <2>4, <2>5 DEF Alignment
<1>9. ASSUME UNCHANGED <<stream, owed, head, position, ended, continued>>,
             pc' = pc \/ (pc' = "awaits" /\ Remains /\ ~LeftOut), headers_sent => headers_sent',
             eof => eof'
      PROVE  Alignment'
  <2>1. (stream \o owed)' = stream \o owed BY <1>9
  <2>2. OnBoundary => OnBoundary' BY <1>6, <1>9, <2>1
  <2>3. LeftOut => LeftOut' BY <1>9 DEF LeftOut, should_send_hundred_continue
  <2>4. Drained => Drained' BY <1>9 DEF Drained
  <2>5. QED BY <1>5, <2>2, <2>3, <2>4 DEF Alignment
<1>10. CASE Proceed \/ HangUp \/ UNCHANGED requestVars
  BY <1>9, <1>10 DEF Proceed, HangUp, requestVars, peerVars, inputVars, answerVars
<1>11. CASE Skip
  <2>1. pc # "closed" BY <1>3, <1>4
  <2>2. LeftOut' BY <1>0, <1>3, <1>11, <2>1, SkipAligned
  <2>3. QED BY <2>2 DEF Alignment
<1>12. CASE ReadRequest
  <2>1. pc = "reads" /\ stream # <<>> BY <1>12 DEF ReadRequest
  <2>2. OnBoundary BY <1>5, <2>1 DEF LeftOut, Drained
  <2>3. OnBoundary' BY <1>0, <1>12, <2>2, ReadAligned
  <2>4. QED BY <2>3 DEF Alignment
<1>13. ~ReadGarbage /\ ~ReadEof BY <1>3 DEF ReadGarbage, ReadEof, Handled
<1>14. ASSUME NEW shape \in {"length", "bare", "bodyless"}, StartResponse(shape) PROVE Alignment'
  BY <1>9, <1>14 DEF StartResponse, peerVars, inputVars
<1>15. CASE AppRead
  <2>1. /\ pc = "app" /\ (headers_sent /\ head.expect => "lateread" \in habits)
        /\ pc' = IF Remains THEN "awaits" ELSE "app"
        /\ UNCHANGED <<stream, owed, eof, head, position, ended, headers_sent>>
    BY <1>15 DEF AppRead, peerVars, answerVars
  <2>2. ~LeftOut BY <1>3, <2>1 DEF LeftOut, should_send_hundred_continue
  <2>3. (stream \o owed)' = stream \o owed BY <2>1
  <2>4. OnBoundary => OnBoundary' BY <1>6, <2>1, <2>3
  <2>5. Drained => Drained' BY <2>1 DEF Drained
  <2>6. QED BY <1>5, <2>2, <2>4, <2>5 DEF Alignment
<1>16. CASE Yield \/ CallWrite
  <2>1. headers_sent => headers_sent' BY <1>16 DEF Yield, CallWrite, Write
  <2>2. QED BY <1>9, <1>16, <2>1 DEF Yield, CallWrite, peerVars, inputVars
<1>17. CASE Finish BY <1>0, <1>17, FinallyAligned DEF Finish, LastWrite
<1>18. CASE ReturnList BY <1>0, <1>18, FinallyAligned DEF ReturnList, LastWrite
<1>19. ~Raise BY <1>0, <1>3, EndOfResponse DEF Raise
<1>20. CASE AwaitToken \/ DiscardToken
  <2>1. pc \in {"awaits", "discards"} /\ stream # <<>>
    BY <1>20 DEF AwaitToken, DiscardToken
  <2>2. OnBoundary BY <1>5, <2>1 DEF LeftOut, Drained
  <2>3. Remains BY <1>20, <2>2 DEF AwaitToken, DiscardToken, OnBoundary
  <2>4. ~BadChunk BY <1>0, <1>3, <1>20, EndOfResponse DEF AwaitToken, DiscardToken, Handled
  <2>5. TakeToken /\ owed' = owed /\ head' = head /\ pc' \in {"app", "discards"}
    BY <1>20, <2>4 DEF AwaitToken, DiscardToken, peerVars
  <2>6. OnBoundary' BY <1>0, <2>1, <2>2, <2>3, <2>5, TakeAligned
  <2>7. QED BY <2>6 DEF Alignment
<1>21. CASE AwaitEof
  <2>1. stream = <<>> /\ eof /\ stream' = stream /\ eof' = eof BY <1>21 DEF AwaitEof, peerVars
  <2>2. QED BY <2>1 DEF Alignment, Drained
<1>22. CASE DiscardEnds
  <2>1. /\ pc = "discards" /\ (~Remains \/ (stream = <<>> /\ eof))
        /\ UNCHANGED <<stream, eof, owed, head, position, ended>>
    BY <1>22 DEF DiscardEnds, peerVars, inputVars
  <2>2. CASE Drained BY <2>1, <2>2 DEF Alignment, Drained
  <2>3. CASE stream = <<>> /\ eof BY <2>1, <2>3 DEF Alignment, Drained
  <2>4. CASE OnBoundary /\ ~Remains
    <3>1. Left = 0 BY <1>0, <2>4, LeftOfBody DEF OnBoundary, BodyPlace
    <3>2. pc' = "reads" BY <1>3, <1>22 DEF DiscardEnds, Handled
    <3>3. Left' = Left /\ (Body(head))' = Body(head) /\ (stream \o owed)' = stream \o owed
          /\ chunked_input' = chunked_input
      BY <2>1 DEF Left, Body, chunked_input
    <3>4. OnBoundary' BY <2>1, <2>4, <3>1, <3>2, <3>3 DEF OnBoundary, WholeRequests, FollowedByBody, RestOfBody
    <3>5. QED BY <3>4 DEF Alignment
  <2>5. QED BY <1>5, <2>1, <2>2, <2>3, <2>4 DEF LeftOut
<1>23. QED
  BY <1>7, <1>8, <1>10, <1>11, <1>12, <1>13, <1>14, <1>15, <1>16, <1>17, <1>18, <1>19, <1>20, <1>21, <1>22
  DEF RequestNext

LEMMA RequestNextIInv ==
  ASSUME RequestsFramed, RequestIInv, [RequestNext]_requestVars PROVE RequestIInv'
<1>1. /\ RequestTypeOK /\ AnswerFramed /\ HundredSettled /\ Alignment
      /\ HeadsCounted /\ ExpectingBegins /\ ExpectingOwes
  BY DEF RequestIInv
<1>2. RequestTypeOK' BY <1>1, RequestTypeStep
<1>3. AnswerFramed' /\ HundredSettled' /\ HeadsCounted' BY <1>1, AnswerFramedStep, HundredSettledStep, HeadsCountedStep
<1>4. ExpectingBegins' /\ ExpectingOwes' BY <1>1, ExpectingStep
<1>5. Alignment' BY <1>2, AlignmentStep
<1>6. QED BY <1>2, <1>3, <1>4, <1>5 DEF RequestIInv

LEMMA RequestIInvIsExact ==
  ASSUME RequestIInv PROVE RequestsAligned /\ AnswersDelimited /\ NoMutualWait
<1>1. RequestTypeOK /\ AnswerFramed /\ HundredSettled /\ Alignment /\ ExpectingBegins BY DEF RequestIInv
<1>2. RequestsAligned
  <2>1. SUFFICES ASSUME pc = "reads", stream # <<>>, "lateread" \notin habits PROVE Kind = "head"
    BY DEF RequestsAligned
  <2>2. OnBoundary BY <1>1, <2>1 DEF Alignment, LeftOut, Drained
  <2> DEFINE w == stream \o owed
  <2>3. w \in Seq(Tokens) /\ w # <<>> /\ w[1] = Head(stream) BY <1>1, <2>1, PendingTokens, TailJoin
  <2>4. RestOfBody(w, Body(head), 0) BY <2>1, <2>2 DEF OnBoundary
  <2> HIDE DEF w
  <2>5. 0 + 1 <= Len(w) => w[0 + 1].kind = "head" BY <2>4 DEF RestOfBody
  <2>6. QED BY <2>3, <2>5 DEF Kind
<1>3. AnswersDelimited BY <1>1 DEF AnswersDelimited, AnswerFramed
<1>4. NoMutualWait
  <2>1. SUFFICES ASSUME pc \in {"awaits", "discards"}, stream = <<>>, served = asked, expecting PROVE Answered
    BY DEF NoMutualWait
  <2>2. CASE pc = "discards" BY <1>1, <2>1, <2>2 DEF AnswerFramed, Answered
  <2>3. CASE pc = "awaits"
    <3>1. head.expect BY <1>1, <2>1 DEF ExpectingBegins
    <3>2. continued BY <1>1, <2>1, <3>1 DEF HundredSettled, should_send_hundred_continue
    <3>3. QED BY <1>1, <2>1, <3>2 DEF HundredSettled, Answered
  <2>4. QED BY <2>1, <2>2, <2>3
<1>5. QED BY <1>2, <1>3, <1>4

\* wsgi.py:108-155, 527-692.  Whatever requests a client sends, and whatever the application
\* reads of their bodies and writes of its answers: the next request is read where one
\* begins, the client sees the end of an answer after which the connection goes on, and
\* the server does not wait for a client that waits for it.
THEOREM RequestsAndAnswersApart ==
  ASSUME RequestsFramed
  PROVE  RequestSpec => [](RequestsAligned /\ AnswersDelimited /\ NoMutualWait)
<1>1. RequestInit => RequestIInv BY RequestInitIInv
<1>2. RequestIInv /\ [RequestNext]_requestVars => RequestIInv' BY RequestNextIInv
<1>3. RequestIInv => RequestsAligned /\ AnswersDelimited /\ NoMutualWait BY RequestIInvIsExact
<1>4. QED BY <1>1, <1>2, <1>3, PTL DEF RequestSpec

-----------------------------------------------------------------------------
(* CookieJar *)

IsSeq(s) == s \in Seq(ToSet(s))

\* What the policy is asked about: hosts that are names or addresses, and headers with
\* values of the types that parsing gives them.
CookiesFramed ==
  /\ None \notin Int \cup {"extract", "revert", "failed"}
  /\ \A request \in Requests :
       IsSeq(request.host) /\ request.host # <<>> /\ request.host[1] # "."
  /\ \A response \in Responses :
       \A headers \in {response.rfc2965, response.netscape} :
         /\ IsSeq(headers)
         /\ \A header \in ToSet(headers) :
              /\ header.version \in Nat \cup {None}
              /\ header.domain = Absent \/ IsSeq(header.domain)
              /\ header.discard \in BOOLEAN /\ header.age \in Int \cup {Absent}
              /\ header.secure \in BOOLEAN

CookieFields ==
  {"version", "name", "value", "port", "port_specified", "domain", "domain_specified", "domain_initial_dot",
   "path", "path_specified", "secure", "expires", "discard"}

\* A cookie says whether its domain was specified as the domain itself says it, and one
\* without a time ends with the session.
WellMade(cookie) ==
  /\ cookie = [f \in CookieFields |-> cookie[f]]
  /\ IsSeq(cookie.domain)
  /\ cookie.domain_specified = Starts(cookie.domain, ".")
  /\ cookie.discard \in BOOLEAN /\ (cookie.expires = None => cookie.discard)
  /\ cookie.secure \in BOOLEAN

FileFields == {"format", "first", "lines", "rest", "bad", "kept", "whole"}

JarTypeOK ==
  /\ now \in Nat
  /\ DOMAIN file = FileFields /\ file.format \in {"lwp", "mozilla"}
  /\ \A c \in jar \cup file.lines \cup file.rest : WellMade(c)

\* A file has lines of what was to be saved, all of them if it is whole, and at most one
\* that is cut.
FileOf(kept) ==
  /\ \A c \in kept : WellMade(c)
  /\ \A l \in file.lines : \E c \in kept : l = Line(file.format, c)
  /\ \A l \in file.rest : \E c \in kept : l \in CutLines(file.format, c)
  /\ file.whole => file.rest = {} /\ \A c \in kept : Line(file.format, c) \in file.lines

KeysApart(J) == \A c, d \in J : Key(c) = Key(d) => c = d

\* Where a cookie comes from.
SetSo(c, d) == Key(d) = Key(c) /\ d.secure = c.secure /\ d.expires = c.expires
Traced(c) ==
  IF file.format = "lwp" THEN c.version = None \/ c \in given
  ELSE \E d \in given : SetSo(c, d)

JarIInv ==
  /\ JarTypeOK /\ (file.kept # None => FileOf(file.kept))
  /\ KeysApart(jar) /\ KeysApart(file.lines) /\ KeysApart(file.rest)
  /\ \A c \in jar \cup file.lines \cup file.rest : Traced(c)
  /\ NewerKept /\ Restored

\* Sequences and how they are joined, whatever they are of.
Joined(s, t) ==
  /\ IsSeq(s \o t) /\ Len(s \o t) = Len(s) + Len(t) /\ Len(s) \in Nat /\ Len(t) \in Nat
  /\ \A i \in 1..Len(s) : (s \o t)[i] = s[i]
  /\ \A i \in 1..Len(t) : (s \o t)[Len(s) + i] = t[i]
  /\ s # <<>> => s \o t # <<>> /\ Head(s \o t) = s[1] /\ Len(s) > 0

LEMMA SeqIsSeq ==
  ASSUME NEW S, NEW s \in Seq(S) PROVE IsSeq(s)
<1>1. \A i \in 1..Len(s) : s[i] \in ToSet(s) BY DEF ToSet
<1>2. Len(s) \in Nat /\ s = [i \in 1..Len(s) |-> s[i]] OBVIOUS
<1>3. QED BY <1>1, <1>2 DEF IsSeq

LEMMA PairIsSeq == IsSeq(<<".">>) /\ IsSeq(<<".", "local">>)
<1>1. <<".">> \in Seq({".", "local"}) /\ <<".", "local">> \in Seq({".", "local"}) OBVIOUS
<1>2. QED BY <1>1, SeqIsSeq

LEMMA SeqsJoin ==
  ASSUME NEW s, NEW t, IsSeq(s), IsSeq(t) PROVE Joined(s, t)
<1> DEFINE S == ToSet(s) \cup ToSet(t)
<1>1. s \in Seq(S) /\ t \in Seq(S)
  <2>1. ToSet(s) \subseteq S /\ ToSet(t) \subseteq S OBVIOUS
  <2> HIDE DEF S
  <2>2. QED BY <2>1 DEF IsSeq
<1> HIDE DEF S
<1>2. s \o t \in Seq(S) BY <1>1
<1>3. IsSeq(s \o t) BY <1>2, SeqIsSeq
<1>4. Len(s \o t) = Len(s) + Len(t) /\ Len(s) \in Nat /\ Len(t) \in Nat BY <1>1
<1>5. \A i \in 1..Len(s) : (s \o t)[i] = s[i] BY <1>1
<1>6. \A i \in 1..Len(t) : (s \o t)[Len(s) + i] = t[i] BY <1>1
<1>7. s # <<>> => s \o t # <<>> /\ Head(s \o t) = s[1] /\ Len(s) > 0 BY <1>1, <1>2
<1>8. QED BY <1>3, <1>4, <1>5, <1>6, <1>7 DEF Joined

\* What a header makes.
LEMMA CookieIsWellMade ==
  ASSUME CookiesFramed, now \in Nat, NEW header, NEW version, NEW request \in Requests,
         header.domain = Absent \/ IsSeq(header.domain), header.discard \in BOOLEAN,
         header.age \in Int \cup {Absent}, header.secure \in BOOLEAN
  PROVE  WellMade(CookieOf(header, version, request))
<1> DEFINE c == CookieOf(header, version, request)
<1>1. IsSeq(request.host) /\ request.host # <<>> /\ request.host[1] # "." BY DEF CookiesFramed
<1>2. IsSeq(Erhn(request)) /\ Erhn(request) # <<>> /\ Erhn(request)[1] # "."
  <2>1. CASE Has(request.host, ".") BY <1>1, <2>1 DEF Erhn
  <2>2. CASE ~Has(request.host, ".")
    <3>1. Erhn(request) = request.host \o <<".", "local">> BY <2>2 DEF Erhn
    <3>2. Joined(request.host, <<".", "local">>) BY <1>1, SeqsJoin, PairIsSeq
    <3>3. QED BY <1>1, <3>1, <3>2 DEF Joined
  <2>3. QED BY <2>1, <2>2
<1>3. c = [f \in CookieFields |-> c[f]]
  <2>1. DOMAIN c = CookieFields BY DEF CookieOf, CookieFields
  <2>2. c = [f \in DOMAIN c |-> c[f]]
    <3> DEFINE port == IF header.port = Absent THEN None
                       ELSE IF header.port = None THEN {request.port} ELSE header.port
               port_specified == header.port \notin {Absent, None}
               specified == header.domain # Absent
               domain == IF ~specified THEN Erhn(request)
                         ELSE IF Starts(header.domain, ".") THEN header.domain ELSE Dotted(header.domain)
               dot == specified /\ Starts(header.domain, ".")
               path == IF header.path = Absent THEN DefaultPath(version, request) ELSE header.path
               path_specified == header.path # Absent
               expires == IF header.age = Absent THEN None ELSE now + header.age
               discard == header.discard \/ header.age = Absent
    <3>1. c = [version |-> version, name |-> header.name, value |-> "whole",
               port |-> port, port_specified |-> port_specified,
               domain |-> domain, domain_specified |-> specified, domain_initial_dot |-> dot,
               path |-> path, path_specified |-> path_specified, secure |-> header.secure,
               expires |-> expires, discard |-> discard]
      BY DEF CookieOf
    <3> HIDE DEF c, port, port_specified, specified, domain, dot, path, path_specified, expires, discard
    <3>2. QED BY ONLY <3>1
  <2> HIDE DEF c
  <2>3. QED BY <2>1, <2>2
<1>4. IsSeq(c.domain) /\ c.domain_specified = Starts(c.domain, ".")
  <2>1. c.domain_specified = (header.domain # Absent) BY DEF CookieOf
  <2>2. CASE header.domain = Absent
    <3>1. c.domain = Erhn(request) BY <2>2 DEF CookieOf
    <3> HIDE DEF c
    <3>2. ~Starts(c.domain, ".") BY <1>2, <3>1 DEF Starts
    <3>3. Starts(c.domain, ".") \in BOOLEAN BY DEF Starts
    <3>4. c.domain_specified = FALSE BY <2>1, <2>2
    <3>5. c.domain_specified = Starts(c.domain, ".") BY <3>2, <3>3, <3>4
    <3>6. QED BY <1>2, <3>1, <3>5
  <2>3. CASE header.domain # Absent /\ Starts(header.domain, ".")
    <3>1. c.domain = header.domain BY <2>3 DEF CookieOf
    <3>2. QED BY <2>1, <2>3, <3>1
  <2>4. CASE header.domain # Absent /\ ~Starts(header.domain, ".")
    <3>1. c.domain = Dotted(header.domain) BY <2>4 DEF CookieOf
    <3>2. Joined(<<".">>, header.domain) BY <2>4, SeqsJoin, PairIsSeq
    <3>3. IsSeq(c.domain) /\ c.domain # <<>> /\ Head(c.domain) = "." BY <2>4, <3>1, <3>2 DEF Dotted, Joined
    <3>4. QED BY <2>1, <2>4, <3>3 DEF Starts
  <2>5. QED BY <2>2, <2>3, <2>4
<1>5. c.discard = (header.discard \/ header.age = Absent) BY DEF CookieOf
<1>6. c.expires = IF header.age = Absent THEN None ELSE now + header.age BY DEF CookieOf
<1>7. c.expires = None => c.discard
  <2>1. CASE header.age = Absent BY <1>5, <2>1
  <2>2. CASE header.age # Absent
    <3>1. now + header.age \in Int BY <2>2
    <3>2. now + header.age # None BY <3>1 DEF CookiesFramed
    <3>3. QED BY <1>6, <2>2, <3>2
  <2>3. QED BY <2>1, <2>2
<1>9. c.secure = header.secure BY DEF CookieOf
<1>8. WellMade(c)
  <2> HIDE DEF c
  <2>1. c.secure \in BOOLEAN /\ c.discard \in BOOLEAN BY <1>5, <1>9
  <2>2. QED BY <1>3, <1>4, <1>7, <2>1 DEF WellMade
<1>10. QED BY <1>8

LEMMA ProcessedIsWellMade ==
  ASSUME NEW c, WellMade(c)
  PROVE  WellMade(Processed(c)) /\ Key(Processed(c)) = Key(c) /\ Processed(c).expires = c.expires
<1>1. CASE Processed(c) = c BY <1>1
<1>2. CASE Processed(c) = [c EXCEPT !.version = 0]
  <2>1. Processed(c) = [f \in CookieFields |-> IF f = "version" THEN 0 ELSE c[f]] BY <1>2 DEF WellMade, CookieFields
  <2>2. Processed(c) = [f \in CookieFields |-> Processed(c)[f]] BY <2>1
  <2>3. \A f \in CookieFields \ {"version"} : Processed(c)[f] = c[f] BY <2>1
  <2>4. QED BY <2>2, <2>3 DEF WellMade, Key, CookieFields
<1>3. QED BY <1>1, <1>2 DEF Processed

\* What is read of what was written of a cookie.
LEMMA LineIsWellMade ==
  ASSUME NEW c, WellMade(c), NEW format \in {"lwp", "mozilla"}
  PROVE  /\ WellMade(Line(format, c)) /\ Key(Line(format, c)) = Key(c)
         /\ Line(format, c).expires = c.expires /\ Line(format, c).secure = c.secure
         /\ format = "lwp" => Line(format, c) = c
         /\ format = "mozilla" => Line(format, c).discard = (c.expires = None)
<1> DEFINE d == Line(format, c)
<1>1. ASSUME format = "lwp"
      PROVE  d = c
  <2>1. d = [f \in CookieFields |-> CASE f = "domain_specified" -> Starts(c.domain, ".")
                                      [] f = "discard" -> c.discard \/ c.expires = None
                                      [] OTHER -> c[f]]
    BY <1>1 DEF Line, LWP, WellMade, CookieFields
  <2>2. Starts(c.domain, ".") = c["domain_specified"] /\ (c.discard \/ c.expires = None) = c["discard"]
    BY DEF WellMade
  <2>3. \A f \in CookieFields : d[f] = c[f] BY <2>1, <2>2
  <2>4. QED BY <2>1, <2>3 DEF WellMade
<1>2. ASSUME format = "mozilla"
      PROVE  /\ WellMade(d) /\ Key(d) = Key(c) /\ d.expires = c.expires /\ d.secure = c.secure
             /\ d.discard = (c.expires = None)
  <2>1. d = [f \in CookieFields |-> CASE f = "version" -> 0 [] f = "port" -> None
                                      [] f = "port_specified" -> FALSE
                                      [] f = "domain_specified" -> Starts(c.domain, ".")
                                      [] f = "domain_initial_dot" -> Starts(c.domain, ".")
                                      [] f = "path_specified" -> FALSE
                                      [] f = "discard" -> (c.expires = None)
                                      [] OTHER -> c[f]]
    BY <1>2 DEF Line, Mozilla, WellMade, CookieFields
  <2>2. d = [f \in CookieFields |-> d[f]] BY <2>1
  <2>3. /\ d.domain = c.domain /\ d.path = c.path /\ d.name = c.name /\ d.expires = c.expires
        /\ d.secure = c.secure
    BY <2>1 DEF CookieFields
  <2>4. d.domain_specified = Starts(c.domain, ".") BY <2>1 DEF CookieFields
  <2>5. d.discard = (c.expires = None) BY <2>1 DEF CookieFields
  <2>6. QED BY <2>2, <2>3, <2>4, <2>5 DEF WellMade, Key
<1>3. QED BY <1>1, <1>2

\* The cookies of a response, as they are set.
LEMMA UpdatedApart ==
  ASSUME NEW J, KeysApart(J), NEW cookies, NEW set \in SUBSET Nat
  PROVE  /\ KeysApart(Updated(J, cookies, set))
         /\ \A c \in Updated(J, cookies, set) : c \in J \/ \E i \in set : c = cookies[i]
<1> DEFINE U == Updated(J, cookies, set)
           older == {c \in J : \A i \in set : Key(cookies[i]) # Key(c)}
           at == {j \in set : \A k \in set : k > j => Key(cookies[k]) # Key(cookies[j])}
<1>1. U = older \cup {cookies[i] : i \in at} BY DEF Updated
<1>2. \A i, j \in at : Key(cookies[i]) = Key(cookies[j]) => i = j
  <2>1. \A i, j \in at : i \in Nat /\ j \in Nat /\ (i > j \/ j > i \/ i = j) OBVIOUS
  <2>2. QED BY <2>1
<1>3. \A c \in older, i \in at : Key(cookies[i]) # Key(c) OBVIOUS
<1>4. at \subseteq set /\ older \subseteq J OBVIOUS
<1>5. \A c, d \in older : Key(c) = Key(d) => c = d BY DEF KeysApart
<1> HIDE DEF older, at, U
<1>6. KeysApart(U)
  <2>1. SUFFICES ASSUME NEW c \in U, NEW d \in U, Key(c) = Key(d) PROVE c = d BY DEF KeysApart
  <2>2. CASE c \in older /\ d \in older BY <1>5, <2>1, <2>2
  <2>3. CASE c \notin older
    <3>1. PICK i \in at : c = cookies[i] BY <1>1, <2>1, <2>3
    <3>2. d \notin older BY <1>3, <2>1, <3>1
    <3>3. PICK j \in at : d = cookies[j] BY <1>1, <2>1, <3>2
    <3>4. i = j BY <1>2, <2>1, <3>1, <3>3
    <3>5. QED BY <3>1, <3>3, <3>4
  <2>4. CASE d \notin older
    <3>1. PICK i \in at : d = cookies[i] BY <1>1, <2>1, <2>4
    <3>2. c \notin older BY <1>3, <2>1, <3>1
    <3>3. PICK j \in at : c = cookies[j] BY <1>1, <2>1, <3>2
    <3>4. i = j BY <1>2, <2>1, <3>1, <3>3
    <3>5. QED BY <3>1, <3>3, <3>4
  <2>5. QED BY <2>2, <2>3, <2>4
<1>7. \A c \in U : c \in J \/ \E i \in set : c = cookies[i] BY <1>1, <1>4
<1>8. QED BY <1>6, <1>7 DEF U

\* What is read of a line that is cut has no version, or is one of Mozilla's; what of it
\* does not end with the session was whole up to there.
LEMMA CutIsWellMade ==
  ASSUME NEW c, WellMade(c), NEW format \in {"lwp", "mozilla"}, NEW d \in CutLines(format, c)
  PROVE  /\ WellMade(d)
         /\ format = "lwp" => d.version = None
         /\ format = "mozilla" => SetSo(d, c) /\ d.discard = (c.expires = None)
         /\ ~d.discard => SetSo(d, c)
<1>1. CASE format = "mozilla"
  <2> DEFINE m == Line("mozilla", c)
  <2>1. WellMade(m) /\ Key(m) = Key(c) /\ m.expires = c.expires /\ m.secure = c.secure
        /\ m.discard = (c.expires = None)
    BY LineIsWellMade
  <2>2. d = [m EXCEPT !.value = "part"] BY <1>1 DEF CutLines, Line
  <2> HIDE DEF m
  <2>3. d = [f \in CookieFields |-> IF f = "value" THEN "part" ELSE m[f]]
    BY <2>1, <2>2 DEF WellMade, CookieFields
  <2>4. d = [f \in CookieFields |-> d[f]] BY <2>3
  <2>5. \A f \in CookieFields \ {"value"} : d[f] = m[f] BY <2>3
  <2>6. /\ d.domain = m.domain /\ d.path = m.path /\ d.name = m.name /\ d.expires = m.expires
        /\ d.secure = m.secure /\ d.discard = m.discard /\ d.domain_specified = m.domain_specified
    BY <2>5 DEF CookieFields
  <2>7. WellMade(d) BY <2>1, <2>4, <2>6 DEF WellMade
  <2>8. SetSo(d, c) BY <2>1, <2>6 DEF SetSo, Key
  <2>9. format # "lwp" BY <1>1
  <2>10. QED BY <2>1, <2>6, <2>7, <2>8, <2>9
<1>2. CASE format = "lwp"
  <2>1. /\ IsSeq(c.domain) /\ c.domain_specified = Starts(c.domain, ".")
        /\ c.discard \in BOOLEAN /\ (c.expires = None => c.discard) /\ c.secure \in BOOLEAN
    BY DEF WellMade
  <2>2. Line("lwp", c) = c BY LineIsWellMade
  <2>3. LWP(c) = c BY <2>2 DEF Line
  <2>4. ASSUME NEW n \in 0..3
        PROVE  LET e == CutLWP(c, n)
               IN /\ e = [f \in CookieFields |-> e[f]] /\ e.version = None
                  /\ e.domain = c.domain /\ e.path = c.path /\ e.name = c.name
                  /\ e.domain_specified = c.domain_specified
                  /\ e.secure = (n >= 1 /\ c.secure)
                  /\ e.expires = IF n < 2 THEN None ELSE c.expires
                  /\ e.discard = (n < 2 \/ c.expires = None \/ (n = 3 /\ c.discard))
    <3> DEFINE e == CutLWP(c, n)
               secure == n >= 1 /\ c.secure
               expires == IF n < 2 THEN None ELSE c.expires
               discard == n < 2 \/ c.expires = None \/ (n = 3 /\ c.discard)
    <3>1. e = [c EXCEPT !.version = None, !.port = None,
                 !.path_specified = FALSE, !.port_specified = FALSE, !.domain_initial_dot = FALSE,
                 !.secure = secure, !.expires = expires, !.discard = discard]
      <4>1. e = [LWP(c) EXCEPT !.version = None, !.port = None,
                   !.path_specified = FALSE, !.port_specified = FALSE, !.domain_initial_dot = FALSE,
                   !.secure = n >= 1 /\ LWP(c).secure, !.expires = IF n < 2 THEN None ELSE LWP(c).expires,
                   !.discard = n < 2 \/ c.expires = None \/ (n = 3 /\ LWP(c).discard)]
        <5>1. DOMAIN LWP(c) = CookieFields BY <2>3 DEF WellMade
        <5>2. QED BY <5>1 DEF CutLWP, CookieFields
      <4>2. QED BY <2>3, <4>1
    <3> HIDE DEF e, secure, expires, discard
    <3>2. e = [f \in CookieFields |-> CASE f \in {"version", "port"} -> None
                 [] f \in {"path_specified", "port_specified", "domain_initial_dot"} -> FALSE
                 [] f = "secure" -> secure [] f = "expires" -> expires [] f = "discard" -> discard
                 [] OTHER -> c[f]]
      BY <3>1 DEF WellMade, CookieFields
    <3>3. e = [f \in CookieFields |-> e[f]] BY <3>2
    <3>4. /\ e.version = None /\ e.domain = c.domain /\ e.path = c.path /\ e.name = c.name
          /\ e.domain_specified = c.domain_specified
          /\ e.secure = secure /\ e.expires = expires /\ e.discard = discard
      BY <3>2 DEF CookieFields
    <3>5. QED BY <3>3, <3>4 DEF e, secure, expires, discard
  <2>5. ASSUME NEW n \in 0..3, d = CutLWP(c, n)
        PROVE  WellMade(d) /\ d.version = None /\ (~d.discard => SetSo(d, c))
    <3>1. /\ d = [f \in CookieFields |-> d[f]] /\ d.version = None
          /\ d.domain = c.domain /\ d.path = c.path /\ d.name = c.name
          /\ d.domain_specified = c.domain_specified
          /\ d.secure = (n >= 1 /\ c.secure)
          /\ d.expires = IF n < 2 THEN None ELSE c.expires
          /\ d.discard = (n < 2 \/ c.expires = None \/ (n = 3 /\ c.discard))
      BY <2>4, <2>5
    <3>2. d.discard \in BOOLEAN /\ d.secure \in BOOLEAN BY <3>1
    <3>3. d.expires = None => d.discard BY <3>1
    <3>4. WellMade(d) BY <2>1, <3>1, <3>2, <3>3 DEF WellMade
    <3>5. CASE n < 2 BY <3>1, <3>4, <3>5
    <3>6. CASE n >= 2
      <4>1. n >= 1 /\ ~(n < 2) BY <3>6
      <4>2. d.secure = c.secure BY <2>1, <3>1, <4>1
      <4>3. d.expires = c.expires BY <3>1, <4>1
      <4>4. QED BY <3>1, <3>4, <4>2, <4>3 DEF SetSo, Key
    <3>7. QED BY <3>5, <3>6
  <2>6. ASSUME NEW part \in {<<>>, <<"quote">>}, d = CutDomain(c, part)
        PROVE  WellMade(d) /\ d.version = None /\ d.discard
    <3> DEFINE e == CutLWP(c, 0)
    <3>1. /\ e = [f \in CookieFields |-> e[f]] /\ e.version = None
          /\ e.secure = FALSE /\ e.expires = None /\ e.discard = TRUE
      <4>1. 0 \in 0..3 /\ ~(0 >= 1) /\ 0 < 2 OBVIOUS
      <4>2. QED BY <2>4, <4>1
    <3>2. d = [e EXCEPT !.domain = part, !.domain_specified = FALSE] BY <2>6 DEF CutDomain
    <3> HIDE DEF e
    <3>3. d = [f \in CookieFields |-> CASE f = "domain" -> part [] f = "domain_specified" -> FALSE
                                        [] OTHER -> e[f]]
      BY <3>1, <3>2 DEF CookieFields
    <3>4. d = [f \in CookieFields |-> d[f]] BY <3>3
    <3>5. /\ d.domain = part /\ d.domain_specified = FALSE /\ d.version = None
          /\ d.secure = FALSE /\ d.expires = None /\ d.discard = TRUE
      BY <3>1, <3>3 DEF CookieFields
    <3>6. part \in Seq({"quote"}) /\ Starts(part, ".") = FALSE
      <4>1. CASE part = <<>> BY <4>1 DEF Starts
      <4>2. CASE part = <<"quote">>
        <5>1. Head(part) = "quote" /\ part # <<>> /\ part \in Seq({"quote"}) BY <4>2
        <5>2. QED BY <5>1 DEF Starts
      <4>3. QED BY <4>1, <4>2
    <3>7. IsSeq(part) BY <3>6, SeqIsSeq
    <3>8. QED BY <3>4, <3>5, <3>6, <3>7 DEF WellMade
  <2>7. (\E n \in 0..3 : d = CutLWP(c, n)) \/ \E part \in {<<>>, <<"quote">>} : d = CutDomain(c, part)
    BY <1>2 DEF CutLines
  <2>8. format # "mozilla" BY <1>2
  <2>9. QED BY <2>5, <2>6, <2>7, <2>8
<1>3. QED BY <1>1, <1>2

\* What is read takes the place of the cookies of its keys.
LEMMA ReadApart ==
  ASSUME NEW J, KeysApart(J), NEW cookies, KeysApart(cookies)
  PROVE  KeysApart(Read(J, cookies)) /\ Read(J, cookies) \subseteq J \cup cookies
         /\ cookies \subseteq Read(J, cookies)
<1> DEFINE others == {c \in J : \A d \in cookies : Key(d) # Key(c)}
<1>1. Read(J, cookies) = others \cup cookies BY DEF Read
<1>2. others \subseteq J /\ \A c \in others, d \in cookies : Key(c) # Key(d) OBVIOUS
<1> HIDE DEF others
<1>3. QED BY <1>1, <1>2 DEF KeysApart

LEMMA KeptApart ==
  ASSUME NEW J, KeysApart(J), NEW d, NEW e PROVE Kept(J, d, e) \subseteq J /\ KeysApart(Kept(J, d, e))
<1>1. Kept(J, d, e) \subseteq J BY DEF Kept
<1>2. QED BY <1>1 DEF KeysApart

LEMMA LoadedApart ==
  ASSUME NEW J, KeysApart(J), KeysApart(file.lines), KeysApart(file.rest),
         NEW d \in BOOLEAN, NEW e \in BOOLEAN, NEW K \in Loaded(J, d, e)
  PROVE  KeysApart(K) /\ K \subseteq J \cup file.lines \cup file.rest
<1>1. CASE K = J BY <1>1
<1>2. ASSUME NEW lines \in SUBSET (file.lines \ BadLines), K = Read(J, Kept(lines, d, e))
      PROVE  KeysApart(K) /\ K \subseteq J \cup file.lines
  <2>1. lines \subseteq file.lines BY <1>2
  <2>2. KeysApart(lines) BY <2>1 DEF KeysApart
  <2>3. KeysApart(Kept(lines, d, e)) /\ Kept(lines, d, e) \subseteq lines BY <2>2, KeptApart
  <2>4. KeysApart(K) /\ K \subseteq J \cup Kept(lines, d, e) BY <1>2, <2>3, ReadApart
  <2>5. QED BY <2>1, <2>3, <2>4
<1>3. CASE K = Read(Read(J, Kept(file.lines, d, e)), Kept(file.rest, d, e))
  <2> DEFINE L == Kept(file.lines, d, e)
             R == Kept(file.rest, d, e)
  <2>1. KeysApart(L) /\ L \subseteq file.lines /\ KeysApart(R) /\ R \subseteq file.rest BY KeptApart
  <2> HIDE DEF L, R
  <2>2. KeysApart(Read(J, L)) /\ Read(J, L) \subseteq J \cup L BY <2>1, ReadApart
  <2>3. KeysApart(Read(Read(J, L), R)) /\ Read(Read(J, L), R) \subseteq Read(J, L) \cup R
    BY <2>1, <2>2, ReadApart
  <2>4. K = Read(Read(J, L), R) BY <1>3 DEF L, R
  <2>5. QED BY <2>1, <2>2, <2>3, <2>4
<1>4. \/ K = J \/ K = Read(Read(J, Kept(file.lines, d, e)), Kept(file.rest, d, e))
      \/ \E lines \in SUBSET (file.lines \ BadLines) : K = Read(J, Kept(lines, d, e))
  BY DEF Loaded
<1>5. QED BY <1>1, <1>2, <1>3, <1>4

LEMMA JarInitIInv ==
  ASSUME CookiesFramed, JarInit PROVE JarIInv
<1>1. PICK format \in {"lwp", "mozilla"} : file = NoFile(format) BY DEF JarInit
<1>2. /\ file.lines = {} /\ file.rest = {} /\ file.kept = None /\ file.format = format
      /\ DOMAIN file = FileFields
  BY <1>1 DEF NoFile, FileFields
<1>3. jar = {} /\ now = 0 /\ last.what = None BY DEF JarInit, NoCall
<1>4. JarTypeOK BY <1>2, <1>3 DEF JarTypeOK
<1>5. KeysApart(jar) /\ KeysApart(file.lines) /\ KeysApart(file.rest) BY <1>2, <1>3 DEF KeysApart
<1>6. NewerKept /\ Restored BY <1>3 DEF NewerKept, Restored, CookiesFramed
<1>7. QED BY <1>2, <1>3, <1>4, <1>5, <1>6 DEF JarIInv

\* Steps that leave the file's lines.
LEMMA JarStepKeeps ==
  ASSUME CookiesFramed, JarIInv, now' \in Nat, KeysApart(jar)', given \subseteq given',
         DOMAIN file' = FileFields, \A f \in FileFields \ {"first"} : file'[f] = file[f],
         \A c \in jar' : c \in jar \cup file.lines \cup file.rest \/ (WellMade(c) /\ c \in given'),
         NewerKept', Restored'
  PROVE  JarIInv'
<1>1. /\ file'.format = file.format /\ file'.lines = file.lines /\ file'.rest = file.rest
      /\ file'.kept = file.kept /\ file'.whole = file.whole
  BY DEF FileFields
<1>2. JarTypeOK /\ (file.kept # None => FileOf(file.kept))
      /\ \A c \in jar \cup file.lines \cup file.rest : Traced(c)
  BY DEF JarIInv
<1>3. JarTypeOK' BY <1>1, <1>2 DEF JarTypeOK, WellMade, Starts, IsSeq
<1>4. (file.kept # None => FileOf(file.kept))'
  <2>1. ASSUME file'.kept # None
        PROVE  /\ \A c \in file'.kept : WellMade(c)
               /\ \A l \in file'.lines : \E c \in file'.kept : l = Line(file'.format, c)
               /\ \A l \in file'.rest : \E c \in file'.kept : l \in CutLines(file'.format, c)
               /\ file'.whole => file'.rest = {} /\ \A c \in file'.kept : Line(file'.format, c) \in file'.lines
    BY <1>1, <1>2, <2>1 DEF FileOf
  <2>2. QED BY <2>1 DEF FileOf
<1>5. KeysApart(file.lines)' /\ KeysApart(file.rest)' BY <1>1 DEF JarIInv, KeysApart, Key
<1>6. (\A c \in jar \cup file.lines \cup file.rest : Traced(c))'
  <2>1. \A c \in jar \cup file.lines \cup file.rest :
          IF file'.format = "lwp" THEN c.version = None \/ c \in given'
          ELSE \E d \in given' : SetSo(c, d)
    BY <1>1, <1>2 DEF Traced
  <2>2. \A c \in given' : SetSo(c, c) BY DEF SetSo
  <2>3. \A c \in jar' \cup file'.lines \cup file'.rest :
          IF file'.format = "lwp" THEN c.version = None \/ c \in given'
          ELSE \E d \in given' : SetSo(c, d)
    BY <1>1, <2>1, <2>2
  <2>4. QED BY <2>3 DEF Traced, SetSo, Key
<1>7. QED BY <1>3, <1>4, <1>5, <1>6 DEF JarIInv

\* A response sets cookies that are well made, one of a key.
LEMMA ExtractKeeps ==
  ASSUME CookiesFramed, JarIInv, NEW request \in Requests, NEW response \in Responses, Extract(response, request)
  PROVE  JarIInv'
<1> DEFINE new == NewCookies(response, request)
           old == OldCookies(response, request)
           cookies == new \o [i \in 1..Len(old) |-> Processed(old[i])]
           set == {i \in 1..Len(cookies) :
                     /\ ~IsExpired(cookies[i], now) /\ SetOk(cookies[i], request)
                     /\ i > Len(new) => ~GivesWay(cookies[i], response, request)}
           removed == {Key(c) : c \in {d \in ToSet(cookies) : IsExpired(d, now)}}
           stay == {c \in jar : Key(c) \notin removed}
           olds == [i \in 1..Len(old) |-> Processed(old[i])]
<1>1. \/ jar' = jar /\ given' = given
      \/ jar' = Updated(stay, cookies, set) /\ given' = given \cup {cookies[i] : i \in set}
  BY DEF Extract
<1>2. /\ file' = file /\ now' = now /\ policy' = policy
      /\ last' = [what |-> "extract", made |-> MadeNew(response, request), jar |-> jar]
  BY DEF Extract
<1>3. now \in Nat BY DEF JarIInv, JarTypeOK
<1>4. IsSeq(response.rfc2965) /\ IsSeq(response.netscape)
      /\ \A header \in ToSet(response.rfc2965) \cup ToSet(response.netscape) :
           /\ header.domain = Absent \/ IsSeq(header.domain)
           /\ header.discard \in BOOLEAN /\ header.age \in Int \cup {Absent} /\ header.secure \in BOOLEAN
  BY DEF CookiesFramed
<1>5. /\ Len(response.rfc2965) \in Nat /\ \A i \in 1..Len(response.rfc2965) : response.rfc2965[i] \in ToSet(response.rfc2965)
      /\ Len(response.netscape) \in Nat /\ \A i \in 1..Len(response.netscape) : response.netscape[i] \in ToSet(response.netscape)
  BY <1>4 DEF IsSeq
<1>6. /\ new = [i \in 1..Len(response.rfc2965) |->
                  CookieOf(response.rfc2965[i], response.rfc2965[i].version, request)]
      /\ \A i \in 1..Len(response.rfc2965) : WellMade(new[i])
  <2>1. new = [i \in 1..Len(response.rfc2965) |->
                 CookieOf(response.rfc2965[i], response.rfc2965[i].version, request)]
    BY DEF NewCookies
  <2>2. ASSUME NEW i \in 1..Len(response.rfc2965) PROVE WellMade(new[i])
    <3> DEFINE header == response.rfc2965[i]
    <3>1. header \in ToSet(response.rfc2965) BY <1>5
    <3>2. new[i] = CookieOf(header, header.version, request) BY <2>1
    <3>3. /\ header.domain = Absent \/ IsSeq(header.domain)
          /\ header.discard \in BOOLEAN /\ header.age \in Int \cup {Absent} /\ header.secure \in BOOLEAN
      BY <1>4, <3>1
    <3> HIDE DEF header
    <3>4. QED BY <1>3, <3>2, <3>3, CookieIsWellMade
  <2>3. QED BY <2>1, <2>2
<1>7. Len(old) \in Nat /\ \A i \in 1..Len(old) : WellMade(old[i])
  <2>1. CASE policy.netscape
    <3>1. old = [i \in 1..Len(response.netscape) |->
                   CookieOf(response.netscape[i], OldVersion(response.netscape[i]), request)]
      BY <2>1 DEF OldCookies
    <3>2. Len(old) = Len(response.netscape) BY <1>5, <3>1
    <3>3. ASSUME NEW i \in 1..Len(response.netscape) PROVE WellMade(old[i])
      <4> DEFINE header == response.netscape[i]
      <4>1. header \in ToSet(response.netscape) BY <1>5
      <4>2. old[i] = CookieOf(header, OldVersion(header), request) BY <3>1
      <4>3. /\ header.domain = Absent \/ IsSeq(header.domain)
            /\ header.discard \in BOOLEAN /\ header.age \in Int \cup {Absent} /\ header.secure \in BOOLEAN
        BY <1>4, <4>1
      <4> HIDE DEF header
      <4>4. QED BY <1>3, <4>2, <4>3, CookieIsWellMade
    <3>4. QED BY <1>5, <3>2, <3>3
  <2>2. CASE ~policy.netscape
    <3>1. old = [i \in 1..Len(<<>>) |-> CookieOf(<<>>[i], OldVersion(<<>>[i]), request)] BY <2>2 DEF OldCookies
    <3>2. Len(old) = 0 BY <3>1
    <3>3. QED BY <3>2
  <2>3. QED BY <2>1, <2>2
<1>8. /\ IsSeq(new) /\ Len(new) = Len(response.rfc2965) /\ IsSeq(olds) /\ Len(olds) = Len(old)
      /\ \A i \in 1..Len(old) : olds[i] = Processed(old[i])
  <2>1. Len(new) = Len(response.rfc2965) /\ new \in Seq({new[i] : i \in 1..Len(new)}) BY <1>5, <1>6
  <2>2. Len(olds) = Len(old) /\ olds \in Seq({olds[i] : i \in 1..Len(old)}) BY <1>7
  <2>3. QED BY <2>1, <2>2, SeqIsSeq
<1>9. Joined(new, olds) /\ cookies = new \o olds BY <1>8, SeqsJoin
<1> HIDE DEF new, old, olds
<1>10. \A i \in 1..Len(cookies) :
         /\ WellMade(cookies[i])
         /\ i <= Len(new) => cookies[i] = new[i] /\ i \in 1..Len(new)
  <2> SUFFICES ASSUME NEW i \in 1..Len(cookies)
               PROVE  /\ WellMade(cookies[i])
                      /\ i <= Len(new) => cookies[i] = new[i] /\ i \in 1..Len(new)
    OBVIOUS
  <2>1. /\ Len(cookies) = Len(new) + Len(olds) /\ Len(new) \in Nat /\ Len(olds) \in Nat
        /\ \A k \in 1..Len(new) : cookies[k] = new[k]
        /\ \A k \in 1..Len(olds) : cookies[Len(new) + k] = olds[k]
    BY <1>9 DEF Joined
  <2> HIDE DEF cookies
  <2>2. CASE i <= Len(new)
    <3>1. i \in 1..Len(new) /\ cookies[i] = new[i] BY <2>1, <2>2
    <3>2. QED BY <1>6, <1>8, <3>1
  <2>3. CASE i > Len(new)
    <3>1. i - Len(new) \in 1..Len(olds) /\ i = Len(new) + (i - Len(new)) BY <2>1, <2>3
    <3>2. cookies[i] = olds[i - Len(new)] BY <2>1, <3>1
    <3>3. WellMade(old[i - Len(new)]) /\ olds[i - Len(new)] = Processed(old[i - Len(new)]) BY <1>7, <1>8, <3>1
    <3>4. QED BY <2>1, <2>3, <3>2, <3>3, ProcessedIsWellMade
  <2>4. QED BY <2>1, <2>2, <2>3
<1>11. set \subseteq 1..Len(cookies) /\ set \in SUBSET Nat /\ stay \subseteq jar OBVIOUS
<1>12. \A i \in set : ~IsExpired(cookies[i], now) /\ (i > Len(new) => ~GivesWay(cookies[i], response, request))
  OBVIOUS
<1> HIDE DEF cookies, set, stay
<1>13. KeysApart(stay) BY <1>11 DEF KeysApart, JarIInv
<1>14. /\ KeysApart(jar') /\ given \subseteq given'
       /\ \A c \in jar' : c \in jar \/ (c \in given' /\ \E i \in set : c = cookies[i])
  BY <1>1, <1>11, <1>13, UpdatedApart DEF JarIInv, KeysApart
<1>15. \A c \in jar' : c \in jar \/ (WellMade(c) /\ c \in given') BY <1>10, <1>11, <1>14
<1>16. DOMAIN file' = FileFields BY <1>2 DEF JarIInv, JarTypeOK
<1>17. NewerKept'
  <2>1. SUFFICES ASSUME policy'.rfc2965, NEW c \in MadeNew(response, request), NEW d \in jar' \ jar,
                        Key(c) = Key(d)
                 PROVE  d \in MadeNew(response, request)
    BY <1>2 DEF NewerKept, Key
  <2>2. PICK i \in set : d = cookies[i] BY <1>14, <2>1
  <2>3. i <= Len(new)
    <3>1. GivesWay(d, response, request) BY <1>2, <2>1 DEF GivesWay
    <3>2. ~(i > Len(new)) BY <1>12, <2>2, <3>1
    <3>3. Len(new) \in Nat /\ i \in Nat BY <1>5, <1>8, <1>11
    <3>4. QED BY <3>2, <3>3
  <2>4. d = new[i] /\ i \in 1..Len(new) /\ ~IsExpired(d, now) BY <1>10, <1>11, <1>12, <2>2, <2>3
  <2>5. d \in ToSet(new) BY <1>6, <1>8, <2>4 DEF ToSet
  <2>6. QED BY <2>4, <2>5 DEF MadeNew, new
<1>18. Restored' BY <1>2 DEF Restored
<1>20. KeysApart(jar)' BY <1>14 DEF KeysApart, Key
<1>21. now' \in Nat /\ \A f \in FileFields \ {"first"} : file'[f] = file[f] BY <1>2, <1>3
<1>19. QED
  <2> HIDE DEF new, old, cookies, set, stay, olds
  <2>1. QED BY <1>14, <1>15, <1>16, <1>17, <1>18, <1>20, <1>21, JarStepKeeps

\* Lines are read for the cookies of their keys.
LEMMA LoadKeeps ==
  ASSUME CookiesFramed, JarIInv, NEW d \in BOOLEAN, NEW e \in BOOLEAN, Load(d, e) PROVE JarIInv'
<1>1. /\ jar' \in Loaded(jar, d, e) /\ file' = file /\ now' = now /\ last'.what = None
      /\ policy' = policy /\ given' = given
  BY DEF Load, NoCall
<1>2. KeysApart(jar') /\ jar' \subseteq jar \cup file.lines \cup file.rest
  BY <1>1, LoadedApart DEF JarIInv
<1>3. now' \in Nat /\ DOMAIN file' = FileFields BY <1>1 DEF JarIInv, JarTypeOK
<1>4. NewerKept' /\ Restored' BY <1>1 DEF NewerKept, Restored, CookiesFramed
<1>5. KeysApart(jar)' BY <1>2 DEF KeysApart, Key
<1>6. QED BY <1>1, <1>2, <1>3, <1>4, <1>5, JarStepKeeps

LEMMA SaveKeeps ==
  ASSUME CookiesFramed, JarIInv, NEW d \in BOOLEAN, NEW e \in BOOLEAN, Save(d, e) PROVE JarIInv'
<1> DEFINE kept == Kept(jar, d, e)
           format == file.format
           written(first, done, rest, bad, whole) ==
             [format |-> format, first |-> first, lines |-> {Line(format, c) : c \in done},
              rest |-> rest, bad |-> bad, kept |-> kept, whole |-> whole]
<1>1. now' = now /\ last'.what = None /\ policy' = policy /\ jar' = jar /\ given' = given
  BY DEF Save, NoCall
<1>2. \/ file' = written("magic", kept, {}, FALSE, TRUE)
      \/ file' = written("other", {}, {}, FALSE, FALSE)
      \/ \E done \in SUBSET kept : \E c \in kept \ done :
           \/ \E bad \in BOOLEAN : file' = written("magic", done, {}, bad, FALSE)
           \/ \E rest \in CutLines(format, c) : file' = written("magic", done, {rest}, FALSE, FALSE)
  BY DEF Save
<1>3. kept \subseteq jar BY DEF Kept
<1>4. format \in {"lwp", "mozilla"} /\ \A c \in kept : WellMade(c) /\ Traced(c)
  BY <1>3 DEF JarIInv, JarTypeOK
<1>5. \A c, b \in kept : Key(c) = Key(b) => c = b BY <1>3 DEF JarIInv, KeysApart
<1> HIDE DEF kept, format, written
<1>6. ASSUME NEW first, NEW done \in SUBSET kept, NEW rest, NEW bad, NEW whole,
             file' = written(first, done, rest, bad, whole),
             whole => rest = {} /\ done = kept,
             rest = {} \/ \E c \in kept : \E l \in CutLines(format, c) : rest = {l}
      PROVE  JarIInv'
  <2>1. /\ DOMAIN file' = FileFields /\ file'.format = format /\ file'.kept = kept
        /\ file'.rest = rest /\ file'.whole = whole /\ file'.lines = {Line(format, c) : c \in done}
    BY <1>6 DEF written, FileFields
  <2>2. \A c \in kept : /\ WellMade(Line(format, c)) /\ Key(Line(format, c)) = Key(c)
                        /\ SetSo(Line(format, c), c) /\ (format = "lwp" => Line(format, c) = c)
    BY <1>4, LineIsWellMade DEF SetSo
  <2>3. \A l \in rest : \E c \in kept : l \in CutLines(format, c) BY <1>6
  <2>4. \A l \in rest : /\ WellMade(l) /\ (format = "lwp" => l.version = None)
                        /\ (format = "mozilla" => \E c \in kept : SetSo(l, c))
    <3> SUFFICES ASSUME NEW l \in rest
                 PROVE  /\ WellMade(l) /\ (format = "lwp" => l.version = None)
                        /\ (format = "mozilla" => \E c \in kept : SetSo(l, c))
      OBVIOUS
    <3>1. PICK c \in kept : l \in CutLines(format, c) BY <2>3
    <3>2. /\ WellMade(l) /\ (format = "lwp" => l.version = None)
          /\ (format = "mozilla" => SetSo(l, c))
      BY <1>4, <3>1, CutIsWellMade
    <3>3. QED BY <3>2
  <2> DEFINE lines == {Line(format, c) : c \in done}
  <2>5. KeysApart(lines)
    <3>1. \A l \in lines : \E c \in done : l = Line(format, c) /\ Key(l) = Key(c) BY <2>2
    <3> HIDE DEF lines
    <3>2. QED BY <1>5, <3>1 DEF KeysApart
  <2>6. \A l \in lines : \E c \in kept : l = Line(format, c) OBVIOUS
  <2>7. whole => \A c \in kept : Line(format, c) \in lines BY <1>6
  <2>13. file'.lines = lines BY <2>1
  <2> HIDE DEF lines
  <2>8. JarTypeOK'
    <3>1. \A c \in jar' \cup file'.lines \cup file'.rest : WellMade(c)
      BY <1>1, <2>1, <2>2, <2>4, <2>6, <2>13 DEF JarIInv, JarTypeOK
    <3>2. now' \in Nat BY <1>1 DEF JarIInv, JarTypeOK
    <3>3. QED BY <1>4, <2>1, <3>1, <3>2 DEF JarTypeOK
  <2>9. FileOf(file.kept)'
    <3>1. (\A c \in file'.kept : WellMade(c)) /\ (\A l \in file'.lines : \E c \in file'.kept : l = Line(file'.format, c))
      BY <1>4, <2>1, <2>6, <2>13
    <3>2. /\ \A l \in file'.rest : \E c \in file'.kept : l \in CutLines(file'.format, c)
          /\ file'.whole => file'.rest = {} /\ \A c \in file'.kept : Line(file'.format, c) \in file'.lines
      BY <1>6, <2>1, <2>3, <2>7, <2>13
    <3>3. QED BY <3>1, <3>2 DEF FileOf
  <2>10. KeysApart(jar)' /\ KeysApart(file.lines)' /\ KeysApart(file.rest)'
    <3>1. KeysApart(rest) BY <1>6 DEF KeysApart
    <3>2. KeysApart(jar') /\ KeysApart(file'.lines) /\ KeysApart(file'.rest)
      BY <1>1, <2>1, <2>5, <2>13, <3>1 DEF JarIInv
    <3>3. QED BY <3>2
  <2>11. (\A c \in jar \cup file.lines \cup file.rest : Traced(c))'
    <3>1. \A c \in jar : Traced(c) BY DEF JarIInv
    <3>2. \A l \in lines : Traced(l)
      <4> SUFFICES ASSUME NEW l \in lines PROVE Traced(l) OBVIOUS
      <4>1. PICK c \in kept : l = Line(format, c) BY <2>6
      <4>2. Traced(c) /\ SetSo(l, c) /\ (format = "lwp" => l = c) BY <1>4, <2>2, <4>1
      <4>3. QED BY <4>2 DEF Traced, SetSo, format
    <3>3. \A l \in rest : Traced(l)
      <4> SUFFICES ASSUME NEW l \in rest PROVE Traced(l) OBVIOUS
      <4>1. CASE format = "lwp" BY <2>4, <4>1 DEF Traced, format
      <4>2. CASE format # "lwp"
        <5>1. PICK c \in kept : SetSo(l, c) BY <1>4, <2>4, <4>2
        <5>2. Traced(c) BY <1>4
        <5>3. QED BY <4>2, <5>1, <5>2 DEF Traced, SetSo, format
      <4>3. QED BY <4>1, <4>2
    <3>4. file'.format = file.format BY <2>1 DEF format
    <3>5. \A c \in jar' \cup file'.lines \cup file'.rest : Traced(c)
      BY <1>1, <2>1, <2>13, <3>1, <3>2, <3>3
    <3>6. \A c : Traced(c) => Traced(c)' BY <1>1, <3>4 DEF Traced, SetSo, Key
    <3>7. QED BY <3>5, <3>6
  <2>12. NewerKept' /\ Restored' BY <1>1 DEF NewerKept, Restored, CookiesFramed
  <2>14. QED BY <2>8, <2>9, <2>10, <2>11, <2>12 DEF JarIInv
<1>7. CASE file' = written("magic", kept, {}, FALSE, TRUE) BY <1>6, <1>7
<1>8. CASE file' = written("other", {}, {}, FALSE, FALSE) BY <1>6, <1>8
<1>9. ASSUME NEW done \in SUBSET kept, NEW c \in kept \ done, NEW bad \in BOOLEAN,
             file' = written("magic", done, {}, bad, FALSE)
      PROVE  JarIInv'
  BY <1>6, <1>9
<1>10. ASSUME NEW done \in SUBSET kept, NEW c \in kept \ done, NEW rest \in CutLines(format, c),
              file' = written("magic", done, {rest}, FALSE, FALSE)
       PROVE  JarIInv'
  <2>1. \E b \in kept : \E l \in CutLines(format, b) : {rest} = {l} BY <1>10
  <2>2. QED BY <1>6, <1>10, <2>1
<1>11. QED BY <1>2, <1>7, <1>8, <1>9, <1>10

LEMMA RevertKeeps ==
  ASSUME CookiesFramed, JarIInv, Revert PROVE JarIInv'
<1>1. /\ file' = file /\ now' = now /\ policy' = policy /\ given' = given /\ jar' \in Reverted
      /\ last' = [NoCall EXCEPT !.what = IF Unreadable THEN "failed" ELSE "revert", !.jar = jar]
      /\ file.kept # None
  BY DEF Revert
<1>2. last'.what \in {"failed", "revert"} /\ (last'.what = "failed" <=> Unreadable)
  BY <1>1 DEF NoCall
<1>3. jar' = jar \/ jar' \in Loaded({}, FALSE, FALSE) BY <1>1 DEF Reverted
<1>4. KeysApart(jar') /\ jar' \subseteq jar \cup file.lines \cup file.rest
  <2>1. KeysApart({}) /\ FALSE \in BOOLEAN BY DEF KeysApart
  <2>2. KeysApart(jar) /\ KeysApart(file.lines) /\ KeysApart(file.rest) BY DEF JarIInv
  <2>3. ASSUME jar' \in Loaded({}, FALSE, FALSE)
        PROVE  KeysApart(jar') /\ jar' \subseteq {} \cup file.lines \cup file.rest
    BY <2>1, <2>2, <2>3, LoadedApart
  <2>4. QED BY <1>3, <2>2, <2>3
<1>5. KeysApart(jar)' BY <1>4 DEF KeysApart, Key
<1>6. now' \in Nat /\ DOMAIN file' = FileFields BY <1>1 DEF JarIInv, JarTypeOK
<1>7. NewerKept' BY <1>2 DEF NewerKept
<1> DEFINE lwp == file.format = "lwp"
           due == {c \in file.kept : ~IsExpired(c, now) /\ ~(IF lwp THEN c.discard ELSE c.expires = None)}
<1>8. ASSUME last'.what = "revert"
      PROVE  /\ \A c \in jar' : \E d \in file.kept : SetSo(c, d) /\ (lwp => c = d \/ c.version = None)
             /\ file.whole => IF lwp THEN jar' = due ELSE {Key(c) : c \in jar'} = {Key(c) : c \in due}
  <2> DEFINE L == Kept(file.lines, FALSE, FALSE)
             R == Kept(file.rest, FALSE, FALSE)
  <2>1. ~Unreadable BY <1>2, <1>8
  <2>2. jar' = Read(Read({}, L), R) BY <1>1, <2>1 DEF Reverted, Loaded, Unreadable
  <2>3. Read({}, L) = L BY DEF Read
  <2>4. jar' \subseteq L \cup R /\ (R = {} => jar' = L) BY <2>2, <2>3 DEF Read
  <2>5. /\ file.format \in {"lwp", "mozilla"} /\ \A c \in file.kept : WellMade(c)
        /\ \A l \in file.lines : \E c \in file.kept : l = Line(file.format, c)
        /\ \A l \in file.rest : \E c \in file.kept : l \in CutLines(file.format, c)
        /\ file.whole => file.rest = {} /\ \A c \in file.kept : Line(file.format, c) \in file.lines
    BY <1>1 DEF JarIInv, JarTypeOK, FileOf
  <2>6. \A c \in file.kept : LET l == Line(file.format, c)
                             IN /\ SetSo(l, c) /\ (lwp => l = c)
                                /\ (~lwp => l.discard = (c.expires = None))
    <3> SUFFICES ASSUME NEW c \in file.kept
                 PROVE  LET l == Line(file.format, c)
                        IN /\ SetSo(l, c) /\ (lwp => l = c)
                           /\ (~lwp => l.discard = (c.expires = None))
      OBVIOUS
    <3>1. WellMade(c) /\ file.format \in {"lwp", "mozilla"} BY <2>5
    <3>2. QED BY <3>1, LineIsWellMade DEF SetSo
  <2>7. /\ L = {l \in file.lines : ~l.discard /\ ~IsExpired(l, now)}
        /\ R = {l \in file.rest : ~l.discard /\ ~IsExpired(l, now)}
    BY DEF Kept
  <2> HIDE DEF L, R
  <2>8. ASSUME NEW c \in jar'
        PROVE  \E d \in file.kept : SetSo(c, d) /\ (lwp => c = d \/ c.version = None)
    <3>1. CASE c \in L
      <4>1. PICK d \in file.kept : c = Line(file.format, d) BY <2>5, <2>7, <3>1
      <4>2. QED BY <2>6, <4>1
    <3>2. CASE c \in R
      <4>1. PICK d \in file.kept : c \in CutLines(file.format, d) BY <2>5, <2>7, <3>2
      <4>2. ~c.discard BY <2>7, <3>2
      <4>3. WellMade(d) /\ file.format \in {"lwp", "mozilla"} BY <2>5
      <4>4. SetSo(c, d) /\ (lwp => c.version = None) BY <4>1, <4>2, <4>3, CutIsWellMade
      <4>5. QED BY <4>4
    <3>3. QED BY <2>4, <2>8, <3>1, <3>2
  <2>9. ASSUME file.whole
        PROVE  IF lwp THEN jar' = due ELSE {Key(c) : c \in jar'} = {Key(c) : c \in due}
    <3> DEFINE line(c) == Line(file.format, c)
    <3>1. jar' = L BY <2>4, <2>5, <2>7, <2>9
    <3>2. /\ \A l \in file.lines : \E c \in file.kept : l = line(c)
          /\ \A c \in file.kept : line(c) \in file.lines
      BY <2>5, <2>9
    <3>3. \A c \in file.kept : ~line(c).discard /\ ~IsExpired(line(c), now) <=> c \in due
      <4> SUFFICES ASSUME NEW c \in file.kept
                   PROVE  ~line(c).discard /\ ~IsExpired(line(c), now) <=> c \in due
        OBVIOUS
      <4>1. line(c).expires = c.expires BY <2>6 DEF SetSo
      <4>2. IsExpired(line(c), now) <=> IsExpired(c, now) BY <4>1 DEF IsExpired
      <4>3. CASE lwp
        <5>1. line(c) = c BY <2>6, <4>3
        <5> HIDE DEF line
        <5>2. QED BY <4>3, <5>1
      <4>4. CASE ~lwp
        <5>1. line(c).discard = (c.expires = None) BY <2>6, <4>4
        <5> HIDE DEF line
        <5>2. QED BY <4>2, <4>4, <5>1
      <4>5. QED BY <4>3, <4>4
    <3>4. \A c \in file.kept : Key(line(c)) = Key(c) /\ (lwp => line(c) = c) BY <2>6 DEF SetSo
    <3>5. due \subseteq file.kept OBVIOUS
    <3> HIDE DEF line, due
    <3>6. jar' = {line(c) : c \in due} BY <2>7, <3>1, <3>2, <3>3, <3>5
    <3>7. CASE lwp BY <3>4, <3>5, <3>6, <3>7
    <3>8. CASE ~lwp BY <3>4, <3>5, <3>6, <3>8
    <3>9. QED BY <3>7, <3>8
  <2>10. QED BY <2>8, <2>9
<1>9. Restored' BY <1>1, <1>8 DEF Restored, SetSo, IsExpired, Key
<1>10. \A f \in FileFields \ {"first"} : file'[f] = file[f] BY <1>1
<1>11. given \subseteq given' BY <1>1
<1>12. QED BY <1>4, <1>5, <1>6, <1>7, <1>9, <1>10, <1>11, JarStepKeeps

LEMMA JarNextIInv ==
  ASSUME CookiesFramed, JarIInv, [JarNext]_jarVars PROVE JarIInv'
<1>1. ASSUME last'.what = None, jar' \subseteq jar, now' \in Nat, given' = given,
             DOMAIN file' = FileFields, \A f \in FileFields \ {"first"} : file'[f] = file[f]
      PROVE  JarIInv'
  <2>1. KeysApart(jar)' BY <1>1 DEF JarIInv, KeysApart, Key
  <2>2. NewerKept' /\ Restored' BY <1>1 DEF NewerKept, Restored, CookiesFramed
  <2>3. QED BY <1>1, <2>1, <2>2, JarStepKeeps
<1>2. now \in Nat /\ DOMAIN file = FileFields BY DEF JarIInv, JarTypeOK
<1>3. ASSUME NEW request, AddCookieHeader(request) PROVE JarIInv'
  BY <1>1, <1>2, <1>3 DEF AddCookieHeader, NoCall
<1>4. CASE ClearSession BY <1>1, <1>2, <1>4 DEF ClearSession, NoCall
<1>5. CASE Tick BY <1>1, <1>2, <1>5 DEF Tick, NoCall
<1>6. ASSUME NEW domain, Clear(domain) PROVE JarIInv' BY <1>1, <1>2, <1>6 DEF Clear, NoCall
<1>9. ASSUME Restart PROVE JarIInv'
  <2>1. last'.what = None /\ jar' = {} /\ now' = now /\ given' = given BY <1>9 DEF Restart, NoCall
  <2>2. PICK first : file' = [file EXCEPT !.first = first] BY <1>9 DEF Restart
  <2>3. DOMAIN file' = FileFields /\ \A f \in FileFields \ {"first"} : file'[f] = file[f] BY <1>2, <2>2
  <2>4. QED BY <1>1, <1>2, <2>1, <2>3
<1>7. ASSUME UNCHANGED jarVars PROVE JarIInv'
  <2>1. /\ jar' = jar /\ file' = file /\ now' = now /\ given' = given
        /\ policy' = policy /\ last' = last
    BY <1>7 DEF jarVars
  <2>2. KeysApart(jar)' BY <2>1 DEF JarIInv, KeysApart, Key
  <2>3. NewerKept' /\ Restored' BY <2>1 DEF JarIInv, NewerKept, Restored, IsExpired, Key
  <2>4. QED BY <1>2, <2>1, <2>2, <2>3, JarStepKeeps
<1>8. QED
  BY <1>3, <1>4, <1>5, <1>6, <1>7, <1>9, ExtractKeeps, LoadKeeps, SaveKeeps, RevertKeeps DEF JarNext

\* What the policy's tests of hosts and domains say of their characters.
LEMMA EndOf ==
  ASSUME NEW text, NEW part, IsSeq(text), IsSeq(part)
  PROVE  EndsWith(text, part) <=>
           /\ Len(part) <= Len(text)
           /\ \A i \in 1..Len(part) : part[i] = text[Len(text) - Len(part) + i]
<1> DEFINE n == Len(part)
           m == Len(text)
           back == [i \in 1..n |-> part[(n - i) + 1]]
           whole == [i \in 1..m |-> text[(m - i) + 1]]
           S == ToSet(text)
           P == ToSet(part)
<1>1. n \in Nat /\ m \in Nat BY DEF IsSeq
<1>2. text \in Seq(S) /\ part \in Seq(P) BY DEF IsSeq
<1> HIDE DEF S, P
<1>3. (\A i \in 1..m : text[i] \in S) /\ (\A i \in 1..n : part[i] \in P) BY <1>2
<1>4. (\A i \in 1..m : whole[i] \in S) /\ (\A i \in 1..n : back[i] \in P)
  <2>1. \A i \in 1..m : (m - i) + 1 \in 1..m BY <1>1
  <2>2. \A i \in 1..n : (n - i) + 1 \in 1..n BY <1>1
  <2> HIDE DEF n, m
  <2>3. QED BY <1>3, <2>1, <2>2
<1> HIDE DEF n, m
<1>5. whole \in Seq(S) /\ Len(whole) = m /\ back \in Seq(P) /\ Len(back) = n BY <1>1, <1>4
<1>6. EndsWith(text, part) <=> n <= m /\ SubSeq(back, 1, n) = SubSeq(whole, 1, n)
  BY <1>5 DEF EndsWith, IsSuffix, IsPrefix, Reverse, n, m
<1>7. SubSeq(back, 1, n) = [i \in 1..n |-> back[i]]
  <2> HIDE DEF back
  <2>1. QED BY <1>1, <1>5
<1>8. n <= m => SubSeq(whole, 1, n) = [i \in 1..n |-> whole[i]]
  <2> HIDE DEF whole
  <2>1. QED BY <1>1, <1>5
<1>9. n <= m => (SubSeq(back, 1, n) = SubSeq(whole, 1, n) <=> \A i \in 1..n : back[i] = whole[i])
  <2> HIDE DEF whole, back
  <2>1. QED BY <1>7, <1>8
<1>10. ASSUME n <= m
       PROVE  (\A i \in 1..n : back[i] = whole[i]) <=> (\A i \in 1..n : part[i] = text[m - n + i])
  <2>1. \A i \in 1..n : back[i] = part[(n - i) + 1] /\ whole[i] = text[(m - i) + 1]
    BY <1>1, <1>10
  <2> HIDE DEF whole, back
  <2>2. ASSUME \A i \in 1..n : back[i] = whole[i], NEW i \in 1..n PROVE part[i] = text[m - n + i]
    <3>1. (n - i) + 1 \in 1..n /\ (n - ((n - i) + 1)) + 1 = i /\ (m - ((n - i) + 1)) + 1 = m - n + i BY <1>1
    <3>2. QED BY <2>1, <2>2, <3>1
  <2>3. ASSUME \A i \in 1..n : part[i] = text[m - n + i], NEW i \in 1..n PROVE back[i] = whole[i]
    <3>1. (n - i) + 1 \in 1..n /\ m - n + ((n - i) + 1) = (m - i) + 1 BY <1>1
    <3>2. QED BY <2>1, <2>3, <3>1
  <2>4. QED BY <2>2, <2>3
<1>11. QED BY <1>6, <1>9, <1>10 DEF n, m

LEMMA WithinOf ==
  ASSUME NEW A, NEW B, IsSeq(A), IsSeq(B), B # <<>>
  PROVE  Within(A, B) =>
           \E i \in 2..(Len(A) - Len(B) + 1) : \A j \in 1..Len(B) : B[j] = A[i + j - 1]
<1>1. A \in Seq(ToSet(A)) /\ Len(A) \in Nat /\ Len(B) \in Nat /\ Len(B) > 0 BY DEF IsSeq
<1>2. SUFFICES ASSUME NEW i \in 1..(Len(A) - Len(B) + 1), SubSeq(A, i, i + Len(B) - 1) = B, i > 1
               PROVE  i \in 2..(Len(A) - Len(B) + 1) /\ \A j \in 1..Len(B) : B[j] = A[i + j - 1]
  BY DEF Within
<1>3. i \in 2..(Len(A) - Len(B) + 1) BY <1>1, <1>2
<1>4. i \in Nat /\ i + Len(B) - 1 <= Len(A) /\ i + Len(B) - 1 \in Nat BY <1>1, <1>3
<1> DEFINE S == ToSet(A)
           k == i + Len(B) - 1
<1>5. A \in Seq(S) BY <1>1
<1> HIDE DEF S, k
<1>6. \A j \in 1..(k - i + 1) : SubSeq(A, i, k)[j] = A[i + j - 1]
  <2>1. i \in Nat /\ i > 1 /\ k \in Nat /\ k <= Len(A) BY <1>2, <1>4 DEF k
  <2>2. QED BY <1>5, <2>1
<1>7. k - i + 1 = Len(B) BY <1>1, <1>4 DEF k
<1>8. QED BY <1>2, <1>3, <1>6, <1>7 DEF k

LEMMA DottedIs ==
  ASSUME NEW text, IsSeq(text)
  PROVE  /\ IsSeq(Dotted(text)) /\ Len(Dotted(text)) = Len(text) + 1 /\ Dotted(text)[1] = "."
         /\ \A i \in 1..Len(text) : Dotted(text)[i + 1] = text[i]
<1> DEFINE d == <<".">>
<1>1. Joined(d, text) BY SeqsJoin, PairIsSeq
<1>2. Len(d) = 1 /\ d[1] = "." OBVIOUS
<1>3. Dotted(text) = d \o text BY DEF Dotted
<1> HIDE DEF d
<1>4. Len(text) \in Nat BY DEF IsSeq
<1>5. \A i \in 1..Len(text) : i + 1 = 1 + i BY <1>4
<1>6. QED BY <1>1, <1>2, <1>3, <1>4, <1>5 DEF Joined

LEMMA ErhnIs ==
  ASSUME CookiesFramed, NEW request \in Requests
  PROVE  LET host == request.host
             erhn == Erhn(request)
         IN /\ IsSeq(host) /\ IsSeq(erhn) /\ Len(host) \in Nat /\ Len(host) > 0
            /\ Has(host, ".") => erhn = host
            /\ ~Has(host, ".") =>
                 /\ Len(erhn) = Len(host) + 2
                 /\ \A i \in 1..Len(host) : erhn[i] = host[i] /\ host[i] # "."
                 /\ erhn[Len(host) + 1] = "." /\ erhn[Len(host) + 2] = "local"
<1> DEFINE host == request.host
           erhn == Erhn(request)
           local == <<".", "local">>
<1>1. IsSeq(host) /\ host # <<>> BY DEF CookiesFramed
<1>2. Len(host) \in Nat /\ Len(host) > 0 BY <1>1 DEF IsSeq
<1>3. CASE Has(host, ".") BY <1>1, <1>2, <1>3 DEF Erhn
<1>4. CASE ~Has(host, ".")
  <2>1. erhn = host \o local BY <1>4 DEF Erhn
  <2>2. Joined(host, local) BY <1>1, SeqsJoin, PairIsSeq
  <2>3. Len(local) = 2 /\ local[1] = "." /\ local[2] = "local" OBVIOUS
  <2>4. \A i \in 1..Len(host) : host[i] # "." BY <1>4 DEF Has, Contains
  <2> HIDE DEF local, erhn, host
  <2>5. 1 \in 1..Len(local) /\ 2 \in 1..Len(local) BY <2>3
  <2>6. QED BY <1>1, <1>2, <1>4, <2>1, <2>2, <2>3, <2>4, <2>5 DEF Joined, erhn, host
<1>5. QED BY <1>3, <1>4

\* A suffix of what has a dot before it, unless it is all of it, is a suffix of the rest.
LEMMA EndOfDotted ==
  ASSUME NEW text, NEW part, IsSeq(text), IsSeq(part)
  PROVE  /\ EndsWith(text, part) => EndsWith(Dotted(text), part)
         /\ EndsWith(Dotted(text), part) /\ Len(part) <= Len(text) => EndsWith(text, part)
         /\ EndsWith(Dotted(text), text)
<1> DEFINE n == Len(part)
           m == Len(text)
           d == Dotted(text)
<1>1. n \in Nat /\ m \in Nat BY DEF IsSeq
<1>2. IsSeq(d) /\ Len(d) = m + 1 /\ \A i \in 1..m : d[i + 1] = text[i] BY DottedIs
<1>3. ASSUME n <= m, NEW i \in 1..n PROVE text[m - n + i] = d[m + 1 - n + i]
  <2>1. m - n + i \in 1..m /\ (m - n + i) + 1 = m + 1 - n + i BY <1>1, <1>3
  <2>2. QED BY <1>2, <2>1
<1>4. EndsWith(text, part) <=> n <= m /\ \A i \in 1..n : part[i] = text[m - n + i] BY EndOf
<1>5. EndsWith(d, part) <=> n <= m + 1 /\ \A i \in 1..n : part[i] = d[m + 1 - n + i]
  <2>1. IsSeq(d) BY <1>2
  <2> HIDE DEF d
  <2>2. EndsWith(d, part) <=> n <= Len(d) /\ \A i \in 1..n : part[i] = d[Len(d) - n + i]
    BY <2>1, EndOf
  <2> HIDE DEF n, m
  <2>3. QED BY <1>1, <1>2, <2>2
<1>6. EndsWith(d, text)
  <2>1. EndsWith(d, text) <=> m <= m + 1 /\ \A i \in 1..m : text[i] = d[m + 1 - m + i] BY <1>2, EndOf
  <2>2. \A i \in 1..m : m + 1 - m + i = i + 1 BY <1>1
  <2>3. QED BY <1>1, <1>2, <2>1, <2>2
<1> HIDE DEF n, m, d
<1>7. QED BY <1>1, <1>3, <1>4, <1>5, <1>6 DEF n, m, d

\* A domain that is found in a host, behind its first label, and ends with it is found
\* at the end of it, also where the host has a domain only because it had none.
LEMMA FoundAtTheEnd ==
  ASSUME CookiesFramed, NEW request \in Requests, NEW domain, IsSeq(domain),
         Starts(domain, "."), Within(Erhn(request), domain),
         EndsWith(Dotted(request.host), domain) \/ EndsWith(Dotted(Erhn(request)), domain)
  PROVE  EndsWith(Erhn(request), domain) /\ Len(Erhn(request)) > Len(domain)
<1> DEFINE host == request.host
           erhn == Erhn(request)
           n == Len(domain)
           m == Len(host)
           e == Len(erhn)
<1>1. /\ IsSeq(host) /\ IsSeq(erhn) /\ m \in Nat /\ m > 0
      /\ Has(host, ".") => erhn = host
      /\ ~Has(host, ".") => /\ e = m + 2
                            /\ \A i \in 1..m : erhn[i] = host[i] /\ host[i] # "."
                            /\ erhn[m + 1] = "." /\ erhn[m + 2] = "local"
  BY ErhnIs
<1>2. domain # <<>> /\ domain[1] = "." BY DEF Starts
<1>3. n \in Nat /\ n > 0 /\ e \in Nat BY <1>1, <1>2 DEF IsSeq
<1>4. PICK at \in 2..(e - n + 1) : \A j \in 1..n : domain[j] = erhn[at + j - 1]
  BY <1>1, <1>2, WithinOf
<1>5. e > n /\ at \in Nat /\ at > 1 /\ at <= e - n + 1 BY <1>3, <1>4
<1>6. CASE EndsWith(Dotted(erhn), domain) BY <1>1, <1>3, <1>5, <1>6, EndOfDotted
<1>7. CASE EndsWith(Dotted(host), domain) /\ ~Has(host, ".")
  <2>1. n <= m + 1 /\ \A i \in 1..n : domain[i] = Dotted(host)[m + 1 - n + i]
    <3> DEFINE d == Dotted(host)
    <3>1. IsSeq(d) /\ Len(d) = m + 1 BY <1>1, DottedIs
    <3>3. EndsWith(d, domain) BY <1>7
    <3> HIDE DEF d
    <3>2. EndsWith(d, domain) <=> n <= Len(d) /\ \A i \in 1..n : domain[i] = d[Len(d) - n + i]
      <4>1. IsSeq(d) /\ IsSeq(domain) BY <3>1
      <4>2. QED BY ONLY <4>1, EndOf
    <3> HIDE DEF n, m
    <3>4. n <= m + 1 /\ \A i \in 1..n : domain[i] = d[m + 1 - n + i]
      BY <1>1, <1>3, <3>1, <3>2, <3>3
    <3>5. QED BY <3>4 DEF d
  <2>2. n = m + 1
    <3>1. SUFFICES ASSUME n <= m PROVE FALSE BY <1>1, <1>3, <2>1
    <3>2. m + 1 - n \in 1..m /\ (m + 1 - n) + 1 = m + 1 - n + 1 /\ 1 \in 1..n BY <1>1, <1>3, <3>1
    <3>3. domain[1] = Dotted(host)[m + 1 - n + 1] BY <2>1, <3>2
    <3>4. Dotted(host)[(m + 1 - n) + 1] = host[m + 1 - n] BY <1>1, <3>2, DottedIs
    <3>5. host[m + 1 - n] = "." BY <1>2, <3>2, <3>3, <3>4
    <3>6. QED BY <1>1, <1>7, <3>2, <3>5
  <2>3. at = m + 1
    <3>1. 1 \in 1..n /\ at + 1 - 1 = at BY <1>3, <1>5
    <3>2. erhn[at] = "." BY <1>2, <1>4, <3>1
    <3>3. at \notin 1..m BY <1>1, <1>7, <3>2
    <3>4. at <= m + 2 - (m + 1) + 1 BY <1>1, <1>5, <1>7, <2>2
    <3>5. at >= m + 1 /\ at <= 2 BY <1>1, <1>5, <3>3, <3>4
    <3>6. QED BY <1>1, <1>5, <3>5
  <2>4. n = 2 /\ e = 3 /\ m = 1 /\ at = 2
    <3>1. at <= m + 2 - (m + 1) + 1 BY <1>1, <1>5, <1>7, <2>2
    <3>4. m \in Nat /\ m > 0 BY <1>1
    <3>5. \A k \in Nat : k > 0 /\ k + 1 <= k + 2 - (k + 1) + 1 => k = 1 OBVIOUS
    <3>6. m + 1 <= m + 2 - (m + 1) + 1 BY <2>3, <3>1
    <3> HIDE DEF m
    <3>2. m = 1 BY <3>4, <3>5, <3>6
    <3>3. QED BY <1>1, <1>7, <2>2, <2>3, <3>2
  <2>5. \A i \in 1..2 : domain[i] = erhn[3 - 2 + i]
    <3>1. \A i \in 1..2 : 2 + i - 1 = 3 - 2 + i OBVIOUS
    <3>2. QED BY <1>4, <2>4, <3>1
  <2>6. EndsWith(erhn, domain)
    <3>1. n = 2 /\ e = 3 BY <2>4
    <3>5. IsSeq(erhn) BY <1>1
    <3>2. \A i \in 1..2 : domain[i] = erhn[3 - 2 + i] BY <2>5
    <3> HIDE DEF erhn
    <3>3. EndsWith(erhn, domain)
            <=> n <= e /\ \A i \in 1..n : domain[i] = erhn[e - n + i]
      BY <3>5, EndOf
    <3> HIDE DEF n, e
    <3>4. QED BY <3>1, <3>2, <3>3
  <2>7. QED BY <1>5, <2>6
<1>8. QED BY <1>1, <1>6, <1>7

\* The liberal check by domain leaves out nothing that the definition has, and the strict
\* one of a cookie lets through nothing else.
LEMMA DomainsAgree ==
  ASSUME CookiesFramed, NEW request \in Requests, NEW cookie, WellMade(cookie),
         ReturnDomainOk(cookie, request)
  PROVE  \/ EndsWith(Dotted(request.host), cookie.domain)
         \/ EndsWith(Dotted(Erhn(request)), cookie.domain)
         <=> Matches(cookie, request)
<1> DEFINE erhn == Erhn(request)
           domain == cookie.domain
<1>1. IsSeq(domain) /\ IsSeq(erhn) BY ErhnIs DEF WellMade
<1>2. CASE ~(cookie.version > 0)
  <2>1. EndsWith(Dotted(erhn), domain) BY <1>2 DEF ReturnDomainOk
  <2>2. QED BY <1>2, <2>1 DEF Matches
<1>3. CASE cookie.version > 0
  <2>1. domain_match(erhn, domain) BY <1>3 DEF ReturnDomainOk
  <2>2. Matches(cookie, request) <=>
          \/ erhn = domain
          \/ is_HDN(erhn) /\ Starts(domain, ".") /\ EndsWith(erhn, domain) /\ Len(erhn) > Len(domain)
    BY <1>3 DEF Matches
  <2>3. CASE erhn = domain
    <3>1. EndsWith(Dotted(erhn), domain) BY <1>1, <2>3, EndOfDotted
    <3>2. QED BY <2>2, <2>3, <3>1
  <2>4. CASE is_HDN(erhn) /\ Within(erhn, domain) /\ Starts(domain, ".")
    <3>1. EndsWith(erhn, domain) => EndsWith(Dotted(erhn), domain) BY <1>1, EndOfDotted
    <3>2. EndsWith(Dotted(request.host), domain) \/ EndsWith(Dotted(erhn), domain)
            => EndsWith(erhn, domain) /\ Len(erhn) > Len(domain)
      BY <1>1, <2>4, FoundAtTheEnd
    <3> HIDE DEF erhn
    <3>3. (erhn = domain) => EndsWith(Dotted(erhn), domain) BY <1>1, EndOfDotted
    <3>4. QED BY <2>2, <2>4, <3>1, <3>2, <3>3 DEF erhn
  <2>5. QED BY <2>1, <2>3, <2>4 DEF domain_match
<1>4. QED BY <1>2, <1>3

LEMMA JarIInvIsExact ==
  ASSUME CookiesFramed, JarIInv
  PROVE  MatchedExactly /\ OneOfAKey /\ NewerKept /\ SentAsSet /\ Restored
<1>1. OneOfAKey /\ NewerKept /\ Restored BY DEF JarIInv, KeysApart, OneOfAKey
<1>2. MatchedExactly
  <2>1. SUFFICES ASSUME NEW request \in Requests, ~Raises(request), NEW c \in jar
                 PROVE  c \in CookiesFor(request) <=>
                          /\ c.version > 0 => Matches(c, request)
                          /\ ~Blocked(c.domain) /\ ~NotAllowed(c.domain)
                          /\ IsPrefix(c.path, request.path) /\ ReturnOk(c, request)
    BY DEF MatchedExactly
  <2>2. WellMade(c) BY DEF JarIInv, JarTypeOK
  <2>3. ReturnOk(c, request) => ReturnDomainOk(c, request) BY DEF ReturnOk
  <2>4. ReturnDomainOk(c, request) =>
          (EndsWith(Dotted(request.host), c.domain) \/ EndsWith(Dotted(Erhn(request)), c.domain)
           <=> Matches(c, request))
    BY <2>2, DomainsAgree
  <2>5. c \in CookiesFor(request) <=> Asked(c, request) /\ ReturnOk(c, request) BY <2>1 DEF CookiesFor
  <2>6. ReturnDomainOk(c, request) /\ ~(c.version > 0) => Matches(c, request)
    BY DEF ReturnDomainOk, Matches
  <2>7. QED BY <2>3, <2>4, <2>5, <2>6 DEF Asked, DomainReturnOk, PathReturnOk
<1>3. SentAsSet
  <2>1. SUFFICES ASSUME NEW request \in Requests, NEW c \in CookiesFor(request)
                 PROVE  IF file.format = "lwp" THEN c \in given
                        ELSE \E d \in given : Key(d) = Key(c) /\ d.secure = c.secure /\ d.expires = c.expires
    BY DEF SentAsSet
  <2>2. c \in jar /\ c.version # None BY <2>1 DEF CookiesFor, Raises
  <2>3. Traced(c) BY <2>2 DEF JarIInv
  <2>4. QED BY <2>2, <2>3 DEF Traced, SetSo
<1>4. QED BY <1>1, <1>2, <1>3

\* cookiejar.py:1138-1329, 1423-1725, 1842-2154.  Whatever servers answer, and whatever is
\* saved, cut, loaded and reverted: the liberal check by domain hides nothing and the strict
\* one lets through nothing else, there is one cookie of a domain, path and name, that of
\* RFC 2965 where a response sets both, a cookie that is sent was set so by a response, and
\* a revert() that succeeds gives what was to be saved.
THEOREM JarGivesWhatMatches ==
  ASSUME CookiesFramed
  PROVE  JarSpec => [](MatchedExactly /\ OneOfAKey /\ NewerKept /\ SentAsSet /\ Restored)
<1>1. JarInit => JarIInv BY JarInitIInv
<1>2. JarIInv /\ [JarNext]_jarVars => JarIInv' BY JarNextIInv
<1>3. JarIInv => MatchedExactly /\ OneOfAKey /\ NewerKept /\ SentAsSet /\ Restored BY JarIInvIsExact
<1>4. QED BY <1>1, <1>2, <1>3, PTL DEF JarSpec

-----------------------------------------------------------------------------
(* WebSocket *)

Frames == {"whole", "first", "middle", "final", "ping", "close", "bad"}

\* Greenthreads are told apart, and a peer sends frames.
FramesSent ==
  /\ NoOne \notin Threads /\ Handler \notin Senders
  /\ Kinds \subseteq {"hixie", "hybi"}
  /\ \A s \in Inputs : s \in Seq(Frames)

\* What the peer sends, and what is read of it.
PeerFramesOK ==
  /\ kind \in {"hixie", "hybi"}
  /\ input \in Seq(Frames) /\ inbox \in Seq(Frames) /\ Taken \in Nat
  /\ \A i \in 1..Len(inbox) : inbox[i] = input[Taken + i]
  /\ kind = "hixie" => \A i \in 1..Len(input) : input[i] \in {"whole", "close"}

\* What wait() has of it; the old protocols have no fragments, and the new one keeps
\* no messages.
WaitTypeOK ==
  /\ fragmented \in Nat /\ received \in Seq(Nat) /\ returned \in Seq(Nat)
  /\ handler \in {"idle", "recv", "pong", "closing", "returns", "over"}
  /\ websocket_closed \in BOOLEAN
  /\ kind = "hybi" => received = <<>>
  /\ kind = "hixie" => fragmented = 0 /\ handler \notin {"pong", "closing"}

\* While frames are read the websocket is not closed.
ReadsOpen ==
  /\ handler = "recv" => ~websocket_closed
  /\ kind = "hybi" /\ handler \notin {"returns", "over"} => ~websocket_closed

\* None is returned for a reason that stays.
EndsForGood == (iterator = "ended" \/ nothing) /\ "wait" \notin interrupts => gone \/ websocket_closed

\* The fragments that are kept are those of the message under way.
MessagesKept ==
  "wait" \notin interrupts /\ WellFormed(Taken) =>
    LET got == returned \o received
    IN /\ fragmented = Fragments(Taken)
       /\ Len(got) = Ended(Taken)
       /\ \A i \in 1..Taken : input[i] \in LastFrames => got[Ended(i)] = Fragments(i - 1) + 1
       /\ handler = "closing" => \E i \in 1..Taken : input[i] = "close"

ReadIInv == PeerFramesOK /\ WaitTypeOK /\ ReadsOpen /\ EndsForGood /\ MessagesKept

\* The lock and who waits for it: a greenthread with a frame, once.
InLine(t) == holder = t \/ Contains(waiters, t)
LockOK ==
  /\ holder \in Threads \cup {NoOne} /\ waiters \in Seq(Threads) /\ IsInjective(waiters)
  /\ ~Contains(waiters, holder)
  /\ frame \in [Threads -> Nat] /\ packed \in Nat /\ wire \in Seq(Int)
  /\ \A t \in Threads : frame[t] # 0 <=> InLine(t)
  /\ InLine(Handler) => Owes

OnWire == {wire[i] : i \in 1..Len(wire)} \ {PongFrame, ClosingFrame}
NumbersInOrder ==
  \A i \in 1..Len(wire) : wire[i] > 0 =>
    {wire[j] : j \in 1..(i - 1)} \ {PongFrame, ClosingFrame} = 1..(wire[i] - 1)

\* What was packed is on the wire or in line, in the order in which it was packed.
PackedInOrder ==
  /\ OnWire \subseteq 1..packed
  /\ \A k \in 1..packed : k \in OnWire \/ \E s \in Senders : frame[s] = k
  /\ \A s \in Senders : frame[s] <= packed
  /\ \A s \in Senders : \A m \in OnWire : frame[s] # 0 => m < frame[s]
  /\ \A i, j \in 1..Len(waiters) :
       i < j /\ waiters[i] \in Senders /\ waiters[j] \in Senders => frame[waiters[i]] < frame[waiters[j]]
  /\ holder \in Senders =>
       \A i \in 1..Len(waiters) : waiters[i] \in Senders => frame[holder] < frame[waiters[i]]

ClosingOnce ==
  /\ \A i, j \in 1..Len(wire) : wire[i] = ClosingFrame /\ wire[j] = ClosingFrame => i = j
  /\ (\E i \in 1..Len(wire) : wire[i] = ClosingFrame) => websocket_closed /\ handler \in {"returns", "over"}

SendIInv ==
  /\ LockOK /\ ClosingOnce
  /\ "send" \notin interrupts => NumbersInOrder /\ (open => PackedInOrder)

SocketIInv == ReadIInv /\ SendIInv

\* How the counts go on from one frame to the next.
LEMMA EndedStep ==
  ASSUME NEW i \in Nat
  PROVE  /\ Ended(i) \in Nat /\ Ended(0) = 0
         /\ input[i + 1] \in LastFrames => Ended(i + 1) = Ended(i) + 1
         /\ input[i + 1] \notin LastFrames => Ended(i + 1) = Ended(i)
<1> DEFINE E(n) == {j \in 1..n : input[j] \in LastFrames}
<1>1. IsFiniteSet(E(i)) /\ i + 1 \notin E(i)
  <2>1. E(i) \subseteq 1..i /\ i + 1 \notin E(i) OBVIOUS
  <2> HIDE DEF E
  <2>2. IsFiniteSet(1..i) BY FS_Interval
  <2>3. IsFiniteSet(E(i)) BY <2>1, <2>2, FS_Subset
  <2>4. QED BY <2>1, <2>3
<1>2. E(0) = {} OBVIOUS
<1>3. input[i + 1] \in LastFrames => E(i + 1) = E(i) \cup {i + 1} OBVIOUS
<1>4. input[i + 1] \notin LastFrames => E(i + 1) = E(i) OBVIOUS
<1>5. \A n : Ended(n) = Cardinality(E(n)) BY DEF Ended
<1> HIDE DEF E
<1>6. Cardinality(E(i)) \in Nat BY <1>1, FS_CardinalityType
<1>7. Cardinality(E(i) \cup {i + 1}) = Cardinality(E(i)) + 1 BY <1>1, FS_AddElement
<1>8. QED BY <1>2, <1>3, <1>4, <1>5, <1>6, <1>7, FS_EmptySet

LEMMA FragmentsStep ==
  ASSUME NEW i \in Nat
  PROVE  /\ Fragments(i) \in Nat /\ Fragments(0) = 0
         /\ input[i + 1] \in LastFrames => Fragments(i + 1) = 0
         /\ input[i + 1] \in DataFrames \ LastFrames => Fragments(i + 1) = Fragments(i) + 1
         /\ input[i + 1] \notin DataFrames => Fragments(i + 1) = Fragments(i)
<1> DEFINE F(n) == {j \in 1..n : input[j] \in DataFrames /\ \A k \in j..n : input[k] \notin LastFrames}
<1>1. IsFiniteSet(F(i)) /\ i + 1 \notin F(i)
  <2>1. F(i) \subseteq 1..i /\ i + 1 \notin F(i) OBVIOUS
  <2> HIDE DEF F
  <2>2. IsFiniteSet(1..i) BY FS_Interval
  <2>3. IsFiniteSet(F(i)) BY <2>1, <2>2, FS_Subset
  <2>4. QED BY <2>1, <2>3
<1>2. F(0) = {} OBVIOUS
<1>3. ASSUME input[i + 1] \in LastFrames PROVE F(i + 1) = {}
  <2>1. \A j \in 1..(i + 1) : i + 1 \in j..(i + 1) OBVIOUS
  <2>2. QED BY <1>3, <2>1
<1>4. ASSUME input[i + 1] \notin LastFrames, NEW j \in 1..i
      PROVE  (\A k \in j..i : input[k] \notin LastFrames) <=> (\A k \in j..(i + 1) : input[k] \notin LastFrames)
  <2>1. j..(i + 1) = (j..i) \cup {i + 1} OBVIOUS
  <2>2. QED BY <1>4, <2>1
<1>5. 1..(i + 1) = (1..i) \cup {i + 1} /\ (i + 1)..(i + 1) = {i + 1} OBVIOUS
<1>6. LastFrames \subseteq DataFrames BY DEF LastFrames, DataFrames
<1>7. input[i + 1] \in DataFrames \ LastFrames => F(i + 1) = F(i) \cup {i + 1} BY <1>4, <1>5
<1>8. input[i + 1] \notin DataFrames => F(i + 1) = F(i) BY <1>4, <1>5, <1>6
<1>9. \A n : Fragments(n) = Cardinality(F(n)) BY DEF Fragments
<1> HIDE DEF F
<1>10. Cardinality(F(i)) \in Nat BY <1>1, FS_CardinalityType
<1>11. Cardinality(F(i) \cup {i + 1}) = Cardinality(F(i)) + 1 BY <1>1, FS_AddElement
<1>12. QED BY <1>2, <1>3, <1>7, <1>8, <1>9, <1>10, <1>11, FS_EmptySet

LEMMA EndedBetween ==
  ASSUME NEW i \in Nat, NEW n \in Nat, i <= n
  PROVE  /\ Ended(i) <= Ended(n)
         /\ i > 0 /\ input[i] \in LastFrames => Ended(i) > 0
         /\ (\A k \in (i + 1)..n : input[k] \in LastFrames) => Ended(n) = Ended(i) + (n - i)
<1> DEFINE E(m) == {j \in 1..m : input[j] \in LastFrames}
<1>1. \A m : Ended(m) = Cardinality(E(m)) BY DEF Ended
<1>2. IsFiniteSet(E(i)) /\ IsFiniteSet(E(n)) /\ E(i) \subseteq E(n)
  <2>1. E(i) \subseteq E(n) /\ E(n) \subseteq 1..n OBVIOUS
  <2> HIDE DEF E
  <2>2. IsFiniteSet(E(n)) BY <2>1, FS_Subset, FS_Interval
  <2>3. QED BY <2>1, <2>2, FS_Subset
<1>3. Ended(i) <= Ended(n)
  <2> HIDE DEF E
  <2>1. QED BY <1>1, <1>2, FS_Subset
<1>4. ASSUME i > 0, input[i] \in LastFrames PROVE Ended(i) > 0
  <2>1. i \in E(i) BY <1>4
  <2> HIDE DEF E
  <2>2. Cardinality(E(i)) \in Nat /\ Cardinality(E(i)) # 0
    BY <1>2, <2>1, FS_CardinalityType, FS_EmptySet
  <2>3. QED BY <1>1, <2>2
<1>5. ASSUME \A k \in (i + 1)..n : input[k] \in LastFrames PROVE Ended(n) = Ended(i) + (n - i)
  <2> DEFINE later == (i + 1)..n
  <2>1. E(n) = E(i) \cup later BY <1>5
  <2>2. E(i) \cap later = {} OBVIOUS
  <2>3. i + 1 \in Int /\ n \in Int OBVIOUS
  <2>4. IsFiniteSet(later) /\ Cardinality(later) = n - i
    <3>1. IsFiniteSet(later) /\ Cardinality(later) = IF i + 1 > n THEN 0 ELSE n - (i + 1) + 1
      BY <2>3, FS_Interval
    <3>2. (IF i + 1 > n THEN 0 ELSE n - (i + 1) + 1) = n - i OBVIOUS
    <3>3. QED BY <3>1, <3>2
  <2> HIDE DEF E, later
  <2>5. Cardinality(E(n)) = Cardinality(E(i)) + Cardinality(later) - Cardinality(E(i) \cap later)
    BY <1>2, <2>1, <2>4, FS_Union
  <2>6. Cardinality(E(i)) \in Nat /\ Cardinality({}) = 0 BY <1>2, FS_CardinalityType, FS_EmptySet
  <2>7. Cardinality(E(i) \cap later) = 0 BY <2>2, <2>6
  <2> DEFINE a == Cardinality(E(i))
             b == Cardinality(E(n))
  <2>8. a \in Nat /\ b = a + (n - i) - 0 BY <2>4, <2>5, <2>6, <2>7
  <2>9. Ended(n) = b /\ Ended(i) = a BY <1>1
  <2> HIDE DEF a, b
  <2>10. QED BY <2>8, <2>9
<1>6. QED BY <1>3, <1>4, <1>5

LEMMA WellFormedBefore ==
  ASSUME NEW m \in Nat, NEW n \in Nat, m <= n, WellFormed(n) PROVE WellFormed(m)
BY DEF WellFormed

\* Messages joined to messages: how many they are, and that the grouping does not matter.
LEMMA NumbersLonger ==
  ASSUME NEW x \in Seq(Nat), NEW y \in Seq(Nat)
  PROVE  x \o y \in Seq(Nat) /\ Len(x \o y) = Len(x) + Len(y)
OBVIOUS

LEMMA NumbersJoin ==
  ASSUME NEW x \in Seq(Nat), NEW y \in Seq(Nat), NEW z \in Seq(Nat)
  PROVE  (x \o y) \o z = x \o (y \o z)
<1> DEFINE S == Nat
<1>1. x \in Seq(S) /\ y \in Seq(S) /\ z \in Seq(S) OBVIOUS
<1> HIDE DEF S
<1>2. QED BY ONLY <1>1

\* What wait() returns and what it keeps are one sequence.
LEMMA GotMoves ==
  ASSUME NEW all \in Seq(Nat), all # <<>>, returned \in Seq(Nat),
         WaitReturns(Head(all)), received' = Tail(all)
  PROVE  /\ returned' \in Seq(Nat) /\ received' \in Seq(Nat)
         /\ (returned \o received)' = returned \o all
<1>1. returned' = Append(returned, Head(all)) BY DEF WaitReturns
<1>2. returned' \in Seq(Nat) /\ received' \in Seq(Nat) BY <1>1
<1>3. Append(returned, Head(all)) \o Tail(all) = returned \o all BY MoveHead
<1>4. QED BY <1>1, <1>2, <1>3

\* A message of k frames is the next.
LEMMA MessageComes ==
  ASSUME PeerFramesOK, WaitTypeOK, kind = "hybi", "wait" \notin interrupts, MessagesKept,
         inbox # <<>>, NEW k \in Nat, WaitReturns(k), inbox' = Tail(inbox), input' = input,
         received' = received, fragmented' = 0, k = fragmented + 1,
         Head(inbox) \in LastFrames, interrupts' = interrupts
  PROVE  MessagesKept'
<1> DEFINE c == Taken
           got == returned \o received
<1>1. c \in Nat /\ Taken' = c + 1 /\ input[c + 1] = Head(inbox) /\ c + 1 <= Len(input)
  BY DEF PeerFramesOK, Taken
<1>2. received = <<>> /\ got \in Seq(Nat) /\ (returned \o received)' = Append(got, k)
  BY DEF WaitTypeOK, WaitReturns
<1>3. \A n : Ended(n)' = Ended(n) /\ Fragments(n)' = Fragments(n) BY DEF Ended, Fragments
<1>4. \A n : WellFormed(n)' = WellFormed(n) BY <1>3 DEF WellFormed
<1>5. SUFFICES ASSUME WellFormed(c + 1)
               PROVE  /\ Fragments(c + 1) = 0
                      /\ Len(Append(got, k)) = Ended(c + 1)
                      /\ \A i \in 1..(c + 1) : input[i] \in LastFrames =>
                           Append(got, k)[Ended(i)] = Fragments(i - 1) + 1
  <2>1. handler' # "closing" BY DEF WaitReturns
  <2> HIDE DEF c, got
  <2>2. QED BY <1>1, <1>2, <1>3, <1>4, <1>5, <2>1 DEF MessagesKept
<1>6. /\ fragmented = Fragments(c) /\ Len(got) = Ended(c)
      /\ \A i \in 1..c : input[i] \in LastFrames => got[Ended(i)] = Fragments(i - 1) + 1
  <2>1. WellFormed(c) BY <1>1, <1>5, WellFormedBefore
  <2>2. QED BY <2>1 DEF MessagesKept
<1> HIDE DEF c, got
<1>7. Fragments(c + 1) = 0 /\ Ended(c + 1) = Ended(c) + 1 /\ Ended(c) \in Nat
  BY <1>1, EndedStep, FragmentsStep
<1>8. Len(Append(got, k)) = Ended(c + 1) BY <1>2, <1>6, <1>7
<1>9. ASSUME NEW i \in 1..(c + 1), input[i] \in LastFrames
      PROVE  Append(got, k)[Ended(i)] = Fragments(i - 1) + 1
  <2>1. CASE i = c + 1
    <3>4. Ended(c + 1) = Len(got) + 1 BY <1>6, <1>7
    <3>1. Append(got, k)[Ended(c + 1)] = k BY <1>2, <3>4
    <3>2. i - 1 = c BY <1>1, <2>1
    <3>3. QED BY <1>6, <2>1, <3>1, <3>2
  <2>2. CASE i # c + 1
    <3>1. i \in 1..c /\ i \in Nat /\ i <= c /\ i > 0 BY <1>1, <2>2
    <3>2. Ended(i) \in Nat /\ Ended(i) <= Ended(c) /\ Ended(i) > 0 BY <1>1, <1>9, <3>1, EndedStep, EndedBetween
    <3>3. Append(got, k)[Ended(i)] = got[Ended(i)] BY <1>2, <1>6, <1>7, <3>2
    <3>4. QED BY <1>6, <1>9, <3>1, <3>3
  <2>3. QED BY <2>1, <2>2
<1>10. QED BY <1>7, <1>8, <1>9

\* A frame that ends no message, or breaks the rules, or closes the connection.
LEMMA FrameComes ==
  ASSUME PeerFramesOK, WaitTypeOK, "wait" \notin interrupts, MessagesKept,
         inbox # <<>>, inbox' = Tail(inbox), input' = input, interrupts' = interrupts,
         received' = received, returned' = returned, Head(inbox) \notin LastFrames \/ ~WellFormed(Taken + 1),
         \/ ~WellFormed(Taken + 1)
         \/ fragmented' = fragmented + (IF Head(inbox) \in DataFrames THEN 1 ELSE 0),
         handler' = "closing" /\ WellFormed(Taken + 1) => Head(inbox) = "close"
  PROVE  MessagesKept'
<1> DEFINE c == Taken
           got == returned \o received
<1>1. c \in Nat /\ Taken' = c + 1 /\ input[c + 1] = Head(inbox) /\ c + 1 <= Len(input)
  BY DEF PeerFramesOK, Taken
<1>2. (returned \o received)' = got OBVIOUS
<1>3. \A n : Ended(n)' = Ended(n) /\ Fragments(n)' = Fragments(n) BY DEF Ended, Fragments
<1>4. \A n : WellFormed(n)' = WellFormed(n) BY <1>3 DEF WellFormed
<1>5. fragmented \in Nat BY DEF WaitTypeOK
<1>6. SUFFICES ASSUME WellFormed(c + 1)
               PROVE  /\ fragmented' = Fragments(c + 1)
                      /\ Len(got) = Ended(c + 1)
                      /\ \A i \in 1..(c + 1) : input[i] \in LastFrames => got[Ended(i)] = Fragments(i - 1) + 1
                      /\ handler' = "closing" => \E i \in 1..(c + 1) : input[i] = "close"
  <2> HIDE DEF c, got
  <2>1. QED BY <1>1, <1>2, <1>3, <1>4, <1>6 DEF MessagesKept
<1>7. /\ fragmented = Fragments(c) /\ Len(got) = Ended(c)
      /\ \A i \in 1..c : input[i] \in LastFrames => got[Ended(i)] = Fragments(i - 1) + 1
  <2>1. WellFormed(c) BY <1>1, <1>6, WellFormedBefore
  <2>2. QED BY <2>1 DEF MessagesKept
<1>8. /\ input[c + 1] \notin LastFrames
      /\ fragmented' = fragmented + (IF input[c + 1] \in DataFrames THEN 1 ELSE 0)
      /\ handler' = "closing" => input[c + 1] = "close"
  BY <1>1, <1>6
<1> HIDE DEF c, got
<1>9. Ended(c + 1) = Ended(c) BY <1>1, <1>8, EndedStep
<1>10. fragmented' = Fragments(c + 1)
  <2>1. CASE input[c + 1] \in DataFrames BY <1>1, <1>5, <1>7, <1>8, <2>1, FragmentsStep
  <2>2. CASE input[c + 1] \notin DataFrames
    <3>1. fragmented' = fragmented BY <1>5, <1>8, <2>2
    <3>2. Fragments(c + 1) = Fragments(c) BY <1>1, <2>2, FragmentsStep
    <3>3. QED BY <1>7, <3>1, <3>2
  <2>3. QED BY <2>1, <2>2
<1>11. \A i \in 1..(c + 1) : i = c + 1 \/ i \in 1..c BY <1>1
<1>12. c + 1 \in 1..(c + 1) BY <1>1
<1>13. QED BY <1>7, <1>8, <1>9, <1>10, <1>11, <1>12

\* Messages of the old protocols come.
LEMMA OldMessagesCome ==
  ASSUME PeerFramesOK, WaitTypeOK, MessagesKept, NEW n \in 1..Len(inbox), RecvHixie(n)
  PROVE  MessagesKept'
<1> DEFINE c == Taken
           got == returned \o received
           k == IF inbox[n] = "close" THEN n - 1 ELSE n
           ones == [i \in 1..k |-> 1]
           all == received \o ones
<1>1. /\ kind = "hixie" /\ input' = input /\ interrupts' = interrupts /\ fragmented' = fragmented
      /\ inbox' = SubSeq(inbox, n + 1, Len(inbox))
      /\ \A i \in 1..(n - 1) : inbox[i] # "close"
      /\ \/ all # <<>> /\ WaitReturns(Head(all)) /\ received' = Tail(all)
         \/ all = <<>> /\ ReturnsNothing /\ received' = received
  BY DEF RecvHixie
<1>2. /\ c \in Nat /\ inbox \in Seq(Frames) /\ \A i \in 1..Len(inbox) : inbox[i] = input[c + i]
      /\ \A i \in 1..Len(input) : input[i] \in {"whole", "close"}
      /\ Len(input) = c + Len(inbox) /\ input \in Seq(Frames)
  BY <1>1 DEF PeerFramesOK, Taken
<1>3. Len(inbox') = Len(inbox) - n /\ n \in Nat BY <1>1, <1>2
<1>4. Taken' = c + n
  <2>1. Taken' = Len(input) - Len(inbox') BY <1>1 DEF Taken
  <2>2. Len(inbox) \in Nat /\ Len(inbox') = Len(inbox) - n BY <1>2, <1>3
  <2> HIDE DEF c
  <2>3. QED BY <1>2, <1>3, <2>1, <2>2
<1>5. k \in Nat /\ (k = n \/ k = n - 1) /\ (k = n - 1 => inbox[n] = "close") /\ (k = n => inbox[n] # "close")
  BY <1>3
<1> HIDE DEF k
<1>6. ones \in Seq(Nat) /\ Len(ones) = k /\ \A i \in 1..k : ones[i] = 1 BY <1>5
<1> HIDE DEF ones
<1>7. /\ received \in Seq(Nat) /\ returned \in Seq(Nat) /\ all \in Seq(Nat)
      /\ got \in Seq(Nat) /\ Len(got) = Len(returned) + Len(received)
  BY <1>6 DEF WaitTypeOK
<1>8. (returned \o received)' = got \o ones
  <2>1. (returned \o received)' = returned \o all
    <3>1. CASE all = <<>>
      <4>1. Len(all) = Len(received) + k /\ Len(all) = 0 BY <1>6, <1>7, <3>1
      <4>2. received = <<>> BY <1>5, <1>7, <4>1
      <4>3. returned' = returned /\ received' = received BY <1>1, <3>1 DEF ReturnsNothing
      <4>4. QED BY <3>1, <4>2, <4>3
    <3>2. CASE all # <<>>
      <4>1. WaitReturns(Head(all)) /\ received' = Tail(all) BY <1>1, <3>2
      <4> HIDE DEF all
      <4>2. QED BY <1>7, <3>2, <4>1, GotMoves
    <3>3. QED BY <3>1, <3>2
  <2>2. returned \o (received \o ones) = (returned \o received) \o ones
    <3>1. returned \in Seq(Nat) /\ received \in Seq(Nat) /\ ones \in Seq(Nat) BY <1>6, <1>7
    <3>2. QED BY ONLY <3>1, NumbersJoin
  <2>3. QED BY <2>1, <2>2
<1>9. /\ \A i \in (c + 1)..(c + k) : input[i] \in LastFrames
      /\ k = n - 1 => input[c + n] = "close"
  <2>1. ASSUME NEW i \in (c + 1)..(c + k) PROVE input[i] \in LastFrames
    <3>1. i - c \in 1..Len(inbox) /\ i - c \in 1..k /\ i = c + (i - c) BY <1>2, <1>3, <1>5
    <3>2. inbox[i - c] = input[i] BY <1>2, <3>1
    <3>3. inbox[i - c] # "close"
      <4>1. CASE i - c = n BY <1>3, <1>5, <3>1, <4>1
      <4>2. CASE i - c # n
        <5>1. i - c \in 1..(n - 1) BY <1>3, <1>5, <3>1, <4>2
        <5>2. QED BY <1>1, <5>1
      <4>3. QED BY <4>1, <4>2
    <3>4. i \in 1..Len(input) BY <1>2, <3>1
    <3>5. QED BY <1>2, <3>2, <3>3, <3>4 DEF LastFrames
  <2>2. k = n - 1 => input[c + n] = "close" BY <1>2, <1>5
  <2>3. QED BY <2>1, <2>2
<1>10. Ended(c + k) = Ended(c) + k /\ Ended(c + n) = Ended(c) + k /\ Ended(c) \in Nat
  <2>1. Ended(c) \in Nat /\ Ended(c + k) = Ended(c) + k
    <3>1. c \in Nat /\ c + k \in Nat /\ c <= c + k /\ (c + k) - c = k BY <1>2, <1>5
    <3> HIDE DEF c
    <3>2. QED BY <1>9, <3>1, EndedStep, EndedBetween
  <2>2. CASE k = n BY <2>1, <2>2
  <2>3. CASE k = n - 1
    <3>1. c + k \in Nat /\ (c + k) + 1 = c + n BY <1>2, <1>3, <1>5, <2>3
    <3>2. input[(c + k) + 1] \notin LastFrames BY <1>9, <2>3, <3>1 DEF LastFrames
    <3> HIDE DEF c
    <3>3. Ended((c + k) + 1) = Ended(c + k) BY <3>1, <3>2, EndedStep
    <3>4. QED BY <2>1, <3>1, <3>3
  <2>4. QED BY <1>5, <2>2, <2>3
<1>11. \A i \in Nat : i <= Len(input) => Fragments(i) = 0
  <2>1. SUFFICES ASSUME NEW i \in Nat, i <= Len(input)
                 PROVE  {j \in 1..i : input[j] \in DataFrames /\ \A l \in j..i : input[l] \notin LastFrames} = {}
    BY FS_EmptySet DEF Fragments
  <2>2. \A j \in 1..i : j \in j..i /\ j \in 1..Len(input) BY <1>2, <2>1
  <2>3. \A j \in 1..i : input[j] \in DataFrames => input[j] \in LastFrames
    BY <1>2, <2>2 DEF DataFrames, LastFrames
  <2>4. QED BY <2>2, <2>3
<1>12. \A i : Ended(i)' = Ended(i) /\ Fragments(i)' = Fragments(i) BY <1>1 DEF Ended, Fragments
<1>13. \A i : WellFormed(i)' = WellFormed(i) BY <1>1, <1>12 DEF WellFormed
<1>14. fragmented' = 0 /\ handler' # "closing"
  BY <1>1 DEF WaitTypeOK, WaitReturns, ReturnsNothing
<1> HIDE DEF c, got
<1>15. Len(got \o ones) = Len(got) + k /\ Len(got) \in Nat
  <2>1. got \in Seq(Nat) /\ ones \in Seq(Nat) /\ Len(ones) = k BY <1>6, <1>7
  <2>2. Len(got) \in Nat BY <2>1
  <2>3. QED BY ONLY <2>1, <2>2, NumbersLonger
<1>16. SUFFICES ASSUME "wait" \notin interrupts, WellFormed(c + n)
                PROVE  /\ 0 = Fragments(c + n) /\ Len(got \o ones) = Ended(c + n)
                       /\ \A i \in 1..(c + n) : input[i] \in LastFrames =>
                            (got \o ones)[Ended(i)] = Fragments(i - 1) + 1
  BY <1>1, <1>4, <1>8, <1>12, <1>13, <1>14 DEF MessagesKept
<1>17. /\ Len(got) = Ended(c)
       /\ \A i \in 1..c : input[i] \in LastFrames => got[Ended(i)] = Fragments(i - 1) + 1
  <2>1. WellFormed(c)
    <3>1. c \in Nat /\ c + n \in Nat /\ c <= c + n BY <1>2, <1>3
    <3>2. QED BY <1>16, <3>1, WellFormedBefore
  <2>2. QED BY <1>16, <2>1 DEF MessagesKept, got, c
<1>18. c + n <= Len(input) /\ c + n \in Nat BY <1>2, <1>3
<1>19. ASSUME NEW i \in 1..(c + n), input[i] \in LastFrames
       PROVE  (got \o ones)[Ended(i)] = Fragments(i - 1) + 1
  <2>1. CASE i <= c
    <3>1. i \in 1..c /\ i \in Nat /\ i > 0 BY <1>2, <2>1
    <3>2. Ended(i) \in Nat /\ Ended(i) <= Ended(c) /\ Ended(i) > 0 BY <1>2, <1>19, <2>1, <3>1, EndedStep, EndedBetween
    <3>3. (got \o ones)[Ended(i)] = got[Ended(i)] BY <1>6, <1>7, <1>17, <3>2
    <3>4. QED BY <1>17, <1>19, <3>1, <3>3
  <2>2. CASE i > c
    <3>1. i \in (c + 1)..(c + k)
      <4>1. i \in Nat /\ i > c /\ i <= c + n BY <1>2, <1>3, <2>2
      <4>2. CASE k = n BY <1>2, <1>3, <4>1, <4>2
      <4>3. CASE k = n - 1
        <5>1. i # c + n BY <1>9, <1>19, <4>3 DEF LastFrames
        <5>2. QED BY <1>2, <1>3, <4>1, <4>3, <5>1
      <4>4. QED BY <1>5, <4>2, <4>3
    <3>2. c \in Nat /\ i \in Nat /\ c <= i /\ (c + 1)..i \subseteq (c + 1)..(c + k) BY <1>2, <1>5, <3>1
    <3>3. Ended(i) = Ended(c) + (i - c) BY <1>9, <3>2, EndedBetween
    <3>4. i - c \in 1..k /\ Ended(i) = Len(got) + (i - c) BY <1>2, <1>5, <1>17, <3>1, <3>3
    <3>5. (got \o ones)[Len(got) + (i - c)] = ones[i - c]
      <4> DEFINE j == i - c
      <4>1. j \in 1..Len(ones) BY <1>6, <3>4
      <4>2. got \in Seq(Nat) /\ ones \in Seq(Nat) BY <1>6, <1>7
      <4> HIDE DEF j, got
      <4>3. (got \o ones)[Len(got) + j] = ones[j] BY ONLY <4>1, <4>2
      <4>4. QED BY <4>3 DEF j
    <3>6. Fragments(i - 1) = 0
      <4>1. i - 1 \in Nat /\ i - 1 <= Len(input) BY <1>18, <3>2, <2>2
      <4>2. QED BY <1>11, <4>1
    <3>7. QED BY <1>6, <3>4, <3>5, <3>6
  <2>3. c \in Nat /\ i \in Int BY <1>2, <1>3
  <2>4. i <= c \/ i > c BY <2>3
  <2>5. QED BY <2>1, <2>2, <2>4
<1>20. QED BY <1>10, <1>11, <1>15, <1>17, <1>18, <1>19

\* Nothing is read.
LEMMA MessagesSame ==
  ASSUME MessagesKept, input' = input, inbox' = inbox, fragmented' = fragmented,
         (returned \o received)' = returned \o received,
         handler' = "closing" => handler = "closing", "wait" \in interrupts => "wait" \in interrupts'
  PROVE  MessagesKept'
<1>1. \A n : Ended(n)' = Ended(n) /\ Fragments(n)' = Fragments(n) BY DEF Ended, Fragments
<1>2. \A n : WellFormed(n)' = WellFormed(n) BY <1>1 DEF WellFormed
<1>3. Taken' = Taken BY DEF Taken
<1> DEFINE got == returned \o received
<1> HIDE DEF got
<1>4. got' = got BY DEF got
<1>5. MessagesKept <=> ("wait" \notin interrupts /\ WellFormed(Taken) =>
        /\ fragmented = Fragments(Taken)
        /\ Len(got) = Ended(Taken)
        /\ \A i \in 1..Taken : input[i] \in LastFrames => got[Ended(i)] = Fragments(i - 1) + 1
        /\ handler = "closing" => \E i \in 1..Taken : input[i] = "close")
  BY DEF MessagesKept, got
<1>6. MessagesKept' <=> ("wait" \notin interrupts' /\ WellFormed(Taken)' =>
        /\ fragmented' = Fragments(Taken)'
        /\ Len(got') = Ended(Taken)'
        /\ \A i \in 1..Taken' : input'[i] \in LastFrames => got'[Ended(i)'] = Fragments(i - 1)' + 1
        /\ handler' = "closing" => \E i \in 1..Taken' : input'[i] = "close")
  BY DEF MessagesKept, got
<1>7. Ended(Taken)' = Ended(Taken) /\ Fragments(Taken)' = Fragments(Taken) /\ WellFormed(Taken)' = WellFormed(Taken)
  BY <1>3 DEF Ended, Fragments, WellFormed
<1>8. QED BY <1>1, <1>3, <1>4, <1>5, <1>6, <1>7

LEMMA PeerSame ==
  ASSUME PeerFramesOK, kind' = kind, input' = input, inbox' = inbox PROVE PeerFramesOK'
BY DEF PeerFramesOK, Taken

LEMMA ReadSame ==
  ASSUME ReadIInv, UNCHANGED <<kind, waitVars, handler, websocket_closed>>,
         "wait" \in interrupts => "wait" \in interrupts'
  PROVE  ReadIInv'
<1>1. UNCHANGED <<input, inbox, gone, iterator, fragmented, received, returned, nothing>> BY DEF waitVars
<1>2. PeerFramesOK' BY <1>1, PeerSame DEF ReadIInv
<1>3. WaitTypeOK' /\ ReadsOpen' /\ EndsForGood'
  BY <1>1 DEF ReadIInv, WaitTypeOK, ReadsOpen, EndsForGood
<1>4. MessagesKept' BY <1>1, MessagesSame DEF ReadIInv
<1>5. QED BY <1>2, <1>3, <1>4 DEF ReadIInv

\* One frame of RFC 6455 is read.
LEMMA FrameRead ==
  ASSUME ReadIInv, RecvHybi PROVE ReadIInv'
<1> DEFINE f == Head(inbox)
<1>1. /\ kind = "hybi" /\ handler = "recv" /\ inbox # <<>> /\ inbox' = Tail(inbox)
      /\ kind' = kind /\ interrupts' = interrupts /\ input' = input /\ gone' = gone /\ iterator' = iterator
      /\ websocket_closed' = websocket_closed
  BY DEF RecvHybi
<1>2. PeerFramesOK /\ WaitTypeOK /\ ReadsOpen /\ EndsForGood /\ MessagesKept BY DEF ReadIInv
<1>3. received' = received /\ received = <<>> /\ fragmented \in Nat /\ returned \in Seq(Nat)
  BY <1>1, <1>2 DEF RecvHybi, RecvData, Replies, WaitTypeOK
<1>4. f \in Frames /\ Taken \in Nat /\ Taken' = Taken + 1 /\ input[Taken + 1] = f
  BY <1>1, <1>2 DEF PeerFramesOK, Taken
<1>5. WellFormed(Taken + 1) =>
        /\ f # "bad"
        /\ f \in DataFrames => (f \in {"whole", "first"} <=> Fragments(Taken) = 0)
  <2>1. Taken + 1 \in 1..(Taken + 1) /\ (Taken + 1) - 1 = Taken BY <1>4
  <2>2. QED BY <1>4, <2>1 DEF WellFormed
<1>6. WellFormed(Taken + 1) /\ "wait" \notin interrupts => fragmented = Fragments(Taken)
  <2>1. Taken <= Taken + 1 /\ Taken + 1 \in Nat BY <1>4
  <2>2. QED BY <1>2, <1>4, <2>1, WellFormedBefore DEF MessagesKept
<1>7. PeerFramesOK' BY <1>1, <1>2, <1>4 DEF PeerFramesOK
<1> DEFINE Next1 == /\ fragmented' \in Nat /\ returned' \in Seq(Nat) /\ nothing' = nothing
                    /\ handler' \in {"idle", "recv", "pong", "closing"}
                    /\ "wait" \notin interrupts => MessagesKept'
<1>8. ASSUME \/ f = "ping" /\ fragmented' = fragmented /\ handler' = "pong"
             \/ f = "close" /\ fragmented' = fragmented /\ handler' = "closing"
             \/ /\ f \in {"first", "middle"} /\ fragmented' = fragmented + 1 /\ handler' = "recv"
             \/ ~WellFormed(Taken + 1) /\ fragmented' = fragmented /\ handler' = "closing",
             returned' = returned, nothing' = nothing
      PROVE  Next1
  <2>1. fragmented' \in Nat /\ handler' \in {"recv", "pong", "closing"} BY <1>3, <1>8
  <2>2. f \notin LastFrames \/ ~WellFormed(Taken + 1) BY <1>8 DEF LastFrames
  <2>3. \/ ~WellFormed(Taken + 1)
        \/ fragmented' = fragmented + (IF f \in DataFrames THEN 1 ELSE 0)
    <3>1. CASE f \in {"ping", "close"}
      <4>1. (IF f \in DataFrames THEN 1 ELSE 0) = 0 BY <3>1 DEF DataFrames
      <4>2. fragmented' = fragmented \/ ~WellFormed(Taken + 1) BY <1>8, <3>1
      <4>3. QED BY <1>3, <4>1, <4>2
    <3>2. CASE f \in {"first", "middle"}
      <4>1. (IF f \in DataFrames THEN 1 ELSE 0) = 1 BY <3>2 DEF DataFrames
      <4>2. fragmented' = fragmented + 1 \/ ~WellFormed(Taken + 1) BY <1>8, <3>2
      <4>3. QED BY <4>1, <4>2
    <3>3. CASE f \notin {"ping", "close", "first", "middle"} BY <1>8, <3>3
    <3>4. QED BY <3>1, <3>2, <3>3
  <2>4. handler' = "closing" /\ WellFormed(Taken + 1) => f = "close" BY <1>8
  <2>5. "wait" \notin interrupts => MessagesKept'
    BY <1>1, <1>2, <1>3, <1>8, <2>2, <2>3, <2>4, FrameComes
  <2>6. QED BY <1>3, <1>8, <2>1, <2>5
<1>9. ASSUME f \in LastFrames, NEW k \in Nat, k = fragmented + 1, WaitReturns(k), fragmented' = 0 PROVE Next1
  <2>1. returned' \in Seq(Nat) /\ nothing' = nothing /\ handler' = "idle"
    BY <1>3, <1>9 DEF WaitReturns
  <2>2. "wait" \notin interrupts => MessagesKept' BY <1>1, <1>2, <1>3, <1>9, MessageComes
  <2>3. QED BY <1>9, <2>1, <2>2
<1>10. Next1
  <2>1. CASE f = "ping" /\ Replies("pong") /\ fragmented' = ControlKeeps
    BY <1>8, <2>1 DEF Replies, ControlKeeps
  <2>2. CASE f = "close" /\ Replies("closing") /\ fragmented' = fragmented BY <1>8, <2>2 DEF Replies
  <2>3. CASE f \notin {"ping", "close"} /\ RecvData
    <3>1. CASE f = "whole" /\ fragmented = 0
      <4>1. WaitReturns(1) /\ fragmented' = 0 BY <2>3, <3>1 DEF RecvData
      <4>2. f \in LastFrames /\ 1 \in Nat /\ 1 = fragmented + 1 BY <3>1 DEF LastFrames
      <4>3. QED BY <1>9, <4>1, <4>2
    <3>2. CASE f = "first" /\ fragmented = 0
      <4>1. fragmented' = fragmented + 1 /\ UNCHANGED <<returned, nothing, handler>> BY <2>3, <3>2 DEF RecvData
      <4>2. QED BY <1>1, <1>8, <3>2, <4>1
    <3>3. CASE f = "middle" /\ fragmented > 0
      <4>1. fragmented' = fragmented + 1 /\ UNCHANGED <<returned, nothing, handler>> BY <2>3, <3>3 DEF RecvData
      <4>2. QED BY <1>1, <1>8, <3>3, <4>1
    <3>4. CASE f = "final" /\ fragmented > 0
      <4>1. WaitReturns(fragmented + 1) /\ fragmented' = 0 BY <2>3, <3>4 DEF RecvData, Collected
      <4>2. f \in LastFrames /\ fragmented + 1 \in Nat BY <1>3, <3>4 DEF LastFrames
      <4>3. QED BY <1>9, <4>1, <4>2
    <3>5. CASE /\ ~(f = "whole" /\ fragmented = 0) /\ ~(f = "first" /\ fragmented = 0)
               /\ ~(f = "middle" /\ fragmented > 0) /\ ~(f = "final" /\ fragmented > 0)
      <4>1. handler' = "closing" /\ UNCHANGED <<returned, nothing, fragmented>> BY <2>3, <3>5 DEF RecvData
      <4>2. "wait" \notin interrupts => ~WellFormed(Taken + 1)
        <5>1. fragmented = 0 \/ fragmented > 0 BY <1>3
        <5>2. QED BY <1>4, <1>5, <1>6, <2>3, <3>5, <5>1 DEF Frames, DataFrames
      <4>3. CASE "wait" \in interrupts BY <1>3, <4>1, <4>3
      <4>4. CASE "wait" \notin interrupts BY <1>8, <4>1, <4>2, <4>4
      <4>5. QED BY <4>3, <4>4
    <3>6. QED BY <3>1, <3>2, <3>3, <3>4, <3>5
  <2>4. QED BY <2>1, <2>2, <2>3 DEF RecvHybi
<1>11. WaitTypeOK' /\ ReadsOpen' /\ EndsForGood'
  BY <1>1, <1>2, <1>3, <1>10 DEF WaitTypeOK, ReadsOpen, EndsForGood
<1>12. MessagesKept'
  <2>1. CASE "wait" \in interrupts BY <1>1, <2>1 DEF MessagesKept
  <2>2. CASE "wait" \notin interrupts BY <1>10, <2>2
  <2>3. QED BY <2>1, <2>2
<1>13. QED BY <1>7, <1>11, <1>12 DEF ReadIInv

LEMMA ReadStep ==
  ASSUME ReadIInv, SocketNext \/ UNCHANGED socketVars PROVE ReadIInv'
<1> USE DEF waitVars
<1>1. PeerFramesOK /\ WaitTypeOK /\ ReadsOpen /\ EndsForGood /\ MessagesKept BY DEF ReadIInv
<1>2. ASSUME UNCHANGED <<kind, interrupts, input, inbox, iterator, fragmented, received, returned, nothing, handler,
                         websocket_closed>>,
             gone => gone'
      PROVE  ReadIInv'
  <2>1. PeerFramesOK' BY <1>1, <1>2, PeerSame
  <2>2. WaitTypeOK' /\ ReadsOpen' /\ EndsForGood' BY <1>1, <1>2 DEF WaitTypeOK, ReadsOpen, EndsForGood
  <2>3. MessagesKept' BY <1>1, <1>2, MessagesSame
  <2>4. QED BY <2>1, <2>2, <2>3 DEF ReadIInv
<1>3. CASE PeerLeaves BY <1>2, <1>3 DEF PeerLeaves
<1>4. ASSUME NEW s \in Senders, Send(s) \/ Sent(s) PROVE ReadIInv'
  BY <1>2, <1>4 DEF Send, Sent
<1>5. ASSUME NEW s \in Senders, SendTimeout(s) PROVE ReadIInv'
  BY <1>5, ReadSame DEF SendTimeout
<1>6. CASE LockPassed BY <1>2, <1>6 DEF LockPassed
<1>7. CASE HandlerSends BY <1>2, <1>7 DEF HandlerSends
<1>8. CASE ServerCloses BY <1>2, <1>8 DEF ServerCloses
<1>9. CASE UNCHANGED socketVars BY <1>2, <1>9 DEF socketVars
<1>10. CASE Wait
  <2>1. UNCHANGED <<kind, interrupts, input, inbox, gone, iterator, fragmented, websocket_closed>> /\ handler = "idle"
    BY <1>10 DEF Wait
  <2>2. PeerFramesOK' BY <1>1, <2>1, PeerSame
  <2>3. CASE received # <<>>
    <3>1. WaitReturns(Head(received)) /\ received' = Tail(received) BY <1>10, <2>3 DEF Wait
    <3>2. received \in Seq(Nat) /\ returned \in Seq(Nat) BY <1>1 DEF WaitTypeOK
    <3>3. /\ returned' \in Seq(Nat) /\ received' \in Seq(Nat)
          /\ (returned \o received)' = returned \o received
      BY <2>3, <3>1, <3>2, GotMoves
    <3>4. handler' = "idle" /\ nothing' = nothing BY <3>1 DEF WaitReturns
    <3>5. kind # "hybi" BY <1>1, <2>3 DEF WaitTypeOK
    <3>6. WaitTypeOK' /\ ReadsOpen' /\ EndsForGood'
      BY <1>1, <2>1, <3>3, <3>4, <3>5 DEF WaitTypeOK, ReadsOpen, EndsForGood
    <3>7. MessagesKept' BY <1>1, <2>1, <3>3, <3>4, MessagesSame
    <3>8. QED BY <2>2, <3>6, <3>7 DEF ReadIInv
  <2>4. CASE received = <<>>
    <3>1. /\ received' = received /\ returned' = returned
          /\ \/ (iterator = "ended" \/ (kind = "hixie" /\ websocket_closed)) /\ handler' = "returns"
             \/ ~(kind = "hixie" /\ websocket_closed) /\ handler' = "recv" /\ nothing' = nothing
      BY <1>10, <2>4 DEF Wait, ReturnsNothing
    <3>2. WaitTypeOK' BY <1>1, <2>1, <3>1 DEF WaitTypeOK
    <3>3. ReadsOpen' /\ EndsForGood' BY <1>1, <2>1, <3>1 DEF WaitTypeOK, ReadsOpen, EndsForGood, PeerFramesOK
    <3>4. handler' # "closing" BY <3>1
    <3>5. MessagesKept' BY <1>1, <2>1, <3>1, <3>4, MessagesSame
    <3>6. QED BY <2>2, <3>2, <3>3, <3>5 DEF ReadIInv
  <2>5. QED BY <2>3, <2>4
<1>11. CASE RecvHybi BY <1>11, FrameRead
<1>12. ASSUME NEW n \in 1..Len(inbox), RecvHixie(n) PROVE ReadIInv'
  <2> DEFINE k == IF inbox[n] = "close" THEN n - 1 ELSE n
             ones == [i \in 1..k |-> 1]
             all == received \o ones
  <2>1. /\ UNCHANGED <<kind, interrupts, input, gone, iterator, fragmented>> /\ kind = "hixie"
        /\ inbox' = SubSeq(inbox, n + 1, Len(inbox))
        /\ websocket_closed' = (inbox[n] = "close") /\ handler = "recv"
        /\ \/ all # <<>> /\ WaitReturns(Head(all)) /\ received' = Tail(all)
           \/ all = <<>> /\ ReturnsNothing /\ received' = received
    BY <1>12 DEF RecvHixie
  <2>2. MessagesKept' BY <1>1, <1>12, OldMessagesCome
  <2>3. PeerFramesOK'
    <3>1. /\ inbox \in Seq(Frames) /\ Taken \in Nat /\ n \in Nat /\ n <= Len(inbox)
          /\ \A i \in 1..Len(inbox) : inbox[i] = input[Taken + i]
      BY <1>1 DEF PeerFramesOK
    <3>2. inbox' \in Seq(Frames) /\ Len(inbox') = Len(inbox) - n BY <2>1, <3>1
    <3>3. \A i \in 1..Len(inbox') : inbox'[i] = inbox[n + i] BY <2>1, <3>1
    <3>4. Taken' = Taken + n
      <4>1. Len(input) - Len(inbox) = Taken /\ Len(input) - Len(inbox') = Taken' BY <2>1 DEF Taken
      <4>2. Len(input) \in Nat /\ Len(inbox) \in Nat BY <1>1, <3>1 DEF PeerFramesOK
      <4>3. n \in Nat BY <3>1
      <4>4. Len(inbox') = Len(inbox) - n BY <3>2
      <4>5. QED BY <4>1, <4>2, <4>3, <4>4
    <3>5. \A i \in 1..Len(inbox') : inbox'[i] = input[Taken' + i]
      <4>1. SUFFICES ASSUME NEW i \in 1..Len(inbox') PROVE inbox'[i] = input[Taken' + i] OBVIOUS
      <4>2. n + i \in 1..Len(inbox) /\ Taken + (n + i) = Taken' + i BY <3>1, <3>2, <3>4
      <4>3. QED BY <3>1, <3>3, <4>2
    <3>6. Taken' \in Nat BY <3>1, <3>4
    <3>7. QED BY <1>1, <2>1, <3>2, <3>5, <3>6 DEF PeerFramesOK
  <2>4. ones \in Seq(Nat) /\ Len(ones) = k /\ k \in Nat /\ (k = 0 => inbox[n] = "close") OBVIOUS
  <2>5. received \in Seq(Nat) /\ returned \in Seq(Nat) BY <1>1 DEF WaitTypeOK
  <2> HIDE DEF k, ones
  <2>6. all \in Seq(Nat) /\ Len(all) = Len(received) + k
    <3>1. ones \in Seq(Nat) /\ Len(ones) = k /\ received \in Seq(Nat) BY <2>4, <2>5
    <3>2. all \in Seq(Nat) /\ Len(all) = Len(received) + Len(ones) BY ONLY <3>1, NumbersLonger
    <3>3. QED BY <3>1, <3>2
  <2>7. CASE all # <<>>
    <3>1. WaitReturns(Head(all)) /\ received' = Tail(all) BY <2>1, <2>7
    <3> HIDE DEF all
    <3>2. returned' \in Seq(Nat) /\ received' \in Seq(Nat) BY <2>5, <2>6, <2>7, <3>1, GotMoves
    <3>3. handler' = "idle" /\ nothing' = nothing BY <3>1 DEF WaitReturns
    <3>4. WaitTypeOK' BY <1>1, <2>1, <3>2, <3>3 DEF WaitTypeOK
    <3>5. ReadsOpen' /\ EndsForGood' BY <1>1, <2>1, <3>3 DEF WaitTypeOK, ReadsOpen, EndsForGood
    <3>6. QED BY <2>2, <2>3, <3>4, <3>5 DEF ReadIInv
  <2>8. CASE all = <<>>
    <3>1. Len(all) = 0 BY <2>8
    <3>2. inbox[n] = "close" BY <2>4, <2>5, <2>6, <3>1
    <3>3. handler' = "returns" /\ returned' = returned /\ received' = received BY <2>1, <2>8 DEF ReturnsNothing
    <3>4. WaitTypeOK' BY <1>1, <2>1, <3>3 DEF WaitTypeOK
    <3>5. ReadsOpen' /\ EndsForGood' BY <2>1, <3>2, <3>3 DEF ReadsOpen, EndsForGood
    <3>6. QED BY <2>2, <2>3, <3>4, <3>5 DEF ReadIInv
  <2>9. QED BY <2>7, <2>8
<1>13. CASE RecvEof
  <2>1. /\ UNCHANGED <<kind, interrupts, input, inbox, gone, fragmented, received, returned, websocket_closed>>
        /\ gone /\ handler' = "returns"
    BY <1>13 DEF RecvEof, AtEnd, ReturnsNothing
  <2>2. PeerFramesOK' BY <1>1, <2>1, PeerSame
  <2>3. WaitTypeOK' BY <1>1, <2>1 DEF WaitTypeOK
  <2>4. ReadsOpen' /\ EndsForGood' BY <2>1 DEF ReadsOpen, EndsForGood
  <2>5. MessagesKept' BY <1>1, <2>1, MessagesSame
  <2>6. QED BY <2>2, <2>3, <2>4, <2>5 DEF ReadIInv
<1>14. CASE WaitTimeout
  <2>1. /\ UNCHANGED <<kind, input, inbox, gone, fragmented, received, returned, nothing, websocket_closed>>
        /\ "wait" \in interrupts' /\ handler' = "idle" /\ handler = "recv"
    BY <1>14 DEF WaitTimeout
  <2>2. PeerFramesOK' BY <1>1, <2>1, PeerSame
  <2>3. WaitTypeOK' BY <1>1, <2>1 DEF WaitTypeOK
  <2>4. ReadsOpen' /\ EndsForGood' BY <1>1, <2>1 DEF ReadsOpen, EndsForGood
  <2>5. MessagesKept' BY <2>1 DEF MessagesKept
  <2>6. QED BY <2>2, <2>3, <2>4, <2>5 DEF ReadIInv
<1>15. ASSUME PongSent \/ CloseSent \/ CloseAtOnce \/ HandlerReturns PROVE ReadIInv'
  <2>1. /\ UNCHANGED <<kind, interrupts, input, inbox, gone, fragmented, received, returned>>
        /\ \/ handler = "pong" /\ handler' = "recv" /\ UNCHANGED <<iterator, nothing, websocket_closed>>
           \/ websocket_closed' = TRUE /\ handler' \in {"returns", "over"}
           \/ websocket_closed' = websocket_closed /\ handler' = "over" /\ UNCHANGED <<iterator, nothing>>
    BY <1>15 DEF PongSent, CloseSent, CloseAtOnce, HandlerReturns, Closed, ReturnsNothing
  <2>2. PeerFramesOK' BY <1>1, <2>1, PeerSame
  <2>3. WaitTypeOK' BY <1>1, <2>1 DEF WaitTypeOK
  <2>4. ReadsOpen' /\ EndsForGood' BY <1>1, <2>1 DEF ReadsOpen, EndsForGood, WaitTypeOK, PeerFramesOK
  <2>5. handler' # "closing" BY <2>1
  <2>6. MessagesKept' BY <1>1, <2>1, <2>5, MessagesSame
  <2>7. QED BY <2>2, <2>3, <2>4, <2>6 DEF ReadIInv
<1>16. QED
  BY <1>3, <1>4, <1>5, <1>6, <1>7, <1>8, <1>9, <1>10, <1>11, <1>12, <1>13, <1>14, <1>15
  DEF SocketNext, Handles

\* The lock and its queue.
QueueOK ==
  /\ holder \in Threads \cup {NoOne} /\ waiters \in Seq(Threads) /\ IsInjective(waiters)
  /\ ~Contains(waiters, holder)

LEMMA AcquireQueues ==
  ASSUME NoOne \notin Threads, QueueOK, NEW t \in Threads, ~InLine(t), Acquire(t)
  PROVE  QueueOK' /\ \A u : u # NoOne => (InLine(u)' <=> InLine(u) \/ u = t)
<1>1. CASE LockFree
  <2>1. holder' = t /\ waiters' = waiters /\ holder = NoOne BY <1>1 DEF Acquire, LockFree
  <2>2. \A u : Contains(waiters, u)' <=> Contains(waiters, u) BY <2>1 DEF Contains
  <2>3. QED BY <2>1, <2>2 DEF QueueOK, InLine, Contains
<1>2. CASE ~LockFree
  <2>1. holder' = holder /\ waiters' = Append(waiters, t) BY <1>2 DEF Acquire
  <2>2. ~Contains(waiters, t) /\ holder # t BY DEF InLine
  <2>3. /\ waiters' \in Seq(Threads) /\ IsInjective(waiters')
        /\ \A u : Contains(waiters', u) <=> Contains(waiters, u) \/ u = t
    BY <2>1, <2>2, AppendNew DEF QueueOK
  <2>4. QED BY <2>1, <2>2, <2>3 DEF QueueOK, InLine
<1>3. QED BY <1>1, <1>2

LEMMA LockPasses ==
  ASSUME NoOne \notin Threads, QueueOK, LockPassed
  PROVE  QueueOK' /\ \A u : u # NoOne => (InLine(u)' <=> InLine(u))
<1>1. holder = NoOne /\ waiters # <<>> /\ holder' = Head(waiters) /\ waiters' = Tail(waiters) BY DEF LockPassed
<1>2. /\ Head(waiters) \in Threads /\ Contains(waiters, Head(waiters)) /\ Tail(waiters) \in Seq(Threads)
      /\ IsInjective(Tail(waiters))
      /\ \A u : Contains(Tail(waiters), u) <=> Contains(waiters, u) /\ u # Head(waiters)
  BY <1>1, TailOnce DEF QueueOK
<1>3. QueueOK' BY <1>1, <1>2 DEF QueueOK
<1>4. QED BY <1>1, <1>2, <1>3 DEF InLine

LEMMA LockReleased ==
  ASSUME NoOne \notin Threads, QueueOK, NEW t \in Threads, holder = t, holder' = NoOne, waiters' = waiters
  PROVE  QueueOK' /\ \A u : u # NoOne => (InLine(u)' <=> InLine(u) /\ u # t)
<1>1. waiters \in Seq(Threads) /\ ~Contains(waiters, NoOne)
  <2>1. waiters \in Seq(Threads) BY DEF QueueOK
  <2>2. \A i \in 1..Len(waiters) : waiters[i] \in Threads BY <2>1
  <2>3. QED BY <2>1, <2>2 DEF Contains
<1>2. QED BY <1>1 DEF QueueOK, InLine, Contains

LEMMA QueueLeft ==
  ASSUME NoOne \notin Threads, QueueOK, NEW t \in Threads, Contains(waiters, t),
         holder' = holder, waiters' = RemoveFirst(waiters, t)
  PROVE  QueueOK' /\ \A u : u # NoOne => (InLine(u)' <=> InLine(u) /\ u # t)
<1>1. /\ waiters' \in Seq(Threads) /\ IsInjective(waiters')
      /\ \A u : Contains(waiters', u) <=> Contains(waiters, u) /\ u # t
  BY RemoveFirstOnce DEF QueueOK
<1>2. holder # t BY DEF QueueOK
<1>3. QED BY <1>1, <1>2 DEF QueueOK, InLine

\* Who has a frame is in line for the lock, and the handler has one it owes.
LEMMA LockStep ==
  ASSUME FramesSent, PeerFramesOK, WaitTypeOK, LockOK, SocketNext \/ UNCHANGED socketVars PROVE LockOK'
<1>1. /\ NoOne \notin Threads /\ Handler \notin Senders /\ Handler \in Threads /\ Senders \subseteq Threads
      /\ QueueOK
  BY DEF FramesSent, Threads, LockOK, QueueOK
<1>2. /\ frame \in [Threads -> Nat] /\ packed \in Nat /\ wire \in Seq(Int)
      /\ \A t \in Threads : frame[t] # 0 <=> InLine(t)
      /\ InLine(Handler) => Owes
  BY DEF LockOK
<1>3. ASSUME sendVars' = sendVars, Owes => Owes' PROVE LockOK'
  <2>1. UNCHANGED <<holder, waiters, packed, frame, wire>> BY <1>3 DEF sendVars
  <2>2. \A t : InLine(t)' <=> InLine(t) BY <2>1 DEF InLine, Contains
  <2>3. QueueOK' BY <1>1, <2>1 DEF QueueOK, Contains
  <2>4. QED BY <1>2, <1>3, <2>1, <2>2, <2>3 DEF LockOK, QueueOK
<1>4. ASSUME sendVars' = sendVars, ~Owes PROVE LockOK' BY <1>3, <1>4
<1>5. ASSUME NEW t \in Threads, NEW k \in Nat, frame' = [frame EXCEPT ![t] = k], QueueOK',
             \A u : u # NoOne => (InLine(u)' <=> IF k # 0 THEN InLine(u) \/ u = t ELSE InLine(u) /\ u # t),
             packed' \in Nat, wire' \in Seq(Int), InLine(Handler)' => Owes'
      PROVE  LockOK'
  <2>1. frame' \in [Threads -> Nat] /\ frame'[t] = k /\ \A u \in Threads \ {t} : frame'[u] = frame[u]
    BY <1>2, <1>5
  <2>2. ASSUME NEW u \in Threads PROVE frame'[u] # 0 <=> InLine(u)'
    <3>1. u # NoOne BY <1>1
    <3>2. CASE k # 0
      <4>1. InLine(u)' <=> InLine(u) \/ u = t BY <1>5, <3>1, <3>2
      <4>2. QED BY <1>2, <2>1, <3>2, <4>1
    <3>3. CASE k = 0
      <4>1. InLine(u)' <=> InLine(u) /\ u # t BY <1>5, <3>1, <3>3
      <4>2. QED BY <1>2, <2>1, <3>3, <4>1
    <3>4. QED BY <3>2, <3>3
  <2>3. QED BY <1>5, <2>1, <2>2 DEF LockOK, QueueOK
<1>6. UNCHANGED <<kind, handler, websocket_closed>> => (Owes' <=> Owes) BY DEF Owes
<1>7. ASSUME NEW s \in Senders, Send(s) PROVE LockOK'
  <2>1. /\ frame[s] = 0 /\ packed' = packed + 1 /\ frame' = [frame EXCEPT ![s] = packed']
        /\ Acquire(s) /\ UNCHANGED <<kind, handler, websocket_closed, wire>>
    BY <1>7 DEF Send
  <2>2. ~InLine(s) /\ s \in Threads /\ s # Handler /\ Handler # NoOne BY <1>1, <1>2, <2>1
  <2>3. QueueOK' /\ \A u : u # NoOne => (InLine(u)' <=> InLine(u) \/ u = s)
    BY <1>1, <2>1, <2>2, AcquireQueues
  <2>4. packed' \in Nat /\ packed' # 0 BY <1>2, <2>1
  <2>5. InLine(Handler)' => Owes' BY <1>2, <1>6, <2>1, <2>2, <2>3
  <2>6. QED BY <1>2, <1>5, <2>1, <2>2, <2>3, <2>4, <2>5
<1>8. CASE LockPassed
  <2>1. UNCHANGED <<kind, handler, websocket_closed, packed, frame, wire>> BY <1>8 DEF LockPassed
  <2>2. QueueOK' /\ \A u : u # NoOne => (InLine(u)' <=> InLine(u)) BY <1>1, <1>8, LockPasses
  <2>3. QED BY <1>1, <1>2, <1>6, <2>1, <2>2 DEF LockOK, QueueOK
<1>9. ASSUME NEW s \in Senders, Sent(s) PROVE LockOK'
  <2>1. /\ holder = s /\ holder' = NoOne /\ waiters' = waiters /\ frame' = [frame EXCEPT ![s] = 0]
        /\ UNCHANGED <<kind, handler, websocket_closed, packed>>
        /\ wire' = Append(wire, frame[s]) \/ wire' = wire
    BY <1>9 DEF Sent
  <2>2. s \in Threads /\ Handler # NoOne /\ frame[s] \in Int BY <1>1, <1>2
  <2>3. QueueOK' /\ \A u : u # NoOne => (InLine(u)' <=> InLine(u) /\ u # s) BY <1>1, <2>1, <2>2, LockReleased
  <2>4. wire' \in Seq(Int)
    <3>1. wire \in Seq(Int) /\ frame[s] \in Int /\ (wire' = Append(wire, frame[s]) \/ wire' = wire)
      BY <1>2, <2>1, <2>2
    <3>2. Append(wire, frame[s]) \in Seq(Int) BY ONLY <3>1
    <3>3. QED BY <3>1, <3>2
  <2>5. InLine(Handler)' => Owes' BY <1>2, <1>6, <2>1, <2>2, <2>3
  <2>6. QED BY <1>2, <1>5, <2>1, <2>2, <2>3, <2>4, <2>5
<1>10. ASSUME NEW s \in Senders, SendTimeout(s) PROVE LockOK'
  <2>1. /\ Contains(waiters, s) /\ waiters' = RemoveFirst(waiters, s) /\ holder' = holder
        /\ frame' = [frame EXCEPT ![s] = 0] /\ UNCHANGED <<kind, handler, websocket_closed, packed, wire>>
    BY <1>10 DEF SendTimeout
  <2>2. s \in Threads /\ Handler # NoOne BY <1>1
  <2>3. QueueOK' /\ \A u : u # NoOne => (InLine(u)' <=> InLine(u) /\ u # s) BY <1>1, <2>1, <2>2, QueueLeft
  <2>4. InLine(Handler)' => Owes' BY <1>2, <1>6, <2>1, <2>2, <2>3
  <2>5. QED BY <1>2, <1>5, <2>1, <2>2, <2>3, <2>4
<1>11. CASE HandlerSends
  <2>1. /\ Owes /\ frame[Handler] = 0 /\ frame' = [frame EXCEPT ![Handler] = 1] /\ Acquire(Handler)
        /\ UNCHANGED <<kind, handler, websocket_closed, packed, wire>>
    BY <1>11 DEF HandlerSends
  <2>2. ~InLine(Handler) BY <1>1, <1>2, <2>1
  <2>3. QueueOK' /\ \A u : u # NoOne => (InLine(u)' <=> InLine(u) \/ u = Handler)
    BY <1>1, <2>1, <2>2, AcquireQueues
  <2>4. Owes' BY <1>6, <2>1
  <2>5. packed' \in Nat /\ wire' \in Seq(Int) BY <1>2, <2>1
  <2>6. 1 \in Nat /\ 1 # 0 OBVIOUS
  <2>7. frame' = [frame EXCEPT ![Handler] = 1] BY <2>1
  <2>8. \A u : u # NoOne => (InLine(u)' <=> IF 1 # 0 THEN InLine(u) \/ u = Handler ELSE InLine(u) /\ u # Handler)
    BY <2>3
  <2>9. QED BY <1>1, <1>5, <2>3, <2>4, <2>5, <2>6, <2>7, <2>8
<1>12. CASE PongSent \/ CloseSent
  <2>1. /\ holder = Handler /\ holder' = NoOne /\ waiters' = waiters /\ frame' = [frame EXCEPT ![Handler] = 0]
        /\ packed' = packed /\ \E m \in {PongFrame, ClosingFrame} : wire' = Append(wire, m)
    BY <1>12 DEF PongSent, CloseSent
  <2>2. QueueOK' /\ \A u : u # NoOne => (InLine(u)' <=> InLine(u) /\ u # Handler) BY <1>1, <2>1, LockReleased
  <2>3. wire' \in Seq(Int) BY <1>2, <2>1 DEF PongFrame, ClosingFrame
  <2>4. ~InLine(Handler)' BY <1>1, <2>2
  <2>5. QED BY <1>1, <1>2, <1>5, <2>1, <2>2, <2>3, <2>4
<1>13. CASE CloseAtOnce
  <2>1. /\ UNCHANGED <<kind, holder, waiters, packed, frame>> /\ ~Owes
        /\ wire' = Append(wire, ClosingFrame) \/ wire' = wire
    BY <1>13 DEF CloseAtOnce, Owes
  <2>2. \A t : InLine(t)' <=> InLine(t) BY <2>1 DEF InLine, Contains
  <2>3. QueueOK' BY <1>1, <2>1 DEF QueueOK, Contains
  <2>4. wire' \in Seq(Int)
    <3>1. ClosingFrame \in Int BY DEF ClosingFrame
    <3>2. Append(wire, ClosingFrame) \in Seq(Int) BY <1>2, <3>1
    <3>3. QED BY <1>2, <2>1, <3>2
  <2>5. QED BY <1>2, <2>1, <2>2, <2>3, <2>4 DEF LockOK, QueueOK
<1>14. CASE Wait \/ RecvHybi \/ RecvEof \/ WaitTimeout \/ HandlerReturns \/ \E n \in 1..Len(inbox) : RecvHixie(n)
  <2>1. sendVars' = sendVars BY <1>14 DEF Wait, RecvHybi, RecvEof, WaitTimeout, HandlerReturns, RecvHixie
  <2>2. ~Owes
    BY <1>14 DEF Owes, Wait, RecvHybi, RecvEof, WaitTimeout, HandlerReturns, RecvHixie
  <2>3. QED BY <1>4, <2>1, <2>2
<1>15. CASE PeerLeaves \/ ServerCloses \/ UNCHANGED socketVars
  BY <1>3, <1>6, <1>15 DEF PeerLeaves, ServerCloses, socketVars
<1>16. QED
  BY <1>7, <1>8, <1>9, <1>10, <1>11, <1>12, <1>13, <1>14, <1>15 DEF SocketNext, Handles

\* A frame is added to the wire.
LEMMA WireGrows ==
  ASSUME wire \in Seq(Int), NEW x \in Int, wire' = Append(wire, x)
  PROVE  /\ OnWire' = OnWire \cup ({x} \ {PongFrame, ClosingFrame})
         /\ NumbersInOrder /\ (x > 0 => OnWire = 1..(x - 1)) => NumbersInOrder'
         /\ ClosingFrame \in Int
         /\ \A i \in 1..Len(wire') : (i \in 1..Len(wire) /\ wire'[i] = wire[i]) \/ (i = Len(wire) + 1 /\ wire'[i] = x)
<1>1. /\ Len(wire) \in Nat /\ Len(wire') = Len(wire) + 1 /\ wire'[Len(wire) + 1] = x
      /\ \A i \in 1..Len(wire) : wire'[i] = wire[i]
  OBVIOUS
<1>2. \A i \in 1..Len(wire') : (i \in 1..Len(wire) /\ wire'[i] = wire[i]) \/ (i = Len(wire) + 1 /\ wire'[i] = x)
  <2>1. ASSUME NEW i \in 1..Len(wire') PROVE i \in 1..Len(wire) \/ i = Len(wire) + 1 BY <1>1
  <2>2. QED BY <1>1, <2>1
<1>3. OnWire' = OnWire \cup ({x} \ {PongFrame, ClosingFrame})
  <2>1. {wire'[i] : i \in 1..Len(wire')} = {wire[i] : i \in 1..Len(wire)} \cup {x} BY <1>1, <1>2
  <2>2. QED BY <2>1 DEF OnWire
<1>4. ASSUME NumbersInOrder, x > 0 => OnWire = 1..(x - 1) PROVE NumbersInOrder'
  <2>1. SUFFICES ASSUME NEW i \in 1..Len(wire'), wire'[i] > 0
                 PROVE  {wire'[j] : j \in 1..(i - 1)} \ {PongFrame, ClosingFrame} = 1..(wire'[i] - 1)
    BY DEF NumbersInOrder
  <2>2. {wire'[j] : j \in 1..(i - 1)} = {wire[j] : j \in 1..(i - 1)}
    <3>1. \A j \in 1..(i - 1) : j \in 1..Len(wire) /\ wire'[j] = wire[j] BY <1>1
    <3>2. QED BY <3>1
  <2>3. CASE i \in 1..Len(wire)
    <3>1. wire'[i] = wire[i] BY <1>1, <2>3
    <3>2. QED BY <1>4, <2>1, <2>2, <2>3, <3>1 DEF NumbersInOrder
  <2>4. CASE i = Len(wire) + 1
    <3>1. wire'[i] = x /\ i - 1 = Len(wire) BY <1>1, <2>4
    <3>2. {wire[j] : j \in 1..(i - 1)} \ {PongFrame, ClosingFrame} = OnWire BY <3>1 DEF OnWire
    <3>3. QED BY <1>4, <2>1, <2>2, <3>1, <3>2
  <2>5. QED BY <1>2, <2>3, <2>4
<1>5. QED BY <1>2, <1>3, <1>4 DEF ClosingFrame

\* Whoever has packed is on the wire or in line: the message that goes out is the next.
LEMMA NextNumber ==
  ASSUME FramesSent, LockOK, PackedInOrder, NEW s \in Senders, holder = s
  PROVE  /\ frame[s] \in Nat \ {0} /\ OnWire = 1..(frame[s] - 1)
         /\ \A t \in Senders \ {s} : frame[t] # 0 => frame[s] < frame[t]
<1>1. Senders \subseteq Threads /\ frame \in [Threads -> Nat] /\ frame[s] # 0 /\ packed \in Nat
  BY DEF FramesSent, Threads, LockOK, InLine
<1>2. ASSUME NEW t \in Senders \ {s}, frame[t] # 0 PROVE frame[s] < frame[t]
  <2>1. Contains(waiters, t) BY <1>1, <1>2 DEF LockOK, InLine
  <2>2. PICK i \in 1..Len(waiters) : waiters[i] = t BY <2>1 DEF Contains
  <2>3. QED BY <2>2 DEF PackedInOrder
<1>3. ASSUME NEW m \in OnWire PROVE m \in 1..(frame[s] - 1)
  <2>1. m \in 1..packed /\ m < frame[s] BY <1>1 DEF PackedInOrder
  <2>2. QED BY <1>1, <2>1
<1>4. ASSUME NEW k \in 1..(frame[s] - 1) PROVE k \in OnWire
  <2>1. frame[s] <= packed /\ frame[s] \in Nat BY <1>1 DEF PackedInOrder
  <2>2. k \in 1..packed /\ k # 0 BY <1>1, <2>1
  <2>3. k \in OnWire \/ \E t \in Senders : frame[t] = k BY <2>2 DEF PackedInOrder
  <2>4. ASSUME NEW t \in Senders, frame[t] = k PROVE FALSE
    <3>1. t # s BY <1>1, <2>4
    <3>2. frame[s] < k BY <1>2, <2>2, <2>4, <3>1
    <3>3. QED BY <2>1, <3>2
  <2>5. QED BY <2>3, <2>4
<1>5. QED BY <1>1, <1>2, <1>3, <1>4

\* What a step sends.
LEMMA WireStep ==
  ASSUME SocketNext \/ UNCHANGED socketVars
  PROVE  \/ wire' = wire
         \/ \E s \in Senders : Sent(s) /\ open /\ wire' = Append(wire, frame[s])
         \/ PongSent /\ wire' = Append(wire, PongFrame)
         \/ (CloseSent \/ CloseAtOnce) /\ wire' = Append(wire, ClosingFrame)
BY DEF SocketNext, Handles, socketVars, sendVars, Send, LockPassed, Sent, SendTimeout, PeerLeaves, Wait, RecvHixie,
       RecvHybi, RecvEof, WaitTimeout, HandlerSends, PongSent, CloseSent, CloseAtOnce, HandlerReturns, ServerCloses

LEMMA NumbersStep ==
  ASSUME FramesSent, LockOK, NumbersInOrder, open => PackedInOrder, SocketNext \/ UNCHANGED socketVars
  PROVE  NumbersInOrder'
<1>1. wire \in Seq(Int) BY DEF LockOK
<1>2. CASE wire' = wire BY <1>2 DEF NumbersInOrder
<1>3. ASSUME NEW x \in {PongFrame, ClosingFrame}, wire' = Append(wire, x) PROVE NumbersInOrder'
  <2>1. x \in Int /\ ~(x > 0) BY DEF PongFrame, ClosingFrame
  <2>2. QED BY <1>1, <1>3, <2>1, WireGrows
<1>4. ASSUME NEW s \in Senders, Sent(s), open, wire' = Append(wire, frame[s]) PROVE NumbersInOrder'
  <2>1. holder = s BY <1>4 DEF Sent
  <2>2. frame[s] \in Int /\ OnWire = 1..(frame[s] - 1) BY <1>4, <2>1, NextNumber
  <2>3. QED BY <1>1, <1>4, <2>2, WireGrows
<1>5. QED BY <1>2, <1>3, <1>4, WireStep

\* The senders' frames, and their places in line, stay in the order of the numbers.
LEMMA PackedStep ==
  ASSUME FramesSent, LockOK, PackedInOrder, "send" \notin interrupts', open', open,
         SocketNext \/ UNCHANGED socketVars
  PROVE  PackedInOrder'
<1>1. /\ NoOne \notin Threads /\ Senders \subseteq Threads /\ Handler \notin Senders /\ Handler \in Threads
      /\ frame \in [Threads -> Nat] /\ packed \in Nat /\ wire \in Seq(Int)
      /\ waiters \in Seq(Threads) /\ Len(waiters) \in Nat /\ IsInjective(waiters) /\ ~Contains(waiters, holder)
      /\ \A t \in Threads : frame[t] # 0 <=> InLine(t)
  BY DEF FramesSent, Threads, LockOK
<1>2. ASSUME packed' = packed, OnWire' = OnWire, \A s \in Senders : frame'[s] = frame[s],
             \A i, j \in 1..Len(waiters') : i < j /\ waiters'[i] \in Senders /\ waiters'[j] \in Senders =>
               frame[waiters'[i]] < frame[waiters'[j]],
             holder' \in Senders => \A i \in 1..Len(waiters') : waiters'[i] \in Senders =>
               frame[holder'] < frame[waiters'[i]]
      PROVE  PackedInOrder'
  <2>1. /\ \A i, j \in 1..Len(waiters') : i < j /\ waiters'[i] \in Senders /\ waiters'[j] \in Senders =>
              frame'[waiters'[i]] < frame'[waiters'[j]]
        /\ holder' \in Senders =>
             \A i \in 1..Len(waiters') : waiters'[i] \in Senders => frame'[holder'] < frame'[waiters'[i]]
    BY <1>2
  <2>2. /\ OnWire' \subseteq 1..packed'
        /\ \A k \in 1..packed' : k \in OnWire' \/ \E s \in Senders : frame'[s] = k
        /\ \A s \in Senders : frame'[s] <= packed'
        /\ \A s \in Senders : \A m \in OnWire' : frame'[s] # 0 => m < frame'[s]
    BY <1>2 DEF PackedInOrder
  <2>3. QED BY <2>1, <2>2 DEF PackedInOrder
<1>3. ASSUME UNCHANGED <<holder, waiters, packed, frame>>, OnWire' = OnWire PROVE PackedInOrder'
  BY <1>2, <1>3 DEF PackedInOrder
<1>4. wire' = wire => OnWire' = OnWire BY DEF OnWire
<1>5. ASSUME NEW s \in Senders, Send(s) PROVE PackedInOrder'
  <2>1. /\ frame[s] = 0 /\ packed' = packed + 1 /\ frame' = [frame EXCEPT ![s] = packed'] /\ wire' = wire
        /\ Acquire(s)
    BY <1>5 DEF Send
  <2>2. s \in Threads /\ ~InLine(s) /\ frame'[s] = packed + 1 /\ \A t \in Senders \ {s} : frame'[t] = frame[t]
    BY <1>1, <2>1
  <2>3. \A t \in Senders : frame[t] \in Nat /\ frame[t] <= packed BY <1>1 DEF PackedInOrder
  <2>4. OnWire' \subseteq 1..packed /\ OnWire' = OnWire BY <1>4, <2>1 DEF PackedInOrder
  <2>5. OnWire' \subseteq 1..packed' BY <1>1, <2>1, <2>4
  <2>6. ASSUME NEW k \in 1..packed' PROVE k \in OnWire' \/ \E t \in Senders : frame'[t] = k
    <3>1. CASE k = packed' BY <2>1, <2>2, <3>1
    <3>2. CASE k # packed'
      <4>1. k \in 1..packed /\ k # 0 BY <1>1, <2>1, <3>2
      <4>2. k \in OnWire \/ \E t \in Senders : frame[t] = k BY <4>1 DEF PackedInOrder
      <4>3. QED BY <2>1, <2>2, <2>4, <4>1, <4>2
    <3>3. QED BY <3>1, <3>2
  <2>7. \A t \in Senders : frame'[t] <= packed' BY <1>1, <2>1, <2>2, <2>3
  <2>8. ASSUME NEW t \in Senders, NEW m \in OnWire', frame'[t] # 0 PROVE m < frame'[t]
    <3>1. CASE t = s BY <1>1, <2>2, <2>4, <3>1
    <3>2. CASE t # s BY <2>2, <2>4, <2>8, <3>2 DEF PackedInOrder
    <3>3. QED BY <3>1, <3>2
  <2>9. \A i \in 1..Len(waiters) : waiters[i] # s BY <2>2 DEF InLine, Contains
  <2>10. /\ \A i, j \in 1..Len(waiters') : i < j /\ waiters'[i] \in Senders /\ waiters'[j] \in Senders =>
              frame'[waiters'[i]] < frame'[waiters'[j]]
         /\ holder' \in Senders =>
              \A i \in 1..Len(waiters') : waiters'[i] \in Senders => frame'[holder'] < frame'[waiters'[i]]
    <3>1. CASE LockFree
      <4>1. waiters' = <<>> BY <2>1, <3>1 DEF Acquire, LockFree
      <4>2. QED BY <4>1
    <3>2. CASE ~LockFree
      <4>1. holder' = holder /\ waiters' = Append(waiters, s) BY <2>1, <3>2 DEF Acquire
      <4>2. /\ Len(waiters') = Len(waiters) + 1 /\ waiters'[Len(waiters) + 1] = s
            /\ \A i \in 1..Len(waiters) : waiters'[i] = waiters[i]
        BY <1>1, <2>2, <4>1
      <4>3. ASSUME NEW i \in 1..Len(waiters'), NEW j \in 1..Len(waiters'), i < j,
                   waiters'[i] \in Senders, waiters'[j] \in Senders
            PROVE  frame'[waiters'[i]] < frame'[waiters'[j]]
        <5>1. i \in 1..Len(waiters) BY <1>1, <4>2, <4>3
        <5>2. waiters'[i] = waiters[i] /\ waiters[i] # s /\ frame'[waiters[i]] = frame[waiters[i]]
          BY <2>2, <2>9, <4>2, <4>3, <5>1
        <5>3. CASE j \in 1..Len(waiters)
          <6>1. waiters'[j] = waiters[j] /\ waiters[j] # s /\ frame'[waiters[j]] = frame[waiters[j]]
            BY <2>2, <2>9, <4>2, <4>3, <5>3
          <6>2. QED BY <4>3, <5>1, <5>2, <5>3, <6>1 DEF PackedInOrder
        <5>4. CASE j = Len(waiters) + 1
          <6>1. frame'[waiters'[j]] = packed + 1 BY <2>2, <4>2, <5>4
          <6>2. frame[waiters[i]] \in Nat /\ frame[waiters[i]] <= packed BY <2>3, <4>3, <5>2
          <6>3. QED BY <1>1, <5>2, <6>1, <6>2
        <5>5. QED BY <4>2, <5>3, <5>4
      <4>4. ASSUME holder' \in Senders, NEW i \in 1..Len(waiters'), waiters'[i] \in Senders
            PROVE  frame'[holder'] < frame'[waiters'[i]]
        <5>1. holder' = holder /\ holder # s /\ frame'[holder] = frame[holder]
          BY <2>2, <4>1, <4>4 DEF InLine
        <5>2. CASE i \in 1..Len(waiters)
          <6>1. waiters'[i] = waiters[i] /\ waiters[i] # s /\ frame'[waiters[i]] = frame[waiters[i]]
            BY <2>2, <2>9, <4>2, <4>4, <5>2
          <6>2. QED BY <4>4, <5>1, <5>2, <6>1 DEF PackedInOrder
        <5>3. CASE i = Len(waiters) + 1
          <6>1. frame'[waiters'[i]] = packed + 1 BY <2>2, <4>2, <5>3
          <6>2. frame[holder] \in Nat /\ frame[holder] <= packed BY <2>3, <4>4, <5>1
          <6>3. QED BY <1>1, <5>1, <6>1, <6>2
        <5>4. QED BY <4>2, <5>2, <5>3
      <4>5. QED BY <4>3, <4>4
    <3>3. QED BY <3>1, <3>2
  <2>11. QED BY <2>5, <2>6, <2>7, <2>8, <2>10 DEF PackedInOrder
<1>6. CASE LockPassed
  <2>1. /\ waiters # <<>> /\ holder' = Head(waiters) /\ waiters' = Tail(waiters)
        /\ UNCHANGED <<packed, frame, wire>>
    BY <1>6 DEF LockPassed
  <2>2. /\ holder' = waiters[1] /\ Len(waiters) \in Nat \ {0} /\ Len(waiters') = Len(waiters) - 1
        /\ \A i \in 1..Len(waiters') : i + 1 \in 1..Len(waiters) /\ waiters'[i] = waiters[i + 1]
    BY <1>1, <2>1
  <2>3. ASSUME NEW i \in 1..Len(waiters'), NEW j \in 1..Len(waiters'), i < j,
               waiters'[i] \in Senders, waiters'[j] \in Senders
        PROVE  frame[waiters'[i]] < frame[waiters'[j]]
    <3>1. i + 1 < j + 1 /\ i + 1 \in 1..Len(waiters) /\ j + 1 \in 1..Len(waiters) BY <2>2, <2>3
    <3>2. waiters[i + 1] \in Senders /\ waiters[j + 1] \in Senders BY <2>2, <2>3
    <3>3. frame[waiters[i + 1]] < frame[waiters[j + 1]] BY <3>1, <3>2 DEF PackedInOrder
    <3>4. QED BY <2>2, <3>3
  <2>4. ASSUME holder' \in Senders, NEW i \in 1..Len(waiters'), waiters'[i] \in Senders
        PROVE  frame[holder'] < frame[waiters'[i]]
    <3>1. 1 < i + 1 /\ i + 1 \in 1..Len(waiters) /\ 1 \in 1..Len(waiters) BY <2>2
    <3>2. waiters[1] \in Senders /\ waiters[i + 1] \in Senders BY <2>2, <2>4
    <3>3. frame[waiters[1]] < frame[waiters[i + 1]] BY <3>1, <3>2 DEF PackedInOrder
    <3>4. QED BY <2>2, <3>3
  <2>5. QED BY <1>2, <1>4, <2>1, <2>3, <2>4
<1>7. ASSUME NEW s \in Senders, Sent(s) PROVE PackedInOrder'
  <2>1. /\ holder = s /\ holder' = NoOne /\ waiters' = waiters /\ packed' = packed
        /\ frame' = [frame EXCEPT ![s] = 0] /\ wire' = Append(wire, frame[s])
    BY <1>7 DEF Sent
  <2>2. /\ frame[s] \in Nat \ {0} /\ OnWire = 1..(frame[s] - 1)
        /\ \A t \in Senders \ {s} : frame[t] # 0 => frame[s] < frame[t]
    BY <2>1, NextNumber
  <2>3. frame'[s] = 0 /\ \A t \in Senders \ {s} : frame'[t] = frame[t] /\ frame[t] \in Nat BY <1>1, <2>1
  <2>4. OnWire' = OnWire \cup {frame[s]}
    <3>1. frame[s] \in Int BY <2>2
    <3>2. OnWire' = OnWire \cup ({frame[s]} \ {PongFrame, ClosingFrame}) BY <1>1, <2>1, <3>1, WireGrows
    <3>3. frame[s] # PongFrame /\ frame[s] # ClosingFrame BY <2>2 DEF PongFrame, ClosingFrame
    <3>4. QED BY <3>2, <3>3
  <2>5. frame[s] <= packed BY DEF PackedInOrder
  <2>6. OnWire' \subseteq 1..packed' BY <1>1, <2>1, <2>2, <2>4, <2>5
  <2>7. ASSUME NEW k \in 1..packed' PROVE k \in OnWire' \/ \E t \in Senders : frame'[t] = k
    <3>1. k \in OnWire \/ \E t \in Senders : frame[t] = k BY <2>1 DEF PackedInOrder
    <3>2. QED BY <2>3, <2>4, <3>1
  <2>8. \A t \in Senders : frame'[t] <= packed' BY <1>1, <2>1, <2>3 DEF PackedInOrder
  <2>9. ASSUME NEW t \in Senders, NEW m \in OnWire', frame'[t] # 0 PROVE m < frame'[t]
    <3>1. t # s /\ frame'[t] = frame[t] BY <2>3, <2>9
    <3>2. CASE m = frame[s] BY <2>2, <2>9, <3>1, <3>2
    <3>3. CASE m # frame[s]
      <4>1. m \in OnWire BY <2>4, <3>3
      <4>2. QED BY <2>9, <3>1, <4>1 DEF PackedInOrder
    <3>4. QED BY <3>2, <3>3
  <2>10. ASSUME NEW i \in 1..Len(waiters'), NEW j \in 1..Len(waiters'), i < j,
                waiters'[i] \in Senders, waiters'[j] \in Senders
         PROVE  frame'[waiters'[i]] < frame'[waiters'[j]]
    <3>1. waiters[i] # s /\ waiters[j] # s BY <1>1, <2>1, <2>10 DEF Contains
    <3>2. frame[waiters[i]] < frame[waiters[j]] BY <2>1, <2>10 DEF PackedInOrder
    <3>3. QED BY <2>1, <2>3, <2>10, <3>1, <3>2
  <2>11. holder' \notin Senders BY <1>1, <2>1
  <2>12. QED BY <2>6, <2>7, <2>8, <2>9, <2>10, <2>11 DEF PackedInOrder
<1>8. CASE HandlerSends
  <2>1. /\ frame[Handler] = 0 /\ frame' = [frame EXCEPT ![Handler] = 1] /\ Acquire(Handler)
        /\ UNCHANGED <<packed, wire>>
    BY <1>8 DEF HandlerSends
  <2>2. \A t \in Senders : frame'[t] = frame[t] BY <1>1, <2>1
  <2>3. CASE LockFree
    <3>1. holder' = Handler /\ waiters' = waiters BY <2>1, <2>3 DEF Acquire
    <3>2. holder' \notin Senders BY <1>1, <3>1
    <3>3. \A i, j \in 1..Len(waiters') : i < j /\ waiters'[i] \in Senders /\ waiters'[j] \in Senders =>
            frame[waiters'[i]] < frame[waiters'[j]]
      BY <3>1 DEF PackedInOrder
    <3>4. QED BY <1>2, <1>4, <2>1, <2>2, <3>2, <3>3
  <2>4. CASE ~LockFree
    <3>1. holder' = holder /\ waiters' = Append(waiters, Handler) BY <2>1, <2>4 DEF Acquire
    <3>2. /\ Len(waiters') = Len(waiters) + 1 /\ waiters'[Len(waiters) + 1] = Handler
          /\ \A i \in 1..Len(waiters) : waiters'[i] = waiters[i]
      BY <1>1, <3>1
    <3>3. \A i \in 1..Len(waiters') : waiters'[i] \in Senders => i \in 1..Len(waiters) /\ waiters'[i] = waiters[i]
      BY <1>1, <3>2
    <3>4. \A i, j \in 1..Len(waiters') : i < j /\ waiters'[i] \in Senders /\ waiters'[j] \in Senders =>
            frame[waiters'[i]] < frame[waiters'[j]]
      BY <3>3 DEF PackedInOrder
    <3>5. holder' \in Senders => \A i \in 1..Len(waiters') : waiters'[i] \in Senders =>
            frame[holder'] < frame[waiters'[i]]
      BY <3>1, <3>3 DEF PackedInOrder
    <3>6. QED BY <1>2, <1>4, <2>1, <2>2, <3>4, <3>5
  <2>5. QED BY <2>3, <2>4
<1>9. CASE PongSent \/ CloseSent
  <2>1. /\ holder' = NoOne /\ waiters' = waiters /\ packed' = packed /\ frame' = [frame EXCEPT ![Handler] = 0]
        /\ \E x \in {PongFrame, ClosingFrame} : wire' = Append(wire, x)
    BY <1>9 DEF PongSent, CloseSent
  <2>2. \A t \in Senders : frame'[t] = frame[t] BY <1>1, <2>1
  <2>3. OnWire' = OnWire
    <3>1. PICK x \in {PongFrame, ClosingFrame} : wire' = Append(wire, x) BY <2>1
    <3>2. x \in Int BY DEF PongFrame, ClosingFrame
    <3>3. OnWire' = OnWire \cup ({x} \ {PongFrame, ClosingFrame}) BY <1>1, <3>1, <3>2, WireGrows
    <3>4. QED BY <3>3
  <2>4. holder' \notin Senders BY <1>1, <2>1
  <2>5. \A i, j \in 1..Len(waiters') : i < j /\ waiters'[i] \in Senders /\ waiters'[j] \in Senders =>
          frame[waiters'[i]] < frame[waiters'[j]]
    BY <2>1 DEF PackedInOrder
  <2>6. QED BY <1>2, <2>1, <2>2, <2>3, <2>4, <2>5
<1>10. CASE CloseAtOnce
  <2>1. UNCHANGED <<holder, waiters, packed, frame>> /\ (wire' = wire \/ wire' = Append(wire, ClosingFrame))
    BY <1>10 DEF CloseAtOnce
  <2>2. OnWire' = OnWire
    <3>1. ClosingFrame \in Int BY DEF ClosingFrame
    <3>2. CASE wire' = Append(wire, ClosingFrame)
      <4>1. OnWire' = OnWire \cup ({ClosingFrame} \ {PongFrame, ClosingFrame}) BY <1>1, <3>1, <3>2, WireGrows
      <4>2. QED BY <4>1
    <3>3. QED BY <1>4, <2>1, <3>2
  <2>3. QED BY <1>3, <2>1, <2>2
<1>11. CASE Wait \/ RecvHybi \/ RecvEof \/ WaitTimeout \/ HandlerReturns \/ (\E n \in 1..Len(inbox) : RecvHixie(n))
            \/ PeerLeaves \/ ServerCloses \/ UNCHANGED socketVars
  <2>1. sendVars' = sendVars
    BY <1>11 DEF Wait, RecvHybi, RecvEof, WaitTimeout, HandlerReturns, RecvHixie, PeerLeaves, ServerCloses, socketVars
  <2>2. UNCHANGED <<holder, waiters, packed, frame, wire>> BY <2>1 DEF sendVars
  <2>3. QED BY <1>3, <1>4, <2>2
<1>12. ASSUME NEW s \in Senders, SendTimeout(s) PROVE FALSE BY <1>12 DEF SendTimeout
<1>13. QED
  BY <1>5, <1>6, <1>7, <1>8, <1>9, <1>10, <1>11, <1>12 DEF SocketNext, Handles

\* A closing frame is sent by a websocket that is not closed, and closes it.
LEMMA ClosingStep ==
  ASSUME LockOK, ClosingOnce, FramesSent, SocketNext \/ UNCHANGED socketVars PROVE ClosingOnce'
<1> DEFINE SentClose == \E i \in 1..Len(wire) : wire[i] = ClosingFrame
           SentClose_ == \E i \in 1..Len(wire') : wire'[i] = ClosingFrame
<1>1. wire \in Seq(Int) /\ Len(wire) \in Nat BY DEF LockOK
<1>2. SentClose => websocket_closed /\ handler \in {"returns", "over"} BY DEF ClosingOnce
<1>3. ASSUME SentClose => websocket_closed' /\ handler' \in {"returns", "over"},
             wire' = wire \/ \E x \in Int \ {ClosingFrame} : wire' = Append(wire, x)
      PROVE  ClosingOnce'
  <2>1. \A i \in 1..Len(wire') : wire'[i] = ClosingFrame => i \in 1..Len(wire) /\ wire[i] = ClosingFrame
    <3>1. CASE wire' = wire BY <3>1
    <3>2. ASSUME NEW x \in Int \ {ClosingFrame}, wire' = Append(wire, x)
          PROVE  \A i \in 1..Len(wire') : wire'[i] = ClosingFrame => i \in 1..Len(wire) /\ wire[i] = ClosingFrame
      <4>1. \A i \in 1..Len(wire') : (i \in 1..Len(wire) /\ wire'[i] = wire[i]) \/ (i = Len(wire) + 1 /\ wire'[i] = x)
        BY <1>1, <3>2, WireGrows
      <4>2. QED BY <3>2, <4>1
    <3>3. QED BY <1>3, <3>1, <3>2
  <2>2. \A i, j \in 1..Len(wire') : wire'[i] = ClosingFrame /\ wire'[j] = ClosingFrame => i = j
    BY <2>1 DEF ClosingOnce
  <2>3. SentClose_ => SentClose BY <2>1
  <2>4. QED BY <1>3, <2>2, <2>3 DEF ClosingOnce
<1>4. ASSUME ~websocket_closed, websocket_closed', handler' \in {"returns", "over"}, wire' = Append(wire, ClosingFrame)
      PROVE  ClosingOnce'
  <2>1. \A i \in 1..Len(wire) : wire[i] # ClosingFrame BY <1>2, <1>4
  <2>2. \A i \in 1..Len(wire') : (i \in 1..Len(wire) /\ wire'[i] = wire[i]) \/ i = Len(wire) + 1
    <3>1. ClosingFrame \in Int BY DEF ClosingFrame
    <3>2. QED BY <1>1, <1>4, <3>1, WireGrows
  <2>3. \A i \in 1..Len(wire') : wire'[i] = ClosingFrame => i = Len(wire) + 1 BY <2>1, <2>2
  <2>4. \A i, j \in 1..Len(wire') : wire'[i] = ClosingFrame /\ wire'[j] = ClosingFrame => i = j BY <2>3
  <2>5. QED BY <1>4, <2>4 DEF ClosingOnce
<1> HIDE DEF SentClose, SentClose_
<1>5. ASSUME NEW s \in Senders, Sent(s) \/ Send(s) \/ SendTimeout(s) PROVE ClosingOnce'
  <2>1. UNCHANGED <<handler, websocket_closed>> /\ (wire' = wire \/ wire' = Append(wire, frame[s]))
    BY <1>5 DEF Sent, Send, SendTimeout
  <2>2. frame[s] \in Int \ {ClosingFrame} BY DEF LockOK, FramesSent, Threads, ClosingFrame
  <2>3. QED BY <1>2, <1>3, <2>1, <2>2
<1>6. CASE HandlerSends \/ LockPassed \/ PeerLeaves \/ ServerCloses \/ HandlerReturns \/ UNCHANGED socketVars
  <2>1. /\ wire' = wire /\ websocket_closed' = websocket_closed
        /\ handler' = handler \/ handler' = "over"
    BY <1>6 DEF HandlerSends, LockPassed, PeerLeaves, ServerCloses, HandlerReturns, socketVars, sendVars
  <2>2. QED BY <1>2, <1>3, <2>1
<1>7. CASE Wait \/ RecvHybi \/ RecvEof \/ WaitTimeout \/ \E n \in 1..Len(inbox) : RecvHixie(n)
  <2>1. wire' = wire /\ handler \in {"idle", "recv"}
    BY <1>7 DEF Wait, RecvHybi, RecvEof, WaitTimeout, RecvHixie, sendVars
  <2>2. ~SentClose BY <1>2, <2>1
  <2>3. QED BY <1>3, <2>1, <2>2
<1>8. CASE PongSent
  <2>1. handler = "pong" /\ wire' = Append(wire, PongFrame) BY <1>8 DEF PongSent
  <2>2. ~SentClose /\ PongFrame \in Int \ {ClosingFrame} BY <1>2, <2>1 DEF PongFrame, ClosingFrame
  <2>3. QED BY <1>3, <2>1, <2>2
<1>9. CASE CloseSent
  <2>1. /\ holder = Handler /\ handler \in {"closing", "returns"} /\ wire' = Append(wire, ClosingFrame)
        /\ websocket_closed' /\ handler' \in {"returns", "over"}
    BY <1>9 DEF CloseSent, Closed, ReturnsNothing
  <2>2. Owes BY <2>1 DEF LockOK, InLine
  <2>3. ~websocket_closed BY <2>1, <2>2 DEF Owes
  <2>4. QED BY <1>4, <2>1, <2>3
<1>10. CASE CloseAtOnce
  <2>1. /\ ~websocket_closed /\ handler' = "over"
        /\ \/ wire' = Append(wire, ClosingFrame) /\ websocket_closed'
           \/ wire' = wire
    BY <1>10 DEF CloseAtOnce, Closed
  <2>2. ~SentClose BY <1>2, <2>1
  <2>3. QED BY <1>3, <1>4, <2>1, <2>2
<1>11. QED BY <1>5, <1>6, <1>7, <1>8, <1>9, <1>10 DEF SocketNext, Handles

LEMMA SendStep ==
  ASSUME FramesSent, PeerFramesOK, WaitTypeOK, SendIInv, SocketNext \/ UNCHANGED socketVars PROVE SendIInv'
<1>1. LockOK /\ ClosingOnce BY DEF SendIInv
<1>2. LockOK' BY <1>1, LockStep
<1>3. ClosingOnce' BY <1>1, ClosingStep
<1>4. ASSUME "send" \notin interrupts' PROVE NumbersInOrder' /\ (open' => PackedInOrder')
  <2>1. interrupts \subseteq interrupts'
    BY DEF SocketNext, Handles, socketVars, Send, LockPassed, Sent, SendTimeout, PeerLeaves, Wait, RecvHixie,
       RecvHybi, RecvEof, WaitTimeout, HandlerSends, PongSent, CloseSent, CloseAtOnce, HandlerReturns, ServerCloses
  <2>2. open' = FALSE \/ open' = open
    BY DEF SocketNext, Handles, socketVars, Send, LockPassed, Sent, SendTimeout, PeerLeaves, Wait, RecvHixie,
       RecvHybi, RecvEof, WaitTimeout, HandlerSends, PongSent, CloseSent, CloseAtOnce, HandlerReturns, ServerCloses
  <2>3. NumbersInOrder /\ (open => PackedInOrder) BY <1>4, <2>1 DEF SendIInv
  <2>4. NumbersInOrder' BY <1>1, <2>3, NumbersStep
  <2>5. open' => PackedInOrder' BY <1>1, <1>4, <2>2, <2>3, PackedStep
  <2>6. QED BY <2>4, <2>5
<1>5. QED BY <1>2, <1>3, <1>4 DEF SendIInv

-----------------------------------------------------------------------------
(* A websocket, its messages in both directions *)

LEMMA SocketInitIInv ==
  ASSUME FramesSent, SocketInit PROVE SocketIInv
<1>1. /\ kind \in {"hixie", "hybi"} /\ interrupts = {} /\ input \in Seq(Frames)
      /\ kind = "hixie" => ToSet(input) \subseteq {"whole", "close"}
      /\ inbox = input /\ iterator = "live" /\ fragmented = 0
      /\ received = <<>> /\ returned = <<>> /\ nothing = FALSE
      /\ handler = "idle" /\ websocket_closed = FALSE
      /\ holder = NoOne /\ waiters = <<>> /\ packed = 0
      /\ frame = [t \in Threads |-> 0] /\ wire = <<>>
  BY DEF SocketInit, FramesSent
<1>2. Taken = 0
  <2>1. Len(input) \in Nat BY <1>1
  <2>2. QED BY <1>1, <2>1 DEF Taken
<1>3. PeerFramesOK
  <2>1. \A i \in 1..Len(inbox) : inbox[i] = input[Taken + i] BY <1>1, <1>2
  <2>2. \A i \in 1..Len(input) : input[i] \in ToSet(input) BY <1>1 DEF ToSet
  <2>3. kind = "hixie" => \A i \in 1..Len(input) : input[i] \in {"whole", "close"} BY <1>1, <2>2
  <2>4. QED BY <1>1, <1>2, <2>1, <2>3 DEF PeerFramesOK
<1>4. WaitTypeOK
  <2>1. received \in Seq(Nat) /\ returned \in Seq(Nat) BY <1>1
  <2>2. QED BY <1>1, <2>1 DEF WaitTypeOK
<1>5. ReadsOpen /\ EndsForGood BY <1>1 DEF ReadsOpen, EndsForGood
<1>6. MessagesKept
  <2>1. Ended(0) = 0 BY EndedStep
  <2>2. Fragments(0) = 0 BY FragmentsStep
  <2>3. returned \o received = <<>> BY <1>1
  <2>4. QED BY <1>1, <1>2, <2>1, <2>2, <2>3 DEF MessagesKept
<1>7. ReadIInv BY <1>3, <1>4, <1>5, <1>6 DEF ReadIInv
<1>8. LockOK
  <2>1. NoOne \notin Threads /\ Handler \in Threads BY DEF FramesSent, Threads
  <2>2. ~Contains(waiters, holder) /\ IsInjective(waiters) /\ \A t \in Threads : ~InLine(t)
    BY <1>1, <2>1 DEF Contains, IsInjective, InLine
  <2>3. QED BY <1>1, <2>1, <2>2 DEF LockOK
<1>9. ClosingOnce /\ NumbersInOrder /\ PackedInOrder
  <2>1. OnWire = {} /\ \A i \in 1..Len(wire) : FALSE BY <1>1 DEF OnWire
  <2>2. \A s \in Senders : frame[s] = 0 BY <1>1 DEF Threads
  <2>3. ClosingOnce /\ NumbersInOrder BY <2>1 DEF ClosingOnce, NumbersInOrder
  <2>4. PackedInOrder
    <3>1. \A k \in 1..packed : FALSE BY <1>1
    <3>2. holder \notin Senders BY <1>1 DEF FramesSent, Threads
    <3>3. \A i \in 1..Len(waiters) : FALSE BY <1>1
    <3>4. \A s \in Senders : frame[s] <= packed BY <1>1, <2>2
    <3>5. QED BY <2>1, <2>2, <3>1, <3>2, <3>3, <3>4 DEF PackedInOrder
  <2>5. QED BY <2>3, <2>4
<1>10. QED BY <1>7, <1>8, <1>9 DEF SocketIInv, SendIInv

LEMMA SocketNextIInv ==
  ASSUME FramesSent, SocketIInv, [SocketNext]_socketVars PROVE SocketIInv'
<1>1. ReadIInv /\ SendIInv /\ PeerFramesOK /\ WaitTypeOK BY DEF SocketIInv, ReadIInv
<1>2. ReadIInv' BY <1>1, ReadStep
<1>3. SendIInv' BY <1>1, SendStep
<1>4. QED BY <1>2, <1>3 DEF SocketIInv

LEMMA SocketIInvIsExact ==
  ASSUME SocketIInv PROVE MessagesInOrder /\ CompressedInOrder /\ NoneMeansClosed
<1>1. MessagesInOrder BY DEF SocketIInv, ReadIInv, MessagesKept, MessagesInOrder
<1>2. CompressedInOrder BY DEF SocketIInv, SendIInv, ClosingOnce, NumbersInOrder, CompressedInOrder
<1>3. NoneMeansClosed BY DEF SocketIInv, ReadIInv, EndsForGood, NoneMeansClosed
<1>4. QED BY <1>1, <1>2, <1>3

\* websocket.py:412-466, 679-709, 817-829.  For any frames of the peer, any senders and
\* whatever Timeouts strike: wait() returns the peer's messages in order and whole, and
\* None only where there are no more; and messages reach the wire as they were compressed.
THEOREM MessagesGoInOrder ==
  ASSUME FramesSent PROVE SocketSpec => [](MessagesInOrder /\ CompressedInOrder /\ NoneMeansClosed)
<1>1. SocketInit => SocketIInv BY SocketInitIInv
<1>2. SocketIInv /\ [SocketNext]_socketVars => SocketIInv' BY SocketNextIInv
<1>3. SocketIInv => MessagesInOrder /\ CompressedInOrder /\ NoneMeansClosed BY SocketIInvIsExact
<1>4. QED BY <1>1, <1>2, <1>3, PTL DEF SocketSpec
=============================================================================
