----------------------------- MODULE HttpClient -----------------------------
(***************************************************************************)
(* eventlet/green/http/client.py: an HTTPConnection, its responses, and    *)
(* the servers it connects to, with a program that uses them.              *)
(*                                                                         *)
(* A connection sends the lines of a request, and is asked for a response, *)
(* which reads from the socket with a buffer of its own.  What is on the   *)
(* wire is a sequence of tokens: a head, one unit of a body, the frame of  *)
(* a chunk.  A server answers one request after the other and may die.     *)
(*                                                                         *)
(* A program may break the rules of the module's documentation: send a     *)
(* request before it has read a response to its end, close a response it   *)
(* has not read, go on after an exception of a Timeout, close a connection *)
(* with a request that was started.  strays remembers it.                  *)
(***************************************************************************)
EXTENDS Integers, Sequences, SequencesExt, FiniteSets

CONSTANTS
  Answers,      \* what a server may answer: records of http11, says, empty, framing, body
  Asked,        \* requests: records of method, framing, body, which is the sizes of the
                \* chunks of an iterable
  MaxRequests, MaxLinks,   \* bounds of the model
  None

VARIABLES
  state,      \* __state: "idle", "started", "sent"
  sock,       \* the link of the socket, or None
  response,   \* __response: the request it answers, or None
  lines,      \* _buffer: the requests whose lines are in it
  sent,       \* how many requests were started; the last one is the current
  request,    \* per request: what was asked
  resp,       \* per request: the HTTPResponse of the last getresponse() for it
  op,         \* the call the program is in
  link,       \* per connection to a server: what is on its way, and the server
  links       \* how many were made

clientVars == <<state, sock, response, lines, sent, request, resp, op, link, links>>

Requests == 1..MaxRequests
Links == 1..MaxLinks

Idle == [at |-> "idle", r |-> None, how |-> None, step |-> None, left |-> 0]
\* ended: "whole"; "close" of the connection, where nothing else tells the end; "short",
\* with IncompleteRead; "quiet", without an error.
NoResponse == [fp |-> None, buf |-> <<>>, chunked |-> FALSE, chunk_left |-> None,
               length |-> None, got |-> <<>>, ended |-> "no"]
NoLink == [up |-> <<>>, down |-> <<>>, eof |-> FALSE, of |-> None, answer |-> None,
           strays |-> {}, garbled |-> FALSE]

ClientInit ==
  /\ state = "idle" /\ sock = None /\ response = None /\ lines = <<>>
  /\ sent = 0 /\ request = [k \in Requests |-> None]
  /\ resp = [k \in Requests |-> NoResponse]
  /\ op = Idle
  /\ link = [l \in Links |-> NoLink] /\ links = 0

Token(t, of, n) == [t |-> t, of |-> of, n |-> n]
Stray(L, l, what) == [L EXCEPT ![l].strays = @ \cup what]
\* Bound of the model: a program breaks one rule.
MayStray == \A l \in Links : link[l].strays = {}

-----------------------------------------------------------------------------
(* The connection *)

\* putrequest() forgets a response that was read to its end.
Unread == response # None /\ resp[response].fp # None

PutRequest(asked) ==
  /\ op = Idle /\ state = "idle" /\ sent < MaxRequests
  /\ response' = IF Unread THEN response ELSE None
  /\ state' = "started"
  /\ sent' = sent + 1
  /\ request' = [request EXCEPT ![sent + 1] = asked]
  /\ lines' = Append(lines, sent + 1)
  /\ UNCHANGED <<sock, resp, op, link, links>>

\* _send_output(): of an iterable, the chunks that are not empty, and the end.
Encoded(sizes) ==
  LET full == SelectSeq(sizes, LAMBDA n : n > 0)
  IN [i \in 1..Len(full) |-> Token("chunk", sent, full[i])]

Message ==
  LET asked == request[sent]
  IN <<[t |-> "lines", of |-> lines, n |-> asked.framing]>>
     \o CASE asked.framing = "none" -> <<>>
          [] asked.framing = "length" -> <<Token("unit", sent, 1)>>
          [] asked.framing = "chunked" -> Append(Encoded(asked.body), Token("chunk", sent, 0))

\* endheaders() and send(), which may connect; that a server has closed is noticed
\* or not, and a Timeout may end it before all is sent.
EndHeaders ==
  LET l == IF sock = None THEN links + 1 ELSE sock
      strays == (IF Unread THEN {"early"} ELSE {}) \cup (IF Len(lines) > 1 THEN {"stale"} ELSE {})
  IN /\ op = Idle /\ state = "started"
     /\ state' = "sent" /\ lines' = <<>>
     /\ l <= MaxLinks
     /\ \E n \in 0..Len(Message) :
          LET cut == IF n < Len(Message) /\ ~link[l].eof THEN {"cut"} ELSE {}
          IN /\ strays \cup cut # {} => MayStray
             /\ link' = Stray(IF link[l].eof THEN link
                              ELSE [link EXCEPT ![l].up = @ \o SubSeq(Message, 1, n)],
                              l, strays \cup cut)
     /\ sock' = l /\ links' = IF sock = None THEN l ELSE links
  /\ UNCHANGED <<response, sent, request, resp, op>>

\* It cannot connect: the request counts as sent.
ConnectFails ==
  /\ op = Idle /\ state = "started" /\ sock = None
  /\ state' = "sent" /\ lines' = <<>>
  /\ UNCHANGED <<sock, response, sent, request, resp, op, link, links>>

\* Faulty: it does not look at the response before.
ReadyAnyhow == state = "sent"

Ready == state = "sent" /\ ~Unread

GetResponse ==
  /\ op = Idle /\ Ready /\ sock # None
  /\ response' = None
  /\ resp' = [resp EXCEPT ![sent] = [NoResponse EXCEPT !.fp = sock]]
  /\ op' = [Idle EXCEPT !.at = "begin", !.r = sent]
  /\ UNCHANGED <<state, sock, lines, sent, request, link, links>>

\* close(): the lines of a request that was started stay.
ClosedConn(R) == IF response = None THEN R ELSE [R EXCEPT ![response].fp = None, ![response].buf = <<>>]
Close ==
  /\ op = Idle
  /\ state' = "idle" /\ sock' = None /\ response' = None
  /\ resp' = ClosedConn(resp)
  /\ UNCHANGED <<lines, sent, request, op, link, links>>

-----------------------------------------------------------------------------
(* The response: each step takes one token, from its buffer *)

Reading == op.at \in {"begin", "read"}
This == resp[op.r]
Source == link[This.fp]
\* Nothing is left to come.
AtEof == This.buf = <<>> /\ Source.down = <<>> /\ Source.eof

\* The buffer takes all there is, more than is asked for, or a part of it.
Fill ==
  /\ Reading /\ This.buf = <<>> /\ Source.down # <<>>
  /\ \E n \in {1, Len(Source.down)} :
       /\ resp' = [resp EXCEPT ![op.r].buf = SubSeq(Source.down, 1, n)]
       /\ link' = [link EXCEPT ![This.fp].down = SubSeq(@, n + 1, Len(@))]
  /\ UNCHANGED <<state, sock, response, lines, sent, request, op, links>>

\* _close_conn(): what is in the buffer is lost.
CloseConn(S, how) == [S EXCEPT !.fp = None, !.buf = <<>>, !.ended = how]

Returns(S) == resp' = [resp EXCEPT ![op.r] = S] /\ op' = Idle
GoesOn(S, step, left) ==
  /\ resp' = [resp EXCEPT ![op.r] = S]
  /\ op' = [op EXCEPT !.step = step, !.left = left]

\* _check_close().
CheckClose(a) == IF a.http11 THEN a.says = "close" ELSE a.says # "keep"

WillClose(a, length) == CheckClose(a) \/ (a.framing # "chunked" /\ length = None)

BodyLength(a) == FoldSeq(LAMBDA x, y : x + y, 0, a.body)

LengthOf(a, method) == IF a.empty \/ method = "HEAD" THEN 0
                       ELSE IF a.framing = "length" THEN BodyLength(a) ELSE None

\* begin(), which skips responses of status 100, and the rest of getresponse().
BeginHead ==
  LET S == [This EXCEPT !.buf = Tail(@)]
      token == Head(This.buf)
      a == token.n
      length == LengthOf(a, request[op.r].method)
  IN /\ op.at = "begin" /\ This.buf # <<>>
     /\ CASE token.t = "continue" ->
               /\ GoesOn(S, None, 0)
               /\ UNCHANGED <<state, sock, response, link>>
          [] token.t = "head" ->
               /\ Returns([S EXCEPT !.chunked = (a.framing = "chunked"), !.length = length])
               /\ state' = "idle"
               /\ IF WillClose(a, length)
                  THEN sock' = None /\ response' = None
                  ELSE response' = op.r /\ UNCHANGED sock
               /\ UNCHANGED link
          [] OTHER ->         \* BadStatusLine
               /\ Returns(CloseConn(S, "no"))
               /\ link' = IF token.t = "torn" THEN link ELSE [link EXCEPT ![This.fp].garbled = TRUE]
               /\ UNCHANGED <<state, sock, response>>
     /\ UNCHANGED <<lines, sent, request, links>>

\* RemoteDisconnected.
BeginEof ==
  /\ op.at = "begin" /\ AtEof
  /\ Returns(CloseConn(This, "no"))
  /\ state' = "idle" /\ sock' = None /\ response' = None
  /\ UNCHANGED <<lines, sent, request, link, links>>

\* The first step of a call: of _get_chunk_left(), or of a body with a length.
FirstStep(S) == IF ~S.chunked THEN "unit"
                ELSE IF S.chunk_left = None THEN "size"
                ELSE IF S.chunk_left = 0 THEN "crlf" ELSE "unit"
Left(S, how) == IF how # "all" THEN 1 ELSE IF S.chunked THEN S.chunk_left ELSE S.length

\* read(), "all"; read(amt) and readinto(), "some"; read1() and readline(), "line".
Call(r, how) ==
  /\ op = Idle /\ resp[r].fp # None
  /\ LET S == resp[r]
         head == request[r].method = "HEAD"
         over == ~S.chunked /\ S.length = 0
     IN \/ /\ head \/ over       \* there is nothing to read
           /\ resp' = IF how = "line" THEN resp
                      ELSE [resp EXCEPT ![r] = CloseConn(S, "whole")]
           /\ UNCHANGED op
        \/ /\ ~head /\ ~over
           /\ op' = [Idle EXCEPT !.at = "read", !.r = r, !.how = how, !.step = FirstStep(S), !.left = Left(S, how)]
           /\ UNCHANGED resp
  /\ UNCHANGED <<state, sock, response, lines, sent, request, link, links>>

\* A part of the body.  Of a length, read() sets what is left at the end, and
\* read1() and readline() do not close a response of which nothing is left.
TakeUnit(S) ==
  LET T == [S EXCEPT !.got = Append(@, Head(This.buf))]
      last == op.left = 1      \* of this call, or of its chunk
  IN CASE ~S.chunked /\ S.length = None ->
            IF op.how = "all" THEN GoesOn(T, "unit", None) ELSE Returns(T)
       [] ~S.chunked /\ op.how = "all" ->
            IF last THEN Returns(CloseConn([T EXCEPT !.length = 0], "whole"))
            ELSE GoesOn(T, "unit", op.left - 1)
       [] ~S.chunked /\ op.how # "all" ->
            LET U == [T EXCEPT !.length = @ - 1]
            IN Returns(IF U.length = 0 /\ op.how = "some" THEN CloseConn(U, "whole") ELSE U)
       [] S.chunked /\ op.how = "all" ->
            IF last THEN GoesOn([T EXCEPT !.chunk_left = 0], "crlf", 0)
            ELSE GoesOn(T, "unit", op.left - 1)
       [] OTHER -> Returns([T EXCEPT !.chunk_left = @ - 1])

\* What is not the size of a chunk closes the response: IncompleteRead, which peek(),
\* and with it readline(), takes for the end.
NoSize(S) == \E how \in {"short"} \cup (IF op.how = "line" THEN {"quiet"} ELSE {}) :
               Returns(CloseConn(S, how))

\* The frame of a chunk: its end, the size of the next, the trailer.
TakeFrame(S) ==
  LET token == Head(This.buf)
  IN CASE op.step = "crlf" -> GoesOn(S, "size", 0)
       [] op.step = "size" /\ token.t # "size" -> NoSize(S)
       [] op.step = "size" /\ token.n = 0 -> GoesOn(S, "trailer", 0)
       [] op.step = "size" /\ token.n > 0 ->
            GoesOn([S EXCEPT !.chunk_left = token.n], "unit", IF op.how = "all" THEN token.n ELSE 1)
       [] OTHER -> Returns(CloseConn([S EXCEPT !.chunk_left = None], "whole"))

Take ==
  /\ op.at = "read" /\ This.buf # <<>>
  /\ LET S == [This EXCEPT !.buf = Tail(@)]
     IN IF op.step = "unit" THEN TakeUnit(S) ELSE TakeFrame(S)
  /\ UNCHANGED <<state, sock, response, lines, sent, request, link, links>>

\* The server left: the end of a body that is delimited so, and of chunks without a
\* trailer.  IncompleteRead, which leaves a response with chunks open, but of a body
\* of a length only read() raises it: the others return nothing, as at the end.
TakeEof ==
  /\ op.at = "read" /\ AtEof
  /\ CASE This.chunked /\ op.step = "size" -> NoSize(This)
       [] This.chunked /\ op.step = "trailer" -> Returns(CloseConn(This, "whole"))
       [] This.chunked /\ op.step \in {"unit", "crlf"} -> Returns([This EXCEPT !.ended = "short"])
       [] ~This.chunked /\ This.length = None -> Returns(CloseConn(This, "close"))
       [] OTHER -> Returns(CloseConn(This, IF op.how = "all" THEN "short" ELSE "quiet"))
  /\ UNCHANGED <<state, sock, response, lines, sent, request, link, links>>

\* response.close(), of one that may not have been read.
CloseResponse(r) ==
  /\ op = Idle /\ resp[r].fp # None /\ MayStray
  /\ resp' = [resp EXCEPT ![r] = CloseConn(@, @.ended)]
  /\ link' = Stray(link, resp[r].fp, {"shut"})
  /\ UNCHANGED <<state, sock, response, lines, sent, request, op, links>>

\* A Timeout is raised where the program waits.
Interrupt ==
  /\ MayStray
  /\ \/ /\ op.at = "begin" /\ This.buf = <<>>
        /\ link' = Stray(link, This.fp, {"cut"})
        /\ resp' = [resp EXCEPT ![op.r] = CloseConn(This, "no")]
     \/ /\ op.at = "read" /\ This.buf = <<>>
        /\ link' = Stray(link, This.fp, {"torn"})
        /\ UNCHANGED resp
  /\ op' = Idle
  /\ UNCHANGED <<state, sock, response, lines, sent, request, links>>

-----------------------------------------------------------------------------
(* A server *)

Open(l) == ~link[l].eof /\ (sock = l \/ \E r \in Requests : resp[r].fp = l)

\* A request is over where its framing says so; what it is if it is not a request.
EndOf(up) == CASE Head(up).n = "none" -> {1}
              [] Head(up).n = "length" -> {2}
              [] OTHER -> {i \in 2..Len(up) : up[i] = Token("chunk", up[i].of, 0)}
Readable(up) == Head(up).t = "lines" /\ Len(Head(up).of) = 1
Whole(up) == {i \in EndOf(up) : i <= Len(up) /\ \A j \in EndOf(up) : i <= j}

BadRequest(l) ==
  /\ Open(l) /\ link[l].up # <<>> /\ ~Readable(link[l].up)
  /\ link' = [link EXCEPT ![l].garbled = TRUE, ![l].eof = TRUE]
  /\ UNCHANGED <<state, sock, response, lines, sent, request, resp, op, links>>

Units(k, from, n) == [i \in 1..n |-> Token("unit", k, from + i)]
Chunks(k, sizes) ==
  FoldLeft(LAMBDA done, n :
             done \o <<Token("size", k, n)>> \o
             Units(k, Len(SelectSeq(done, LAMBDA x : x.t = "unit")), n) \o <<Token("crlf", k, 0)>>,
           <<>>, sizes)
  \o <<Token("size", k, 0), Token("trailer", k, 0)>>
AnswerBody(a, k) ==
  IF a.empty \/ request[k].method = "HEAD" THEN <<>>
  ELSE IF a.framing = "chunked" THEN Chunks(k, a.body) ELSE Units(k, 0, BodyLength(a))

\* It reads a request and answers, after "100 Continue" or not, and closes where the
\* answer says so, or where nothing else tells its end.
Keeps(a, k) == ~CheckClose(a) /\ (a.framing # "none" \/ a.empty \/ request[k].method = "HEAD")
Answer(l, a) ==
  /\ Open(l) /\ link[l].up # <<>> /\ Readable(link[l].up)
  /\ \E last \in Whole(link[l].up) :
       LET k == Head(Head(link[l].up).of)
       IN link' = [link EXCEPT
            ![l].up = SubSeq(@, last + 1, Len(@)),
            ![l].down = @ \o (IF a.continues THEN <<Token("continue", k, 0)>> ELSE <<>>)
                          \o <<Token("head", k, a)>> \o AnswerBody(a, k),
            ![l].of = k, ![l].answer = a, ![l].eof = ~Keeps(a, k)]
  /\ UNCHANGED <<state, sock, response, lines, sent, request, resp, op, links>>

\* A head that is cut: in the status line, or among the headers, where the end of
\* the connection counts as the end of the head.
Torn(token) ==
  IF token.t # "head" THEN {}
  ELSE {[token EXCEPT !.t = "torn"]} \cup
       {[token EXCEPT !.n.framing = f, !.n.says = w] :
          f \in {"none", token.n.framing}, w \in {"nothing", token.n.says}}

\* It dies, or closes a connection nobody used for long.
Die(l) ==
  /\ Open(l) /\ \A m \in Links : ~link[m].eof   \* bound of the model: once
  /\ LET down == link[l].down
     IN \E n \in 0..Len(down) :
          \E cut \in {<<>>} \cup (IF n < Len(down) THEN {<<x>> : x \in Torn(down[n + 1])} ELSE {}) :
            link' = [link EXCEPT ![l].eof = TRUE, ![l].down = SubSeq(down, 1, n) \o cut]
  /\ UNCHANGED <<state, sock, response, lines, sent, request, resp, op, links>>

ClientNext ==
  \/ \E asked \in Asked : PutRequest(asked)
  \/ EndHeaders \/ ConnectFails \/ GetResponse \/ Close
  \/ Fill \/ BeginHead \/ BeginEof \/ Take \/ TakeEof \/ Interrupt
  \/ \E r \in Requests : CloseResponse(r) \/ \E how \in {"all", "some", "line"} : Call(r, how)
  \/ \E l \in Links : BadRequest(l) \/ Die(l) \/ \E a \in Answers : Answer(l, a)

ClientSpec == ClientInit /\ [][ClientNext]_clientVars

-----------------------------------------------------------------------------
(* Properties *)

\* client.py:344-762, 1382-1443.  What a response gives is what the server answered
\* to its request, in order, unless a read was interrupted.
Attributed ==
  (\A l \in Links : "torn" \notin link[l].strays) =>
    \A r \in Requests : \A i \in 1..Len(resp[r].got) : resp[r].got[i] = Token("unit", r, i)

\* client.py:492-610.  A body whose length was reached, or whose last chunk was
\* read, is whole: what the server sent, however it died.  A response that ended
\* otherwise, with an error ("short") or without ("quiet", "close"), promises nothing.
Complete ==
  \A r \in Requests : \A l \in Links :
    resp[r].ended = "whole" /\ link[l].of = r /\ link[l].strays = {} =>
      Len(resp[r].got) = Len(SelectSeq(AnswerBody(link[l].answer, r), LAMBDA x : x.t = "unit"))

\* client.py:1080-1131, 311-342.  Of a program that keeps the rules neither the
\* server nor a response reads a head where there is none.
Aligned ==
  \A l \in Links : link[l].strays = {} => ~link[l].garbled

\* client.py:344-452.  It never waits for a server that waits for it.
NoMutualWait ==
  Reading /\ This.buf = <<>> /\ Source.strays = {} =>
    Source.down # <<>> \/ Source.eof \/ Source.up # <<>>
=============================================================================
