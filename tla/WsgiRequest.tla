---------------------------- MODULE WsgiRequest ----------------------------
(***************************************************************************)
(* eventlet/wsgi.py: the requests of one connection, their bodies, and the *)
(* answers (class Input and HttpProtocol.handle_one_request).              *)
(*                                                                         *)
(* The client's bytes are a sequence of tokens: the head of a request,     *)
(* "data" and, in a chunked body, "last".  It may send a request before    *)
(* the last one is answered; after "Expect: 100-continue" it waits for an  *)
(* answer of either kind, and after a final one may send the body or leave *)
(* it out.  The application is any sequence of the calls WSGI allows; what *)
(* it says of the length of its answer is true.                            *)
(***************************************************************************)
EXTENDS Integers, Sequences

CONSTANTS
  Heads,       \* requests: [keep, http11, expect, framing, units]
  MaxAsked,    \* bound of the model: requests on the connection
  Habits       \* what an application may do: "write", "lateread"

VARIABLES
  habits,      \* a subset of Habits
  keepalive,   \* Server.keepalive
  asked,       \* how many heads the client has sent
  owed,        \* the tokens of its request that it has not sent
  expecting,   \* whether it waits before it sends them
  eof,         \* the client has closed
  stream,      \* tokens sent and not read
  served,      \* how many heads the server has read
  pc,          \* "reads", "app", "awaits", "discards", "closed"
  head,        \* the request
  position,    \* Input.position, in tokens
  ended,       \* chunk_length = 0
  continued,   \* is_hundred_continue_response_sent
  hundred,     \* "100 Continue" was sent
  headers_set, \* "no", "length", "bare", "bodyless": what the answer is
  headers_sent,
  use_chunked,
  towrite,     \* data the application gave that is not written
  just_written,\* just_written_size > 0
  complete,    \* the client has seen the end of the answer
  close        \* close_connection

peerVars == <<habits, keepalive, asked, owed, expecting, eof>>
inputVars == <<position, ended, continued, hundred>>
answerVars == <<headers_set, headers_sent, use_chunked, towrite, just_written, complete>>
requestVars == <<peerVars, stream, served, pc, head, inputVars, answerVars, close>>

RequestInit ==
  /\ habits \in SUBSET Habits
  /\ keepalive \in BOOLEAN
  /\ asked = 0 /\ owed = <<>> /\ expecting = FALSE /\ eof = FALSE
  /\ stream = <<>> /\ served = 0 /\ pc = "reads"
  /\ head \in {r \in Heads : r.framing = "none"}
  /\ position = 0 /\ ended = FALSE /\ continued = FALSE /\ hundred = FALSE
  /\ headers_set = "no" /\ headers_sent = FALSE /\ use_chunked = FALSE
  /\ towrite = FALSE /\ just_written = FALSE /\ complete = TRUE
  /\ close = TRUE

-----------------------------------------------------------------------------
(* The client *)

Body(r) == [i \in 1..r.units |-> [kind |-> "data"]]
             \o IF r.framing = "chunked" THEN <<[kind |-> "last"]>> ELSE <<>>

\* What the server would read now.
Kind == Head(stream).kind

Ask(r) ==
  /\ ~eof /\ owed = <<>> /\ asked < MaxAsked
  /\ asked' = asked + 1
  /\ stream' = Append(stream, [kind |-> "head", request |-> r])
  /\ owed' = Body(r)
  /\ expecting' = (r.expect /\ Body(r) # <<>>)
  /\ UNCHANGED <<habits, keepalive, eof, served, pc, head, inputVars, answerVars, close>>

SendBody ==
  /\ ~eof /\ owed # <<>> /\ ~expecting
  /\ stream' = Append(stream, Head(owed))
  /\ owed' = Tail(owed)
  /\ UNCHANGED <<habits, keepalive, asked, expecting, eof, served, pc, head, inputVars, answerVars, close>>

Answered == served = asked /\ (hundred \/ headers_sent)

Proceed ==
  /\ expecting /\ Answered
  /\ expecting' = FALSE
  /\ UNCHANGED <<habits, keepalive, asked, owed, eof, stream, served, pc, head, inputVars, answerVars, close>>

Skip ==
  /\ expecting /\ served = asked /\ headers_sent /\ ~hundred
  /\ expecting' = FALSE /\ owed' = <<>>
  /\ UNCHANGED <<habits, keepalive, asked, eof, stream, served, pc, head, inputVars, answerVars, close>>

HangUp ==
  /\ ~eof
  /\ eof' = TRUE
  /\ UNCHANGED <<habits, keepalive, asked, owed, expecting, stream, served, pc, head, inputVars, answerVars, close>>

-----------------------------------------------------------------------------
(* Input *)

chunked_input == head.framing = "chunked"
Remains == IF chunked_input THEN ~ended ELSE head.framing = "length" /\ position < head.units

should_send_hundred_continue == head.expect /\ ~continued

\* What read() does before it reads; a response that has begun stops the
\* "100 Continue", but not the mark that it was sent.
SendHundred ==
  IF should_send_hundred_continue
  THEN continued' = TRUE /\ hundred' = (hundred \/ ~headers_sent)
  ELSE UNCHANGED <<continued, hundred>>

\* What a read makes of the next token.  A token that is no part of the body
\* is data for a body with a length, and an error in a chunked one.
BadChunk == chunked_input /\ Kind = "head"

TakeToken ==
  /\ stream' = Tail(stream)
  /\ IF Kind = "last"
     THEN ended' = TRUE /\ UNCHANGED position
     ELSE position' = position + 1 /\ UNCHANGED ended

-----------------------------------------------------------------------------
(* handle_one_request *)

\* Where handle() goes after a request.
Handled(c) == pc' = IF c THEN "closed" ELSE "reads"

ReadRequest ==
  /\ pc = "reads" /\ stream # <<>>
  /\ Kind = "head"
  /\ served' = served + 1
  /\ stream' = Tail(stream)
  /\ head' = Head(stream).request
  /\ close' = ~head'.keep
  /\ position' = 0 /\ ended' = FALSE /\ continued' = FALSE /\ hundred' = FALSE
  /\ headers_set' = "no" /\ headers_sent' = FALSE /\ use_chunked' = FALSE
  /\ towrite' = FALSE /\ just_written' = FALSE /\ complete' = FALSE
  /\ pc' = "app"
  /\ UNCHANGED peerVars

\* What is no request line is answered with 400 and a close.
ReadGarbage ==
  /\ pc = "reads" /\ stream # <<>>
  /\ Kind # "head"
  /\ close' = TRUE /\ Handled(TRUE)
  /\ UNCHANGED <<peerVars, stream, served, head, inputVars, answerVars>>

ReadEof ==
  /\ pc = "reads" /\ stream = <<>> /\ eof
  /\ close' = TRUE /\ Handled(TRUE)
  /\ UNCHANGED <<peerVars, stream, served, head, inputVars, answerVars>>

-----------------------------------------------------------------------------
(* The application, and handle_one_response *)

StartResponse(kind) ==
  /\ pc = "app" /\ headers_set = "no"
  /\ headers_set' = kind
  /\ UNCHANGED <<peerVars, stream, served, pc, head, inputVars, headers_sent, use_chunked, towrite, just_written,
                 complete, close>>

AppRead ==
  /\ pc = "app"
  /\ headers_sent /\ head.expect => "lateread" \in habits
  /\ SendHundred
  /\ pc' = IF Remains THEN "awaits" ELSE "app"
  /\ UNCHANGED <<peerVars, stream, served, head, position, ended, answerVars, close>>

\* How write() frames the first piece of an answer.
Framing(kind, c) ==
  [chunked |-> kind = "bare" /\ head.http11,
   close |-> c \/ ~keepalive \/ (kind = "bare" /\ ~head.http11)]

\* The framing is settled by the first piece.
Framed(kind, c) == IF headers_sent THEN [chunked |-> use_chunked, close |-> c] ELSE Framing(kind, c)

\* write() of data
Write ==
  /\ headers_sent' = TRUE
  /\ use_chunked' = Framed(headers_set, close).chunked
  /\ close' = Framed(headers_set, close).close

\* The application yields data; they are written, or kept until there is more.
Yield ==
  /\ pc = "app" /\ headers_set \in {"length", "bare"}
  /\ \/ /\ Write
        /\ towrite' = FALSE /\ just_written' = TRUE
     \/ /\ towrite' = TRUE
        /\ UNCHANGED <<headers_sent, use_chunked, close, just_written>>
  /\ UNCHANGED <<peerVars, stream, served, pc, head, inputVars, headers_set, complete>>

\* The application calls the write() that start_response() returned.
CallWrite ==
  /\ pc = "app" /\ headers_set \in {"length", "bare"} /\ "write" \in habits
  /\ Write
  /\ UNCHANGED <<peerVars, stream, served, pc, head, inputVars, headers_set, towrite, just_written, complete>>

\* The finally clause: close if the 100 was never sent, read what is left of
\* the body if the connection goes on.
Discards == chunked_input \/ Remains

Finally(c) ==
  LET end == c \/ should_send_hundred_continue
  IN /\ close' = end
     /\ IF Discards /\ ~end THEN pc' = "discards" ELSE Handled(end)

\* The answer's last write: what is kept, then an empty chunk if one is due.
LastWrite(kind, c) ==
  LET f == Framed(kind, c)
      ends == (~headers_sent /\ ~towrite) \/ (f.chunked /\ (towrite \/ just_written))
  IN /\ headers_sent' = TRUE /\ towrite' = FALSE
     /\ use_chunked' = f.chunked
     /\ complete' = (complete \/ kind \in {"length", "bodyless"} \/ (f.chunked /\ ends))
     /\ Finally(f.close)

\* The iterable is at its end.
Finish ==
  /\ pc = "app" /\ headers_set # "no"
  /\ LastWrite(headers_set, close)
  /\ UNCHANGED <<peerVars, stream, served, head, inputVars, headers_set, just_written>>

\* The application returns a list before anything was written: its length is
\* known; if the 100 was not sent, the answer says that the connection closes.
ReturnList ==
  /\ pc = "app" /\ headers_set # "no" /\ ~headers_sent /\ ~towrite
  /\ headers_set' = IF headers_set = "bare" THEN "length" ELSE headers_set
  /\ LastWrite(headers_set', close \/ should_send_hundred_continue)
  /\ UNCHANGED <<peerVars, stream, served, head, inputVars, just_written>>

\* The except clause, and the end of an application that gave no answer.
Failed ==
  /\ complete' = (complete \/ ~headers_sent)
  /\ headers_set' = IF headers_sent THEN headers_set ELSE "length"
  /\ headers_sent' = TRUE
  /\ Finally(TRUE)

Raise ==
  /\ pc = "app"
  /\ Failed
  /\ UNCHANGED <<peerVars, stream, served, head, inputVars, use_chunked, towrite, just_written>>

-----------------------------------------------------------------------------
(* Reading the body *)

\* For the application: data, the end, or an error that it lets pass.
AwaitToken ==
  /\ pc = "awaits" /\ stream # <<>>
  /\ IF BadChunk
     THEN /\ Failed
          /\ UNCHANGED <<stream, position, ended, use_chunked, towrite, just_written>>
     ELSE /\ TakeToken
          /\ pc' = "app"
          /\ UNCHANGED <<answerVars, close>>
  /\ UNCHANGED <<peerVars, served, head, continued, hundred>>

\* The end of the stream is an empty read, or an error in a chunked body.
AwaitEof ==
  /\ pc = "awaits" /\ stream = <<>> /\ eof
  /\ IF chunked_input
     THEN Failed /\ UNCHANGED <<use_chunked, towrite, just_written>>
     ELSE pc' = "app" /\ UNCHANGED <<answerVars, close>>
  /\ UNCHANGED <<peerVars, stream, served, head, inputVars>>

\* For discard(), which reads until a read is empty.
DiscardToken ==
  /\ pc = "discards" /\ Remains /\ stream # <<>>
  /\ IF BadChunk
     THEN /\ close' = TRUE /\ Handled(TRUE)
          /\ UNCHANGED <<stream, position, ended>>
     ELSE /\ TakeToken
          /\ UNCHANGED <<pc, close>>
  /\ UNCHANGED <<peerVars, served, head, continued, hundred, answerVars>>

DiscardEnds ==
  /\ pc = "discards"
  /\ ~Remains \/ (stream = <<>> /\ eof)
  /\ close' = (Remains /\ chunked_input)
  /\ Handled(close')
  /\ UNCHANGED <<peerVars, stream, served, head, inputVars, answerVars>>

RequestNext ==
  \/ \E r \in Heads : Ask(r)
  \/ SendBody \/ Proceed \/ Skip \/ HangUp
  \/ ReadRequest \/ ReadGarbage \/ ReadEof
  \/ \E kind \in {"length", "bare", "bodyless"} : StartResponse(kind)
  \/ AppRead \/ Yield \/ CallWrite \/ Finish \/ ReturnList \/ Raise
  \/ AwaitToken \/ AwaitEof \/ DiscardToken \/ DiscardEnds

RequestSpec == RequestInit /\ [][RequestNext]_requestVars

-----------------------------------------------------------------------------
(* Properties *)

\* wsgi.py:664-692.  When the server looks for the next request, what it
\* reads is the head of one: bodies are read or discarded, whatever the
\* application left of them.  An application that reads the body after the
\* answer has begun, with a client that waits for "100 Continue", is the
\* exception.
RequestsAligned ==
  pc = "reads" /\ stream # <<>> /\ "lateread" \notin habits => Kind = "head"

\* wsgi.py:527-648.  When the connection goes on after an answer, the client
\* can tell where the answer ended.  Applications that call write() are the
\* exception.
AnswersDelimited == pc \in {"reads", "discards"} /\ "write" \notin habits => complete

\* wsgi.py:108-155.  The server never waits for a body whose client waits for
\* the server.
NoMutualWait ==
  pc \in {"awaits", "discards"} /\ stream = <<>> /\ Remains /\ served = asked /\ expecting =>
    Answered
=============================================================================
