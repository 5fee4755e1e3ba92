------------------------------ MODULE DnsQuery ------------------------------
(***************************************************************************)
(* eventlet/support/greendns.py: udp() and tcp(), one query to a           *)
(* nameserver, with a clock that counts in units of the model.             *)
(*                                                                         *)
(* The socket has the timeout of the query, so every call of it may take   *)
(* as long; between calls the query compares the time with `expiration',   *)
(* and before another recvfrom() it sleeps for 0.01 s, which the hub may   *)
(* make a Pause.  A datagram is "ours" (the response), "truncated" (the    *)
(* response, with its bit TC), "other" (a response to another question, or *)
(* unreadable) or "stranger" (from another address); over TCP the response *)
(* comes byte by byte, after its length, or the nameserver closes.         *)
(***************************************************************************)
EXTENDS Integers, Sequences, FiniteSets

CONSTANTS
  Transports,   \* of {"udp", "tcp"}
  Timeout,      \* DNS_QUERY_TIMEOUT
  Pause,        \* the longest a sleep(0.01) takes
  Bytes,        \* of a response over TCP, its length included
  MaxGrams      \* bound of the model: datagrams that arrive

VARIABLES
  transport,
  ignores,      \* a subset of {"unexpected", "errors"}: the parameters
  now,          \* the clock, from 0
  at,           \* "connect", "send", "recv", "sleep"; "done", "timeout", "failed"
  since,        \* when the call of the socket began
  tried,
  inbox,        \* datagrams, or "byte"s
  count,        \* how many have come
  read,         \* bytes read
  result        \* the datagram udp() returns

queryVars == <<transport, ignores, now, at, since, tried, inbox, count, read, result>>

QueryInit ==
  /\ transport \in Transports
  /\ ignores \in SUBSET {"unexpected", "errors"}
  /\ now = 0 /\ since = 0
  /\ at = IF transport = "udp" THEN "send" ELSE "connect"
  /\ tried = FALSE /\ inbox = <<>> /\ count = 0 /\ read = 0 /\ result = "none"

expiration == Timeout
Over == at \in {"done", "timeout", "failed"}
InCall == at \in {"connect", "send", "recv"}

\* A new call of the socket.
Call(op) == at' = op /\ since' = now

-----------------------------------------------------------------------------
(* The world *)

\* Time does not pass over the timeout of a call, nor the end of a sleep.
Tick ==
  /\ \/ InCall /\ now < since + Timeout
     \/ at = "sleep" /\ now < since + Pause
  /\ now' = now + 1
  /\ UNCHANGED <<transport, ignores, at, since, tried, inbox, count, read, result>>

Arrive(gram) ==
  /\ transport = "udp" /\ count < MaxGrams
  /\ gram \in {"ours", "truncated"} => \A i \in 1..Len(inbox) : inbox[i] # gram
  /\ inbox' = Append(inbox, gram)
  /\ count' = count + 1
  /\ UNCHANGED <<transport, ignores, now, at, since, tried, read, result>>

ArriveByte ==
  /\ transport = "tcp" /\ at = "recv" /\ count < Bytes
  /\ inbox' = Append(inbox, "byte")
  /\ count' = count + 1
  /\ UNCHANGED <<transport, ignores, now, at, since, tried, read, result>>

-----------------------------------------------------------------------------
(* Both *)

\* connect(), and the sending, are done.
Connected ==
  /\ at = "connect"
  /\ Call("send")
  /\ UNCHANGED <<transport, ignores, now, tried, inbox, count, read, result>>

QuerySent ==
  /\ at = "send"
  /\ Call("recv")
  /\ tried' = TRUE
  /\ UNCHANGED <<transport, ignores, now, inbox, count, read, result>>

\* What follows a socket.timeout of the call: another call, or the end.
CallTimesOut ==
  /\ InCall /\ now = since + Timeout
  /\ IF now >= expiration
     THEN at' = "timeout" /\ UNCHANGED since
     ELSE Call(at)
  /\ UNCHANGED <<transport, ignores, now, tried, inbox, count, read, result>>

-----------------------------------------------------------------------------
(* udp() *)

Expired == now >= expiration

\* The loop begins again: it ends when it is late, else sleeps.
Again == IF Expired THEN at' = "timeout" /\ UNCHANGED since ELSE Call("sleep")

\* An exception leaves the query.
Fails == at' = "failed" /\ UNCHANGED since

Awake ==
  /\ at = "sleep"
  /\ Call("recv")
  /\ UNCHANGED <<transport, ignores, now, tried, inbox, count, read, result>>

FromDestination(gram) == gram # "stranger"

\* A datagram from elsewhere, or one that is no response to this query, ends
\* the query or is passed over, as the caller has asked; a truncated response
\* ends it, for the caller to ask over TCP.
recvfrom ==
  /\ transport = "udp" /\ at = "recv" /\ inbox # <<>>
  /\ inbox' = Tail(inbox)
  /\ LET gram == Head(inbox)
     IN CASE ~FromDestination(gram) ->
               (IF "unexpected" \in ignores THEN Again ELSE Fails) /\ UNCHANGED result
          [] gram = "other" ->
               (IF "errors" \in ignores THEN Again ELSE Fails) /\ UNCHANGED result
          [] gram = "truncated" -> Fails /\ UNCHANGED result
          [] OTHER -> at' = "done" /\ result' = gram /\ UNCHANGED since
  /\ UNCHANGED <<transport, ignores, now, tried, count, read>>

-----------------------------------------------------------------------------
(* tcp(): _net_read() *)

\* recv() gives what there is; only a recv() that gives nothing looks at the
\* clock.  What has come may be no response to this query (BadResponse).
recv ==
  /\ transport = "tcp" /\ at = "recv" /\ inbox # <<>>
  /\ inbox' = <<>>
  /\ read' = read + Len(inbox)
  /\ IF read' = Bytes THEN at' \in {"done", "failed"} /\ UNCHANGED since ELSE Call("recv")
  /\ UNCHANGED <<transport, ignores, now, tried, count, result>>

\* The nameserver refuses the connection, or closes it early (EOFError).
ConnectionEnds ==
  /\ transport = "tcp" /\ at \in {"connect", "send", "recv"} /\ inbox = <<>>
  /\ Fails
  /\ UNCHANGED <<transport, ignores, now, tried, inbox, count, read, result>>

Proceeds == ConnectionEnds \/ Connected \/ QuerySent \/ CallTimesOut \/ Awake \/ recvfrom \/ recv

QueryNext ==
  \/ Tick \/ ArriveByte \/ Proceeds
  \/ \E gram \in {"ours", "truncated", "other", "stranger"} : Arrive(gram)

\* Time passes, and greenthreads that can run do.
QueryFairness == WF_queryVars(Tick) /\ WF_queryVars(CallTimesOut) /\ WF_queryVars(Awake)

QuerySpec == QueryInit /\ [][QueryNext]_queryVars /\ QueryFairness

-----------------------------------------------------------------------------
(* Properties *)

\* greendns.py:800-860.  A response is the nameserver's, to this query.  A call
\* begins no later than a pause after the query expires, so that the query is
\* over after twice its time and a pause, whatever arrives.
QuerySound ==
  /\ result \in {"none", "ours"}
  /\ transport = "udp" => since <= expiration + Pause /\ now <= 2 * Timeout + Pause

\* greendns.py:661-666, of _net_read(), which reads a response over TCP: "A
\* Timeout exception will be raised if the operation is not completed by the
\* expiration time."  It is not while each recv() gives something.
NetReadExpires == transport = "tcp" /\ at = "done" => now <= expiration
=============================================================================
