----------------------------- MODULE WsgiServer -----------------------------
(***************************************************************************)
(* eventlet/wsgi.py: server() accepts connections and gives each one to a  *)
(* greenthread of a GreenPool, which serves request after request until    *)
(* close_connection is set; when the loop ends, the server marks what it   *)
(* knows of as closed, shuts down what is idle, and waits for the pool.    *)
(*                                                                         *)
(* What one request and its answer are is in module WsgiRequest.  A        *)
(* connection has the address of its client as its key, which is not its   *)
(* own for a UNIX socket.  Greenthreads run one at a time; the steps below *)
(* run from one place where they may wait to the next, but for the service *)
(* of a request, which may wait for the client at many: for the rest of    *)
(* the head, for the body, and for what is sent to be read.                *)
(***************************************************************************)
EXTENDS Integers, FiniteSets

CONSTANTS
  Conns,        \* connections
  Addr,         \* the address of each
  NoConn,
  PoolSize,     \* max_size
  MaxSent       \* bound of the model: requests on one connection

VARIABLES
  loop,         \* of server(): "accept", "spawn", "drain" or "end"
  accepted,     \* the connection accepted that has no greenthread yet
  connections,  \* address -> connection, or NoConn
  conn_state,   \* conn_state[2]: "idle", "request", "close"
  handlers,     \* greenthread: "none", "queued", "reads", "serves", "websocket", "over"
  client,       \* "away", "open", "gone"
  arrived,      \* requests in the socket, and how many the client will yet send
  more,
  stalled,      \* what the client owes: "no", the rest of its last "request",
                \* or to read the "answer"; it asks for nothing more meanwhile
  shut          \* connections on which shutdown_safe() was called

wsgiVars == <<loop, accepted, connections, conn_state, handlers, client, arrived, more, stalled, shut>>

WsgiInit ==
  /\ loop = "accept" /\ accepted = NoConn
  /\ connections = [a \in {Addr[c] : c \in Conns} |-> NoConn]
  /\ conn_state = [c \in Conns |-> "idle"]
  /\ handlers = [c \in Conns |-> "none"]
  /\ client = [c \in Conns |-> "away"]
  /\ arrived = [c \in Conns |-> 0] /\ more = [c \in Conns |-> MaxSent]
  /\ stalled = [c \in Conns |-> "no"]
  /\ shut = {}

Running == {c \in Conns : handlers[c] \notin {"none", "over"}}
HasSlot == Cardinality(Running) < PoolSize

-----------------------------------------------------------------------------
(* Clients *)

\* What a client does after the end of its connection is left out.
Talks(c) == client[c] = "open" /\ handlers[c] # "over"

Connect(c) ==
  /\ client[c] = "away"
  /\ client' = [client EXCEPT ![c] = "open"]
  /\ UNCHANGED <<loop, accepted, connections, conn_state, handlers, arrived, more, stalled, shut>>

\* The whole of a request, or its first line.
Request(c) ==
  /\ Talks(c) /\ stalled[c] = "no" /\ more[c] > 0
  /\ arrived' = [arrived EXCEPT ![c] = @ + 1]
  /\ more' = [more EXCEPT ![c] = @ - 1]
  /\ \E owes \in {"no", "request"} : stalled' = [stalled EXCEPT ![c] = owes]
  /\ UNCHANGED <<loop, accepted, connections, conn_state, handlers, client, shut>>

StopsReading(c) ==
  /\ Talks(c) /\ stalled[c] = "no" /\ handlers[c] = "serves"
  /\ stalled' = [stalled EXCEPT ![c] = "answer"]
  /\ UNCHANGED <<loop, accepted, connections, conn_state, handlers, client, arrived, more, shut>>

Resumes(c) ==
  /\ Talks(c) /\ stalled[c] # "no"
  /\ stalled' = [stalled EXCEPT ![c] = "no"]
  /\ UNCHANGED <<loop, accepted, connections, conn_state, handlers, client, arrived, more, shut>>

Leave(c) ==
  /\ Talks(c)
  /\ client' = [client EXCEPT ![c] = "gone"]
  /\ UNCHANGED <<loop, accepted, connections, conn_state, handlers, arrived, more, stalled, shut>>

-----------------------------------------------------------------------------
(* server() *)

\* With a free slot in the pool, spawn() does not wait.
Accept(c) ==
  /\ loop = "accept"
  /\ client[c] # "away" /\ handlers[c] = "none"
  /\ connections' = [connections EXCEPT ![Addr[c]] = c]
  /\ IF HasSlot
     THEN handlers' = [handlers EXCEPT ![c] = "queued"] /\ UNCHANGED <<loop, accepted>>
     ELSE loop' = "spawn" /\ accepted' = c /\ UNCHANGED handlers
  /\ UNCHANGED <<conn_state, client, arrived, more, stalled, shut>>

Spawn ==
  /\ loop = "spawn" /\ HasSlot
  /\ handlers' = [handlers EXCEPT ![accepted] = "queued"]
  /\ loop' = "accept" /\ accepted' = NoConn
  /\ UNCHANGED <<connections, conn_state, client, arrived, more, stalled, shut>>

Known == {connections[a] : a \in DOMAIN connections} \ {NoConn}

\* Faulty: the connections that serve a request are not told.
MarkedIdle == [c \in Conns |-> IF c \in Known /\ conn_state[c] = "idle" THEN "close" ELSE conn_state[c]]

Marked == [c \in Conns |-> IF c \in Known THEN "close" ELSE conn_state[c]]

Shut == {c \in Known : conn_state[c] = "idle"}

\* An error of accept() or an exception thrown into the server ends the loop.
Stop ==
  /\ loop \in {"accept", "spawn"}
  /\ loop' = "drain" /\ accepted' = NoConn
  /\ conn_state' = Marked
  /\ shut' = shut \union Shut
  /\ UNCHANGED <<connections, handlers, client, arrived, more, stalled>>

\* waitall() returns.
Exit ==
  /\ loop = "drain" /\ Running = {}
  /\ loop' = "end"
  /\ UNCHANGED <<accepted, connections, conn_state, handlers, client, arrived, more, stalled, shut>>

-----------------------------------------------------------------------------
(* The greenthread of a connection *)

Begin(c) ==
  /\ handlers[c] = "queued"
  /\ handlers' = [handlers EXCEPT ![c] = "reads"]
  /\ UNCHANGED <<loop, accepted, connections, conn_state, client, arrived, more, stalled, shut>>

Popped(c) == [connections EXCEPT ![Addr[c]] = NoConn]

\* finish(), the end of the greenthread, and its link _clean_connection.
Ends(c) ==
  /\ handlers' = [handlers EXCEPT ![c] = "over"]
  /\ connections' = Popped(c)
  /\ conn_state' = [conn_state EXCEPT ![c] = "close"]
  /\ shut' = shut \union {c}
  /\ stalled' = [stalled EXCEPT ![c] = "no"]
  /\ UNCHANGED <<loop, accepted, client, arrived, more>>

\* Data that arrived before the shutdown can still be read after it.
ReadLine(c) ==
  /\ handlers[c] = "reads" /\ arrived[c] > 0
  /\ arrived' = [arrived EXCEPT ![c] = @ - 1]
  /\ conn_state' = [conn_state EXCEPT ![c] = "request"]
  /\ handlers' = [handlers EXCEPT ![c] = "serves"]
  /\ UNCHANGED <<loop, accepted, connections, client, more, stalled, shut>>

\* End of file; a reset, or a timeout of keepalive.
ReadNothing(c) ==
  /\ handlers[c] = "reads"
  /\ arrived[c] = 0 /\ (client[c] = "gone" \/ c \in shut)
  /\ Ends(c)

KeepaliveOver(c) ==
  /\ handlers[c] = "reads" /\ arrived[c] = 0
  /\ Ends(c)

\* Faulty: handle() forgets what the server has set meanwhile.
KeepsOnAlways(c) == TRUE

KeepsOn(c) == conn_state[c] # "close"

\* A request is served and its client owes the rest of it, or does not read; or a
\* websocket's client says nothing.  The end of the connection would end the waiting.
Waits(c) ==
  /\ client[c] = "open" /\ c \notin shut
  /\ \/ handlers[c] = "serves" /\ (stalled[c] = "answer" \/ (stalled[c] = "request" /\ arrived[c] = 0))
     \/ handlers[c] = "websocket"

\* The request is answered, and close_connection is 0: its body was read, and nothing that
\* was written failed.
AnswerAndGoOn(c) ==
  /\ handlers[c] = "serves" /\ ~Waits(c) /\ c \notin shut
  /\ IF KeepsOn(c)
     THEN /\ conn_state' = [conn_state EXCEPT ![c] = "idle"]
          /\ handlers' = [handlers EXCEPT ![c] = "reads"]
          /\ UNCHANGED <<loop, accepted, connections, client, arrived, more, stalled, shut>>
     ELSE Ends(c)

\* The request is refused, ends in an error or at socket_timeout, or closes its
\* connection.
AnswerAndClose(c) == handlers[c] = "serves" /\ Ends(c)

\* WebSocketWSGI calls set_idle() when it has sent the answer to the upgrade; what the
\* server has set meanwhile is overwritten.
Upgrade(c) ==
  /\ handlers[c] = "serves" /\ ~Waits(c) /\ c \notin shut
  /\ conn_state' = [conn_state EXCEPT ![c] = "idle"]
  /\ handlers' = [handlers EXCEPT ![c] = "websocket"]
  /\ UNCHANGED <<loop, accepted, connections, client, arrived, more, stalled, shut>>

WebsocketEnds(c) ==
  /\ handlers[c] = "websocket"
  /\ client[c] = "gone" \/ c \in shut
  /\ Ends(c)

WebsocketReturns(c) == handlers[c] = "websocket" /\ Ends(c)

Serves(c) == AnswerAndGoOn(c) \/ AnswerAndClose(c)

Runs(c) ==
  \/ Begin(c) \/ ReadLine(c) \/ ReadNothing(c) \/ WebsocketEnds(c)
  \/ ~Waits(c) /\ Serves(c)

WsgiNext ==
  \/ Spawn \/ Stop \/ Exit
  \/ \E c \in Conns :
       \/ Connect(c) \/ Request(c) \/ StopsReading(c) \/ Resumes(c) \/ Leave(c) \/ Accept(c)
       \/ Begin(c) \/ ReadLine(c) \/ ReadNothing(c) \/ KeepaliveOver(c)
       \/ Serves(c) \/ Upgrade(c) \/ WebsocketEnds(c) \/ WebsocketReturns(c)

\* Applications answer, unless they wait for their client, and websocket handlers see the
\* end of their input; a client need not do anything, and neither a keepalive nor a
\* connection need have a timeout.
WsgiFairness ==
  /\ WF_wsgiVars(Spawn \/ Exit)
  /\ \A c \in Conns : WF_wsgiVars(Runs(c))

WsgiSpec == WsgiInit /\ [][WsgiNext]_wsgiVars /\ WsgiFairness

-----------------------------------------------------------------------------
(* Properties *)

\* wsgi.py:1060-1092.  The server's records are exactly the connections that
\* are being served, or wait for a greenthread; a client is in one record.
RecordsExact ==
  loop \in {"accept", "spawn"} =>
    Known = Running \union ({accepted} \ {NoConn})

\* wsgi.py:398-441, 1086-1091.  Once the server waits for its pool, a
\* connection that waits for its client to ask has been shut down, whatever
\* its state was when the server looked; and so has a websocket, unless the
\* answer to its upgrade was sent since, and has overwritten the mark.
IdleIsShut ==
  loop = "drain" =>
    \A c \in Conns :
      \/ handlers[c] \in {"queued", "reads"}
      \/ handlers[c] = "websocket" /\ conn_state[c] = "close"
      => c \in shut

\* wsgi.py:975-986, 1086-1092.  A server that was stopped ends, unless a client keeps it
\* waiting: in the middle of a request, or on a websocket that it has not shut down.  One
\* that only may ask again, or leaves, does not.
Drains == loop = "drain" ~> loop = "end" \/ \E c \in Conns : Waits(c)
=============================================================================
