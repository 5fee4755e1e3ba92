------------------------------ MODULE MCServers ------------------------------
(***************************************************************************)
(* HTTP, each part on a small instance: the WSGI server of eventlet/       *)
(* wsgi.py, its requests, the websockets of websocket.py, and the client   *)
(* and the cookies of green/http.  A request is a place in the server, and *)
(* a websocket a request, of which the other module says no more than that *)
(* it ends, and a client's server answers as it says: a behaviour is one   *)
(* of one of them, the subject.                                            *)
(***************************************************************************)
EXTENDS Integers, Sequences, FiniteSets

CONSTANTS
  Conns,              \* of WsgiServer
  Senders, Handler,   \* of WebSocket
  Absent,             \* of CookieJar
  None, Off

\* None is no connection, no greenthread, no time, and no call of a cookie jar.
ASSUME ServersAssumption ==
  /\ None \notin Conns /\ None \notin Int /\ None \notin {"extract", "revert", "failed"}
  /\ None \notin Senders \cup {Handler} /\ Handler \notin Senders

VARIABLES
  subject,   \* the component at work; the variables of the others are Off
  server_loop, server_accepted, server_connections, server_conn_state,
  server_handler, server_client, server_sent, server_more, server_stalled,
  server_shut,
  request_habits, request_keepalive, request_asked, request_owed,
  request_expecting, request_eof, request_stream, request_served, request_pc,
  request_head, request_position, request_ended, request_continued,
  request_hundred, request_headers_set, request_headers_sent,
  request_use_chunked, request_towrite, request_just_written,
  request_complete, request_close,
  socket_kind, socket_interrupts, socket_input, socket_inbox, socket_gone,
  socket_iterator, socket_fragmented, socket_received, socket_returned,
  socket_handler, socket_nothing, socket_websocket_closed, socket_open,
  socket_holder, socket_waiters, socket_packed, socket_frame, socket_wire,
  client_state, client_sock, client_response, client_lines, client_sent,
  client_request, client_resp, client_op, client_link, client_links,
  jar_policy, jar_now, jar_jar, jar_file, jar_last, jar_given, jar_responses, jar_saves

\* Requests: with and without a body, of either framing, of HTTP/1.0 and 1.1,
\* with and without "Expect: 100-continue".
Request(keep, http11, expect, framing, units) ==
  [keep |-> keep, http11 |-> http11, expect |-> expect, framing |-> framing, units |-> units]
RequestHeads ==
  {Request(TRUE, TRUE, FALSE, "none", 0), Request(FALSE, TRUE, FALSE, "length", 1),
   Request(TRUE, FALSE, FALSE, "length", 1), Request(TRUE, TRUE, TRUE, "length", 2),
   Request(TRUE, TRUE, FALSE, "chunked", 1), Request(TRUE, TRUE, TRUE, "chunked", 1)}

\* What a peer sends: messages, messages in fragments with control frames in
\* between, unfinished ones, a frame that is wrong.
FrameInputs ==
  {<<"whole", "whole", "close">>, <<"first", "ping", "middle", "final", "close">>,
   <<"whole", "whole">>, <<"first", "whole">>, <<"bad">>, <<"first", "ping">>, <<"first", "final", "whole", "ping">>}

\* Answers: of a length after "100 Continue", chunked, with the end of the
\* connection announced, without a body, and with no end but that of the connection.
ClientAnswer(http11, says, empty, framing, body, continues) ==
  [http11 |-> http11, says |-> says, empty |-> empty, framing |-> framing,
   body |-> body, continues |-> continues]
ClientAnswers ==
  {ClientAnswer(TRUE, "nothing", FALSE, "length", <<2>>, TRUE),
   ClientAnswer(TRUE, "nothing", FALSE, "chunked", <<2>>, FALSE),
   ClientAnswer(TRUE, "close", FALSE, "length", <<1>>, FALSE),
   ClientAnswer(FALSE, "keep", TRUE, "none", <<>>, FALSE),
   ClientAnswer(TRUE, "nothing", FALSE, "none", <<1>>, FALSE)}

\* A request whose answer has no body, and one in chunks with an empty one among them.
ClientAsked ==
  {[method |-> "HEAD", framing |-> "length", body |-> <<1>>],
   [method |-> "POST", framing |-> "chunked", body |-> <<1, 0, 1>>]}

\* A policy that takes both protocols, a strict one of Netscape's, and one that
\* blocks a domain and takes the cookies of RFC 2109 for Netscape's.
Policy(rfc2965, strict, blocked, rfc2109) ==
  [rfc2965 |-> rfc2965, netscape |-> TRUE, blocked |-> blocked, allowed |-> None,
   strict_rfc2965_unverifiable |-> TRUE, strict_ns_unverifiable |-> FALSE,
   strict_ns_set_path |-> FALSE, strict_ns_domain |-> strict,
   rfc2109_as_netscape |-> rfc2109]
Site == <<".", "c", ".", "d">>
JarPolicies ==
  {Policy(TRUE, {}, {}, None), Policy(FALSE, {"nodots", "nondomain"}, {}, None),
   Policy(TRUE, {"match"}, {Site}, TRUE)}

\* Hosts in the domain, at its top, that contain it without being in it, without a dot.
JarRequest(host, path, port, https, unverifiable, origin) ==
  [host |-> host, path |-> path, port |-> port, https |-> https,
   unverifiable |-> unverifiable, origin |-> origin]
JarRequests ==
  {JarRequest(<<"a">> \o Site, <<"/", "p", "/", "q">>, 80, FALSE, FALSE, <<"a">>),
   JarRequest(<<"a">> \o Site \o <<".", "e">>, <<"/", "p", "/", "q">>, 80, TRUE, FALSE, <<"a">>),
   JarRequest(Tail(Site), <<"/">>, 81, TRUE, TRUE, <<"a", ".", "e", ".", "d">>),
   JarRequest(<<"a">>, <<"/", "p">>, 80, FALSE, FALSE, <<"a">>)}

\* Headers of one cookie: of either protocol and of both at once, with and without a
\* domain, a path and a port, and one that removes it.
JarHeader(version, domain, path, port, secure, age) ==
  [name |-> "name", version |-> version, domain |-> domain,
   path |-> path, port |-> port, secure |-> secure, discard |-> FALSE, age |-> age]
JarResponse(rfc2965, netscape) == [rfc2965 |-> rfc2965, netscape |-> netscape]
JarResponses ==
  {JarResponse(<<>>, <<JarHeader(None, Absent, Absent, Absent, FALSE, 2)>>),
   JarResponse(<<JarHeader(1, Site, <<"/">>, Absent, FALSE, 2)>>,
               <<JarHeader(None, Site, <<"/">>, Absent, FALSE, 1)>>),
   JarResponse(<<JarHeader(1, Site, Absent, None, TRUE, Absent)>>, <<>>),
   JarResponse(<<>>, <<JarHeader(1, Tail(Site), <<"/">>, {80}, FALSE, Absent)>>),
   JarResponse(<<>>, <<JarHeader(None, Site, <<"/">>, Absent, FALSE, 0)>>)}

W == INSTANCE WebProofs WITH
  NoConn <- None,
  Addr <- [c \in Conns |-> c], PoolSize <- 2, MaxSent <- 1,
  Heads <- RequestHeads, MaxAsked <- 2, Habits <- {"write", "lateread"},
  loop <- server_loop, accepted <- server_accepted,
  connections <- server_connections, conn_state <- server_conn_state,
  handlers <- server_handler, client <- server_client, arrived <- server_sent,
  more <- server_more, stalled <- server_stalled, shut <- server_shut,
  habits <- request_habits, keepalive <- request_keepalive,
  asked <- request_asked, owed <- request_owed,
  expecting <- request_expecting, eof <- request_eof,
  stream <- request_stream, served <- request_served, pc <- request_pc,
  head <- request_head, position <- request_position, ended <- request_ended,
  continued <- request_continued, hundred <- request_hundred,
  headers_set <- request_headers_set, headers_sent <- request_headers_sent,
  use_chunked <- request_use_chunked, towrite <- request_towrite,
  just_written <- request_just_written, complete <- request_complete,
  close <- request_close,
  Kinds <- {"hixie", "hybi"}, Inputs <- FrameInputs, MaxPacked <- 3, NoOne <- None,
  Interrupts <- {"send", "wait"},
  kind <- socket_kind, interrupts <- socket_interrupts, input <- socket_input,
  inbox <- socket_inbox, gone <- socket_gone, iterator <- socket_iterator,
  fragmented <- socket_fragmented, received <- socket_received,
  returned <- socket_returned, handler <- socket_handler,
  nothing <- socket_nothing, websocket_closed <- socket_websocket_closed,
  open <- socket_open, holder <- socket_holder, waiters <- socket_waiters,
  packed <- socket_packed, frame <- socket_frame, wire <- socket_wire,
  Policies <- JarPolicies, Requests <- JarRequests, Responses <- JarResponses,
  Digits <- {"1"}, MaxResponses <- 2, MaxTime <- 1, MaxCalls <- 3,
  policy <- jar_policy, now <- jar_now, jar <- jar_jar, file <- jar_file,
  last <- jar_last, given <- jar_given, responses <- jar_responses, saves <- jar_saves

H == INSTANCE HttpClient WITH
  Answers <- ClientAnswers, Asked <- ClientAsked, MaxRequests <- 2,
  MaxLinks <- 2,
  state <- client_state, sock <- client_sock, response <- client_response,
  lines <- client_lines, sent <- client_sent, request <- client_request,
  resp <- client_resp, op <- client_op, link <- client_link,
  links <- client_links

serverVars == <<server_loop, server_accepted, server_connections, server_conn_state,
  server_handler, server_client, server_sent, server_more, server_stalled, server_shut>>
requestVars == <<request_habits, request_keepalive, request_asked, request_owed,
  request_expecting, request_eof, request_stream, request_served, request_pc,
  request_head, request_position, request_ended, request_continued,
  request_hundred, request_headers_set, request_headers_sent,
  request_use_chunked, request_towrite, request_just_written,
  request_complete, request_close>>
socketVars == <<socket_kind, socket_interrupts, socket_input, socket_inbox, socket_gone,
  socket_iterator, socket_fragmented, socket_received, socket_returned,
  socket_handler, socket_nothing, socket_websocket_closed, socket_open,
  socket_holder, socket_waiters, socket_packed, socket_frame, socket_wire>>
clientVars == <<client_state, client_sock, client_response, client_lines, client_sent,
  client_request, client_resp, client_op, client_link, client_links>>
jarVars == <<jar_policy, jar_now, jar_jar, jar_file, jar_last, jar_given, jar_responses, jar_saves>>
vars == <<subject, serverVars, requestVars, socketVars, clientVars, jarVars>>

serverOff ==
  /\ server_loop = Off /\ server_accepted = Off /\ server_connections = Off
  /\ server_conn_state = Off /\ server_handler = Off /\ server_client = Off
  /\ server_sent = Off /\ server_more = Off /\ server_stalled = Off /\ server_shut = Off
requestOff ==
  /\ request_habits = Off /\ request_keepalive = Off /\ request_asked = Off
  /\ request_owed = Off /\ request_expecting = Off /\ request_eof = Off
  /\ request_stream = Off /\ request_served = Off /\ request_pc = Off
  /\ request_head = Off /\ request_position = Off /\ request_ended = Off
  /\ request_continued = Off /\ request_hundred = Off
  /\ request_headers_set = Off /\ request_headers_sent = Off
  /\ request_use_chunked = Off /\ request_towrite = Off
  /\ request_just_written = Off /\ request_complete = Off
  /\ request_close = Off
socketOff ==
  /\ socket_kind = Off /\ socket_interrupts = Off /\ socket_input = Off
  /\ socket_inbox = Off /\ socket_gone = Off /\ socket_iterator = Off
  /\ socket_fragmented = Off /\ socket_received = Off
  /\ socket_returned = Off /\ socket_handler = Off /\ socket_nothing = Off
  /\ socket_websocket_closed = Off /\ socket_open = Off
  /\ socket_holder = Off /\ socket_waiters = Off /\ socket_packed = Off
  /\ socket_frame = Off /\ socket_wire = Off
clientOff ==
  /\ client_state = Off /\ client_sock = Off /\ client_response = Off
  /\ client_lines = Off /\ client_sent = Off /\ client_request = Off
  /\ client_resp = Off /\ client_op = Off /\ client_link = Off
  /\ client_links = Off
jarOff ==
  /\ jar_policy = Off /\ jar_now = Off /\ jar_jar = Off /\ jar_file = Off
  /\ jar_last = Off /\ jar_given = Off /\ jar_responses = Off /\ jar_saves = Off

Init ==
  \/ /\ subject = "server" /\ W!WsgiInit
     /\ requestOff /\ socketOff /\ clientOff /\ jarOff
  \/ /\ subject = "request" /\ W!RequestInit
     /\ serverOff /\ socketOff /\ clientOff /\ jarOff
  \/ /\ subject = "socket" /\ W!SocketInit
     /\ serverOff /\ requestOff /\ clientOff /\ jarOff
  \/ /\ subject = "client" /\ H!ClientInit
     /\ serverOff /\ requestOff /\ socketOff /\ jarOff
  \/ /\ subject = "jar" /\ W!JarInit
     /\ serverOff /\ requestOff /\ socketOff /\ clientOff
InServer(A) ==
  /\ subject = "server" /\ A
  /\ UNCHANGED <<subject, requestVars, socketVars, clientVars, jarVars>>
InRequest(A) ==
  /\ subject = "request" /\ A
  /\ UNCHANGED <<subject, serverVars, socketVars, clientVars, jarVars>>
InSocket(A) ==
  /\ subject = "socket" /\ A
  /\ UNCHANGED <<subject, serverVars, requestVars, clientVars, jarVars>>
InClient(A) ==
  /\ subject = "client" /\ A
  /\ UNCHANGED <<subject, serverVars, requestVars, socketVars, jarVars>>
InJar(A) ==
  /\ subject = "jar" /\ A
  /\ UNCHANGED <<subject, serverVars, requestVars, socketVars, clientVars>>
Next ==
  \/ InServer(W!WsgiNext) \/ InRequest(W!RequestNext) \/ InSocket(W!SocketNext)
  \/ InClient(H!ClientNext) \/ InJar(W!JarNext)

\* The fairness of each component, as its module explains it.
Fairness ==
  /\ WF_vars(InServer(W!Spawn \/ W!Exit))
  /\ \A c \in Conns : WF_vars(InServer(W!Runs(c)))
  /\ WF_vars(InSocket(W!Handles)) /\ WF_vars(InSocket(W!LockPassed))
  /\ \A s \in Senders : WF_vars(InSocket(W!Sent(s)))

Spec == Init /\ [][Next]_vars /\ Fairness

-----------------------------------------------------------------------------
(* Properties *)

\* wsgi.py:398-441, 1060-1092, 108-155, 527-692.  The server knows exactly the
\* connections it serves, and once it waits for its pool none of them waits for its
\* client.  The next request is read where it begins, the client can tell where an
\* answer ends, and neither waits for the other.
WsgiExact ==
  /\ subject = "server" => W!RecordsExact /\ W!IdleIsShut
  /\ subject = "request" => W!RequestsAligned /\ W!AnswersDelimited /\ W!NoMutualWait

\* websocket.py:412-466, 679-709, 817-829.  Messages come in order and whole, wait()
\* returns None where no more will come, and messages go out in the order in which they
\* were compressed.
WebSocketExact ==
  subject = "socket" => W!MessagesInOrder /\ W!CompressedInOrder /\ W!NoneMeansClosed

\* green/http/client.py:311-762, 1080-1131, 1382-1443.  A response gives what the
\* server answered to its request, to its end; nobody reads a head where there is
\* none, or waits for the other.
HttpExact ==
  subject = "client" => H!Attributed /\ H!Complete /\ H!Aligned /\ H!NoMutualWait

\* green/http/cookiejar.py:1138-1329, 1423-1725, 1842-2154.  The checks by domain and by
\* cookie agree, there is one cookie of a domain, path and name, that of RFC 2965 where a
\* response sets both; a cookie that is sent was set so, whatever files did to it, and
\* a revert() that succeeds gives what was saved and nothing else.
CookiesExact ==
  subject = "jar" => W!MatchedExactly /\ W!OneOfAKey /\ W!NewerKept /\ W!SentAsSet /\ W!Restored

\* wsgi.py:975-986, 1086-1092; websocket.py:104-123.  A server that was stopped ends, but
\* for a client in the middle of a request or on a websocket that was not shut down; and a
\* handler whose peer leaves ends.
Stopped == subject = "server" /\ server_loop = "drain"
Exited == subject = "server" /\ (server_loop = "end" \/ \E c \in Conns : W!Waits(c))
ServersEnd ==
  Stopped \/ (subject = "socket" /\ socket_gone)
    ~> Exited \/ (subject = "socket" /\ socket_handler = "over")
=============================================================================
