---------------------------- MODULE ServersProofs ----------------------------
(***************************************************************************)
(* Proofs about what MCServers composes, for any connections: the          *)
(* invariants of WebProofs, which MCServers instantiates, hold of whichever *)
(* component is the subject.                                               *)
(***************************************************************************)
EXTENDS MCServers, TLAPS

-----------------------------------------------------------------------------
(* The connections and the requests of the WSGI server *)

\* What WebProofs asks of the constants holds of the instance.
LEMMA WebValues == W!AddressesApart /\ W!RequestsFramed
<1>1. W!AddressesApart BY ServersAssumption DEF W!AddressesApart
<1>2. W!RequestsFramed BY DEF W!RequestsFramed, RequestHeads, Request
<1>3. QED BY <1>1, <1>2

LEMMA WebInit ==
  /\ W!WsgiInit => W!WsgiIInv
  /\ W!RequestInit => W!RequestIInv
<1>1. W!WsgiInit => W!WsgiIInv BY WebValues, W!WsgiInitIInv
<1>2. W!RequestInit => W!RequestIInv BY WebValues, W!RequestInitIInv
<1>3. QED BY <1>1, <1>2

LEMMA WebStep ==
  /\ W!WsgiIInv /\ (W!WsgiNext \/ UNCHANGED serverVars) => W!WsgiIInv'
  /\ W!RequestIInv /\ (W!RequestNext \/ UNCHANGED requestVars) => W!RequestIInv'
<1>1. ASSUME W!WsgiIInv, W!WsgiNext \/ UNCHANGED serverVars PROVE W!WsgiIInv'
  <2>1. UNCHANGED serverVars => UNCHANGED W!wsgiVars BY DEF serverVars, W!wsgiVars
  <2>2. [W!WsgiNext]_(W!wsgiVars) BY <1>1, <2>1
  <2>3. QED BY <1>1, <2>2, WebValues, W!WsgiNextIInv
<1>2. ASSUME W!RequestIInv, W!RequestNext \/ UNCHANGED requestVars PROVE W!RequestIInv'
  <2>1. UNCHANGED requestVars => UNCHANGED W!requestVars
    BY DEF requestVars, W!requestVars, W!peerVars, W!inputVars, W!answerVars
  <2>2. [W!RequestNext]_(W!requestVars) BY <1>2, <2>1
  <2>3. QED BY <1>2, <2>2, WebValues, W!RequestNextIInv
<1>3. QED BY <1>1, <1>2

-----------------------------------------------------------------------------
(* The cookie jar *)

LEMMA SiteIsSeq ==
  /\ W!IsSeq(Site)
  /\ W!IsSeq(Tail(Site)) /\ Tail(Site) # <<>> /\ Tail(Site)[1] = "c"
<1> DEFINE Labels == {".", "c", "d"}
<1>1. Site \in Seq(Labels) /\ Len(Site) = 4 /\ Site[2] = "c" BY DEF Site
<1> HIDE DEF Labels
<1>2. Tail(Site) \in Seq(Labels) /\ Len(Tail(Site)) = 3 /\ Tail(Site)[1] = Site[2] BY <1>1
<1>3. Tail(Site) # <<>>
  <2> DEFINE t == Tail(Site)
  <2>1. Len(t) = 3 BY <1>2
  <2> HIDE DEF t
  <2>2. t # <<>> BY <2>1
  <2>3. QED BY <2>2 DEF t
<1>4. QED BY <1>1, <1>2, <1>3, W!SeqIsSeq

LEMMA HostsAreSeqs ==
  \A request \in JarRequests :
    W!IsSeq(request.host) /\ request.host # <<>> /\ request.host[1] # "."
<1> DEFINE first == <<"a">>
           beyond == <<".", "e">>
           inside == first \o Site
           outside == inside \o beyond
<1>1. /\ W!IsSeq(first) /\ first # <<>> /\ first[1] # "."
      /\ W!IsSeq(beyond)
  <2>1. first \in Seq({"a"}) /\ beyond \in Seq({".", "e"}) OBVIOUS
  <2>2. first # <<>> /\ first[1] # "." OBVIOUS
  <2>3. QED BY <2>1, <2>2, W!SeqIsSeq
<1>2. \A request \in JarRequests : request.host \in {inside, outside, Tail(Site), first}
  BY DEF JarRequests, JarRequest
<1> HIDE DEF first, beyond
<1>3. W!IsSeq(inside) /\ inside # <<>> /\ inside[1] # "."
  <2>1. W!Joined(first, Site) BY <1>1, SiteIsSeq, W!SeqsJoin
  <2>2. QED BY <1>1, <2>1 DEF W!Joined
<1> HIDE DEF inside
<1>4. W!IsSeq(outside) /\ outside # <<>> /\ outside[1] # "."
  <2>1. W!Joined(inside, beyond) BY <1>1, <1>3, W!SeqsJoin
  <2>2. QED BY <1>3, <2>1 DEF W!Joined
<1> HIDE DEF outside
<1>5. QED BY <1>1, <1>2, <1>3, <1>4, SiteIsSeq

LEMMA HeadersAreSeqs ==
  \A response \in JarResponses :
    \A headers \in {response.rfc2965, response.netscape} :
      /\ W!IsSeq(headers)
      /\ \A header \in W!ToSet(headers) :
           /\ header.version \in Nat \cup {None}
           /\ header.domain = Absent \/ W!IsSeq(header.domain)
           /\ header.discard \in BOOLEAN /\ header.age \in Int \cup {Absent} /\ header.secure \in BOOLEAN
<1> DEFINE Sent == {JarHeader(None, Absent, Absent, Absent, FALSE, 2),
                    JarHeader(1, Site, <<"/">>, Absent, FALSE, 2),
                    JarHeader(None, Site, <<"/">>, Absent, FALSE, 1),
                    JarHeader(1, Site, Absent, None, TRUE, Absent),
                    JarHeader(1, Tail(Site), <<"/">>, {80}, FALSE, Absent),
                    JarHeader(None, Site, <<"/">>, Absent, FALSE, 0)}
           lines == {<<>>} \cup {<<header>> : header \in Sent}
<1>1. W!IsSeq(Site) /\ W!IsSeq(Tail(Site)) BY SiteIsSeq
<1>2. \A header \in Sent :
        /\ header.version \in {None, 1} /\ header.domain \in {Absent, Site, Tail(Site)}
        /\ header.discard = FALSE /\ header.age \in {0, 1, 2, Absent} /\ header.secure \in BOOLEAN
  <2>1. \A header \in Sent : header.version \in {None, 1} /\ header.domain \in {Absent, Site, Tail(Site)}
    BY DEF JarHeader
  <2>2. \A header \in Sent : header.discard = FALSE /\ header.age \in {0, 1, 2, Absent}
    BY DEF JarHeader
  <2>3. \A header \in Sent : header.secure = TRUE \/ header.secure = FALSE BY DEF JarHeader
  <2> HIDE DEF Sent
  <2>4. QED BY <2>1, <2>2, <2>3
<1>3. \A header \in Sent :
        /\ header.version \in Nat \cup {None}
        /\ header.domain = Absent \/ W!IsSeq(header.domain)
        /\ header.discard \in BOOLEAN /\ header.age \in Int \cup {Absent} /\ header.secure \in BOOLEAN
  <2> HIDE DEF Sent
  <2>1. SUFFICES ASSUME NEW header \in Sent
                 PROVE  /\ header.version \in Nat \cup {None}
                        /\ header.domain = Absent \/ W!IsSeq(header.domain)
                        /\ header.discard \in BOOLEAN /\ header.age \in Int \cup {Absent} /\ header.secure \in BOOLEAN
    OBVIOUS
  <2>2. header.version \in Nat \cup {None} /\ header.age \in Int \cup {Absent} BY <1>2
  <2>3. header.domain = Absent \/ W!IsSeq(header.domain) BY <1>1, <1>2
  <2>4. QED BY <1>2, <2>2, <2>3
<1>4. \A response \in JarResponses : response.rfc2965 \in lines /\ response.netscape \in lines
  <2>1. \A new, old : JarResponse(new, old).rfc2965 = new /\ JarResponse(new, old).netscape = old
    BY DEF JarResponse
  <2>2. \A response \in JarResponses :
          \E new, old \in lines : response = JarResponse(new, old)
    BY DEF JarResponses
  <2> HIDE DEF lines
  <2>3. SUFFICES ASSUME NEW response \in JarResponses
                 PROVE  response.rfc2965 \in lines /\ response.netscape \in lines
    OBVIOUS
  <2>4. PICK new, old \in lines : response = JarResponse(new, old) BY <2>2
  <2>5. QED BY <2>1, <2>4
<1> HIDE DEF Sent
<1>5. \A headers \in lines : headers \in Seq(Sent)
  <2>1. \A header \in Sent : <<header>> \in Seq(Sent) OBVIOUS
  <2>2. <<>> \in Seq(Sent) OBVIOUS
  <2>3. QED BY <2>1, <2>2
<1>6. \A headers \in lines : W!IsSeq(headers) /\ W!ToSet(headers) \subseteq Sent
  <2>1. \A headers \in Seq(Sent) : W!ToSet(headers) \subseteq Sent BY DEF W!ToSet
  <2> HIDE DEF lines
  <2>2. QED BY <1>5, <2>1, W!SeqIsSeq
<1> HIDE DEF lines
<1>7. QED BY <1>3, <1>4, <1>6

LEMMA JarValues == W!CookiesFramed
BY ServersAssumption, HostsAreSeqs, HeadersAreSeqs DEF W!CookiesFramed

LEMMA JarInitially == W!JarInit => W!JarIInv
BY JarValues, W!JarInitIInv

LEMMA JarStep ==
  ASSUME W!JarIInv, W!JarNext \/ UNCHANGED jarVars PROVE W!JarIInv'
<1>1. UNCHANGED jarVars => UNCHANGED W!jarVars BY DEF jarVars, W!jarVars
<1>2. [W!JarNext]_(W!jarVars) BY <1>1
<1>3. QED BY <1>2, JarValues, W!JarNextIInv

-----------------------------------------------------------------------------
(* The websocket *)

LEMMA SocketValues == W!FramesSent
<1>1. None \notin W!Threads /\ Handler \notin Senders BY ServersAssumption DEF W!Threads
<1>2. {"hixie", "hybi"} \subseteq {"hixie", "hybi"} OBVIOUS
<1>3. \A s \in FrameInputs : s \in Seq(W!Frames)
  <2> DEFINE S == Seq(W!Frames)
  <2>1. <<"whole", "whole", "close">> \in S /\ <<"whole", "whole">> \in S BY DEF W!Frames
  <2>2. <<"first", "ping", "middle", "final", "close">> \in S BY DEF W!Frames
  <2>3. <<"first", "whole">> \in S /\ <<"bad">> \in S /\ <<"first", "ping">> \in S BY DEF W!Frames
  <2>4. <<"first", "final", "whole", "ping">> \in S BY DEF W!Frames
  <2> HIDE DEF S
  <2>5. \A s \in FrameInputs : s \in S BY <2>1, <2>2, <2>3, <2>4 DEF FrameInputs
  <2>6. QED BY <2>5 DEF S
<1>4. QED BY <1>1, <1>2, <1>3 DEF W!FramesSent

LEMMA SocketInitially == W!SocketInit => W!SocketIInv
BY SocketValues, W!SocketInitIInv

LEMMA SocketStep ==
  ASSUME W!SocketIInv, W!SocketNext \/ UNCHANGED socketVars PROVE W!SocketIInv'
<1>1. UNCHANGED socketVars => UNCHANGED W!socketVars BY DEF socketVars, W!socketVars, W!waitVars, W!sendVars
<1>2. [W!SocketNext]_(W!socketVars) BY <1>1
<1>3. QED BY <1>2, SocketValues, W!SocketNextIInv

-----------------------------------------------------------------------------
(* The components together: a behaviour is one of its subject. *)

ServersInv ==
  /\ subject = "server" => W!WsgiIInv
  /\ subject = "request" => W!RequestIInv
  /\ subject = "socket" => W!SocketIInv
  /\ subject = "jar" => W!JarIInv

LEMMA ServersInvInit == Init => ServersInv
BY WebInit, SocketInitially, JarInitially DEF Init, ServersInv

LEMMA ServersInvStep == ServersInv /\ [Next]_vars => ServersInv'
<1> SUFFICES ASSUME ServersInv, [Next]_vars PROVE ServersInv'
  OBVIOUS
<1>1. CASE InServer(W!WsgiNext)
  <2>1. subject = "server" /\ subject' = "server" /\ W!WsgiNext BY <1>1 DEF InServer
  <2>2. QED BY <2>1, WebStep DEF ServersInv
<1>2. CASE InRequest(W!RequestNext)
  <2>1. subject = "request" /\ subject' = "request" /\ W!RequestNext BY <1>2 DEF InRequest
  <2>2. QED BY <2>1, WebStep DEF ServersInv
<1>3. CASE InSocket(W!SocketNext)
  <2>1. subject = "socket" /\ subject' = "socket" /\ W!SocketNext BY <1>3 DEF InSocket
  <2>2. QED BY <2>1, SocketStep DEF ServersInv
<1>4. CASE InClient(H!ClientNext)
  <2>1. subject' = "client" BY <1>4 DEF InClient
  <2>2. QED BY <2>1 DEF ServersInv
<1>5. CASE InJar(W!JarNext)
  <2>1. subject = "jar" /\ subject' = "jar" /\ W!JarNext BY <1>5 DEF InJar
  <2>2. QED BY <2>1, JarStep DEF ServersInv
<1>6. CASE UNCHANGED vars
  <2>1. subject' = subject /\ UNCHANGED <<serverVars, requestVars, socketVars, jarVars>> BY <1>6 DEF vars
  <2>2. /\ W!WsgiIInv => W!WsgiIInv'
        /\ W!RequestIInv => W!RequestIInv'
        /\ W!SocketIInv => W!SocketIInv'
        /\ W!JarIInv => W!JarIInv'
    BY <2>1, WebStep, SocketStep, JarStep
  <2>3. QED BY <2>1, <2>2 DEF ServersInv
<1>7. QED BY <1>1, <1>2, <1>3, <1>4, <1>5, <1>6 DEF Next

\* What the proofs of this module rest on holds in every reachable state.
THEOREM ServersInvariant == Spec => []ServersInv
<1>1. Init => ServersInv BY ServersInvInit
<1>2. ServersInv /\ [Next]_vars => ServersInv' BY ServersInvStep
<1>3. QED BY <1>1, <1>2, PTL DEF Spec

\* wsgi.py:398-441, 1060-1092, 108-155, 527-692, for any connections: the server knows
\* those it serves and shuts those that wait; requests are read where they begin, answers
\* end where the client sees it, and neither waits for the other.
THEOREM WsgiStaysExact == Spec => []WsgiExact
<1>1. ServersInv => WsgiExact
  <2>1. W!WsgiIInv => W!RecordsExact /\ W!IdleIsShut BY WebValues, W!WsgiIInvIsExact
  <2>2. W!RequestIInv => W!RequestsAligned /\ W!AnswersDelimited /\ W!NoMutualWait BY W!RequestIInvIsExact
  <2>3. QED BY <2>1, <2>2 DEF ServersInv, WsgiExact
<1>2. QED BY <1>1, ServersInvariant, PTL

\* websocket.py:412-466, 679-709, 817-829, for any senders: messages come in order and
\* whole, wait() returns None where no more will come, and messages go out in the order in
\* which they were compressed.
THEOREM WebSocketStaysExact == Spec => []WebSocketExact
<1>1. ServersInv => WebSocketExact
  <2>1. W!SocketIInv => W!MessagesInOrder /\ W!CompressedInOrder /\ W!NoneMeansClosed BY W!SocketIInvIsExact
  <2>2. QED BY <2>1 DEF ServersInv, WebSocketExact
<1>2. QED BY <1>1, ServersInvariant, PTL

\* cookiejar.py:1138-1329, 1423-1725, 1842-2154: the checks by domain and by cookie agree,
\* there is one cookie of a key, a cookie that is sent was set so, whatever files did to
\* it, and a revert() that succeeds gives what was to be saved.
THEOREM CookiesStayExact == Spec => []CookiesExact
<1>1. ServersInv => CookiesExact
  <2>1. W!JarIInv => W!MatchedExactly /\ W!OneOfAKey /\ W!NewerKept /\ W!SentAsSet /\ W!Restored
    BY JarValues, W!JarIInvIsExact
  <2>2. QED BY <2>1 DEF ServersInv, CookiesExact
<1>2. QED BY <1>1, ServersInvariant, PTL
=============================================================================
