------------------------------ MODULE WebSocket ------------------------------
(***************************************************************************)
(* eventlet/websocket.py: one websocket of a server, of the old protocols  *)
(* ("hixie": class WebSocket) or of RFC 6455 ("hybi": RFC6455WebSocket).   *)
(*                                                                         *)
(* A handler calls wait() until it returns None and then returns; senders  *)
(* call send() on the same object.  The peer's input is a sequence of      *)
(* frames: "whole" (a message), "first", "middle" and "final" (a message   *)
(* in fragments), "ping", "close" and "bad".  A message that is sent is    *)
(* packed, which moves the state of the compressor on, and only then waits *)
(* for the lock of the socket.                                             *)
(***************************************************************************)
EXTENDS Integers, Sequences, SequencesExt, FiniteSets

CONSTANTS
  Senders,      \* greenthreads that call send()
  Handler,      \* the greenthread of the connection
  NoOne,
  Kinds,        \* of {"hixie", "hybi"}
  Inputs,       \* sequences of frames a peer may send
  MaxPacked,    \* bound of the model: messages sent
  Interrupts    \* a subset of {"wait", "send"}: where a Timeout may
                \* strike, in wait() once (a bound of the model)

VARIABLES
  kind,         \* "hixie" or "hybi"
  interrupts,   \* of Interrupts: where one did
  input,        \* what the peer sends
  inbox,        \* what of it is not read
  gone,         \* the peer has closed its end
  iterator,     \* the generator _iter_frames(): "live" or "ended"
  fragmented,   \* fragmented_message: how many fragments it has
  received,     \* _msgs, and messages returned by wait()
  returned,
  handler,      \* "idle", "recv", "pong", "closing", "returns", "over"
  nothing,      \* wait() has returned None
  websocket_closed,
  open,         \* the socket is open at this end
  holder,       \* who holds _sendlock
  waiters,      \* who waits for it
  packed,       \* how many messages were packed
  frame,        \* per greenthread: the number of its frame, 0 for none
  wire          \* frames sent: numbers of messages, PongFrame, ClosingFrame

waitVars == <<input, inbox, gone, iterator, fragmented, received, returned, nothing>>
sendVars == <<holder, waiters, packed, frame, wire>>
socketVars == <<kind, interrupts, waitVars, handler, websocket_closed, open, sendVars>>

PongFrame == 0
ClosingFrame == -1

Threads == Senders \union {Handler}

SocketInit ==
  /\ kind \in Kinds /\ interrupts = {}
  /\ input \in {s \in Inputs : kind = "hixie" => ToSet(s) \subseteq {"whole", "close"}}
  /\ inbox = input /\ gone = FALSE
  /\ iterator = "live" /\ fragmented = 0
  /\ received = <<>> /\ returned = <<>> /\ nothing = FALSE
  /\ handler = "idle" /\ websocket_closed = FALSE /\ open = TRUE
  /\ holder = NoOne /\ waiters = <<>> /\ packed = 0
  /\ frame = [t \in Threads |-> 0] /\ wire = <<>>

-----------------------------------------------------------------------------
(* send() *)

LockFree == holder = NoOne /\ waiters = <<>>

\* _sendlock.acquire(), once the frame is packed.
Acquire(t) ==
  IF LockFree
  THEN holder' = t /\ UNCHANGED waiters
  ELSE waiters' = Append(waiters, t) /\ UNCHANGED holder

\* send() of a message
Send(s) ==
  /\ frame[s] = 0 /\ packed < MaxPacked
  /\ packed' = packed + 1
  /\ frame' = [frame EXCEPT ![s] = packed']
  /\ Acquire(s)
  /\ UNCHANGED <<kind, interrupts, waitVars, handler, websocket_closed, open, wire>>

\* release() gave the lock to the first that waits.
LockPassed ==
  /\ holder = NoOne /\ waiters # <<>>
  /\ holder' = Head(waiters) /\ waiters' = Tail(waiters)
  /\ UNCHANGED <<kind, interrupts, waitVars, handler, websocket_closed, open, packed, frame, wire>>

\* sendall() has returned, or has failed since the socket is closed.
Sent(s) ==
  /\ holder = s
  /\ holder' = NoOne
  /\ frame' = [frame EXCEPT ![s] = 0]
  /\ wire' = IF open THEN Append(wire, frame[s]) ELSE wire
  /\ UNCHANGED <<kind, interrupts, waitVars, handler, websocket_closed, open, waiters, packed>>

\* A Timeout ends a send() that waits for the lock.
SendTimeout(s) ==
  /\ "send" \in Interrupts
  /\ Contains(waiters, s)
  /\ interrupts' = interrupts \union {"send"}
  /\ waiters' = RemoveFirst(waiters, s)
  /\ frame' = [frame EXCEPT ![s] = 0]
  /\ UNCHANGED <<kind, waitVars, handler, websocket_closed, open, holder, packed, wire>>

-----------------------------------------------------------------------------
(* wait() *)

PeerLeaves ==
  /\ ~gone
  /\ gone' = TRUE
  /\ UNCHANGED <<kind, interrupts, input, inbox, iterator, fragmented, received, returned, nothing, handler,
                 websocket_closed, open, sendVars>>

WaitReturns(m) == returned' = Append(returned, m) /\ handler' = "idle" /\ UNCHANGED nothing
ReturnsNothing == nothing' = TRUE /\ handler' = "returns" /\ UNCHANGED returned

\* wait() is called: a message there is, None if there will be none.
Wait ==
  /\ handler = "idle"
  /\ IF received # <<>>
     THEN WaitReturns(Head(received)) /\ received' = Tail(received)
     ELSE /\ IF iterator = "ended" \/ (kind = "hixie" /\ websocket_closed)
             THEN ReturnsNothing
             ELSE handler' = "recv" /\ UNCHANGED <<returned, nothing>>
          /\ UNCHANGED received
  /\ UNCHANGED <<kind, interrupts, input, inbox, gone, iterator, fragmented, websocket_closed, open, sendVars>>

Collected == 0

\* Faulty: a control frame ends the message it comes in the middle of.
ControlForgets == 0

ControlKeeps == fragmented

\* The frames of the old protocols: what comes is parsed at once, to the n-th frame, which
\* is the last that came or a closing one.
RecvHixie(n) ==
  /\ kind = "hixie" /\ handler = "recv" /\ n \in 1..Len(inbox)
  /\ \A i \in 1..(n - 1) : inbox[i] # "close"
  /\ LET closes == inbox[n] = "close"
         all == received \o [i \in 1..(IF closes THEN n - 1 ELSE n) |-> 1]
     IN /\ websocket_closed' = closes
        /\ inbox' = SubSeq(inbox, n + 1, Len(inbox))
        /\ IF all # <<>>
           THEN WaitReturns(Head(all)) /\ received' = Tail(all)
           ELSE ReturnsNothing /\ UNCHANGED received
  /\ UNCHANGED <<kind, interrupts, input, gone, iterator, fragmented, open, sendVars>>

\* _handle_control_frame and the except clauses of _iter_frames: a frame to be
\* sent, before the next is read or the generator ends.
Replies(to) ==
  /\ handler' = to
  /\ UNCHANGED <<returned, nothing, received>>

RecvData ==
  LET f == Head(inbox)
      n == fragmented + 1
  IN /\ CASE f = "whole" /\ fragmented = 0 -> WaitReturns(1) /\ fragmented' = 0
          [] f = "first" /\ fragmented = 0 -> fragmented' = 1 /\ UNCHANGED <<returned, nothing, handler>>
          [] f = "middle" /\ fragmented > 0 -> fragmented' = n /\ UNCHANGED <<returned, nothing, handler>>
          [] f = "final" /\ fragmented > 0 -> WaitReturns(n) /\ fragmented' = Collected
          [] OTHER -> handler' = "closing" /\ UNCHANGED <<returned, nothing, fragmented>>
     /\ UNCHANGED received

RecvHybi ==
  /\ kind = "hybi" /\ handler = "recv" /\ inbox # <<>>
  /\ inbox' = Tail(inbox)
  /\ \/ Head(inbox) = "ping" /\ Replies("pong") /\ fragmented' = ControlKeeps
     \/ Head(inbox) = "close" /\ Replies("closing") /\ UNCHANGED fragmented
     \/ Head(inbox) \notin {"ping", "close"} /\ RecvData
  /\ UNCHANGED <<kind, interrupts, input, gone, iterator, websocket_closed, open, sendVars>>

AtEnd == inbox = <<>> /\ gone

RecvEof ==
  /\ handler = "recv" /\ AtEnd
  /\ iterator' = "ended"
  /\ ReturnsNothing
  /\ UNCHANGED <<kind, interrupts, input, inbox, gone, fragmented, received, websocket_closed, open, sendVars>>

\* A Timeout in recv() ends the generator; the handler goes on.
WaitTimeout ==
  /\ "wait" \in Interrupts \ interrupts /\ handler = "recv"
  /\ interrupts' = interrupts \union {"wait"}
  /\ iterator' = IF kind = "hybi" THEN "ended" ELSE iterator
  /\ handler' = "idle"
  /\ UNCHANGED <<kind, input, inbox, gone, fragmented, received, returned, nothing, websocket_closed, open, sendVars>>

-----------------------------------------------------------------------------
(* Frames the handler sends itself *)

\* A pong, or a closing frame unless one was sent.
Owes ==
  kind = "hybi" /\ (handler = "pong" \/ (handler \in {"closing", "returns"} /\ ~websocket_closed))

HandlerSends ==
  /\ Owes /\ frame[Handler] = 0
  /\ frame' = [frame EXCEPT ![Handler] = 1]
  /\ Acquire(Handler)
  /\ UNCHANGED <<kind, interrupts, waitVars, handler, websocket_closed, open, packed, wire>>

PongSent ==
  /\ holder = Handler /\ handler = "pong"
  /\ holder' = NoOne
  /\ frame' = [frame EXCEPT ![Handler] = 0]
  /\ wire' = Append(wire, PongFrame)
  /\ handler' = "recv"
  /\ UNCHANGED <<kind, interrupts, waitVars, websocket_closed, open, waiters, packed>>

Closed == TRUE

CloseSent ==
  /\ holder = Handler /\ handler \in {"closing", "returns"}
  /\ holder' = NoOne
  /\ frame' = [frame EXCEPT ![Handler] = 0]
  /\ wire' = Append(wire, ClosingFrame)
  /\ websocket_closed' = Closed
  /\ IF handler = "closing"
     THEN iterator' = "ended" /\ open' = FALSE /\ ReturnsNothing
     ELSE handler' = "over" /\ UNCHANGED <<iterator, open, returned, nothing>>
  /\ UNCHANGED <<kind, interrupts, input, inbox, gone, fragmented, received, waiters, packed>>

\* The old protocols' closing frame does not wait for the lock; version 75 has none.
CloseAtOnce ==
  /\ kind = "hixie" /\ handler = "returns" /\ ~websocket_closed
  /\ handler' = "over"
  /\ \/ wire' = Append(wire, ClosingFrame) /\ websocket_closed' = Closed
     \/ UNCHANGED <<wire, websocket_closed>>
  /\ UNCHANGED <<kind, interrupts, waitVars, open, holder, waiters, packed, frame>>

\* The handler returns after a closing handshake.
HandlerReturns ==
  /\ handler = "returns" /\ websocket_closed
  /\ handler' = "over"
  /\ UNCHANGED <<kind, interrupts, waitVars, websocket_closed, open, sendVars>>

\* The WSGI server closes the connection.
ServerCloses ==
  /\ handler = "over" /\ open
  /\ open' = FALSE
  /\ UNCHANGED <<kind, interrupts, waitVars, handler, websocket_closed, sendVars>>

Handles ==
  \/ Wait \/ RecvHybi \/ RecvEof \/ HandlerSends \/ PongSent \/ CloseSent \/ CloseAtOnce
  \/ HandlerReturns \/ ServerCloses
  \/ \E n \in 1..Len(inbox) : RecvHixie(n)

SocketNext ==
  \/ Handles \/ LockPassed \/ PeerLeaves \/ WaitTimeout
  \/ \E s \in Senders : Send(s) \/ Sent(s) \/ SendTimeout(s)

\* sendall() ends: the peer reads, or it is gone.
SocketFairness ==
  /\ WF_socketVars(Handles) /\ WF_socketVars(LockPassed)
  /\ \A s \in Senders : WF_socketVars(Sent(s))

SocketSpec == SocketInit /\ [][SocketNext]_socketVars /\ SocketFairness

-----------------------------------------------------------------------------
(* Properties *)

\* How many frames of the peer were read, and of the first i of its frames: how many end
\* a message, and how many belong to a message that has not ended.
Taken == Len(input) - Len(inbox)
DataFrames == {"whole", "first", "middle", "final"}
LastFrames == {"whole", "final"}
Ended(i) == Cardinality({j \in 1..i : input[j] \in LastFrames})
Fragments(i) ==
  Cardinality({j \in 1..i : input[j] \in DataFrames /\ \A k \in j..i : input[k] \notin LastFrames})

\* A message begins where none is under way.
WellFormed(n) ==
  \A i \in 1..n :
    /\ input[i] # "bad"
    /\ input[i] \in DataFrames => (input[i] \in {"whole", "first"} <=> Fragments(i - 1) = 0)

\* websocket.py:412-466, 679-709.  What wait() has returned and is going to
\* return is each message the peer has sent, once, in order and whole, as the number
\* of its fragments, whatever control frames come in between; and it closes the
\* connection only when it is asked to.
MessagesInOrder ==
  "wait" \notin interrupts /\ WellFormed(Taken) =>
    LET got == returned \o received
    IN /\ Len(got) = Ended(Taken)
       /\ \A i \in 1..Taken : input[i] \in LastFrames => got[Ended(i)] = Fragments(i - 1) + 1
       /\ handler = "closing" => \E i \in 1..Taken : input[i] = "close"

\* websocket.py:817-829.  The frames of messages reach the wire in the order
\* in which they were compressed, with none left out; so a peer that keeps
\* the state of its decompressor can read them.  A Timeout in send() is the
\* exception.  There is one closing frame.
CompressedInOrder ==
  /\ "send" \notin interrupts =>
       \A i \in 1..Len(wire) : wire[i] > 0 =>
         {wire[j] : j \in 1..(i - 1)} \ {PongFrame, ClosingFrame} = 1..(wire[i] - 1)
  /\ \A i, j \in 1..Len(wire) : wire[i] = ClosingFrame /\ wire[j] = ClosingFrame => i = j

\* websocket.py:456-466 (wait): "If the client has already closed the
\* connection, returns None", and never else, where no Timeout ended its frames.
NoneMeansClosed == nothing /\ "wait" \notin interrupts => gone \/ websocket_closed
=============================================================================
