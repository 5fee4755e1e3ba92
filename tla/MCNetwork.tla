------------------------------ MODULE MCNetwork ------------------------------
(***************************************************************************)
(* What waits for descriptors, each on a small instance: the listeners of  *)
(* eventlet/hubs and trampoline(), the hub over asyncio and its bridge to  *)
(* futures, the green sockets of greenio and green/ssl.py, green/zmq.py,   *)
(* and the queries and lookups of support/greendns.py.  Here they share no *)
(* state (each module models what it needs of the hub): a behaviour is one *)
(* of one component, the subject.                                          *)
(***************************************************************************)
EXTENDS Integers, Sequences, FiniteSets

CONSTANTS
  Threads, Fds,           \* of Listeners and AsyncioHub: two descriptors
  Crowd, Lone,            \* and many threads, one descriptor
  Watched,                \* whom EventReachesWaiter looks at: others are alike
  Hub, Away, Dead, MaxFiles, MaxSerial,
  MaxTime, MaxOpens,      \* of AsyncioHub
  Tasks,                  \* of Awaitable
  Kinds, Buffer, Size, MaxRecord,              \* of GreenSocket
  Senders, Receivers, Parts, HighWater, MaxSent,   \* of ZmqSocket
  Transports, Timeout, Pause, Bytes, MaxGrams, \* of DnsQuery
  Requests, Answers, MaxEdits,                 \* of DnsLookup
  None, Off

VARIABLES
  subject,   \* the component at work; the variables of the others are Off
  hub_backend, hub_phase, hub_current, hub_at, hub_files, hub_opened,
  hub_ready, hub_listeners, hub_secondaries, hub_spent, hub_closed,
  hub_interest, hub_result, hub_callbacks, hub_removing, hub_cause,
  loop_phase, loop_current, loop_now, loop_until, loop_timers, loop_fresh,
  loop_sleep_event, loop_at, loop_listeners, loop_secondaries, loop_closed,
  loop_readers, loop_watched, loop_open, loop_ready, loop_opens,
  await_future, await_asked, await_thread, await_outcome, await_links,
  await_soon, await_wake, await_awaits,
  green_kind, green_impatient, green_notices, green_link, green_todo, green_waits,
  green_net, green_flights, green_inHead, green_outHead, green_engine, green_tail,
  green_got,
  zmq_trouble, zmq_fd, zmq_news, zmq_avail, zmq_supply, zmq_isClosed,
  zmq_lockCount, zmq_holder, zmq_lockQueue, zmq_waking, zmq_blocked,
  zmq_wakeupper, zmq_thread, zmq_left, zmq_late,
  query_transport, query_ignores, query_now, query_at, query_since,
  query_tried, query_inbox, query_count, query_read, query_result,
  lookup_request, lookup_single, lookup_file, lookup_edits, lookup_loaded,
  lookup_fresh, lookup_todo, lookup_at, lookup_found, lookup_error,
  lookup_addrs, lookup_err, lookup_asked, lookup_answered, lookup_silent

\* Listeners and GreenSocket with what is proved of them, so that it is proved of
\* the instances; M has another instance of Listeners, and the same GreenSocket.
L == INSTANCE SocketProofs WITH
  Wanted <- {"read", "write"}, Backends <- {"epoll", "select"},
  PreventMultiple <- FALSE, Throwing <- TRUE, Readding <- FALSE,
  backend <- hub_backend, phase <- hub_phase, current <- hub_current,
  at <- hub_at, files <- hub_files, opened <- hub_opened, ready <- hub_ready,
  listeners <- hub_listeners, secondaries <- hub_secondaries,
  spent <- hub_spent, closed <- hub_closed, interest <- hub_interest,
  result <- hub_result, callbacks <- hub_callbacks, removing <- hub_removing,
  cause <- hub_cause,
  Capacity <- Buffer,
  kind <- green_kind, impatient <- green_impatient, notices <- green_notices, link <- green_link,
  todo <- green_todo, waits <- green_waits, net <- green_net,
  flights <- green_flights, inHead <- green_inHead, outHead <- green_outHead,
  engine <- green_engine, tail <- green_tail, got <- green_got

M == INSTANCE SocketProofs WITH
  Threads <- Crowd, Fds <- Lone, Wanted <- {"read"}, Backends <- {"epoll", "poll", "select"},
  PreventMultiple <- FALSE, Throwing <- TRUE, Readding <- FALSE,
  backend <- hub_backend, phase <- hub_phase, current <- hub_current,
  at <- hub_at, files <- hub_files, opened <- hub_opened, ready <- hub_ready,
  listeners <- hub_listeners, secondaries <- hub_secondaries,
  spent <- hub_spent, closed <- hub_closed, interest <- hub_interest,
  result <- hub_result, callbacks <- hub_callbacks, removing <- hub_removing,
  cause <- hub_cause,
  Capacity <- Buffer,
  kind <- green_kind, impatient <- green_impatient, notices <- green_notices, link <- green_link,
  todo <- green_todo, waits <- green_waits, net <- green_net,
  flights <- green_flights, inHead <- green_inHead, outHead <- green_outHead,
  engine <- green_engine, tail <- green_tail, got <- green_got

O == INSTANCE AsyncioHub WITH
  Multiple <- FALSE,
  phase <- loop_phase, current <- loop_current, now <- loop_now,
  until <- loop_until, timers <- loop_timers, fresh <- loop_fresh,
  sleep_event <- loop_sleep_event, at <- loop_at, listeners <- loop_listeners,
  secondaries <- loop_secondaries, closed <- loop_closed,
  readers <- loop_readers, watched <- loop_watched, open <- loop_open,
  ready <- loop_ready, opens <- loop_opens

W == INSTANCE Awaitable WITH
  future <- await_future, asked <- await_asked, thread <- await_thread,
  outcome <- await_outcome, links <- await_links, soon <- await_soon,
  wake <- await_wake, awaits <- await_awaits

Z == INSTANCE ZmqSocket WITH
  Capacity <- HighWater,
  trouble <- zmq_trouble, fd <- zmq_fd, news <- zmq_news, avail <- zmq_avail,
  supply <- zmq_supply, isClosed <- zmq_isClosed, lockCount <- zmq_lockCount,
  holder <- zmq_holder, lockQueue <- zmq_lockQueue, waking <- zmq_waking,
  blocked <- zmq_blocked, wakeupper <- zmq_wakeupper, thread <- zmq_thread,
  left <- zmq_left, late <- zmq_late

Q == INSTANCE DnsQuery WITH
  transport <- query_transport, ignores <- query_ignores, now <- query_now,
  at <- query_at, since <- query_since, tried <- query_tried,
  inbox <- query_inbox, count <- query_count, read <- query_read,
  result <- query_result

H == INSTANCE DnsLookup WITH
  request <- lookup_request, single <- lookup_single, file <- lookup_file,
  edits <- lookup_edits, loaded <- lookup_loaded, fresh <- lookup_fresh,
  todo <- lookup_todo, at <- lookup_at, found <- lookup_found,
  error <- lookup_error, addrs <- lookup_addrs, err <- lookup_err,
  asked <- lookup_asked, answered <- lookup_answered, silent <- lookup_silent

ASSUME NetworkAssumption ==
  /\ L!ValuesApart /\ M!ValuesApart /\ None \notin Threads /\ MaxTime \in Nat
  /\ Tasks \cap {"done", "wrapped"} = {}
  /\ Senders \cap Receivers = {} /\ None \notin Senders \cup Receivers
  /\ Parts \subseteq Nat \ {0} /\ HighWater \in Nat
  /\ Timeout \in Nat /\ Pause \in Nat /\ L!Countable
  /\ Requests \subseteq {"v4", "v6", "any", "mapped", "all"}

hubVars == <<hub_backend, hub_phase, hub_current, hub_at, hub_files, hub_opened,
  hub_ready, hub_listeners, hub_secondaries, hub_spent, hub_closed,
  hub_interest, hub_result, hub_callbacks, hub_removing, hub_cause>>
loopVars == <<loop_phase, loop_current, loop_now, loop_until, loop_timers, loop_fresh,
  loop_sleep_event, loop_at, loop_listeners, loop_secondaries, loop_closed,
  loop_readers, loop_watched, loop_open, loop_ready, loop_opens>>
awaitVars == <<await_future, await_asked, await_thread, await_outcome, await_links,
  await_soon, await_wake, await_awaits>>
greenVars == <<green_kind, green_impatient, green_notices, green_link, green_todo, green_waits,
  green_net, green_flights, green_inHead, green_outHead, green_engine, green_tail,
  green_got>>
zmqVars == <<zmq_trouble, zmq_fd, zmq_news, zmq_avail, zmq_supply, zmq_isClosed,
  zmq_lockCount, zmq_holder, zmq_lockQueue, zmq_waking, zmq_blocked,
  zmq_wakeupper, zmq_thread, zmq_left, zmq_late>>
queryVars == <<query_transport, query_ignores, query_now, query_at, query_since,
  query_tried, query_inbox, query_count, query_read, query_result>>
lookupVars == <<lookup_request, lookup_single, lookup_file, lookup_edits, lookup_loaded,
  lookup_fresh, lookup_todo, lookup_at, lookup_found, lookup_error,
  lookup_addrs, lookup_err, lookup_asked, lookup_answered, lookup_silent>>
vars == <<subject, hubVars, loopVars, awaitVars, greenVars, zmqVars, queryVars, lookupVars>>

hubOff ==
  /\ hub_backend = Off /\ hub_phase = Off /\ hub_current = Off
  /\ hub_at = Off /\ hub_files = Off /\ hub_opened = Off /\ hub_ready = Off
  /\ hub_listeners = Off /\ hub_secondaries = Off /\ hub_spent = Off
  /\ hub_closed = Off /\ hub_interest = Off /\ hub_result = Off
  /\ hub_callbacks = Off /\ hub_removing = Off /\ hub_cause = Off
loopOff ==
  /\ loop_phase = Off /\ loop_current = Off /\ loop_now = Off
  /\ loop_until = Off /\ loop_timers = Off /\ loop_fresh = Off
  /\ loop_sleep_event = Off /\ loop_at = Off /\ loop_listeners = Off
  /\ loop_secondaries = Off /\ loop_closed = Off /\ loop_readers = Off
  /\ loop_watched = Off /\ loop_open = Off /\ loop_ready = Off
  /\ loop_opens = Off
awaitOff ==
  /\ await_future = Off /\ await_asked = Off /\ await_thread = Off
  /\ await_outcome = Off /\ await_links = Off /\ await_soon = Off
  /\ await_wake = Off /\ await_awaits = Off
greenOff ==
  /\ green_kind = Off /\ green_impatient = Off /\ green_notices = Off /\ green_link = Off
  /\ green_todo = Off /\ green_waits = Off /\ green_net = Off
  /\ green_flights = Off /\ green_inHead = Off /\ green_outHead = Off
  /\ green_engine = Off /\ green_tail = Off /\ green_got = Off
zmqOff ==
  /\ zmq_trouble = Off /\ zmq_fd = Off /\ zmq_news = Off /\ zmq_avail = Off
  /\ zmq_supply = Off /\ zmq_isClosed = Off /\ zmq_lockCount = Off
  /\ zmq_holder = Off /\ zmq_lockQueue = Off /\ zmq_waking = Off
  /\ zmq_blocked = Off /\ zmq_wakeupper = Off /\ zmq_thread = Off
  /\ zmq_left = Off /\ zmq_late = Off
queryOff ==
  /\ query_transport = Off /\ query_ignores = Off /\ query_now = Off
  /\ query_at = Off /\ query_since = Off /\ query_tried = Off
  /\ query_inbox = Off /\ query_count = Off /\ query_read = Off
  /\ query_result = Off
lookupOff ==
  /\ lookup_request = Off /\ lookup_single = Off /\ lookup_file = Off
  /\ lookup_edits = Off /\ lookup_loaded = Off /\ lookup_fresh = Off
  /\ lookup_todo = Off /\ lookup_at = Off /\ lookup_found = Off
  /\ lookup_error = Off /\ lookup_addrs = Off /\ lookup_err = Off
  /\ lookup_asked = Off /\ lookup_answered = Off /\ lookup_silent = Off

Init ==
  \/ /\ \/ subject = "hub" /\ L!Init
        \/ subject = "crowd" /\ M!Init
     /\ loopOff /\ awaitOff /\ greenOff /\ zmqOff /\ queryOff /\ lookupOff
  \/ /\ subject = "loop" /\ O!LoopInit
     /\ hubOff /\ awaitOff /\ greenOff /\ zmqOff /\ queryOff /\ lookupOff
  \/ /\ subject = "await" /\ W!AwaitInit
     /\ hubOff /\ loopOff /\ greenOff /\ zmqOff /\ queryOff /\ lookupOff
  \/ /\ subject = "green" /\ L!GreenInit
     /\ hubOff /\ loopOff /\ awaitOff /\ zmqOff /\ queryOff /\ lookupOff
  \/ /\ subject = "zmq" /\ Z!ZmqInit
     /\ hubOff /\ loopOff /\ awaitOff /\ greenOff /\ queryOff /\ lookupOff
  \/ /\ subject = "query" /\ Q!QueryInit
     /\ hubOff /\ loopOff /\ awaitOff /\ greenOff /\ zmqOff /\ lookupOff
  \/ /\ subject = "lookup" /\ H!LookupInit
     /\ hubOff /\ loopOff /\ awaitOff /\ greenOff /\ zmqOff /\ queryOff
InHub(A) ==
  /\ subject = "hub" /\ A
  /\ UNCHANGED <<subject, loopVars, awaitVars, greenVars, zmqVars, queryVars,
                 lookupVars>>
InCrowd(A) ==
  /\ subject = "crowd" /\ A
  /\ UNCHANGED <<subject, loopVars, awaitVars, greenVars, zmqVars, queryVars,
                 lookupVars>>
InLoop(A) ==
  /\ subject = "loop" /\ A
  /\ UNCHANGED <<subject, hubVars, awaitVars, greenVars, zmqVars, queryVars,
                 lookupVars>>
InAwait(A) ==
  /\ subject = "await" /\ A
  /\ UNCHANGED <<subject, hubVars, loopVars, greenVars, zmqVars, queryVars,
                 lookupVars>>
InGreen(A) ==
  /\ subject = "green" /\ A
  /\ UNCHANGED <<subject, hubVars, loopVars, awaitVars, zmqVars, queryVars,
                 lookupVars>>
InZmq(A) ==
  /\ subject = "zmq" /\ A
  /\ UNCHANGED <<subject, hubVars, loopVars, awaitVars, greenVars, queryVars,
                 lookupVars>>
InQuery(A) ==
  /\ subject = "query" /\ A
  /\ UNCHANGED <<subject, hubVars, loopVars, awaitVars, greenVars, zmqVars,
                 lookupVars>>
InLookup(A) ==
  /\ subject = "lookup" /\ A
  /\ UNCHANGED <<subject, hubVars, loopVars, awaitVars, greenVars, zmqVars,
                 queryVars>>
Next ==
  \/ InHub(L!Next) \/ InCrowd(M!Next) \/ InLoop(O!LoopNext) \/ InAwait(W!AwaitNext)
  \/ InGreen(L!GreenNext) \/ InZmq(Z!ZmqNext)
  \/ InQuery(Q!QueryNext) \/ InLookup(H!LookupNext)

\* The fairness of each component, as its module explains it; a conjunct for the
\* steps of several is one for each, as a behaviour has one subject.
Fairness ==
  /\ WF_vars(InHub(L!HubStep) \/ InCrowd(M!HubStep) \/ InLoop(O!Tick) \/ InGreen(L!Kernel))
  /\ SF_vars(InHub(L!TimersDone) \/ InCrowd(M!TimersDone) \/ InLoop(O!HubStep))
  /\ WF_vars(\/ InHub(\E t \in Threads : L!Yields(t))
              \/ InCrowd(\E t \in Crowd : M!Yields(t))
              \/ InLoop(\E t \in Threads : O!Yields(t)))
  /\ \A f \in Fds : SF_vars(InLoop(O!FileCallback(f)))
  /\ \A e \in L!Ends :
       WF_vars(InGreen(L!Step(e))) /\ WF_vars(InGreen(L!Wake(e))) /\ WF_vars(InGreen(L!Expire(e)))

Spec == Init /\ [][Next]_vars /\ Fairness

-----------------------------------------------------------------------------
(* Properties *)

\* hubs/hub.py:153-274.  Each thread that waits for a descriptor is known to
\* the hub, once, the kernel polls for exactly what the hub knows, and no
\* listener of a closed file is left to the file that has its number.
\* hubs/asyncio.py:73-178.  The loop calls the listeners of the hub, and ends the
\* hub's sleep before a timer is due.
ListenersExact ==
  /\ subject = "hub" => L!WaitersKnown /\ L!MaskExact /\ L!NoneOutlivesItsFile
  /\ subject = "crowd" => M!WaitersKnown /\ M!MaskExact /\ M!NoneOutlivesItsFile
  /\ subject = "loop" => O!ReadersExact /\ O!NeverOversleeps

\* asyncio.py:16-57, greenthread.py:191-232.  The end of a future wakes its
\* greenthread and a kill cancels it; the end of the greenthread, unless it is an
\* exception, reaches who awaits it, and the end of a task that awaits kills it.
AwaitExact ==
  subject = "await" => W!NoNewsLost /\ W!KillCancels /\ W!CancelKills /\ W!EndReaches

\* tests/asyncio_test.py:162: "``await`` on a ``GreenThread`` raises its eventual
\* exception."
AwaitRaises ==
  subject = "await" => W!AwaitsAnswered

\* greenio/base.py:318-419, green/ssl.py:168-300.  Bytes arrive in order, once.
StreamIntact ==
  subject = "green" => L!StreamIntact

\* green/zmq.py:48-185.  One thread at a time is in the calls of a side, and
\* nobody blocks for what is there.
ZmqExact ==
  subject = "zmq" => Z!LocksFair /\ Z!NoNewsLost

\* greendns.py:358-574, 690-860.  A response is to the query and in time; the
\* hosts file is asked first, an address that is found is given, and a lookup
\* that fails says "try again" if no later error takes the place of a silence.
DnsSound ==
  /\ subject = "query" => Q!QuerySound
  /\ subject = "lookup" => H!LookupSound

\* hubs/hub.py:334-374, poll.py:68-112.  Who waits for what a file is ready for
\* is woken, and who waits for a file whose number was recycled is told.
Due ==
  \/ subject = "hub" /\ L!Due(Watched)
  \/ subject = "crowd" /\ M!Due(Watched)
  \/ subject = "loop" /\ O!Due(Watched)
EventReachesWaiter == Due ~> ~Due

\* greenio/base.py:207-419, green/ssl.py:142-300.  Two green endpoints never
\* wait for each other for ever: connected, or with a timeout, both come to an
\* end, and so does a connect() that is refused.
ExchangeEnds ==
  \A e \in L!Ends :
    (subject = "green" /\ L!Promised(e)) ~> (subject = "green" /\ L!Closed(e))
=============================================================================
