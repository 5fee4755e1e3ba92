# Eventlet in TLA+

Models, model checks and proofs of Eventlet: its concurrency core (the hub's timers,
`Event`, `Semaphore`, `GreenThread`, `GreenPool`, `LightQueue`), and what is built on
it (listeners and `trampoline`, the asyncio hub, pools, `tpool`, green sockets, zmq,
DNS, the WSGI server, websockets, the HTTP client and its cookies). The modules follow
the code under `src/eventlet/`; `PROJECT.json` maps every definition to the lines it
stands for.

- [How the code is seen](#how-the-code-is-seen)
- [Inventory](#inventory)
- [Modules](#modules)
- [Runs](#runs), [bounds](#bounds) and [fairness](#fairness)
- [Proofs](#proofs)
- [Where code and documentation disagree](#where-code-and-documentation-disagree)
- [Not modelled](#not-modelled)
- [Plan](#plan)

## How the code is seen

All greenthreads of a native thread share one hub, and only one of them runs at
a time. A greenthread gives up control in one place, `hub.switch()`, and gets it
back when something switches to it: a timer, a listener, another thread's
`throw()`. So what a greenthread does between two switches is atomic, and is one
action of a model. A function that switches in its middle (`acquire`, `wait`,
`get`) is as many actions as it has stretches between switches. In return, *any*
order of those stretches is possible, and this is where the difficulty lies:

- Nothing wakes a waiter at once. `release()`, `send()`, `put()` schedule a timer
  with no delay; before it fires, the waiter may time out, be killed, come back,
  or be overtaken. Every module keeps those timers as state.
- An exception can be thrown into any suspended thread, by `Timeout` or `kill()`.
  The clean-up then is what the `finally` clauses do, and nothing else.
- A timer switches to a *thread*, not to the wait the thread was in when the timer
  was made. A timer that is not cancelled resumes whatever the thread does later.
- `_unlock` of a queue and `_resolve_links` of a greenthread call into other
  threads from their middle, and others call the same object meanwhile.

Timers fire in the order in which they are due (`hubs/hub.py:403-475`, proved below as
`FiresInOrder` and `ImplementsService`). Of two that are due at the same instant, as the
clock shows it, either may be the first: the heap compares `id(timer)` then. The other
modules use the hub through that: a pending timer fires in the end, none before its time.

## Inventory

| Component | State | Operations | Hard behaviour | What makes it correct |
|---|---|---|---|---|
| Hub, timers (`hubs/hub.py`, `hubs/timer.py`) | `timers`, `next_timers`, `timers_canceled`, `running`, `stopping` | `schedule_call_*`, `cancel`, `prepare_timers`, `fire_timers`, `sleep_until`, `run`, `abort` | lists rebuilt while a sweep goes through one; callbacks that schedule, cancel, raise | no timer lost, early, twice or out of order; no oversleeping; I/O not starved |
| Hub, listeners (`hubs/hub.py`, `hubs/poll.py`, `hubs/__init__.py`) | `listeners`, `secondaries`, `closed`, the poll mask | `add`, `remove`, `remove_descriptor`, `notify_close`, `mark_as_reopened`, `trampoline` | descriptors closed and reused while threads wait; callbacks gathered before they run | one reader and one writer per descriptor; a waiter gets its event or an error |
| `Event` (`event.py`) | `_result`, `_exc`, `_waiters` | `wait`, `send`, `send_exception`, `reset` | wake-ups pending over a reset, a timeout, a second wait | every waiter of a sent event gets out, with what was sent |
| `Semaphore` (`semaphore.py`, `lock.py`) | `counter`, `_waiters` | `acquire`, `release` | overtaking between release and wake-up; timeouts and kills in the queue | no permit and waiter left apart; queue equals the set of waiters |
| `CappedSemaphore` (`semaphore.py`) | two semaphores | `acquire`, `release` | undoing one half when the other fails | both counters add up to the limit |
| `GreenThread` (`greenthread.py`) | the greenlet, `_exit_event`, `_exit_funcs`, `_resolving_links` | `spawn`, `kill`, `cancel`, `link`, `unlink`, `wait` | kill before the start; links changed while they are called | one outcome, sent before the thread is dead; every link called once |
| `GreenPool` (`greenpool.py`) | `size`, `sem`, `coroutines_running`, `no_coros_running` | `spawn`, `spawn_n`, `resize`, `waitall` | reentrant spawns, resizes with tasks running, the event that is replaced | slots conserved; blocked spawns and `waitall` go on |
| `GreenPile`, `GreenMap` (`greenpool.py`) | a pool, a queue of threads | `spawn`, iteration, `imap` | the reader waits while the queue limits the writer | results in order, none lost |
| `LightQueue` (`queue.py`) | `queue`, `maxsize`, `getters`, `putters`, `_event_unlock` | `put`, `get`, the `_nowait` forms, `resize` | `_unlock` runs threads in its middle; the hub itself may be the caller | an item changes hands once; nobody waits beside what it wants; size kept |
| `Queue` (`queue.py`) | `unfinished_tasks`, an `Event` | `task_done`, `join` | `join` returns on a stale wake-up | `join` returns only at zero |
| `Timeout` (`timeout.py`) | one timer per object | `start`, `cancel`, blocks, `with_timeout` | nested ones due in one sweep; cleanups that wait while an outer one fires | raised in its block or never; a silent one is seen nowhere else |
| `Pool`, `TokenPool` (`pools.py`) | `current_size`, `free_items`, a channel | `get`, `put`, `resize` | `create()` fails or switches while others wait | items and places conserved, nobody waits beside a free item |
| Connection pools (`db_pool.py`) | as `Pool`, times, an expiration timer | `get`, `put`, `clear` | dead connections pass through the channel as `None` | as `Pool`; what lies idle is looked after |
| `DAGPool` (`dagpool.py`) | `values`, `coros`, one event | `spawn`, `post`, `wait_each`, `kill` | values posted while a loop looks away, by its own body as well; the event replaced; a key spawned again while it is killed | a loop sees every value but those posted behind its back; `coros` knows who runs |
| `tpool` (`tpool.py`) | native threads, two queues, a socket pair | `execute`, `killall` | true parallelism; shutdown with calls pending | every reply is seen, every call ends |
| asyncio (`hubs/asyncio.py`, `asyncio.py`, `GreenThread.__await__`) | the loop's readers, `sleep_event`; futures and links | the hub as a task; awaiting in both directions | readers and coroutines run while the hub sleeps; either side fails, is killed, is cancelled first | the loop knows what the hub knows; no end goes unnoticed |
| `greenio`, `green/ssl.py` | non-blocking sockets, TLS state | loops around `trampoline` | bytes in the TLS layer that no poll reports; both ends full | bytes once, in order; two green ends never block each other |
| `green/zmq.py` | locks and blocked threads per side | `send`, `recv`, `getsockopt` | edge-triggered events taken by the wrong thread | news is passed on; without the steal among the observations, nobody sleeps on a ready socket |
| `greendns` (`support/greendns.py`) | a socket and a deadline; hosts file, answers | `udp`, `tcp`, `getaddrinfo` | strangers' datagrams, a file read again, families that fail apart | the answer is to the question, in time, from the sources asked |
| WSGI server (`wsgi.py`) | connections and their states; the input of a request | accept, request, keep-alive, shutdown; reading and writing bodies | shutdown races the end of a request; bodies left unread; clients that stall in the middle of one | idle connections closed, busy ones finished; requests stay aligned |
| WebSocket (`websocket.py`) | open/closed, a send lock, an iterator of frames | `send`, `wait`, `close` | senders, pongs and closing frames interleave | messages whole and in order; the handler ends |
| `green/http/client.py` | `__state`, `__response`, `_buffer`, a buffered reader per response | `putrequest`, `endheaders`, `getresponse`, `read*`, `close` | connection reuse, servers that die, readers that read ahead | answers go to their requests, to their end |
| `green/http/cookiejar.py` | a dictionary of cookies, files | `extract_cookies`, `add_cookie_header`, `save`, `load`, `revert` | two protocols in one response, four domain checks, files cut short, at the end of a line or inside of one | a request gets exactly the cookies that match, and none that was not set |
| `patcher`, `corolocal`, `green/*`, helpers | modules, weak dictionaries | | import-time reflection, shorthands | |

How they interact: `Semaphore`, `Event`, `LightQueue` and `greenthread.kill` make
timers with the hub and are called back by it. `GreenThread` sends its outcome
through an `Event`. `GreenPool` owns a `Semaphore` and an `Event` and links
`_spawn_done` to every `GreenThread` it spawns. `GreenPile`, `Pool` and the
connection pools add a `LightQueue`; `Queue.join` and `DAGPool` an `Event` that is
reset. `greenio`, `zmq`, `tpool` and `greendns` wait in `trampoline`, which is a
listener and a timer of the hub. The servers are greenthreads of a `GreenPool` over
green sockets; the HTTP client and `greendns` use them from the other side.

## Modules

Each component of the core has an abstract module that says what its callers rely on,
a detailed one with the state and control of the code, which a configuration file
instantiates, and a section of a module of proofs: `CoreProofs` for HubTimers, Event and GreenThread, `BlockingProofs` for
Semaphore, GreenPool and LightQueue. The
components above the core have one module each, which takes what is below for what the core was shown to be (a
`LightQueue(0)`, an event, a timer that fires), and are run together, see
[below](#three-runs-of-many-modules). Operators marked
`Faulty` in a comment are plausible bugs; they are used by no specification, and
each property was seen to fail when one of them takes the place of the operator
it follows.

**HubTimers** implements **TimerService**. `timers` and `next_timers` are the two
lists of `BaseHub`, as sets: the order of a heap is that of `due`. `phase` is the
place of `run()` in its loop (`close`, `fire`, `sleep`, `dispatch`, or `main` when
the hub does not run), and `burst` says that the hub has called into a
greenthread. In a burst, and in the main greenthread, `Schedule`, `Cancel` and
`Abort` may happen any number of times; `Escape` is a `KeyboardInterrupt` or
`SystemExit` that passes through `run()`. `timer_canceled` rebinds `self.timers`
while `fire_timers` holds the old list: `rebound` and `swept` keep the old list
until the sweep ends. `TimerService` knows only a status and a due time per timer.

**Event** implements **Future**. `sends` holds the `_do_send` timers of `send()`,
each with the result it carries and the round (the number of resets) in which it
was made; `timeouts` counts those of `wait(timeout)`, among them the ones an
interrupted wait left behind. `Return` and `Raise` are the two ways out of
`wait()`, with what each of them cleans up. In `Future` a reset withdraws the
decision, and what it promises ends there; what holds of later rounds is in
`NobodyForgotten` and `SentReaches`.

**Semaphore** implements **PermitPool**. `doAcquires` counts the `_do_acquire`
timers. `loop` is the wait loop a thread is suspended in: the untimed one
(`semaphore.py:118-123`) goes on until the counter is positive, the timed one
(`108-116`) ends with the timeout. `StraySwitch` is a switch to the thread that
the semaphore did not cause. `AcquireNonBlocking`, `AcquireTimed` and `Acquire` are
the forms of the call; the waiters of the deque stay in order.

**GreenThread** implements **Task**. `g` is the greenlet, `run` its run method,
which `kill()` replaces if the thread has not started, `starting` the timer of
`spawn()`. `resolver` is the thread that is in `_resolve_links` (the greenthread
itself, a killer, or a caller of `link()`), `calling` the linked function it is in;
as linked functions may switch, other users act at that point (`Quiet`).
`switches` counts the timers with which `kill()` will return to its caller.

**GreenPool** models the pool with its semaphore (`permits`, `queue`, `wakes`:
the untimed part of Semaphore) and the events of `waitall()`, numbered, because
`spawn()` replaces the event while threads may wait on the old one. `Spawners` are
callers outside of the pool and the tasks themselves, which may spawn too; a
spawn that runs the function inline (`greenpool.py:70-74`) takes no slot.

**LightQueue** implements **Buffer**. `state` is the call each thread is suspended
in; `getters` and `putters` are the waiter sets, `stale` the waiters of
`put_nowait()` that were left in `putters` by an exception. `actor` is who runs:
`_unlock` switches to a thread, which runs on until it returns to the hub, and
goes on from where it was (`unlock`, `then`). The actions of `_unlock`
(`ServeGetter`, `PassItem`, `SwitchToPutter`, `AdmitPutter`, `RefusePutters`,
`DropStale`, `UnlockEnds`) are the branches of its loop, `queue.py:341-381`.
`HubPut`, `HubGet`, `HubGetAsks`, `HubGetEnds` are `put_nowait()` and
`get_nowait()` called from the main loop. Items are counted.

**Listeners** is the rest of the hub: `listeners`, `secondaries`, `closed`, the numbers
the kernel polls for, and what one poll has shown: poll and epoll gather the callbacks
before they call one, select looks each up when its turn comes. Files and numbers are
different things: a number is closed and opened again while a thread waits for the old
file. `current` is the thread that runs; in the middle of `remove_descriptor()`
(`removing`) the hub calls into threads. `Backends` are the epoll, poll and select hubs.

**AsyncioHub** has two ways into the hub, its own task and the readers of the loop, and
the sleep of the task with `sleep_event`. **Awaitable** is one greenthread of
`spawn_for_awaitable()`, its future, and the tasks that await it.

**GreenSocket** runs two endpoints against each other over buffers of the kernel:
plain, over TLS (with a handshake, records whose rest waits inside the TLS layer, and
calls that want to read in order to write), or over pipes. `todo` is what an endpoint
has still to do of its `Script`. A refused client wakes nobody who is in `accept()`, and
whether the TLS layer notices an end that closed without an alert is left open (`notices`):
the docstring at `green/ssl.py:46-54` says that reads and writes then simply hang, the code
at 171-175 and 186-191 handles the exceptions of an ssl module that notices. **ZmqSocket** has the two
sides of one zmq socket with `_QueueLock` and `_BlockedThread`, and a descriptor that
becomes readable once per piece of news. **DnsQuery** is one query over UDP or TCP with
its clock, in which a `sleep(0.01)` takes up to a `Pause` and a TCP response comes in
pieces; **DnsLookup** is one `getaddrinfo()` over the hosts file and nameservers, which
answer, do not, or fail.

**Pools** is `Pool` and `BaseConnectionPool` over a channel, with the perils a program
may bring: `create()` that fails or is interrupted, getters that time out.
**CappedSemaphore**, **JoinQueue**, **GreenMap**, **DAGPool**, **Tpool** and
**Timeouts** follow their classes. In **Tpool** the workers are native threads that
step at any time, greenthreads one at a time (`main`). In **Timeouts** a thread runs,
waits, or is unwound by a Timeout (`raised`), and its cleanups may wait as well, so
that another Timeout replaces the first.

**WsgiServer** is `server()` and the life of its connections; a client may stall in the
middle of a request, or not read the answer (`stalled`), and a websocket may be upgraded to
at any time, also after the server has marked the connection. **WsgiRequest** is one
connection's requests as tokens, with an application that may do everything WSGI
allows. **WebSocket** has a handler, senders, and frames of either protocol. The
closing frame of the old protocol goes out without the send lock, so that the code may
put it into the midst of a sender's frame; the model has frames as units, and has it
between two of them.

**HttpClient** is an `HTTPConnection`, its responses, and servers that answer what they
are asked and may die. A response reads through a buffer of its own, which may take
more than belongs to it. `strays` remembers which rule of the client's documentation the
program has broken on a connection, because what is promised then is less. A response ends
`whole`, with the connection where nothing else tells the end (`close`), `short` with
`IncompleteRead`, or `quiet`: an early end of file that `read(amt)`, `readinto()`,
`read1()` and `readline()` take for the end of the body.
**CookieJar** follows a header from `make_cookies()` through `set_ok()` into the jar,
and from there through `domain_return_ok()`, `path_return_ok()` and `return_ok()` to a
request, and the jar to a file of either format and back, also by a program that died in
the middle of a `save()`: `CutLines` is what is read of a line that was cut, `given` every
cookie a response has set. Hosts and paths are short
sequences of characters, as the policy compares their ends.

**WaitQueueTheorems** has what the proofs need to know of sequences without
repetition: appending, removing the head, removing the first occurrence.

## Runs

| Run | Configuration | Shows |
|---|---|---|
| `hub_timers` | `HubTimers.cfg` | three timers, with callbacks, aborts and one escaping exception: `NoTimerLost`, `NeverOversleeps`, `FiresInOrder`; `ImplementsTimerService`: each fires once, never early, never after its cancel, and in the end; `ReachesWait`: timers that reschedule themselves do not starve I/O |
| `event` | `Event.cfg` | three threads and one reset: `NobodyForgotten`, and until the reset the event is a `Future` (`ImplementsFuture`) |
| `semaphore` | `Semaphore.cfg` | four threads: `NoLostWakeup`, and the implementation of `PermitPool` with its liveness |
| `green_thread` | `GreenThread.cfg` | two killers, three links, one of which may raise: `NothingStranded`, `IsTask`, `LinksAreCalled`, `KillerReturns` |
| `green_pool` | `GreenPool.cfg` | two callers, four tasks, sizes 0 to 2: `SlotsConserved`, `SentMeansIdle`, and under a stable size `SpawnersProceed` and `WaitersProceed` |
| `light_queue` | `LightQueue.cfg` | two threads and the hub: `UnlockIsDue`, `NeverOverfull`, `IsBuffer`, `BringsTogether` |
| `resources` | `Resources.cfg` | `PoolsExact`, `DagExact`, `TpoolRepliesSeen`, `CountsExact` (CappedSemaphore, `join()`, GreenPile and GreenMap), `TimeoutsExact`; `PoolServes`; `CallsEnd` |
| `network` | `Network.cfg` | `ListenersExact` (both kinds of hub), `AwaitExact`, `StreamIntact`, `ZmqExact`, `DnsSound`; `EventReachesWaiter`; `ExchangeEnds` |
| `servers` | `Servers.cfg` | `WsgiExact`, `WebSocketExact`, `HttpExact`, `CookiesExact`; `ServersEnd` |
| `event_stale_timeout`, `green_pool_waitall`, `await_raises` | | counterexamples, see [below](#where-code-and-documentation-disagree) |

A type invariant and the bookkeeping invariants of the core (`WaitersExact`, `QueueWaitersExact`,
`DeadIsDecided`, `OneResolver`, `SweepComplete`, `LaunchesWithinSize` and others) are
proved for every instance, and have no place in a run.

### Three runs of many modules

`MCResources`, `MCNetwork` and `MCServers` each instantiate several modules and choose
one of them, the `subject`, in the initial state; the variables of the others are `Off`.
A run is then the union of the models: a property `subject = "zmq" => P` is `P` of the
zmq socket. The invariants that such a property names (`Z!LocksFair`, `H!Aligned`, ...)
are stated with their reasons in the modules. As the subject never changes, a fairness
conjunct about the steps of several subjects is one conjunct for each.

`CHECK_DEADLOCK FALSE` stands in the configurations of Event, GreenThread, GreenPool
and of the three runs above: their threads may all be done, dead, or waiting for
something the program never does, and a bounded run of a server ends.

### Bounds

- HubTimers: three timers of which one is local, delays 0 and 1, a clock that stops
  at 1. `CleanAbove` is 1 where the code says 1000, so that lists of two are
  rebuilt; a rebuild in the middle of a sweep needs one timer that fires and one
  that is cancelled, the third is the one that could get lost. `MaxReady`,
  `MaxEscapes`: one listener per round, one escaping exception. `MaxDrift` bounds how far
  below zero `timers_canceled` may go.
- Event: `MaxResets = 1`, so that two rounds meet; `MaxTimers = 2`, so that a thread
  is in a timed wait with the timer of an earlier one pending. One thread survives
  exceptions, one never uses a timeout, one does neither.
- Semaphore: four threads, `MaxCounter = 4`, `MaxTimers = 4`: two can be queued
  while two race. `Bounded = FALSE`: a `BoundedSemaphore` has fewer behaviours, as
  its `release()` has one more guard.
- GreenThread: two users, so that two killers meet at one victim; three links, so
  that one is queued while one is called and one is being linked. `MaxSwitches = 2`
  timers of `kill()` per user.
- GreenPool: two callers, so that one waits while another spawns; four tasks on at
  most two slots; `MaxWakes = 3` timers.
- LightQueue: two threads and the hub's callbacks, which put and get as well, and
  sizes 0 and 1. `MaxPending = 1` stale waiter and one pending `Full` per thread. With
  three threads the safety properties hold as well, and they are proved for any
  number. The liveness does not carry over: two threads that call `put_nowait()`
  again as soon as they get `Full` can keep a `get_nowait()` of the hub busy for
  ever (`queue.py:303-311`). The code makes no promise against such callers.

- Listeners: two threads and two numbers (the epoll and the select hub; what differs in
  poll is what it does with one bad number), and three threads and one (all three), so
  that a listener is behind another one, or behind two. `MaxFiles` lets each number be used again;
  `MaxSerial` bounds the listeners of a thread that are alive at once. Several readers
  of one descriptor are allowed, and threads throw into each other; `Readding`, the case
  of `remove_descriptor` among the observations, is not in the run.
- AsyncioHub: two threads and two numbers, of which one is used again; the clock goes
  to 1. Awaitable: two tasks.
- GreenSocket: four bytes each way over buffers of two, records of two: both ends fill
  their buffers while they have more to write, and half a record is left over.
- ZmqSocket: one sender, two receivers, messages of one or two parts, one place: the
  sender takes the news of a receiver, and a second one queues for the lock.
- DnsQuery: a time of 3 units, a pause of 1, three datagrams, three bytes; DnsLookup: every
  request and answer, nameservers that fail among them, one change of the hosts file.
- Pools: three threads, sizes 1 and 2 with `resize()` between them, one place lost.
  DAGPool: two keys, two greenthreads and one thread outside. Tpool: two calls, two
  workers, set up twice. CappedSemaphore: limit 1. JoinQueue: two tasks. GreenMap: size 2,
  four items. Timeouts: two threads, three Timeouts of which one is not silent, delays
  of 1 and none, a clock that stops at 1: all three can be due in one sweep. These are
  the values of `Resources.cfg`; the theorems need none of them.
- WsgiServer: three connections on a pool of two, so that one waits to be accepted at
  shutdown; one request each. What a client does once its connection is over is left out. WsgiRequest: two requests, so that the second shows where
  the first one ended; bodies of up to two units in either framing. WebSocket: two
  senders, three messages out, up to five frames in.
- HttpClient: two requests and two connections, five kinds of answers and two of
  requests; the program breaks one rule and one server dies. CookieJar: two responses of
  one or two headers, four requests (in the domain, above it, one whose host only
  contains it, one without a dot), three policies, a clock to 1, and three calls of `extract_cookies()` and
  `save()` in all, so that a file may be older than the jar; any number of the others.

### Fairness

Weak fairness unless said otherwise, and only of what the program does not decide.

- HubTimers: `run()` goes on, time passes, bursts end (greenthreads are
  cooperative: one that never switches stops everything), and the main greenthread
  comes back to the hub. Nobody has to schedule, cancel or abort.
- Event, Semaphore, GreenThread: the hub calls timers that are due (`DoSend`,
  `DoAcquire`, `Start`, `Wake`), which HubTimers shows; a linked function ends.
  Nobody has to send, release or kill.
- GreenPool: likewise; a task ends unless it is blocked in `spawn()`; an event that
  was sent reaches its waiters, which Event shows.
- LightQueue: a thread that runs suspends itself in the end; a callback of the hub
  goes on when the thread it switched to comes back. *Strong* fairness of `_unlock`
  and of the timers that throw `Full`, because such a timer is not enabled while
  another callback runs; timers fire in due order, so that one that is pending
  again and again does fire.

- Listeners and AsyncioHub: `run()` goes on and a thread that runs yields; *strong*
  fairness of the rest of a sweep, and of the callbacks of the asyncio loop, which are
  disabled while a greenthread runs but are served in the order in which they came.
- GreenSocket: the kernel moves bytes and reports what is ready, timers of timeouts fire, the
  two programs go on. Without a timeout an `accept()` that no client reaches may wait for
  ever, and `ExchangeEnds` promises it nothing. With one, a peer that closes unnoticed is
  waited for as long as the timeout lasts.
- Pools: who holds an item gives it back, `_unlock` runs. DAGPool: strong fairness of
  the loops, which wake up again and again; a key that was posted behind the back of a loop,
  after its scan had passed the key, is promised nothing (`missed`). Tpool: native threads run, the trampoline
  reads its socket, `killall()` goes on. GreenMap: the producer, the consumer and the
  tasks go on.
- WsgiServer: `server()` goes on when it can, a connection's greenthread runs and
  its application answers, unless it waits for the client (`Waits`): for the rest of the head
  (`wsgi.py:451`), for the body (`684-689`), for what it sends to be read. There is no
  fairness of clients, and `socket_timeout` is None unless a program says otherwise; so
  `ServersEnd` says that a stopped server ends *unless* a client keeps it waiting in the
  middle of a request, or on a websocket upgraded to since the server marked its
  connections. The docstring at `wsgi.py:975-986` warns of it. WebSocket: the handler goes on, the lock is passed on,
  a frame is sent in the end; the peer need not answer.
- The other modules (CappedSemaphore, JoinQueue, ZmqSocket, DnsQuery, DnsLookup,
  Awaitable, Timeouts, WsgiRequest, HttpClient, CookieJar) are checked for safety.

## Proofs

The theorems hold for every value of the constants that satisfies the module's
named assumption: any set of threads, any size, any bound. The assumptions only say
that sizes and bounds are natural numbers, that identifiers differ, and, for
HubTimers, GreenPool and MCResources, that what a cardinality counts (timers, tasks,
threads, workers) is finite. `ResourcesAssumption` says besides that one of the values of
`max_size` is the greatest (a program calls `resize()` with finitely many), that `tpool`
has a worker (with `EVENTLET_THREADPOOL_SIZE` 0 `execute()` calls the function itself,
`tpool.py:111`), and that `None` and the states of a thread are no identifiers.
`NetworkAssumption` says that a thread either sends or receives on a zmq socket, that a
message has a part, that requests are those that `getaddrinfo()` knows, and that the marks
on a list of links, `None`, the hub and the states of a thread are no identifiers
(`ValuesApart` of Listeners, for both of its instances); that buffers, messages and records
have sizes is `Countable` of GreenSocket. TLC evaluates all of them in the
runs.

For each component there is one inductive invariant `IInv`, the lemmas
`Init => IInv` and `IInv /\ [Next]_vars => IInv'`, and draws the theorems from it.

| Module | `IInv` | Theorems |
|---|---|---|
| BlockingProofs, of Semaphore | `TypeOK`, `NoLostWakeup`, `WaitersExact`: inductive as they stand | `TypeCorrect`, `NoWakeupIsLost`, `WaitersAreExact`, `ImplementsPool` |
| CoreProofs, of HubTimers | also `Position` (what `phase` says of the other control variables) and `Entries` (what is in a list was scheduled, and what a sweep still has to fire is in `timers`) | `TypeCorrect`, `NoTimerIsLost`, `SweepIsComplete`, `HubNeverOversleeps`, `SweepFiresInOrder`, `ImplementsService` |
| CoreProofs, of Event | also `TimerPending` (a timed wait has its timer), `PatientLeavesNothing`, `SendsCarryResult` (in the first round a wake-up carries the decision) | `EventTypeCorrect`, `NobodyIsForgotten`, `WaitersAreExact`, `ImplementsDecision` |
| CoreProofs, of GreenThread | `QueueOK` (a link is queued once), `CalledOnce` (the function being called is out of the queue for good), and `Control`: `DeadIsDecided`, `OneResolver` and what ties `g`, `run`, `starting` and `exit` together | `ThreadTypeCorrect`, `DeadThreadsAreDecided`, `LinksHaveOneResolver`, `NoLinkIsStranded`, `ImplementsLifeOfTask` |
| BlockingProofs, of GreenPool | also `TasksApart` (a task is unused, being spawned by one thread, or running) and `QueueExact` (the queue is the set of blocked spawners) | `PoolTypeCorrect`, `SlotsAreConserved`, `SentEventsMeanIdle`, `SpawnsStayWithinSize` |
| BlockingProofs, of LightQueue | also `Places` (who runs waits for nothing; a putter whose item was taken is the next one), `FullsFit`, and `AskedInVain` (while the hub's own `get_nowait()` asks putters with no `_unlock` due, there is nothing for `_unlock` to do) | `QueueTypeCorrect`, `UnlockIsAlwaysDue`, `QueueWaitersAreExact`, `QueueStaysWithinSize`, `ImplementsTransfer` |

`ResourcesProofs` is about what MCResources composes. Each component has an inductive
invariant of its own, proved step by step; `ResourcesInvariant` puts the seven together,
and the other theorems follow from it.

| Component | Inductive invariant, beside the types | Why it is needed | Theorem |
|---|---|---|---|
| Pools | `PoolsSize` (`current_size` is the shelf, the threads with an item or a place, what `clear()` has still to close, what is lost); `PoolsClosing` (a `clear()` closes its items from the last to the first); `PoolsChannel` (without interrupts a putter has its `_unlock`, and one that is refused leaves no getter) | `SizeExact` counts places that are in the middle of a call; `NoIdleItem` holds after `PutRefused` only because nobody waits | `PoolsKeepCount` |
| DAGPool | `DagKnown` (`coros` and the greenthreads know each other, and what is dead is being killed, but for a key spawned again in the middle of its `kill()`); `DagSeen` (a loop that looks has in view all of its keys that have a value, but those its scan had passed when they were posted) | a posted value is seen by a loop that is between two keys, unless the body of the loop let it be posted behind its back | `DagOverlooksNothing` |
| Tpool | `TpoolPlaces` (a call is with the queue, one worker, or the replies); `TpoolReplies`; `TpoolStops` (as many `None` at the end of the queue as workers are left to take them) | that `killall()` joins every worker, and then has no request and no reply left | `TpoolLosesNoReply` |
| CappedSemaphore | `CappedSum` (the two counters are the limit and those who wait); `CappedTimers` (a bound for which threads wait has a timer for *each* free unit) | one timer for two units would leave the second waiter behind | `CountsKept` |
| JoinQueue | `JoinExact`, inductive as it stands | | `CountsKept` |
| GreenMap | `MapBehind`, `MapAhead` (results, the task waited for, the queue and the one being queued are 1, 2, ... without a gap), `MapRoom` | order is a property of the whole line of tasks | `CountsKept` |
| Timeouts | `TimeoutsExact`, inductive once a timer has a target | | `TimeoutsStayInside` |

`PoolsInv`, the one that took most to find, was checked by TLC as an invariant of the
run before it was proved; two of the others lost a conjunct that TLC refuted.

`NetworkProofs` does the same for MCNetwork; its `NetworkInvariant` puts the components
together. The proofs for Listeners and GreenSocket are a module of their own,
`SocketProofs`, about any threads, numbers and kinds of hub, and any buffers and
messages; MCNetwork instantiates that module, so that `NetworkProofs` can cite its
lemmas for the instances.

| Component | Inductive invariant, beside the types | Why it is needed | Theorem |
|---|---|---|---|
| Listeners | `LinesKept` (a queue stands behind a listener, and nobody is in a line twice), `EntriesWait` (who is in the tables waits for the file that is open, and was not told to give up), `WaitersListed` (who waits is in the tables, or was told and is in `closed`), `KernelTold`, `RemovalReaches` (who is in a line that `remove_descriptor` drops is still to be called), `RunnerIsAway` | that tables can be cleared by `remove_descriptor` with nobody left in them; that the listener `trampoline()` takes out is the thread's own | `ListenersStayExact`, from `WaitersStayKnown` |
| AsyncioHub | `LoopTables` (nobody queues behind a listener, so that the reader of the loop is the listener of the hub), `LoopTimers` (no timer is new or due before the hub wakes, also while a thread runs) | the two callers of greenthreads meet in the middle of a sleep | `ListenersStayExact` |
| Awaitable | `AwaitLinked` (while the greenthread lives, whom its end concerns is linked) | the end reaches those who are linked, so that nobody who awaits may be left out | `AwaitLosesNothing` |
| DnsQuery | `UdpInTime` (a call begins before the query expires, or a pause later) | each call waits for the whole timeout | `DnsAnswersSound` |
| DnsLookup | `LookupShape` (what is left is an end of the plan), `LookupBefore` (what a lookup has while it goes on is of the IPv6 half), `LookupHosts` (a name of the hosts file is found in the first two steps), `SilenceKept` (the error that is kept is a nameserver's silence as long as nothing definite came after it) | that the source of a family is asked once follows from the order of the plan | `DnsAnswersSound` |
| GreenSocket | `GreenShape` (what is left to do is an end of the script); `PlainUnits` (a unit is the next byte); `TurnsKept` and `HandshakeFirst` (the flights go to and fro, and the last of them is ahead of every record); `TlsUnits`: units are `Strung`, heads and bodies of records taking turns, each body with the bytes that follow those before it | a body that is taken has the bytes that come next only if all the units before it are accounted for | `StreamsStayIntact` |
| ZmqSocket | `LockOf` (who is in the calls of a side is the holder of its lock; the queue holds each thread once, waiting or dead), `BlockOf` (`_blocked_thread` is who blocks), `NewsOf` | a thread that calls is alone on its side, so that nobody blocks there whom it would have to tell | `ZmqKeepsOrder` |

TLC checked the invariants on the instances of `Network.cfg`. `WaitersKnown` is not
inductive: that a listener may be dropped with its number needs `RemovalReaches`, and that
one needs that no thread waits anew for a number that is being dropped. The theorem says so
(`~Readding`); what the code does otherwise is among the observations. What `StreamIntact`
says of the units on their way is not inductive either: that the tail of a sequence of
records is one needs to know where each of them begins, and a record of no bytes looks
like a flight of the handshake, so that `GreenInv` says which is which. The proof of ZmqSocket made
`NoNewsLost` stronger: a thread that blocks for what the events have shown is going to
be woken at once, where the property used to allow that only the hub was to be told. That
of DnsLookup found two guards of a `CASE` that overlapped, where TLC had taken the first.

`WebProofs` and `ServersProofs` do it for MCServers: `WebProofs` is about WsgiServer,
WsgiRequest, WebSocket and CookieJar, and MCServers instantiates it; `ServersProofs` has
`ServersInvariant` and draws the theorems from it.

| Component | Inductive invariant, beside the types | Why it is needed | Theorem |
|---|---|---|---|
| WsgiServer | `SpawnPending` (a connection waits for a greenthread in one place of the loop), `RecordsKept` (a record is that of its own address, and lasts as long as the greenthread), `StatesTold` (while the server accepts, who waits for its client is marked idle; then it is shut, unless its websocket began since) | that shutdown finds every idle connection follows from where each of them may be | `ServerKnowsItsConnections` |
| WsgiRequest | `Alignment`: what is sent and not read, with what the client owes, is the rest of the body of the request at hand and then whole requests, until the connection is bound to close; `AnswerFramed` (data has settled the framing), `HundredSettled`, `HeadsCounted`, `ExpectingBegins` | the next request is read where one begins only if the tokens still to come line up too | `RequestsAndAnswersApart` |
| WebSocket | `MessagesKept` (the kept fragments are those of the message under way), `EndsForGood`, `LockOK` (who has a frame is in line for the lock, once), `NumbersInOrder`, `PackedInOrder` (what was compressed is on the wire or in line, in that order), `ClosingOnce` | the order on the wire is that in which the lock is passed on, which is that of the compressor only as nobody leaves the line | `MessagesGoInOrder` |
| CookieJar | `KeysApart` (of the jar, the lines of a file, and what is read of a cut one); `Traced` (every cookie of the jar and of a file has no version or was set by a response); `FileOf` (what is in a file was kept by `save()`); `NewerKept` and `Restored`; a cookie is `WellMade` | a request takes cookies from the dictionary by keys, and a file, which may have been cut, brings what no response has just set | `JarGivesWhatMatches` |

What `WebProofs` asks of the constants are definitions, so that it can be asked of an
instance: `AddressesApart` (connections have addresses of their own, as TCP gives them;
clients of a UNIX socket have not, see the observations), `RequestsFramed` (a request
without a framing has no body), `FramesSent` (what the peer sends are frames, and the
handler is none of the senders), `CookiesFramed` (hosts are names that do not begin with a
dot, and headers have values of the types that parsing gives them). `ServersProofs`
shows that the values in `MCServers` satisfy them.

`HttpExact` is model-checked and not proved: the answers of a server are built by folds
over the chunks of a body.

The refinement theorems are about safety: initial states map to initial states, and
a step to a step or a stutter. TLC checks what is left: liveness
(`ReachesWait`, `KillerReturns`, `LinksAreCalled`, `SpawnersProceed`,
`WaitersProceed`, `BringsTogether`, `PoolServes`, `CallsEnd`, `EventReachesWaiter`,
`ExchangeEnds`, `ServersEnd`, and the fairness of `TimerService`, `Future` and
`PermitPool`). Temporal reasoning with
`ENABLED` is out of the prover's reach.

## Where code and documentation disagree

The first three are runs that TLC ends with a counterexample.

1. `event_stale_timeout`: `wait(timeout)` cancels its timer only if `hub.switch()`
   returns (`event.py:123-126`). After an exception the timer stays and ends a
   later `wait()` of the same thread, which has no timeout, with `None`.
2. `green_pool_waitall`: a thread in `waitall()` stays there if another thread was
   blocked in `spawn()` when the last task ended: `_spawn_done` sends nothing
   (`greenpool.py:131`), and the spawn replaces the event (`greenpool.py:78-79`).
   `WaitersProceed` states what does hold.
3. `await_raises`: a task that awaits a greenthread of `spawn_for_awaitable()` waits for
   ever when the future failed. `_got_result`, linked first, calls `gthread.wait()` and
   catches `GreenletExit` alone (`asyncio.py:43`), so that `_resolve_links` ends before
   it comes to the function that `__await__` linked.

Four more have no run of their own. The module states what the documentation says, and a
run with that formula as its INVARIANT ends with a counterexample; the properties of the
passing runs name the case as an exception.

- `wait_each()` is to hand out every key that is available "before blocking again"
  (`dagpool.py:191-193`), and a post during a loop is to be caught up with (`414-418`). A key
  that is posted while the body of the loop runs, by the body itself or by a greenthread it
  lets run, after the scan has passed the key, is overlooked: the event was replaced, and the
  loop waits on the new one (`306`) for a key that has a value (`ReadyDelivered` of `DAGPool`).
- `kill(key)` deletes `coros[key]` after others have run (`dagpool.py:405-408`). If the key
  was spawned again meanwhile, the pool forgets a greenthread that runs, and `post()` raises
  no `Collision` (`420-421`; `RunningKnown` of `DAGPool`).
- `_net_read()` raises its Timeout only when a `recv()` ends by one (`greendns.py:672-675`): a
  nameserver that sends its response over TCP in pieces keeps the query beyond its expiration,
  against the docstring at `664-665` (`NetReadExpires` of `DnsQuery`).
- `revert()` restores the jar for `OSError` alone (`cookiejar.py:1861`), and the first line of
  a file is read outside of the statement that makes `LoadError` of other exceptions (`1939`,
  `2059`). A file saved under another encoding raises `UnicodeDecodeError` and leaves the jar
  empty, though "the object's state will not be altered if this happens" (`1846-1847`;
  `FailureAltersNothing` of `CookieJar`).

### Observations

Met while modelling, most of them seen in a run of one of the modules with other
constants or another property (named in parentheses where the module has it); each is
outside of what the runs above promise, either by a constant or by a condition of the
property.

- Core: the timer with which `kill()` returns to its caller (`greenthread.py:352`) is
  never cancelled and may cut a later `sleep()` short (`SleepsFully`). `resize()` to a
  larger size wakes no thread that is blocked in `spawn()` (`greenpool.py:39-41`,
  `NobodyStuck`). An exception thrown into `put_nowait()` leaves its waiter in `putters`
  (`queue.py:270-277`); `_unlock` fails on it and another `put_nowait()` gets no decision
  (`queue.py:377`, `NowaitIsDecided`). `timers_canceled` goes below the truth when a
  sweep holds an old list (`hub.py:422`, `hub.py:469`), so that rebuilds come late.
- Other primitives: the undo of an interrupted `CappedSemaphore` operation makes a
  counter negative when a third thread has used the first half (`semaphore.py:281`), which
  `CappedExact` does not exclude.
  `Queue.join` may return while items are unfinished, woken by an earlier zero. An
  iterable of a `GreenMap` that raises leaves the reader waiting, as `done_spawning()` is
  not called.
- Hub: a callback gathered by `poll.py:109-115` before its thread left `trampoline` may
  resume it later (the comment at `poll.py:91-95` says otherwise). `epolls.py:19-28`
  fails with EBADF after the listener was added. `select.py:64-79` leaves listeners when
  an exception ends it. `remove_descriptor` drops a listener that a thread it calls adds
  for the same number. With several readers of one descriptor the asyncio hub makes a
  secondary the primary and leaves the old callback with the loop (`hubs/asyncio.py:116`).
  Killing a greenthread of `spawn_for_awaitable()` before it starts does not cancel its
  future (`asyncio.py:39`).
- Pools: a `get()` that comes while a put waits for the channel to refuse it, or while
  `clear()` runs, waits although an item becomes free. An exception in the `put()` to the
  channel loses the item, one in the re-creation of a connection loses a place
  (`db_pool.py:179`). `create()` that raises frees a place and tells nobody. A flag `None`
  among the free items stops the expiration timer (`IdleExpires` exempts it).
- `DAGPool`: `kill()` of a key that ends meanwhile raises `KeyError` (`405-408`); a second
  `kill()` of a greenthread that was killed before it ran, made before the first has
  returned, is left out of the model. `tpool`: a worker that dies leaves its call without a reply, and so does
  `killall()` a call made meanwhile.
- Sockets: `connect_ex` returns 0 after the first wake-up. zmq: a call that
  processes the events of the other side, gets `EAGAIN` and blocks tells it only when it is
  unblocked itself (`299-307`), so that the other side may sleep on a ready socket;
  `NoNewsLost` says that nobody does under `trouble = {}` only. `EAGAIN` at a deadline
  may come before the thread is woken, and a thread killed in `_QueueLock.acquire()` keeps
  its place in the queue. `greendns`: UDP may take twice the timeout and a pause; a
  nameserver that fails (SERVFAIL) is reported as a definite "no data" (`472-473`), which
  takes the place of an earlier "try again", so that an AAAA query that times out and an A
  query that fails say that the name has no address (`520-522`); `AI_ALL` replaces the IPv6 answer (`534-537`); `union_update`
  changes the cached answer (`387`); `udp()` and `tcp()` close the caller's socket.
- WSGI: clients of a UNIX socket share one record of the server; a websocket whose upgrade
  is answered after the server has marked its connections overwrites the mark by
  `set_idle()` (`websocket.py:138`) and keeps `waitall()` waiting; a client that stalls in
  the middle of a request does, too; `_do_read` takes a continue
  for sent; a chunked answer of an empty iterable has no last chunk (`wsgi.py:657`).
  WebSocket: a Timeout in `send()` loses a frame that the compressor has counted; data
  may follow the closing frame, and a second one may be sent.
- HTTP client: `read1()` and `readline()` do not close a response that they have read to
  the end of its Content-Length, so that `getresponse()` raises `ResponseNotReady` for the
  next request (the comment at `client.py:486-489` expects a read to close it). `close()`
  keeps `_buffer`: the lines of a request that was started precede the next request. A
  request sent while a response is unread may find its answer in the old response's
  buffer. An incomplete chunk leaves the response open. A 304 with a chunked framing
  waits for a chunk. An early end of file is an error for `read()` alone: `read(amt)` and
  `readinto()` (`547-551`, where a comment says that IncompleteRead would be right), `read1()`
  and `readline()` (`707-708`, `731-732`) return what there is, and `readline()` of a chunked
  body swallows IncompleteRead (`754-757`). A head that is cut by the end of the connection
  is parsed as if it were complete (`266`).
- Cookies: `domain_match` accepts a domain anywhere in a host (`rfind`, line 623), and
  only `domain_return_ok` makes it a match at the end; `MatchedExactly` fails without
  it. A header that is expired removes its cookie before any cookie of the same response
  is set, and without asking the policy. `load()` keeps the cookies before a bad line.
  A `save()` that is cut leaves a file that may be loaded without an error: the lines before
  the cut (`Restored` says of such a file only that what comes back was saved), of a Mozilla
  line cut in its value a part of the value, of an LWP line a cookie whose version is None.
  Such a cookie is dropped by `load()` unless `ignore_discard` is set; then every request it
  is for ends in a `TypeError` (`1156`), and a file it is saved to cannot be read. A cut that
  leaves `path` of `path_spec` makes the path None; that one is not in the model.

## Not modelled

- Of modelled components: `spawn_after`, `exc_after`, `spawn_n` outside of a pool; a task
  of `spawn_n` killed before it starts, which keeps its slot (`greenpool.py:84-96`);
  `Lock._at_fork_reinit`; the blocking detector and the hub's statistics; the orders of
  `PriorityQueue` and `LifoQueue`; `Proxy` of `tpool` and the wrappers of `db_pool`, which
  delegate; buffered files over green sockets; `set_tunnel` and HTTPS of the HTTP client,
  which connect and send as the rest does.
- kqueue and pyevent: the first differs from poll in its system calls, the second only
  raises an error.
- Syntax: headers, dates, chunk extensions, masks and compression of frames, DNS messages,
  TLS records; `green/http/cookies.py` is the syntax of one header.
  `green/http/server.py` is the request loop of CPython's `http.server`, of which
  `wsgi.py` has its own.
- `green/*` besides HTTP, SSL and zmq: interfaces of standard modules over what is
  modelled. `patcher` works on the interpreter's modules while they are imported;
  `corolocal` never suspends; `convenience`, `backdoor`, `debug`, `coros`, `support` and
  `zipkin` keep no state that several threads change.

## Plan

What is left, in the order of what it would tell:

1. A proof of `HttpExact`, once the answers of HttpClient are described without folds.
2. An abstract connection (requests, answers, in order) that both WsgiRequest and
   HttpClient implement, so that the two ends can be composed.
3. `spawn_after` and tasks killed before they start in GreenThread and GreenPool, with
   their proofs.
4. The green `select()` and `subprocess` over Listeners.
