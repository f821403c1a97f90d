# Specifications of horse-rpc

horse-rpc is an RPC framework in C++ (a fork of Tars): a client library in
`src/src/client`, a server library in `src/src/util/tc_epoll_server.*` with the
dispatch code in `src/src/client`, and the utilities both stand on. There are no
tests in the repository. This directory holds TLA+ specifications of the parts
where threads, connections and deadlines meet, configurations that check them
with TLC, and proofs checked by TLAPS.

## 1. Inventory of the system

**Client, calling side.** A calling thread has one bounded ring per network
thread (`TC_LoopQueue<ReqMessage*>`), and one number (`SeqManager`, `_reqQNo`)
under which the network thread keeps the epoll event of that ring.
`ServantProxy::invoke` fills a `ReqMessage`, pushes it, notifies, and for a
synchronous call sleeps on the request's own monitor until the network thread
sets `bMonitorFin`. When the thread ends, `~ServantProxyThreadData` pushes
THREAD_EXIT and gives its number back.
*Hard:* a lock-free ring; wake-up by a level set once (`EPOLL_CTL_MOD` on an
edge-triggered descriptor); the double test of `bMonitorFin`; numbers that are
reused; full queues. *Correct means:* no request, wake-up or signal is lost, a
synchronous call comes back with a status, the queue of a thread that ended is
released.

**Client, network thread.** `CommunicatorEpoll` is one event loop. Each
`ObjectProxy` (one service) holds the requests that have no connection yet
(`_reqTimeoutQueue`); each `AdapterProxy` (one server of the service) the
requests it has been given (`_timeoutQueue`, by id, by deadline, and the list of
those not yet sent); each `Transceiver` one TCP connection and its send buffer.
`EndpointManager` chooses an adapter for a request and takes new address lists.
The parts call each other directly: an event makes the transceiver read a
response, which finishes a request in the adapter, which calls the object, which
takes waiting requests and sends them through an adapter, which may fail and
finish a request again. *Hard:* this re-entry; connections that fail at any point
of it; deadlines; answers that come too late; address lists that change; the
serial mode, in which responses carry no usable id. *Correct means:* a request is
in exactly one place until it ends and ends exactly once; a caller gets the
response to its own request; ids are not 0; no handler runs for ever; nobody
waits at the object for a connection that is up.

**Circuit breaker.** `AdapterProxy::finishInvoke(bool)`, `checkActive`,
`setConTimeout` count timeouts and failures and take a server out of use for a
while; `EndpointManager::getNextValidProxy` goes round the servers.
*Hard:* two thresholds with different windows, retry times written in four places,
connection attempts that take too long. *Correct means:* a server that works is
used, one that is out of use is tried at intervals and comes back.

**Callbacks.** `AsyncProcThread` runs the callbacks of asynchronous calls from a
`TC_CasQueue`. *Hard:* its wait is only bounded by a timeout; a full queue drops
callbacks. **Start and termination.** `Communicator` starts and ends the network
and callback threads while callers may be inside a call. *Correct means:* queued
callbacks run, `terminate()` returns.

**Server.** `TC_EpollServer` has network threads, each with a `ConnectionList`
(slots, free numbers, a time-ordered list) and a queue of replies (`_sbuffer`);
`BindAdapter` has the queue of received requests, or one for each handler; `Handle`
threads take requests, and `ServantHandle` runs servants and sends replies. *Hard:*
numbers of connections that are reused without a generation while replies are
queued; connections closed by the peer, by the server and by the timeout scan;
overload limits; the wake-up flag `_notifySignal`; handlers that sleep; shutdown at any
time and from a servant. *Correct means:* no slot is lost or used twice; no reply stays behind or is sent twice; an ordered close
waits for the replies before it; handlers are told of a closed connection once, after
its requests; all threads end.

**Coroutines.** `CoroutineScheduler`: lists of coroutines that are ready,
waiting, sleeping or free, and queues of numbers of those to wake. *Hard:* coroutines
are woken by number, from another thread, and numbers are reused. *Correct means:* one
that runs has its answers, and none is forgotten.

**Packets and encoding.** `Tars.h` writes structures as tagged fields; `Current` and
`AppProtocol.h` make packets of them, `TC_NetWorkBuffer` collects what arrives;
`tc_http` does the same for HTTP, which the RPC code itself does not use. *Hard:*
pieces that end anywhere, peers with other versions of a structure. *Correct means:*
what was sent is what is read.

**Utilities.** Thread pool, timer, cron (*correct means:* no task or event is lost or
run after it was erased, and the next time of an expression is the next one); client
sockets for one call after another (an answer belongs to the call that asked for it);
URLs and cookies (what is sent back is what the rules of names, paths and times select);
addresses of servers as text, and the lists made of them (what is used is what was
listed); thread queue, monitor and locks, strings.

`PROJECT.json` lists all of these under `components`, with what is not modelled
and why, and under `hazards` the places where the code is hard to test.

## 2. Modules

| module | models | uses |
|---|---|---|
| `LoopQueue` | `TC_LoopQueue`, every load and store of an index a step | refines `BoundedFifo` |
| `BoundedFifo` | what a queue between two threads promises | |
| `LoopQueueProofs` | proofs about `LoopQueue` | |
| `TimeoutQueue` | `TC_TimeoutQueueNew` as operators on a record | |
| `ClientProxy` | requests inside one network thread: `ObjectProxy`, `AdapterProxy`, `Transceiver`, `CommunicatorEpoll::handle`, `doTimeout` | `TimeoutQueue`; refines `RequestLife` |
| `ClientProxyProofs` | proofs about `ClientProxy` and `TimeoutQueue` | |
| `RequestLife` | what happens to a request: taken once, ended once | |
| `ClientCall` | calling threads and network thread: `ServantProxy::invoke`, `CommunicatorEpoll::notify/handle`, `TC_Monitor`, thread exit | queue = `BoundedFifo` in a sequence |
| `ClientCallProofs` | proofs about `ClientCall` | |
| `SeqManager` | the linked list of free numbers | refines `NumberPool` |
| `SeqManagerProofs` | proofs about `SeqManager` | |
| `NumberPool` | numbers given out, oldest first | |
| `CircuitBreaker` | which server gets the next request: counters, retry times, attempts to connect, the round over the servers | |
| `CircuitBreakerProofs` | proofs about `CircuitBreaker` | |
| `Communicator` | `initialize()`, `terminate()`, network threads that hand over finished requests, callback threads | |
| `Server` | main thread, one network thread and handlers of the server: `accept`, `ConnectionList`, `Connection`, `NetThread`, `BindAdapter`, `Handle`, `ServantHandle` | |
| `ServerProofs` | proofs about `Server` | |
| `Backlog` | when a connection is closed because its peer takes its replies too slowly | |
| `ServerLife` | start and shutdown of the server, and how its handlers sleep and wake | |
| `ThreadPool` | `TC_ThreadPool`, a critical section a step | |
| `ThreadPoolProofs` | proofs about `ThreadPool` and `Timer` | |
| `Timer` | `TC_Timer`: the loop, posting, erasing, repeating, stopping | runs on `ThreadPool` |
| `Cron` | `TC_Cron`: bit sets of an expression, the next time | |
| `Coroutines` | `CoroutineScheduler::run()`, coroutines, the network thread that wakes them | |
| `CoroutineProofs` | proofs about `Coroutines` | |
| `Tars` | `TarsOutputStream`, `TarsInputStream` as operators on bytes | |
| `TarsJson` | `JsonInput`, `JsonOutput`, `UniAttribute`, `UniPacket`: structures as JSON values and as attributes | `Tars` |
| `TarsVersions` | a structure read by a peer with another version of it, in one of the three forms, whole or cut | `Tars`, `TarsJson` |
| `Framing` | `Current::sendResponse()`, `TC_NetWorkBuffer`, the parsers of `AppProtocol.h` | `Tars` |
| `Http` | one HTTP request and response: `TC_HttpRequest`, `TC_HttpResponse`, `doRequest()` | |
| `ClientSocket` | `TC_ClientSocket`, `TC_TCPClient`, `TC_UDPClient`: one call after another over a socket and an edge-triggered epoll | |
| `Url` | `TC_URL`: taking apart, resolving against a base, simplifying | |
| `Cookies` | `TC_HttpCookie`: what is kept of Set-Cookie lines and what is sent back | `Url` |
| `Endpoints` | `TC_Endpoint`, `EndpointInfo`, `EndpointManager`, `BindAdapter::setEndpoint()`: addresses as text and lists of them | |
| `MC...` | instances for TLC | |

The composition is by contract: `ClientCall` uses the ring as the FIFO it is
proved to be and the numbers as the FIFO pool they are proved to be, and leaves
what happens to a request between being taken and being finished to
`ClientProxy`, which shows that it is finished. `ClientProxy` leaves the choice of a
server open; `CircuitBreaker` makes it and leaves the requests out. `Server` and
`ServerLife` share the queue of requests: the first has the connections behind it and
never stops, the second the threads around it. `Timer` composes with `ThreadPool`
step by step: its loop and its events are tasks of the pool.

`Wrong` forms stand before some definitions: they are plausible mistakes in the code a
definition models, and each property is violated when one of them takes the
definition's place (`mutants` in `PROJECT.json`).

### LoopQueue
`_iBegin`, `_iEnd`, `_p` are the variables; `pcP`, `pcC` say where the pushing
and the popping thread are. `push_back(t)` reads `_iEnd` once and decides (`Push`,
`PushRefused`), writes the slot (`Copy`), reads `_iEnd` again for the hint
(`TestEmpty`, `TestSize`) and moves `_iBegin` (`Advance`). The bulk form is the
same with a vector and without a hint. `pop_front` decides (`PopEmpty`, `Pop`),
copies (`CopyOut`) and moves `_iEnd` (`AdvanceEnd`); `get_front` stops before
(`GetFront`). (`RingInit`, `RingNext` and `RingSpec` are its specification.) The memory model assumed is that loads and stores take effect in
program order, as on x86; the plain `int` indices make it a data race in C++.
`sawEmpty`, `woken` and `got` are history variables.

### TimeoutQueue, ClientProxy
`objQ` is `_reqTimeoutQueue`; `tq[a]`, `uniqId[a]`, `reqMsg[a]` the adapter's
`_timeoutQueue`, id generator and `_requestMsg`; `conn[a]` the state of the
connection, `buffered[a]` the request part of whose bytes are still in
`_sendBuffer`, `wire[a]` the requests the server may still answer on this
connection. `outcome[m]` is what the caller has got. `stk` is the call stack of
the thread: each frame is a function that has something left to do, so
`finishInvoke` inside `doInvoke` inside `doResponse` is three frames, and an event,
a new request or the timeout scan begins only on an empty stack. What a send or
an event does is a choice of the network: `sendRequest` returns Ok, Full, Error or
NotSend under its conditions, an event reports any of in, out and err, a server
answers in any order, late or never, or closes. `DeadlinePasses` makes one
request expire; a request also carries `answer`, the request whose response it was
given. `mode` holds what is set up once: serial or multiplexed connection,
addresses known or not, and the address lists `tars_update_endpoints` brings.
Deleting a request is the outcome `gone` or a status; a request used after that
would be a request in a frame or a queue that is not `live` (`OnePlace`).

Abstracted: the choice of an adapter (hash, weight, round robin) is
nondeterministic among the active ones; the circuit breaker's decision to close a
connection is a choice in `Deliver` (both are the subject of `CircuitBreaker`); connections come up through an event, not
inside `connect()`; messages the server pushes (id 0) and coroutine calls are left
out.

### ClientCall
`pc[t]` is the position of a calling thread between two accesses to shared
state, `netPc` that of the network thread. `owner[s]` is `_notify[s]->p`: the
thread whose queue the event of number s names; `pend` the events epoll has to
report. `FinishLock`, `Signal`, `Unlock` are the three moments of
`TC_ThreadLock::Lock sync(*msg->pMonitor); bMonitorFin = true; notify()` as
`TC_Monitor` performs them: the notification is carried out when the lock is
released. `freed` says that the caller has already deleted the monitor the
network thread is in; what the thread then does to it has no effect in the model.
The same holds for an event deleted between `NotifyDel` and `NotifyDelUse`. One
network thread is modelled; threads have one ring and one event for each network
thread and the parts share nothing but the number.

### SeqManager
`get` and `del` hold the spin lock, so each is one action; `SeqChain` follows the
links (`ListFrom`, a recursive function of the head and the links, so that it can be
proved about) and maps the list to the FIFO of `NumberPool`.

### Server
`slot` and `free` are `_vConn` and `_free` of the one `ConnectionList`, `nowConns`
is `_iCurConns` of the one adapter; `uid[c]` is the number a connection was given,
`unsent[c]` its `_sendBuffer` and `closing[c]` its `_bClose`, `got[c]` what its peer
has received. Requests and replies are identified: a reply is its request. The main
thread runs `Accept`, `GetUniqId`, `AddToList`, `AddToEpoll` and `AfterAdd`, the
steps of `accept()` and `addTcpConnection()` between two locks or atomic
variables; `UseConn` is where it uses a connection the network thread may have
deleted, which it survives or not (`down`). The network thread handles one event
at a time (`ReadRequest`, `PeerCloses`, `Writable`, `PipeEvent`) and scans the
deadlines (`CheckTimeout`); `delConnection()` is the two steps `Delete` and
`Deleted`, with the count lowered in the first and the slot given back in the
second, and `netRet` says where it goes on. `processPipe()` is `ResetSignal`, one
`Pipe` for each order and `PipeDone`. A handler takes an entry of `recvQ` (`Take`;
`RecvBufferSize` counts it until its next step, as `waitForRecvQueue` lowers the
count after the pop) and then sends a reply or none and has the connection closed
or not, in either order (`todo`: a servant may call `Current::close()` before the
reply of `handleTarsProtocol`, or an exception end it after). `NetThread::send()` is
`Reply`, `CheckSignal`, `SetSignal`, `Notify`; `close()` notifies without asking.

An order and a reply name the slot, not the connection, and the model looks the
slot up as the code does: what was meant for a connection that is gone goes to the
one that has its slot now. No text of the repository excludes this, so no property
does.

Abstracted: time in `checkTimeout` (any connection may be past its deadline, but
not one still being added, as deadlines are two seconds away at least); the upper
bits of a uid, which are the same for all connections of a list; reading and
parsing (a request arrives or the connection is closed); what pieces a reply is sent
in (a whole one goes or stays); the limits of `sendBuffer` on replies that pile up,
which end as a failed send; the queue timeout of a request, which is one more way
to have a reply or none. Left out: UDP, handlers inside the network thread and
queue mode, several network threads (which share the limit of the adapter, while
each has slots for all of it), the scan for empty connections. Start and shutdown are
the subject of `ServerLife`.

### CircuitBreaker
`srv[s]` is the state of an `AdapterProxy` and its `Transceiver`. A time is the number
of ticks until it is reached, so that the clock needs no bound. `Select` is one call of
`getNextValidProxy()`, with every `checkActive()` it makes: `Tries` says which attempts
to connect end at once, well or badly. `FinishCall` is `finishInvoke(bool)` of a call that
ended well or badly, `Conn...` what the network reports, `Tick` time, `DueReconnect` the
reconnection by the timer, with the one entry of `_reconnect` that two connections of the
same millisecond share (`TakeOver`). `settled` begins when network and servers work from
now on, for the one liveness property. `tried` and `streak` are history variables.

### Communicator
Application threads create (`Enter` to `Created`) and terminate it under its lock; a
network thread finishes requests, pushes them to the callback threads in turn
(`NetPush`), notifies, may ask for the lock, and ends when it sees `_terminate`. A
callback thread pops, calls, and waits for at most a second. `down` says that a callback
thread was used after it was deleted.

### ServerLife
`mainAt` is `waitForShutdown()`: it starts the handlers one by one, then the network
thread, and looks at `_bTerminate` once in a while. `Arrive`, `PushRequest` and
`SignalServant` are `insertRecvQueue()`, whose push and notification are two critical
sections. A handler tests whether the server stops, looks at the count of requests
without the lock (`Look`), sleeps with it (`Doze`), wakes by notification or after three
seconds (`WakeUp`), pops. `stopAt` is `terminate()`, run by a thread of the application or
by a servant, in a handler, which then waits for itself (`JoinItself`). `sharing` chooses
one queue, a queue for each handler, or handlers merged with the network thread. With a
queue for each handler, a request or the notification of `terminate()` that comes before
the handler has made its queue dereferences null: the model stops there (`crashed`).

### Backlog
The end of `Connection::sendBuffer()`, for one connection: each call writes some of what is
there and, when too much stays, counts what was sent and every five seconds makes an entry in
`checks` (`_checkSend`). A time is the number of seconds since. The numbers of checks, 3 and 12 in the
code, are constants. `behind`, `accepted` and `trickle` are history: how long there has been a
backlog, what the peer took in the last seconds, and for how long it took a little in each.

### ThreadPool, Timer
`wpc` and `upc` are the positions of workers and users between critical sections; both
sleep on the pool's one condition variable, and `NotifyOne` wakes any one of them. In
`Timer` the events are kept by the order of their times: `mapTimer` is a sequence of sets
of events with equal times, the first `due` of which have come. `FindEvent` looks for one event
of the set the loop has taken under the lock of the timer, `FireEvent` gives it to the pool
without that lock, so that `erase()` and `post()` come between. `stopTimer()` is `NotifyStop`,
`LookForStop`, `SetTerminate` and `StopPool`, of which only the first holds the lock.

### Cron
Expressions are records of the six fields, each a sequence of items (star, number, range,
with or without increment). `MakeCron` makes the bit sets, with increments in 8 bits;
`FindNext` is the search field by field, with the resets of smaller fields and the
normalisation `mktime` does. Time zones have no daylight saving.

### Coroutines
`lists` are the five lists of coroutines, `netQ` and `selfQ` the two queues of numbers,
`timers` the sleepers; `at` and `current` say where the one thread is. `Put` and
`PutNotify` are the network thread's two steps. A coroutine sends one request or
`Together` of them (and does nothing else until it waits for them, see section 5), waits, yields, sleeps, creates another, ends. `MoveFrom` is what the five
`moveTo...()` have in common: a coroutine changes its list only if its status is one of those
the function asks for. `AllMoved` is the loop of a `wakeup...()` over its queue. `CoroutinesInit` is
the state in which `handleCoro()` has created its first coroutines, for which
`increaseCoroPoolSize()` may have run several times.

### Tars, TarsJson, TarsVersions, Framing
Integers are the eight bytes of their value in two's complement, so that widths and signs
are the code's; a reader steps over what it does not know with the recursion of
`skipField()`. In `TarsJson` a JSON value is a tree, whose numbers are doubles: an integer of
more than 53 bits becomes `Unspecified`. Names of fields are their tags. Keys of maps are
written as strings; an `unsigned char` becomes the character it is the code of. Attributes of
a packet are fields with tag 0, each encoded by itself and all of them in a map, which the
packet carries as bytes. `TarsVersions` reads every prefix of what was written. In `Framing` a stream of
encoded answers arrives in pieces, `ParsePacket` is one round of the parser's loop. The
early look of the tars parser at a packet that is not complete reads up to three bytes past
the end of a string; they are a choice of `Garbage`.

### Http
A message is a sequence of characters and of lines of the head, each of which stands for
many characters. `CheckRequest` finds out whether a request is full, `DecodeRequest` takes it
apart, `IncrementDecode` does what `incrementDecode()` does with each piece of the response,
and `Come` and `TakeChunks` are the loop over chunks.

### ClientSocket
A caller makes one call after another on one socket. A wait and a read are steps of their
own, and the server and the network go on between them: answers come in pieces or not in
order, the connection is closed or reset, or the wait itself fails. `edge` is what the edge-triggered epoll has to
report: it is there once for what came, whether it is read or not. The codes returned are those of the code, and so are the cases in
which the socket stays open.

### Url, Cookies
A URL is a sequence of words and of the marks the parser looks for. `Cookies` has the list of
cookies, each with domain, path, expiry and the secure mark: a page sets one, links are
followed, time passes, what has expired is dropped, the client stores its cookies and
starts again. `place` and `told` say what a reader of RFC 3986, and of the lines, would take
for the page and its cookies. Where the examples at `tc_http.h:318-331` have a relative link lead
elsewhere than the code (`Disputed`: the page is not a directory), `place` takes the path the code has.

### Endpoints
An address is a sequence of words, options and their arguments, some of them wrong. A port
that is not initialised is one of `Leftovers`. `NewObject` is the name of an object with its
list of addresses, `NotifyEndpoints` and `AddEndpoints` the changes of a list and the adapters
that are made or found again; `SetEndpoint` is what a server is told to listen at. `said` and
`listed` keep what the properties compare with.

## 3. Runs

Several parts of the system share nothing with each other. Rather than a run for each,
an MC module puts them side by side with a variable `part` that says which of them a
behaviour is about: the state of the others does not change, so that the number of
states is the sum of theirs. Sizes are distinct states.

Passing runs:

* **proxy** (566 345). With one server: a synchronous, an asynchronous and a one-way
  request, multiplexed, serial, and with addresses that are never known. With two servers
  and lists that lose one or both: two requests, one of which is an `rpc_call` that brings
  the id the generator gives the other. Send queue of 1; ids 9, 1, 2, ... so that the
  generator wraps. `OnePlace` (which includes that each queue's two lists
  agree), `OwnResponse`, `NoneWaitsForOpenConnection`. Three requests are enough for one under way, one waiting
  and one arriving while a handler re-enters, and the send queue is full at times.
* **proxy_live** (28 178), four parts. *Requests*: two on one server, in the three modes:
  the refinement `LifeSpec` of `RequestLife`, which includes that every request ends, and
  `HandlersReturn`. *Ring*: a ring of 2 (3 slots, so that both index orders, wrap, full and
  empty occur) with batches that fit and that do not: `FifoSpec`, the refinement of
  `BoundedFifo`, `NoMissedHint`, `OldestReceived`. *Numbers*: 4
  numbers, so that the free list has every length from 0 to 4: `NumberPoolSpec`. *Server
  life*: two handlers, one request, the three ways of sharing queues, stopped by a thread
  of the application or by a servant at any time, also before the start is over:
  `ShutdownReturns`, `RequestsTaken`. Two handlers are what it takes for one to be joined
  while the other sleeps, and for `terminate()` in one to wait for itself first or last.
* **call** (two threads, two numbers, queue of 2, waits that wake by themselves; 1.0
  million): `NoLostWakeup`, `NoLostSignal`, `ExitIsLast`.
* **call_live** (one call each, no wait wakes by itself; 69 675): `SyncReturns`,
  `QueueReleased`.
* **server** (691 000). Instances of connections, handlers and requests: 3, 1, 1; 2, 1, 2;
  1, 2, 2 and 2, 2, 1; two slots, limit of two connections, overload from one entry on and
  discarding from three, greeting. `OneUseOfSlot`, `NoReplyLeft`,
  `CloseNoticeLast`, `RepliedOnce`, `ClosedAfterReplies`. A third connection gets a slot
  that was used before while replies for its first connection are queued; two handlers
  are what it takes to meet each other's `_notifySignal`; two requests make replies join
  in a send buffer.
* **communicator** (38 269), two parts. *Communicator*: one application thread, one network
  thread, two callback threads with queues of one, three requests: `CallbacksRun`,
  `TerminateReturns`. *Breaker*: one server, with every threshold above its least value; and two
  with the least ones and reconnection by the timer, with up to three steps before all works (a
  round that tries to connect both, and two failures at the same time, after which one entry of
  `_reconnect` stands for both) and one request at a time at each: `Recovers`.
* **parts** (414 000), twelve parts of which only safety is asked. *Pool*: two workers, two
  users, two tasks, waits with and without a limit: `NobodyForgotten`. *Timer*: the same
  pool with the loop and two events, one repeated, posted twice: `EventsKept`,
  `ErasedStaysErased`. *Coroutines*: at most three, one waiting for two answers at a time:
  `OwnAnswers`, `NoneForgotten`. *Breaker*: two servers with the least thresholds, one with
  higher ones: `TriedAtIntervals`, `UsesWhatIsUp`, `OutAfterFailures`. *Tars*: each type
  with values at the limits of each width, strings that look like heads, nested structures,
  lists and maps, read by the same, a wider, an older or an unknowing type, whole and cut
  at every byte, as encoded fields, as attributes and as JSON: `ReadsWhatWasSent`. *Framing*: eleven streams of two answers in six protocols,
  in up to three pieces cut anywhere: `AnswersAsSent`. *Cron*: the examples of `tc_cron.h`
  and expressions at the ends of months, asked three times from each of six starts:
  `NextIsNext`. *HTTP*: responses of every kind, requests with a length and in chunks, bodies
  that look like heads and chunks, in up to three pieces: `HttpAsSent`. Three pieces make one
  that begins and ends inside a field. *Client sockets*: two calls, of which the first
  may give up before its answer has come, and a buffer of two units: `AnswersThisCall`. *Cookies*:
  three lines, one link followed, times 1 to 3, so that cookies are replaced,
  deleted and outlived: `CookiesAsSet`. *Endpoints*: names of direct and indirect objects,
  addresses with mistakes, three changes, so that an address goes and comes back:
  `AddressesAsListed`. *Backlog*: a check every two seconds, two checks for slow and four for
  growing, a reply of one or two bytes up to twice a second, so that a backlog comes, goes
  and comes back before a check: `SlowPeerClosed`.

Runs that show a disagreement (listed under `findings`):

* **serial_status**: `doInvoke_serial` finishes a request it could not send with the
  status of a request under way; `ServantProxy::invoke` asserts it has another.
* **call_reused_number**: with the number of an ended thread given to a new thread
  before the network thread has handled THREAD_EXIT, the new thread's
  synchronous call never returns. The run has a single number, so reuse is
  immediate; in the code it takes as many thread starts as there are free numbers.
* **call_early**: a caller that finds `bMonitorFin` set without the lock goes on,
  and deletes the monitor, while the network thread is inside it.
* **server_slots**: with one slot and a limit of one, a connection accepted between
  the two steps of `delConnection()` passes the limit and finds no free slot, where
  `getUniqId()` asserts that there is one. `_free.front()` of an empty list is
  undefined; the model stops there.
* **cron_month_end**: asked on one of the last days of January for the next time of an
  expression that allows only February, `nextcron()` normalises the 29th, 30th or 31st of
  February into March before it resets the day, and passes over the month.

Deadlock is not checked where the system may stop: all requests finished, all threads
ended, all peers gone, all bytes read, the bound on calls reached.

**Fairness.** The ring: a thread inside a call goes on (weak), and the popping
thread moves `_iEnd` again and again when it can (strong), because `handle()` pops
until the queue is empty. `ClientProxy`: the network thread runs its handler
(weak) and scans the deadlines again and again (strong; `run()` does it each time round),
and time passes. It need not take requests: what is asked of those it has taken does
not depend on it. Nothing is assumed of servers or connections. `ClientCall`: threads
inside a call run, epoll reports every pending event in the end, and a request the network
thread holds is finished in the end, which is what `proxy_live` shows. `ServerLife`: each
thread runs, a servant returns, and a wait with a limit ends; nobody need send a request
or stop the server. `Communicator`: application and network threads run (strong where they
need a lock others hold in between), callbacks return, the wait of a callback thread ends
after a second. `CircuitBreaker`: only once `settled`: requests keep coming, calls are
answered, connections come up, time passes. `Server`, `ThreadPool`, `Timer`, `Coroutines`
and the parsers have safety properties only: that a reply goes out, or that a packet
arrives, depends on the peer, and that a task is run on the tasks before it.

**Type invariants.** `TypeOK` of `ClientProxy`, `ClientCall` and `Server`, `RingTypeOK` of `LoopQueue`,
`BreakerTypeOK` of `CircuitBreaker` and `SeqTypeOK` of `SeqManager` are proved (section 4).
`CommunicatorTypeOK` documents the state of its module.

## 4. Proofs

`LoopQueueProofs` proves, for every size of the ring, every set of values and
every batch size, from `LoopQueueAssumption`: type correctness (`RingTypeOK`), that the
two threads never touch the same slot (`SlotsAreDisjoint`), that a copied value stays
what it was (`CopyIsStable`), `RefusedOnlyWhenFull` (proved, so that no run repeats it) and the refinement `FifoSpec`. The
inductive invariant `IInv` adds to the type invariant what each thread knows in
the middle of a call: the pusher that the values it has left still fit whatever
the popper does meanwhile (`PushInv`), the popper that the ring is not empty and
that its copy is the value of the slot (`PopInv`), and that the slots from `_iEnd`
on hold values (`HeldInv`). `AtFacts` and `SizeFacts` carry the index arithmetic
modulo the capacity; `StepRefines` maps `Advance` to `Enqueue`, `AdvanceEnd` to
`Dequeue` and everything else to a stutter. `HintArrives` (`NoMissedHint`) has
an invariant of its own, `HintInv`: after the reader has found the ring empty and as long as
nothing has told it otherwise, either the ring is still empty, or the `push_back` that has
moved `_iBegin` has its second look at the size before it and will see at most one value.
`OldestReceived` is liveness and stays with TLC.

`ClientProxyProofs` proves, from `ClientProxyAssumption` and for any requests, servers,
settings, queue limit and range of ids:

* `TypeCorrect`, for every variable and the call stack.
* `InOnePlace` (`OnePlace`). It counts places; the invariant `PlaceInv` says without counting
  that object, connections and handlers hold different requests, each once, and together those that
  are live. The rest of the induction is what makes each removal hit the right request:
  `KeyInv`, that a queue has a request under its own id and that its two lists
  agree, and `SerialInv`, that the request a serial connection waits for is in its queue.
  `PushKeeps`, `PopKeeps` and `EraseKeeps` are the lemmas about the operators of `TimeoutQueue`.
* `OpenConnectionsTaken` (`NoneWaitsForOpenConnection`). While a handler runs the property is false
  for a moment; `WaitInv` adds that `prepareConnection()` is then still on the call stack.
* `LifeSafety`: `Init` and every step map to `RequestLife`, by `EndInv` (what a request that is
  about to be handed back has become). It is the safety half of `LifeSpec`.
* `ParallelStatusSet`: what `serial_status` refutes holds on multiplexed connections.
* `SerialOwnResponse`: on a serial connection nobody gets the response to another request.
  `OrderInv` says that what the socket holds and what the server may still answer is the one request that
  is waited for, so that a request that ends early must take the connection with it.
* `ResponsesGoHome` (`OwnResponse`), for multiplexed connections too, where a late response finds its
  request by its id or none. `ParInv` says why it finds no other: a request has no generated id until it is
  called (`IdsInv`), what a connection, its queue or its server holds has an id of that
  connection's generator or of the application (`MarkedInv`), and those ids differ
  (`NumberInv`). The last is inductive with the age of an id, how many the generator has made since:
  it is below the number of ids given (`NextAge`, `NextNumber`). The hypothesis
  `FewMsgs`, as many ids (2^32 - 1 in the code) as requests, cannot be dropped: nothing else keeps a response
  that is a whole round of the generator late from a request that has its id again, and
  `OwnResponse` fails on an instance with two ids and three requests.

`ClientCallProofs` proves, from `ClientCallAssumption` and for any set of threads:
type correctness (with `Started` and `NetInv`: a thread inside a call has a number,
and while the network thread pops, the number it works on has an owner);
`NoLostSignal`, which is inductive given the types; and `ExitIsLast`, by `ExitInv`
(THREAD_EXIT stands only at the end of a queue, and only of a thread that is
ending). `NoLostWakeup` needs more. The invariant `Wake` says which thread an
event belongs to: an event is that of the thread whose number it carries
(`Ownership`), a thread that has called once has its event, and keeps it until its
queue is empty (`EventOwned`). That is preserved only if no thread finds the event
of another under its number (`NoStaleEvent`), and `Numbering` shows this when
there are no more threads than numbers, because numbers are given out in order and
returned ones go to the end. `WakeupsArrive` therefore has that hypothesis; without
it the property is false, which is what the run call_reused_number shows.
`ReturnsAfterNotification` (false) and the liveness properties stay with TLC.

`ServerProofs` proves, from `ServerAssumption` and for any number of connections,
requests, handlers and slots:

* `RepliesNoticed` (`NoReplyLeft`). The invariant `SignalInv` is the argument for
  skipping a notification: while `_notifySignal` is set, the event is pending, the
  network thread is between taking it and resetting the flag, or the handler that
  set it is about to notify.
* `TypeCorrect`. Its content is `KnownInv` and `ListInv`: a request in a queue or in
  a handler came from a connection that had been given a slot, and a connection is
  found only in its own slot, so every slot looked up or given back is one.
* `SlotsOnce` (`OneUseOfSlot`), from these and `DeletedInSlot`: the connection the
  network thread deletes is still the one in its slot, since nobody else empties a
  slot and the main thread fills only the one in its hand.

`SlotLeft` is false.

Its second part follows what goes back to the peers, from the same assumption.

* `NoticeComesLast` (`CloseNoticeLast`). `Ending` are the connections that have been in the
  list and have left it or are being deleted; `NoticeInv` says that a notification in the
  queue is about one of these, and `EndingStays` that they do not come back, so that the
  network thread reads no request of theirs after it and deletes none a second time.
* `RepliesGoOnce` (`RepliedOnce`). A reply is on its way in one place: `OutInv` says so of the
  orders in `_sbuffer` and of what each peer has got or has in its buffer, and `PendInv` of
  the requests that wait or are with a handler that still owes a reply. `SendKeepsLine`
  is what `sendBuffer()` does: it moves a part of the buffer to the peer and nothing else.
* `CloseAfterReplies` (`ClosedAfterReplies`) is an action property. `KeptInv` says that a reply
  is thrown away only when its connection has left the list, and `OrderInv` that a
  connection that is deleted by order has nothing left in its buffer.

`ThreadPoolProofs` proves, from `ThreadPoolAssumption` and for any number of workers,
users and tasks, `PoolForgetsNobody` (`NobodyForgotten`). Workers and callers of
`waitForAllDone()` sleep on one condition variable and `exec()` wakes one of them, so the
question is what happens when it wakes a caller. The invariant `PoolInv` answers it: a
caller that waits on an empty queue has a worker that has still to finish its task
(`NobodyForgotten` itself), or the queue is not empty and some worker is awake; where no
caller waits, the notification reaches a worker (`WorkerNotified`). Besides, `_atomic`
counts the tasks that run (`BusyInv`), so that a worker that finishes without telling
anybody leaves another one that runs (`SomeoneRuns`); threads are there all together until
the pool is stopped (`AliveInv`); and nobody waits on an empty queue before `start()`
(`EarlyWaitInv`).

Its second part proves, from the assumptions of `Timer` and `ThreadPool` and for any events,
users and workers, `EventsHaveTimes` (`EventsKept`) and `ErasedDoesNotRun`
(`ErasedStaysErased`). `PlaceInv` says that an event is in one place at a time: it waits, or the
loop has found it, or it is queued in the pool, or it runs; so one the loop has found is not there to be
erased. `TimerInv` keeps the erased events apart from those that are posted,
and says that a set of events that is due is one of the map of times and that the loop takes
none before it is through with the last. The run and the theorems have the same
next-state relation; `TimerSpec` is the run's specification without fairness.

`CircuitBreakerProofs` proves, from `CircuitBreakerAssumption` and for any servers, list,
thresholds and times, `BreakerTypes` and on top of it `TriesAreSpaced` (`TriedAtIntervals`: a
server out of use that a selection has tried is not tried by another one before
`tryTimeInterval` is over, whatever timeouts, forced attempts and reconnections happen in
between), `RoundMissesNone` (`UsesWhatIsUp`: the indices modulo the length of the list meet
every server once) and `OnlyFailuresPutOut` (`OutAfterFailures`, for a server whose connection
stays up).

`SeqManagerProofs` proves, from the assumption of `SeqManager` and for any number of numbers,
`NumbersAsserted` (what `get()` asserts of the number it takes) and `NumbersImplementPool`
(`NumberPoolSpec`: every step of `get()` and `del()` is the step of `NumberPool` or none).
The invariant `ListInv` says that the links, followed from the head, make one list of
the free numbers, each once, whose last is the tail. `ListFound` says that a
sequence that is linked in this way is the one that `ListFrom` finds, so that for a step it is enough to
name the list it should make and to look at the one link it changes (`NextIsChain`).

`CoroutineProofs` proves, from `CoroutinesAssumption` and for any pool, number of calls and
requests sent together, `AnswersOfOwn` (`OwnAnswers`), `NoCoroutineForgotten` (`NoneForgotten`)
and `CoroutinesInLists`. A coroutine is woken by its number alone, numbers are used again, and
the network thread may put one before it has given up the thread; so neither property is
inductive. `CoroInv` adds:

* `ListsInv`: a coroutine is in at most one list, once, and has been made (its status is its list).
* `PlaceInv`: the coroutine that runs is in the list it was resumed from.
* `QueuesInv`: answers are expected only for a coroutine that waits or has just sent, one that has been
  put is one of these and has all its answers, one that yielded waits for none, and
  a timer stands for a sleeper, once. Nothing that is left in a queue
  can wake a later user of the number.
* `EarlyInv`: an answer that came before the coroutine waits is in the queue of `put()`.

`WakeUp` empties three queues in one step: `MovedAll` says where each coroutine is when all of a
queue have been moved, and `WakeUpStep` puts the three together.

The lists of `SeqManager` and the queues of `Coroutines` are recursive functions of a natural
number. That these are what their defining equations say, and what they yield after n steps, needs induction;
it is done in first order, through the least counterexample, which the well-foundedness of `<` on
the naturals provides (`WFMin`).

What is left to TLC, and why: liveness and everything about ENABLED; the modules with
recursive operators (`Tars`, `TarsJson`, `TarsVersions`, `Framing`, `Http`, `Url`, `Cookies`,
`Endpoints`, `Cron`), whose properties are about recursion over data; `Backlog`, whose
`SlowPeerClosed` counts with a fold over data; and `Communicator` and `ServerLife`, whose runs check
liveness, and `ClientSocket`, whose invariants have not been worked out.

## 5. Not modelled, and seen on the way

**Client.** `tars_run()` (it is compiled only with `OpenCoroutine`, which is defined as 0).
Parallel sends and `coroWhenAll()` wake a coroutine by its number; the composition of
`Coroutines` with `ClientProxy` that would follow an answer from the one to the other is
missing, and so is `put()` on a scheduler that has been deleted. There is one network
thread in `ClientProxy` and `ClientCall`; UDP is left out.
A coroutine that makes a synchronous call, or sleeps, between its parallel requests and
`coroWhenAll()` can be woken too early: the last parallel answer puts its number
(`AdapterProxy.cpp:735-745`), and the assertion at `ServantProxy.cpp:738` then fails. `Coroutines`
leaves such coroutines out, and `OwnAnswers` does not speak of them.
`Communicator` has no threads that wait for an answer when the network threads stop, and it has the deadlock of `terminate()` with a callback that asks for the
communicator's lock (`Communicator.cpp:337-368`) switched on by `AskingMsgs`.

**Server.** Several network threads share nothing but the queue of requests and the count
of connections. The scan for empty connections and UDP are left out.
A peer that takes nothing at all is never closed for its backlog, though the comment at
`tc_epoll_server.cpp:1055-1057` says so: while `_sendBufferSize` is 0 each call begins the
five seconds anew. `Backlog` has it so, and `SlowPeerClosed` speaks of peers that take something. In `ServerLife`: two `terminate()` at the same time, `waitForShutdown()` that
returns while handlers still run (a later `terminate()` in the destructor does nothing, and they use
network threads that are gone), a handler started after `stopThread()` has looked whether
it is alive (it is not joined), the index of merged handlers with a queue each beyond the
size it was given.

**Pool, timer, cron.** `init()` of a pool again after `stop()`; `_bTerminate` of
`waitForAllDone()`, which the header says it returns for and which is never reset; an event
erased and posted again while it runs, whose erasure is lost; `stopTimer()`, which notifies
before it sets `_terminate`, and which two threads may find not yet set and then join the same threads
at once, which is undefined (`StopPool` lets one thread join at a time). In `Cron`: `findNextDay()` gives up after 366 days and takes an
equal day number for a match, numbers above 255 are cut to 8 bits, an expression without a
next time gives -1, so that its event fires at once, again and again; daylight saving.

**Packets.** Sizes above 32767 when an encoded structure is cut. `totalResponse`
(`AppProtocol.h:577-709`) with packets of the tup protocol: in pieces of 20 bytes or more
tag 5 is read as an integer and refused, a whole packet of less than 20 bytes is read past
its head. `Current.cpp:274-279`, which encodes an empty attribute into a buffer that has been
swapped out. `streamResponse` without network order leaves `requestId` uninitialised. Of JSON the text
(`tc_json.cpp` is not in the repository), maps with keys that are real numbers, and integers
above 2^53, which a double rounds (`TarsJson.h:569`); of packets `createResponse()`. The
display form (`TarsDisplayer.h`) is text for people.

**HTTP.** A request counts as full at the `0` line of its last chunk, before the final line
end, and `decode()` then fails (`tc_http.h:47-48`); `Chunked` with a capital is known to
one of two readers; bytes after a request are swallowed; a connection closed early is
reported as a success with status 200; searches stop at a zero byte. `Http` has requests and
responses that arrive whole or in pieces but no pipelining and no early close.
`doAsyncRequest()` and the text of heads are left out. The RPC code does not use HTTP.

**Seen in client sockets.** `recv()` of a stream returns `EM_SELECT` and leaves the socket open when the data of an edge
was read by an earlier call, or `EM_TIMEOUT` when some of it was left unread; the answer then
goes to the next call, and `doRequest()` fails on a response that comes in two pieces. The first
wait of a UDP socket, and each send, reports that it can be written, so that `TC_UDPClient::recv`
returns `EM_SELECT` at once. `doRequest()` takes `EM_CLOSE` after an error for success.
The model does all this, and `AnswersThisCall` says what
remains true.

**Seen in URLs and cookies.** "#" before "?" in a URL without "/" stays in the authority; a
reference that holds "?" where there is no query is taken apart wrongly; `simplePath()` rewrites
the query too, and takes a segment that ends in ".." for a step up. The examples of
`buildWithRelativePath()` (`tc_http.h:326,328`: from `/a/b`, `test/abc` leads to `/a/b/test/abc`)
differ from the code (`tc_http.cpp:451` cuts at the last `/`, as RFC 3986 does); `CookiesAsSet` says nothing of
where such a link leads. The text about `matchDomain()` (`tc_http.h:921-928`: `.z.com` does not match
`x.y.z.com`) differs too: the code takes every subdomain. No page of the instance is two labels below the domain of a
cookie, so that this case is not judged. A cookie that
expires at time 0 becomes one of the session; attributes the code does not know (Max-Age) are
taken for the name of a cookie, and only the first name of a line is looked for; a secure and
a plain cookie of one name are both sent; `getSerializeCookie()` and `deleteExpires()` ignore the
time they are given.

**Seen in addresses.** Without `-p` or `-t`, `TC_Endpoint(desc)` leaves port and timeout
uninitialised, and `BindAdapter::setEndpoint()` leaves what they were (3000 ms, where
`tc_clientsocket.h:349` says 10 s); a parse that fails leaves an endpoint half changed. A list is
split at every ":", so an IPv6 address cannot be in one. The same host and port for tcp and udp
are one address, and an adapter keeps its first `EndpointInfo`. A weight without its kind is
dropped. `addEndpoints()` passes over an address that has an adapter but is not in use. An
indirect object stays `_valid == false` even after `onNotifyEndpoints()`. A udp address makes an
adapter without transceiver. `EndpointThread` and `EndpointManagerThread` have no caller, return
empty lists, and are left out.

**The rest** is input and output, conversions and containers without a protocol of their
own: sockets, the epoll wrapper, common string functions, time
provider, singletons, locks (modelled by what they do where they are used), logging and
statistics. `TC_ThreadQueue`, `TC_CasQueue` and `TC_TimeoutQueueNoID` appear as the sequences and
sets their users make of them; `TC_TimeoutQueueMap` has no user.

About three tenths of the lines of the repository's C++ files are modelled. Most of the others are
declarations and comments in headers, generated structures, text and number conversions, and
socket calls, of which no state machine can be made that says more than the code.
