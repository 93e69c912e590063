# A verification of the C++ socket HTTP server

This directory holds TLA+ models of the server in `src/src` and of wrk, the load
generator it is measured with (`src/projects/cpp_socket_http_server/wrk/src`),
TLC configurations that check them on small instances, and proofs that TLAPS
checks for every instance. Paths such as `TcpServer.cpp:305` or `wrk.c:291` are
relative to the obvious directory of the two.

## 1. The system

### Inventory

| component | state it keeps | operations | interacts with | what makes it correct |
|---|---|---|---|---|
| thread pool (`utils/ThreadPool`) | task queue, stop flag, sixteen threads | `enqueue`, worker loop, `stop`, destructor | called by the event loop; runs the request handlers | each task once, in order, none lost by a wakeup or by `stop` |
| TCP server, epoll mode (`net/TcpServer`) | `connections_`, `client_buffers_`, the file table, epoll's ready list | accept, read, split, enqueue, close, idle check | kernel, clients, thread pool | exact framing, tables in step, every request answered, to the right client, idle connections closed |
| TCP server, select mode | `client_fds` | accept, read, enqueue; the workers close | kernel, thread pool, handler | `client_fds` agrees with the file table, clients are answered |
| TCP server, fork mode | child processes, a pending SIGCHLD | accept, fork, close, wait | kernel, handler, logger | one holder of a connection, no zombie, clients are answered |
| HTTP handler (`http/HttpHandler`) | request and connection counters, status cache | `handleRequest`, the send loops, `buildStatusJson` | sockets, user service | one whole response for a request; honest counters |
| user service (`user/User`) | the cache of credentials; the `users` table | `registerUser`, `loginUser` | MySQL pool, LRU cache | connections returned, cache agrees with the table, answers true |
| LRU cache (`utils/LRU_Cache`) | list, hash table, size | `get`, `put` | user service | one sound list, least recently used evicted |
| MySQL pool (`utils/MySQLPool`) | idle connections, closed flag | `init`, `getConnection`, `releaseConnection`, `closePool` | user service, DB, MySQL | a connection lent once, none lost, none used after it is freed |
| DB facade (`db/DB`) | none | `connect`, `query`, `execute`, `close` | MySQL pool | as the pool |
| asynchronous logger (`utils/Logger`) | queue, stop flag, one thread, the file | `log`, worker loop, `stop`, `setLogFile` | called by everything | order, one writer, nothing lost at exit |
| wrk: connections and event loop (`wrk.c`, `ae.c`, `ae_epoll.c`, `net.c`) | connections, file events, timers, `stop` | connect, write, read, delay, reconnect, end | the server, its parser, a script | no connection is lost, each waits for what it is owed, the run ends |
| wrk: parser (`http_parser.c`, parts of `script.c`) | the parser of a connection | execute, parse a URL | wrk's callbacks | a message is understood however it is cut |
| synchronous logger, most of `main`, tests | | | | not modelled, see section 6 |

One thread runs the event loop and alone accepts, reads, splits and closes.
Complete requests go to the pool as closures that carry the descriptor *number*
and a copy of the request. A worker runs `HttpHandler::handleRequest`, which
writes to that descriptor itself, and may call `User`, which borrows a MySQL
connection. Every thread logs. In select mode the workers close connections as
well; in fork mode each connection gets a process.

wrk is a number of independent threads, each an event loop over its own
connections. A connection writes a request, which a script may make a pipeline of
several, reads the responses through the parser, and then writes again.

The hard parts are listed, each with its line and the properties about it, under
`hazards` in `PROJECT.json`: descriptors reused under a running task,
edge-triggered reading, requests that arrive in pieces, wakeups sent outside a
mutex, hand-overs at shutdown, timeouts that race with notifications, early
returns that forget something, partial sends, clients that do not read, SIGPIPE, locks inherited by a fork, merged
signals, and callbacks that change what later events of a batch are about.

### Modules

| module | models | main actions and the code they stand for |
|---|---|---|
| `TaskPool` | what a user of the pool may rely on | abstract |
| `ThreadPool` | `ThreadPool.{h,cpp}` | `Push`/`NotifyOne` (the two halves of `enqueue`), `Sleep`, `Exit`, `Take`, `Finish` (worker loop), `SetStop`, `NotifyAll`, `Joined` (`stop`) |
| `ThreadPoolProofs`, `EpollServerProofs`, `TcpServerProofs`, `UserProofs`, `HttpHandlerProofs`, `WrkProofs` | proofs about the module of that name (`HttpHandlerProofs` also about the split loop of `HttpText`) | |
| `SharedProofs` | proofs about what workers share: `AsyncLogger`, `MySQLPool`, `LRUCache` | |
| `QueueLemmas` | what `Append` and `Tail` do to the elements of a queue, counting, the least element of a set, definition by recursion | |
| `EpollServer` | `startWithEpoll`, `checkIdleConnections`, `closeConnection`, the destructor, with kernel, clients and workers | `EpollWait`, `Accept`, `AcceptFails`, `ReadEvent`, `HangUpEvent`, `EpollTimeout`, `CheckIdleConnections`, `EpollFails`; `StartTask`, and of the response `SendSome`, `SendFull`, `SendGone`, `Killed`; `Connect`, `Send`, `HangUp`, `Reads`, `Tick` |
| `Sockets` | the clients of the two servers below, and what one `recv` returns of what they sent | `Connect`, `Send`, `HangUp`, `Reads` |
| `SelectServer` | `startWithSelect` and the `handleRequest` of that mode | `SelectCall`, `SelectReturn`, `Accept`, `AcceptFails`, `Receive`, `ReceiveEnd`; `StartTask`, `Drop`, `OpenFile`, `Waits`, `Handle`, `Killed`, `WorkerClose` |
| `ForkServer` | `startWithFork`, `sigchld_handler` and the `handleRequest` of that mode | `ParentAccept`, `Fork`, `ForkFails`, `ParentClose`, `ParentReap`; `Signal`, `Handler`; `ChildReceive`, `ChildWaits`, `ChildAnswer`, `ChildKilled`, `ChildClose`, `ChildExit`, `ChildStays`; `LoggerLock`, `LoggerUnlock` |
| `TcpServer` | `main`'s choice of mode and `start`: composes the two servers above | `InSelect`, `InFork` |
| `HttpText` | what is done with the text of a request: where it ends, what it asks for, which file it names; the head of an answer | functions named as in `HttpHandler.cpp` |
| `HttpHandler` | `handleRequest` and its send loops, as workers run them | `Begin`, `Incomplete`, `Send403`, `SendHead`, `SendBlock`, `SendJson`, `SendDynamic`, `SendMore`, `Killed` |
| `User` | `registerUser`, `loginUser` | `Begin`, `LookInCache`, `Connect`, `ConnectFails`, `StatementFails`, `CheckName`, `Insert`, `FetchRow`, `FillCache`, `Compare` |
| `LRU` | an LRU cache, abstractly | extended by `User`, implemented by `LRUCache` |
| `LRUCache` | `LRU_Cache.{h,cpp}`, pointer by pointer | `Hit`, `Miss`, `Update`, `Insert` |
| `MySQLPool` | `MySQLPool.{h,cpp}`, with `DB::query` and `DB::execute` as its callers | `InitPool`, `Get`, `Wait`, `SpuriousWake`, `Expire`, `LastLook`, `ReleaseCheck`, `ReleaseToClosed`, `Release`, `ClosePool`; `QueryFails` in the callers; `Drop` is MySQL's |
| `AsyncLogger` | `AsyncLogger` | `Log`, `PushLog`, `Notify`; `Top`, `Decide`, `Block`, `Break`, `TakeLog`, `Write`; `SetFlag`, `StopNotify`, `Join`, `Drain`, `DrainWrite`, `Return` |
| `HttpParser` | `http_parser.c`, `script_verify_request`, `script_parse_url`, as pure functions | one operator per state of the parser or group of them; `http_parser_execute`, `http_parser_parse_url` |
| `Wrk` | a thread of wrk on its event loop, with the kernel and a server | `Poll`, `HandleEvent` (which calls `socket_connected`, `socket_writeable`, `socket_readable`), `EventsDone`, `FireDelay`, `RecordRate`, `TimersDone`, `MainStops`; `Established`, `Dropped`, `Answers` |
| `MC...` | the instances that TLC checks | |

A definition called a *mutant* in a comment is a plausible mistake in the code:
putting it in place of the definition it names makes one property fail, which
shows that the property says something about that code.

Granularity. What a thread does while it holds a mutex is one step, except where
something it reads is also changed without the mutex. That is the case of the
logger's `stop_flag_`: the instant between the evaluation of `cv_.wait`'s
predicate and the going to sleep is the state `"deciding"`. It is not the case
of the thread pool, whose flag is set under the mutex. A notification made after
the unlock is a step of its own, and so is a check made before the lock.

Data. A request is two tokens, enough for halves and for several at once
(`EpollServer`, `Sockets`); in `Sockets` the first token of a long request fills
the 2047 bytes of a `recv`, whatever follows it. A response is a few units, enough for
a send that takes some of them (`HttpHandler`); the servers know of a socket only
whether it is full, and of a response how it may end: a page waits for room, JSON is
given up, a file loses blocks of its body or, before them, makes way for a page; a password stands for the hash made from it
(`User`). Where the text itself matters (`HttpText`, `HttpParser`) a token stands
for a character or for a run of characters the code treats alike; CR and LF are
tokens of their own, and a stream may be cut between any two. In `Wrk` an answer
is one piece, of the three kinds its control can tell apart, because `HttpParser`
shows that a text that ends no response makes no callback wrk acts on.

`Wrk` treats a callback as a function from the state of the thread to the next,
so that a step of the loop, which calls one callback or two, which may reconnect,
is one action: no other thread touches that state.

## 2. The runs

Those that pass:

| run | bounds | shows |
|---|---|---|
| `utils` | pool: 2 workers, 2 enqueuing threads, 3 tasks; logger: 2 producers, 2 messages each; cache: 4 keys, 2 values, capacity 3, 4 nodes | pool: every accepted task runs (`AcceptedTasksRun`) and `stop` returns (`StopReturns`); no wakeup is lost (`NoLostWakeup`); it implements `TaskPool`: tasks run once, in order, and `stop` drains. Logger: order and no duplicate (`LogInOrder`), one writer, what was queued when `stop` returned is written, every message is written. Cache: after any sequence of calls the structure is sound (`CacheSound`: pointers, hash table and size), and it implements `LRU` |
| `epoll_server` | 2 connections, 2 descriptors, 2 requests (a page, JSON) and 1 (a file), 1 worker, batches of up to 3 events | a connection's buffer is exactly what was received and not handed over, also after reuse of its descriptor, and tasks are whole requests (`FramingExact`); `connections_`, `client_buffers_`, ready list, batch and file table agree (`TablesAgree`); no edge is lost; closes have a reason |
| `epoll_answers` | 2 workers, 1 descriptor; 3 requests of one connection (a page, JSON, a file), or one each of 2 connections | every request is answered, a page in full, although full sockets hold workers up, unless its client leaves, is closed or the server ends (`RequestsAnswered`); when a response ends, fewer earlier requests of the connection still wait for theirs than there are workers, although a worker waits for room and the other goes on (`AnswersNearlyInOrder`); accepting fails over and over for want of a descriptor, and the events beside it are not lost (`EdgeNotLost`) |
| `server_modes` | 2 connections, 2 descriptors, 1 worker; one client sends a request too long for one `recv`, perhaps in halves; one sends two whole ones, the first for a file, the second to be the last; sockets fill up; either mode | `client_fds` is the file table until a worker closes a connection, and never misses one; a connection is open in its child and its parent only (`ModesSound`); every child that ends is waited for; a client that sends one whole request at a time, short enough for one `recv`, is answered, but for the states `SelectExcused` and `ForkExcused` name |
| `mysql_pool` | 3 threads, 2 connections, 4 handles; `init` may open a closed pool again | a connection has one user; no freed handle is reachable; no wakeup is lost to a thread that times out; connections are accounted for (`CapacityKept`); a closed pool lends nothing and frees the threads that wait |
| `user` | 3 workers, 2 connections, 2 names, 2 passwords, cache of 1, 3 calls, any table | connections come back on every path; cache and table agree; logins are honest; every call is answered |
| `http_handler` | 2 workers, 2 clients (1 may leave), room 1, length 2, 2 requests; the texts below | a stream is split into the requests that were sent, however it is cut, and nothing of any stream is lost (`StreamSplit`); requests and paths mean what their client meant (`RequestUnderstood`); the counter never undercounts; where the connection stays open, a page, a 404 or a 403's second response was sent whole, and a file's header, which its body follows (`ResponsesWhole`; JSON responses and the blocks of a file may be cut, see `http_cut`); no response holds a worker for ever |
| `wrk` | 2 connections, 2 descriptors, pipelines of 2, writes of 2 units, 1 failure nobody announced; the texts below | responses, requests and URLs are understood (`ResponsesUnderstood`, `CommandUnderstood`); a connection is registered, awaits exactly the answers owed and writes again only when none is (`ConnectionsKept`); a thread that is asked to stop does (`RunEnds`) |

`utils` is one run for three parts: they share no variable, and the only call from one
to another is that the pool logs when it has been made and when it has stopped. So
`MCUtils` lets one of them move and leaves open which.

Four properties, `StreamSplit`, `RequestUnderstood`, `ResponsesUnderstood` and
`CommandUnderstood`, join the steps to texts: `HttpHandler` extends `HttpText` and
`Wrk` extends `HttpParser`, and a kind of request that a worker is at work on, or
of answer that waits to be read, stands for every text of that kind.

* `StreamSplit`: every pair of eight requests (forms, bodies that look like
  headers or like the end of one), cut at every place; and every stream of up to
  five of the tokens that could be taken for an end of a header or a length, with
  lengths that are malformed, negative, or wrap (`Limit` is the least number that
  does not fit).
* `RequestUnderstood`: the same requests, with the route each is meant for, and
  every path of up to six tokens over `/`, `.`, `..` and a name, against a
  definition that matches names with the `..` that undo them instead of keeping a
  stack.
* `ResponsesUnderstood`: every pair of nine responses, among them those
  `build_http_response` makes, with lengths, chunks, trailers, empty and folded
  values, and `Connection` lists that almost say close or do, read one token at a
  time and cut in two at every place; a body that the end of the connection ends;
  and headers that exceed the limit.
* `CommandUnderstood`: pairs of requests and all their prefixes; and URLs of every
  combination of parts, with ports at the limit.

Why the bounds are enough. Two workers and two callers are the least at which
threads race for an item and at which `notify_one` can choose the wrong one; a
third task or thread makes a queue of which one element is neither first nor
last, and three callers on two connections make one of them wait. Two
connections on two descriptors let one batch close, accept and read, and a
descriptor that has been closed is reused as soon as a client connects. Two
requests make an order, two tokens a half. A cache of three has a head, a middle
and a tail; `user` starts from every table two names allow, so three calls
suffice to fill the cache, evict and look again. `Room` is less than `Length`, so
every response meets a full socket. In `server_modes` two descriptors suffice to
exhaust them, to reuse one, and for a file to take one a client had. In `wrk` a
pipeline of two makes an answer that is not the last, a write of two units one
that is cut off, and two descriptors for two connections make every reconnection
a reuse. One worker in `epoll_server` and `server_modes` leaves the races with the loop,
which these runs are about. In `epoll_answers` two workers race for the requests of
one connection, where three requests let one be overtaken by two others, and two
held up by full sockets hold up all the requests there are; with one descriptor the
second client meets the exhausted table. Its specification, `FewSpec`, asks of the
clients alone that only one of them connect if it is to send more than one request.

Bounds in the modules are `MaxReq`, `AgeCap` (`EpollServer`; ages saturate, which
only merges times later than the timeout), `MaxLogs`, `Handles` (every
replacement of a connection uses one up), `MaxCalls`, `Nodes`, in
`HttpHandler` `MaxReq` and `CountTo`, and in `Wrk` `MaxTrouble`, which counts the
connects that fail at once and the connections that drop unannounced; closes
that an answer announces are not bounded.

`CHECK_DEADLOCK FALSE` stands where the system may really stop: a server whose
loop has ended, a logger that has been stopped, a pool that has been closed, a
process that was killed, a run of wrk that is over, or a bounded number of calls
used up.

Those that fail. Each states what the repository says of itself, and TLC shows a
behaviour of the code that does otherwise:

| run | what happens |
|---|---|
| `epoll_fd_reuse` | the answer to a closed connection's request goes to the next connection on its descriptor |
| `logger_stop` | `stop` waits for ever for a worker that missed its notification |
| `user_taken` | a name that is taken is registered again with success: the rows counted are those of the description of a result, which has none, and the `INSERT` that fails is not looked at (with a unique key; without one there are two rows) |
| `http_cut` | a JSON response is given up at the first full socket, its connection left open with less than its `Content-Length` |

Other departures. The models take these as the code has them, each a step of an
action, and the properties above are stated so as to say what still holds:

| where | what the code does | in the model |
|---|---|---|
| `TcpServer.cpp:223` | idle connections are looked for only when `epoll_wait` times out, so one busy client keeps all of them open | `EpollTimeout`; `ClosesForAReason` says when a connection may be closed, not that it is |
| `TcpServer.cpp:278` | a request that arrives with the end of its connection is dropped | `HangUpEvent`, `FramingExact` |
| `TcpServer.cpp:172` | select and fork mode keep no buffer: halves of a request are never joined, and what follows a request in one read is taken for part of it; one read takes 2047 bytes, so that a longer request is handed over cut | `Chunk`, `Drop`, `ChildAnswer`; `polite` |
| `TcpServer.cpp:136`, `HttpHandler.cpp:262` | a worker closes a descriptor that stays in `client_fds`: from then on select fails with EBADF, or the number is another client's or a file's | `WorkerClose`, `SelectCall`; `workerClosed` |
| `TcpServer.cpp:151` | with no descriptor left, accepting fails and the clients that wait are passed over, for as long as a client waits to be accepted | `AcceptFails`, `SelectExcused` |
| `TcpServer.cpp:98` | a child forked while the logger's thread holds its mutex hangs on its first message | `Fork`, `"hung"` |
| `TcpServer.cpp:110` | a child's exit runs the destructor of a logger whose thread it does not have | `ChildExit`, `ChildStays` |
| `HttpHandler.cpp:426, 563` | header names are matched in one spelling and anywhere, also in the request line or the body | `shouldKeepAlive`, `ContentLength` |
| `HttpHandler.cpp:574` | a length that is malformed counts as 0, and one that is too large wraps | `Stoull`, `getFullRequestLength` |
| `wrk.c:260` | a connect that fails at once is never tried again | `connect_socket`, `lost` |
| `wrk.c:291` | a delay timer outlives a reconnection and registers a write for the new connection, or for one that took its number | `FireDelay`, `disturbed` |
| `wrk.c:343` | a response after the last one awaited wraps `pending` | `response_complete`, -1 |
| `wrk.c:437` | a body that the end of its connection ends makes wrk connect twice | `ReadEnd` |
| `TcpServer.cpp:237` | with no descriptor left the listening socket fires at once, again and again, so that `epoll_wait` does not time out and no idle connection is given up | `AcceptFails` |
| `TcpServer.cpp:313` | a connection without keep-alive is not closed after its response | `Finish` |
| `User.cpp:112` | a failing `SELECT` for the name is not looked at | `CheckName` |
| `HttpHandler.cpp:220` | a page waits for room as long as its client does not read, and its worker with it | `SendFull`, `SendDynamic`; the fairness of `Reads` |
| `HttpHandler.cpp:310, 321` | a file whose header meets a full socket is followed by a page, and blocks of a body for which there is no room are left out | `SendFull`, `SendHead`, `SendBlock` |
| `MySQLPool.cpp:25` | a closed pool can be opened again, and connections of before come back to it | `InitPool`, `Release` |
| `Logger.cpp:109` | a message that passed the flag check may be pushed after the drain and stay unwritten | `PushLog`; `StopFlushes` counts what was queued when `stop` returned |
| `MySQLPool.cpp:85` | a connection given back to a closed pool is neither kept nor closed | `ReleaseToClosed`, `forgotten` |
| `DB.cpp:54` | a failing statement keeps its connection | `QueryFails`, `forgotten` |
| `HttpHandler.cpp:137, 152, 173` | `active_connections` is counted up and not down | `Incomplete`, `Send403`, `SendHead`; `NeverUndercounts` is one-sided |
| `HttpHandler.cpp:149` | a 403 already sent counts as failure, and a 404 follows | `Send403`, then `SendDynamic` |
| `HttpHandler.cpp:211` | a send to a client that is gone raises SIGPIPE, which ends the process, or in fork mode the child | `Killed` of three modules, `ChildKilled`; `HandlersEnd`, `RequestsAnswered`, `PoliteClientsAnswered` and `ClosesForAReason` except it, if some client has gone |

`CapacityKept` therefore says that every handle allocated is idle, lent or
forgotten, the last neither of the others, and that there are as many as the calls
of `init` made, less those that `closePool` closed (`opened`): a forgotten handle is
the only way for capacity to be lost.

## 3. Fairness

Weak fairness of a thread's next step says that the scheduler runs every thread
that can run. Nobody is obliged to start anything: not a client to send, a
producer to log or anyone to call `stop`. No liveness property counts on a
spurious wakeup, a timeout or the clock, so a wakeup lost is a wakeup lost. Some
assumptions go further. In `User` a call is not ended by failure only, and
workers get connections (bounded `MaxCalls` keeps them from starving each
other). In `EpollServer`, `HttpHandler` and the two servers of `TcpServer` a client that
stays goes on reading; without it the `EAGAIN` loop of a page, or a send that
blocks, keeps a worker for ever, as in the code, and with sixteen such clients
the server answers nobody.

In `TcpServer` the threads of the select server run, and so do the parent, each
child, the signal handler and the logger's release of its mutex; forks may fail
whenever they like. In `Wrk` the loop goes on (a condition on `loop` and `fired`
only, so it says nothing of what callbacks do), and the timer of `record_rate`,
which its return value sets again every 100 ms, is due in some of the turns that
reach the timers: strong fairness, because the turns in between are those it is
not due in. That the timers are reached at all is not assumed.

## 4. What is proved

Every safety property of the runs that pass is proved for every instance, but for
three about what a text means. Some theorems are
stronger than what the runs check by name: `RunsOnce` and `StopDrains` are parts of
what `ImplementsTaskPool` says, `NothingLost` is part of `StreamSplit`, and the
type invariants of the logger, the MySQL pool and the event loop are premises of
the rest. The assumptions on the constants are all that is assumed: finite sets
of threads, at least one worker, a pool size of at least one, descriptors that are
numbers, counts of calls, answers, connections and pipelined requests that are
numbers, more list nodes than the cache holds, and "nothing" (`NoTask`, `NoMsg`,
`NoHandle`, `Missing`, `None`) distinct from everything; a request is answered with JSON, a
file or a page (`Json`, `Static`), and any set of them may be too long for one `recv` (`Long`).
`TextAssumption` adds, of the tokens of a text, what TLC takes for granted and the
provers do not: that they are strings. A type invariant is a premise of all the
rest; but for the select and fork servers and wrk, whose types are a part of one
larger invariant, it is inductive by itself. `SharedProofs` and `MCUtils`
extend three modules each, which is why `AsyncLogger` and `LRUCache` say `LoggerInit`
and `CacheInit`, `LoggerTypeOK` and `CacheTypeOK`, `PushLog` and `TakeLog` where
other modules say `Init`, `TypeOK`, `Push` and `Take`.

**Thread pool** (`ThreadPoolProofs`, from `PoolAssumption`)

* `PoolRunsOnce`: inductive with `TypeOK`. A pushed task is in no place yet, and
  `Take` and `Finish` move one from place to place.
* `PoolStopDrains`: the property speaks only of the end, so `DrainInv` says where
  an accepted task is at every moment (queued, held or executed), that a worker
  exits only with the flag set and nothing accepted in the queue, and that the
  stopper is done only when all have exited. `DrainInvSuffices` concludes.
* `PoolNoLostWakeup`: the property counts, and each step moves at most one unit
  from one count to another (`CountMoves`); cardinalities need finiteness
  (`WakersFinite`).
* `PoolImplementsTaskPool`: the refinement. The queue is `pending`, what the workers
  hold is `running`, the flag and the exits make the `phase`. `Push`, `Take` and
  `Finish` are `Submit`, `Start` and `Finish`; the first `SetStop` is `Close`; the
  last `Exit` is `Closed`, whose guard follows from `DrainInv`; everything else is
  a stutter. That a task starts only below `Width` is a count of the workers that
  hold something (`RunningBelowWidth`).

**Asynchronous logger** (`SharedProofs`, from `LoggerAssumption`)

* `LoggerOneWriter`: `stop` writes only after the join, so the strengthening
  `HandedOver` says that from then on the worker has left its loop and that
  nothing wakes it.
* `LoggerKeepsOrder`: `pushed` is what is written, then what the worker holds, then
  what `stop` holds, then the queue. Each step moves one message across one of
  these joints; the proof is the algebra of concatenation, and `HandedOver` is
  what keeps worker and `stop` from holding a message at once.
* `LoggerStopFlushes`: `due` is the length of `pushed` at the moment `stop` found the
  queue empty, and by the above all of it is written.

**MySQL pool and DB facade** (`SharedProofs`, about `MySQLPool`, from
`MySQLPoolAssumption`). The actions of `getConnection` overlap, so `StepCases` and
`AnswerCases` first reduce every step to: a handle is lent (perhaps to replace a
broken one), a thread goes without, a handle is released or forgotten, MySQL
drops one, `init`, `closePool`. `QuietBeforeInit` says that nothing exists before `init`.

* `ConnectionsLentOnce`, `ConnectionsNotFreed`: one invariant, `Sharing`. The two
  depend on each other: a replacement frees a handle, which is harmless only
  because no one else has it.
* `ConnectionsNotLentAfterClose`: an action property, from the types alone; it holds
  until `init` opens the pool again.
* `ConnectionsNotIdleWhileWaiting`: a count, as in the thread pool, of idle
  connections against threads on their way to them; it needs
  `NobodyWaitsOnClosed`.
* `ConnectionsAccountedFor`: `CapacityKept` is about three sets; `Accounted` says it
  handle by handle, that a handle is allocated exactly if it is in one of three
  places, and counts them; `init` adds as many as it made, also to what late releases
  have left in the queue of a closed pool (`JoinDistinct`).

**Event loop** (`EpollServerProofs`, from `EpollAssumption`). A step of the loop
handles one event of a batch, and an earlier one of the batch may have closed the
descriptor this one is about.

* `EpollTypeCorrect`, on which all the others rest.
* `EpollTablesAgree`: the property compares tables; `Tracked` adds to it what makes it
  hold from one event to the next: a batch has one event to a descriptor, so that
  when an event closes one and an accept gives the number out again, nothing left
  in the batch is about the old one.
* `EpollFramingExact`: `Framed` says that the buffer of a connection is its stream from
  the first token not handed over to the last one received, and that one not
  accepted yet has given nothing. `SplitExact` is what the split does with such a
  buffer and `ReadFrames` what a read adds to it. Tasks keep the connection they
  were made for, whoever has its number now.
* `EpollEdgeNotLost`: inductive together with `Tracked`. A read that empties the socket
  may forget the edge; only data that comes later makes a new one.
* `EpollClosesForAReason`: an action property. The idle check reads the age of an entry
  of `connections_`, and `AgesAgree` says that this is the silence of the connection
  that has the number now.
* `EpollAnswersNearlyInOrder`: `InOrder` says that a connection's requests are in order in
  the queue, that they are later than those workers hold, and that one handed over
  has come to an end, answered or given up, or is in the queue or held by a worker,
  while its connection is open. The requests a response overtakes are then
  held by workers, each by another one (`LateAreHeld`), and not by the one that
  ends; a worker that waits for room holds its request all the while. The theorem
  is about which requests are behind, not about what their clients got: JSON given up at
  a full socket counts as ended, and so does a response to a client that has gone.
  SIGPIPE (`Killed`) empties the queue and the workers, and nothing ends after it.

**Select and fork servers** (`TcpServerProofs`, from `SocketsAssumption`,
`SelectAssumption`, `ForkAssumption`). `ModesAreSound` has one invariant for each
mode.

* Select: `Tables` says that a descriptor the server serves is of a connection that
  is open, that a connection has one of them, and that each is in `client_fds`; and,
  until a worker closes a descriptor, that `client_fds` has nothing else and nothing
  twice, and `Round`: what select found readable stays readable until the loop has come
  to it, which is why no `recv` waits, though it may take a part only of what is there. `ErasedElements` is what the erasing of the entry
  the scan is at does to what it has yet to look at. That no worker has closed a
  descriptor is the property's own condition: the code goes wrong once one does
  (section 2), and of `Tables` the first three clauses still hold then.
* Fork: `ForkHolders` becomes inductive with `ForkInv`: the parent has the connection
  it is at, and no other.

**LRU cache** (`SharedProofs`, from `LRUAssumption`)

* `LRUCacheSound`: `CacheSound` says that each pointer has its counterpart, which a
  list with a ring beside it would satisfy too. `Chained` says that there is an
  order of exactly the allocated nodes that the pointers follow from head to tail,
  and that the table points to the node of each key. `Hit` and `Update` move a node
  to the front of that order, `Insert` adds one there and drops the last.
* `LRUCacheImplementsLRU`: read along the same order, the nodes are the entries of
  `LRU`; `HitStep`, `UpdateStep` and `InsertStep` show that each operation on pointers is
  the operation on that sequence.

**User service** (`UserProofs`, about `USpec`, from `UserAssumption`)

* `UserConnectionsReturned`, for every path through the two calls.
* `UserCacheMatchesTable`: an entry is made after the connection went back, so the
  invariant carries what a worker has fetched until it is entered; rows are only
  ever added, which is why a fetched row stays true.
* `UserLoginsHonest`: what was entered with a name accepted is in the table, and what
  was refused differs from a row (`RefusedForAReason`). One row to a name follows
  from `UniqueKey`; without it two rows of one name make a password both right and
  wrong, and only the first half is claimed.

**HTTP handler** (`HttpHandlerProofs`, from `HttpAssumption` and `TextAssumption`)

* `HttpNeverUndercounts`: `Counted`. Every request counts up before its handler sends
  anything, and only the end of a handler counts down, not on every path and never
  twice.
* `HttpResponsesWhole`: of handlers that leave the connection open, for another answer than
  JSON: the client has the dynamic response (a page, a 404, or what follows a 403)
  whole, or of a file the whole header; and no block of a file without its header.
  Nothing is claimed of JSON responses and of the blocks of a file, which the code
  cuts (`http_cut`). What a client has received may come from several workers:
  `Working` says of a worker which response it is at and how much of it the client
  has; `Single` that a response is worked on by one worker; `Unsent` that what has not
  begun has sent nothing.
* `HttpNothingLost`: of every stream of tokens, of every length, whatever its pieces:
  the split loop gives out the stream again, cut into requests and a rest.
  `SplitEquation` is the recursion of the loop, `LoopEnds` that it ends because its
  buffer shrinks, and `ArriveTwice` that two pieces do what one does; since it holds
  for any connection, any number of pieces do. It rests on `FirstAsBefore`: a request
  found at the front of a buffer is the one found when more has come, header,
  length and all.
* `HttpStreamSplit`: any two of the samples, one behind the other, are handed over as
  those two, wherever the stream is cut, and a worker never works on a torn one. Its
  hypothesis is that each sample is one request when it comes alone (`Whole`), a
  fact about the texts that an instance names; the run `http_handler`, in which the second request of a pair is split off
  a buffer that is exactly its text, shows it for its eight.

**wrk: connections and event loop** (`WrkProofs`, from `WrkAssumption`).
`WrkKeepsConnections`: a callback is a function of the thread, so the invariant is a
predicate of one, `Sound`, with lemmas about each step a callback is made of.

* `Registered` and `Held` are about descriptors: events are registered only for one that
  is open, by the connection that has it, or else both that one and the one that
  registered are `disturbed`. They are what makes reuse harmless: `Forget` empties the
  table before the number is closed, so what gets it finds no event on it
  (`DisconnectSound`, `OpenedSound`).
* `Served` is about a connection: it is at one of four things, `Connecting`, `Writing`,
  `Delaying` (with one timer, its own), `Awaiting`, each with what it has registered and
  what the server owes it. `ConnectionsKept` speaks of the two registrations and the
  counts only; that a write never begins while an answer is due needs the phase.
* A read takes answers off the socket and gives them to the parser one by one, and a
  callback in the middle may reconnect. `Reading` is the invariant between two of them:
  `Served` with the answers read and not parsed counted among those still to come, or
  else the old connection is gone and the parser dead.
* `Sound(w, D)` leaves out the connections not in `D`, so that it holds inside a callback,
  while the connection at hand is between two phases, and at the start, when only some
  have been connected.

Induction. The provers cannot instantiate the library's induction and recursion
theorems. Where these proofs need one, it is made from sets: a least number that
would violate the claim (`Least`), and a function on the numbers given by a first
value and a function for the step (`Recursion`), in `QueueLemmas`. That serves the
split loop, whose induction is on the length of a buffer, the parser's run over what
a read has brought (`ExecutedReading`), and the connecting of all connections at the
start (`StartedSound`).

Only model-checked:

* liveness, and everything that needs fairness: beyond the prover;
* `RequestUnderstood`, `ResponsesUnderstood` and `CommandUnderstood`: what the functions
  of `HttpText` (paths) and `HttpParser` compute for every text. They are folds over
  tokens, and a proof would need an induction for each state of the parser.

## 5. Plan

Done: all of the above. What would come next:

1. Facts about the parser that need no induction: what one token does to `nread`,
   and that a body of given length takes exactly that length.
2. The file table that the threads of wrk share: a failed connect leaves a number
   in `c->fd` that another thread may get (`wrk.c:260-269`).
3. What the children of the fork server do to the MySQL connections they share.

## 6. What is not modelled

* Setting up the listening socket, and `BufferPool`: its buffers are scratch space
  within one event, and one thread uses them.
* Status JSON and its cache, MIME types, the text of bodies: data that no
  property here tells apart.
* `setLogFile`: called once, before anything is logged. Log formatting.
* The synchronous `Logger`: no macro refers to it.
* `main`, but for the choice of a mode: straight-line; that the server is destroyed
  before the pool, and the pool before the statics, is in `EpollFails` and in how
  `stop` is called.
* `MySQLPool::init` on a pool that is open: nothing in the repository calls it twice
  without `closePool` in between.
* A worker that waits for room on a blocking socket while another closes the number under it
  (select mode): its send is taken to fail then.
* Salting and hashing: passwords are compared for equality.
* A child's use of the MySQL connections it inherits: two processes on one
  connection of a protocol that is not in this repository.
* Of wrk: statistics (`stats.c`) and printing (`units.c`), the options of the command
  line, SSL (`ssl.c`), the Lua bindings of `script.c`, memory (`zmalloc.c`), the
  other back ends of the event loop, and the sharing of the file table among its
  threads. Of the parser: pausing, `HTTP_BOTH`, lenient headers, tunnels, and the
  callbacks wrk does not set.
* Tests, the experiments `LRU_test` and `mysql_test`, and the older copy of the
  server under `projects`.
