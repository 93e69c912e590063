---------------------------- MODULE EpollServer ----------------------------
(***************************************************************************)
(* TcpServer in epoll mode (src/net/TcpServer.cpp): the event loop, which  *)
(* alone accepts, reads, splits and closes; the thread pool's workers,     *)
(* which write to a file descriptor they were given by number; and, around *)
(* them, the parts of the kernel and of the clients they meet.             *)
(*                                                                         *)
(* Data.  A request is two tokens, so that it can arrive in halves and     *)
(* several can arrive together: client c sends <<c, 1>>, <<c, 2>>, ... and *)
(* its k-th request is tokens 2k-1 and 2k.  A request, and the response to *)
(* it, goes by its first token.  Of a socket's send buffer the model has   *)
(* whether it is full; HttpHandler has the sends one by one.               *)
(*                                                                         *)
(* Bounds.  MaxReq caps what a client sends; ages saturate at AgeCap.      *)
(***************************************************************************)
EXTENDS Naturals, Sequences, FiniteSets

CONSTANTS
    Conns,       \* one identity per TCP connection ever made
    Nobody,
    Fds,         \* the descriptor numbers the process may have open
    Listener,    \* server_fd
    Workers,
    NoTask,
    MaxReq,      \* connection -> requests its client may send
    MaxIdle,     \* MAX_IDLE_TIME in clock ticks
    Interval,    \* EPOLL_CHECK_INTERVAL in clock ticks
    AgeCap,      \* where the idle times of the model saturate
    MaxEvents,   \* the most events one epoll_wait returns
    MayFail,     \* whether epoll_wait may fail for good
    Json,        \* the requests, by first token, that sendJsonResponse answers,
    Static       \* and those for a file; a page answers the others

\* What the pool is given, and what epoll reports.
Tasks == [fd : Fds, of : Conns, req : [1 .. 2 -> Conns \X Nat]]
Events == [fd : Fds \cup {Listener}, of : Conns \cup {Nobody}]

\* What a client was sent for a request, and how far a worker is with its response: a
\* part of it has gone; a page is sent because the file's header could not be, of
\* which a part may have gone as well.
Responses == [req : Conns \X Nat, whole : BOOLEAN]
Stages == [begun : BOOLEAN, page : BOOLEAN, torn : BOOLEAN]

ASSUME EpollAssumption ==
    /\ Nobody \notin Conns
    /\ IsFiniteSet(Workers) /\ NoTask \notin Tasks
    /\ Fds \subseteq Nat /\ Listener \notin Fds
    /\ MaxReq \in [Conns -> Nat]
    /\ {MaxIdle, Interval, MaxEvents} \subseteq Nat \ {0}
    /\ AgeCap \in Nat /\ AgeCap > MaxIdle
    /\ MayFail \in BOOLEAN
    /\ Json \subseteq Conns \X Nat /\ Static \subseteq Conns \X Nat /\ Json \cap Static = {}

VARIABLES
    peer,        \* connection -> "new", "backlog", "open", "closed"
    sent,        \* connection -> tokens the client has put on the wire
    rcvd,        \* connection -> tokens the server has taken off it
    fin,         \* connection -> the client has hung up
    owner,       \* the process's file table: descriptor -> connection or Nobody
    ready,       \* epoll's ready list (edge-triggered descriptors only)
    loop,        \* event loop: "wait", "batch", "idle", "stopped"; or "killed"
    batch,       \* events of ready_events not yet handled
    waited,      \* ticks spent in the present epoll_wait
    connections, \* connections_: descriptor -> ticks since last_active
    buffers,     \* client_buffers_: descriptor -> unparsed tokens
    queue,       \* the pool's queue of [fd, of, req]; "of" is history
    job,         \* worker -> the task it runs
    stage,       \* worker -> how far it is with the response
    full,        \* connection -> its send buffer has no room
    taken,       \* history: connection -> requests handed to the pool
    quiet,       \* history: connection -> ticks since the server heard from it
    inbox        \* history: connection -> the responses to its client, as they ended

client == <<sent, fin>>
tables == <<connections, buffers, owner>>
pool == <<queue, job, stage, full, inbox>>
vars == <<peer, sent, rcvd, fin, owner, ready, loop, batch, waited,
          connections, buffers, queue, job, stage, full, taken, quiet, inbox>>

Token(c, i) == <<c, i>>
Stream(c, i, j) == [n \in 1 .. (j + 1 - i) |-> Token(c, i + n - 1)]
Open == {f \in Fds : owner[f] # Nobody}
NotBegun == [begun |-> FALSE, page |-> FALSE, torn |-> FALSE]
Older(n) == IF n < AgeCap THEN n + 1 ELSE AgeCap
Without(f, S) == [x \in DOMAIN f \ S |-> f[x]]
Put(f, x, v) == [y \in DOMAIN f \cup {x} |-> IF y = x THEN v ELSE f[y]]

\* What recv would find: bytes, or end of file, or an error.
Readable(c) == sent[c] > rcvd[c] \/ fin[c]
Backlog == {c \in Conns : peer[c] = "backlog"}

-----------------------------------------------------------------------------

Init ==
    /\ peer = [c \in Conns |-> "new"]
    /\ sent = [c \in Conns |-> 0]
    /\ rcvd = [c \in Conns |-> 0]
    /\ fin = [c \in Conns |-> FALSE]
    /\ owner = [f \in Fds |-> Nobody]
    /\ ready = {}
    /\ loop = "wait"
    /\ batch = {}
    /\ waited = 0
    /\ connections = [f \in {} |-> 0]
    /\ buffers = [f \in {} |-> <<>>]
    /\ queue = <<>>
    /\ job = [w \in Workers |-> NoTask]
    /\ stage = [w \in Workers |-> NotBegun]
    /\ full = [c \in Conns |-> FALSE]
    /\ taken = [c \in Conns |-> 0]
    /\ quiet = [c \in Conns |-> 0]
    /\ inbox = [c \in Conns |-> <<>>]

-----------------------------------------------------------------------------
(* Clients, and what the kernel makes of what they do.                     *)

Edge(c) == ready' = ready \cup {f \in Fds : owner[f] = c}

Connect(c) ==
    /\ peer[c] = "new"
    /\ peer' = [peer EXCEPT ![c] = "backlog"]
    /\ UNCHANGED <<client, rcvd, tables, ready, loop, batch, waited, pool, taken, quiet>>

Send(c) ==
    /\ peer[c] \in {"backlog", "open"}
    /\ ~fin[c]
    /\ sent[c] < 2 * MaxReq[c]
    /\ sent' = [sent EXCEPT ![c] = @ + 1]
    /\ Edge(c)
    /\ UNCHANGED <<peer, fin, rcvd, tables, loop, batch, waited, pool, taken, quiet>>

\* An orderly close (end of file after the data) or a reset (the data is lost).
HangUp(c) ==
    /\ peer[c] \in {"backlog", "open"}
    /\ ~fin[c]
    /\ fin' = [fin EXCEPT ![c] = TRUE]
    /\ \E n \in {sent[c], rcvd[c]} : sent' = [sent EXCEPT ![c] = n]
    /\ Edge(c)
    /\ UNCHANGED <<peer, rcvd, tables, loop, batch, waited, pool, taken, quiet>>

\* The client takes what it was sent, and there is room again.
Reads(c) ==
    /\ full[c]
    /\ ~fin[c]
    /\ full' = [full EXCEPT ![c] = FALSE]
    /\ UNCHANGED <<peer, client, rcvd, tables, ready, loop, batch, waited,
                   queue, job, stage, taken, quiet, inbox>>

Tick ==
    /\ loop \notin {"stopped", "killed"}
    /\ waited' = IF loop = "wait" /\ waited < Interval THEN waited + 1 ELSE waited
    /\ connections' = [f \in DOMAIN connections |-> Older(connections[f])]
    /\ quiet' = [c \in Conns |-> IF peer[c] = "open" THEN Older(quiet[c]) ELSE quiet[c]]
    /\ UNCHANGED <<peer, client, rcvd, owner, buffers, ready, loop, batch, pool, taken>>

-----------------------------------------------------------------------------
(* The event loop.                                                         *)

\* The events epoll_wait has to report: a descriptor on the ready list that is
\* still readable, and, level-triggered, the listening socket.
Hits ==
    {[fd |-> f, of |-> owner[f]] : f \in {g \in ready : Readable(owner[g])}}
        \cup (IF Backlog # {} THEN {[fd |-> Listener, of |-> Nobody]} ELSE {})

EpollWait ==
    /\ loop = "wait"
    /\ Hits # {}
    /\ \E B \in SUBSET Hits :
          /\ Cardinality(B) = IF Cardinality(Hits) < MaxEvents
                              THEN Cardinality(Hits) ELSE MaxEvents
          /\ batch' = B
          /\ ready' = {h.fd : h \in Hits \ B} \ {Listener}
    /\ loop' = "batch"
    /\ UNCHANGED <<peer, client, rcvd, tables, waited, pool, taken, quiet>>

\* The batch loop goes on to the next event, or back to epoll_wait.
EventDone(e) ==
    /\ batch' = batch \ {e}
    /\ loop' = IF batch = {e} THEN "wait" ELSE "batch"
    /\ waited' = 0

\* The kernel gives an accepted connection the lowest free descriptor.
LowestFree == CHOOSE f \in Fds \ Open : \A g \in Fds \ Open : f <= g

\* Mutant of AcceptFails: break in place of continue.
AcceptBreaks(e) ==
    /\ loop = "batch" /\ e \in batch /\ e.fd = Listener
    /\ Fds \ Open = {}
    /\ batch' = {}
    /\ loop' = "wait"
    /\ waited' = 0
    /\ UNCHANGED <<peer, client, rcvd, tables, ready, pool, taken, quiet>>

\* No descriptor is left: on to the next event, and the listening socket fires again.
AcceptFails(e) ==
    /\ loop = "batch" /\ e \in batch /\ e.fd = Listener
    /\ Fds \ Open = {}
    /\ EventDone(e)
    /\ UNCHANGED <<peer, client, rcvd, tables, ready, pool, taken, quiet>>

Accept(e) ==
    /\ loop = "batch" /\ e \in batch /\ e.fd = Listener
    /\ Fds \ Open # {}
    /\ \E c \in Backlog :
          /\ peer' = [peer EXCEPT ![c] = "open"]
          /\ owner' = [owner EXCEPT ![LowestFree] = c]
          /\ ready' = IF Readable(c) THEN ready \cup {LowestFree} ELSE ready
          /\ quiet' = [quiet EXCEPT ![c] = 0]
    /\ connections' = Put(connections, LowestFree, 0)
    /\ EventDone(e)
    /\ UNCHANGED <<client, rcvd, buffers, pool, taken>>

\* Mutant of CloseAll: client_buffers_ keeps its entry.
CloseAllKeepingBuffers(F) ==
    /\ connections' = Without(connections, F)
    /\ buffers' = buffers
    /\ owner' = [f \in Fds |-> IF f \in F THEN Nobody ELSE owner[f]]
    /\ peer' = [c \in Conns |-> IF \E f \in F : owner[f] = c THEN "closed" ELSE peer[c]]
    /\ ready' = ready \ F

\* closeConnection on each descriptor of F, all of them in connections_.
CloseAll(F) ==
    /\ connections' = Without(connections, F)
    /\ buffers' = Without(buffers, F)
    /\ owner' = [f \in Fds |-> IF f \in F THEN Nobody ELSE owner[f]]
    /\ peer' = [c \in Conns |-> IF \E f \in F : owner[f] = c THEN "closed" ELSE peer[c]]
    /\ ready' = ready \ F

\* Mutant of Drained: one recv per event.
OneRecv(c) == IF rcvd[c] < sent[c] THEN rcvd[c] + 1 ELSE rcvd[c]

\* The recv loop runs until there is nothing left to read.
Drained(c) == sent[c]

Buffered(f) == IF f \in DOMAIN buffers THEN buffers[f] ELSE <<>>

\* The split loop takes every complete request off the front of the buffer.
Complete(data) == Len(data) \div 2

Rest(data) == SubSeq(data, 2 * Complete(data) + 1, Len(data))

\* Mutant of Refreshed: last_active is set at accept only.
NotRefreshed(f) == connections

Refreshed(f) ==
    IF f \in DOMAIN connections THEN [connections EXCEPT ![f] = 0] ELSE connections

Requests(f, data) ==
    [k \in 1 .. Complete(data) |->
        [fd |-> f, of |-> owner[f], req |-> SubSeq(data, 2 * k - 1, 2 * k)]]

\* Data, and then EAGAIN: refresh, append, split, enqueue.
ReadEvent(e) ==
    /\ loop = "batch" /\ e \in batch /\ e.fd \in Open
    /\ ~fin[owner[e.fd]]
    /\ LET f == e.fd
           c == owner[f]
           data == Buffered(f) \o Stream(c, rcvd[c] + 1, Drained(c))
       IN  /\ rcvd' = [rcvd EXCEPT ![c] = Drained(c)]
           /\ queue' = queue \o Requests(f, data)
           /\ taken' = [taken EXCEPT ![c] = @ + Complete(data)]
           /\ buffers' = Put(buffers, f, Rest(data))
           /\ connections' = Refreshed(f)
           /\ quiet' = [quiet EXCEPT ![c] = 0]
    /\ EventDone(e)
    /\ UNCHANGED <<peer, client, owner, ready, job, stage, full, inbox>>

\* recv ends with 0 or an error (a descriptor closed meanwhile included): what
\* it read before that is not looked at.
HangUpEvent(e) ==
    /\ loop = "batch" /\ e \in batch /\ e.fd \in Fds
    /\ e.fd \in Open => fin[owner[e.fd]]
    /\ rcvd' = [c \in Conns |-> IF owner[e.fd] = c THEN sent[c] ELSE rcvd[c]]
    /\ CloseAll({e.fd} \cap DOMAIN connections)
    /\ EventDone(e)
    /\ UNCHANGED <<client, pool, taken, quiet>>

\* epoll_wait returns 0 after Interval without an event ...
EpollTimeout ==
    /\ loop = "wait"
    /\ Hits = {}
    /\ waited = Interval
    /\ loop' = "idle"
    /\ UNCHANGED <<peer, client, rcvd, tables, ready, batch, waited, pool, taken, quiet>>

\* ... and only then are idle connections looked for.
CheckIdleConnections ==
    /\ loop = "idle"
    /\ CloseAll({f \in DOMAIN connections : connections[f] > MaxIdle})
    /\ loop' = "wait"
    /\ waited' = 0
    /\ UNCHANGED <<client, rcvd, batch, pool, taken, quiet>>

\* epoll_wait fails: the loop ends, and main destroys the server (which closes
\* every connection left) before the pool.
EpollFails ==
    /\ MayFail
    /\ loop = "wait"
    /\ CloseAll(DOMAIN connections)
    /\ loop' = "stopped"
    /\ UNCHANGED <<client, rcvd, batch, waited, pool, taken, quiet>>

-----------------------------------------------------------------------------
(* The workers.                                                            *)

\* Mutant of StartTask: the newest task is taken.
StartNewest(w) ==
    /\ job[w] = NoTask
    /\ queue # <<>>
    /\ job' = [job EXCEPT ![w] = queue[Len(queue)]]
    /\ queue' = SubSeq(queue, 1, Len(queue) - 1)
    /\ UNCHANGED <<peer, client, rcvd, tables, ready, loop, batch, waited, stage, full, taken, quiet, inbox>>

StartTask(w) ==
    /\ job[w] = NoTask
    /\ queue # <<>>
    /\ job' = [job EXCEPT ![w] = Head(queue)]
    /\ queue' = Tail(queue)
    /\ UNCHANGED <<peer, client, rcvd, tables, ready, loop, batch, waited, stage, full, taken, quiet, inbox>>

\* handleRequest sends on the number it was given: to whoever owns it by now.
Sending(w, c) == job[w] # NoTask /\ owner[job[w].fd] = c /\ ~fin[c]

\* The handling ends, with all of the response sent or not, and the closure with it:
\* its call of closeConnection for a request that asked for that is commented out.
Finish(w, whole) ==
    /\ inbox' = [c \in Conns |-> IF owner[job[w].fd] = c
                                 THEN Append(inbox[c], [req |-> job[w].req[1], whole |-> whole])
                                 ELSE inbox[c]]
    /\ job' = [job EXCEPT ![w] = NoTask]
    /\ stage' = [stage EXCEPT ![w] = NotBegun]

AsFile(w) == job[w].req[1] \in Static /\ ~stage[w].page

\* Mutant of SendSome: the commented-out closeConnection(fd) is called.
SendAndClose(w) ==
    /\ \E c \in Conns : Sending(w, c) /\ ~full[c]
    /\ Finish(w, TRUE)
    /\ CloseAll({job[w].fd} \cap DOMAIN connections)
    /\ UNCHANGED <<client, rcvd, loop, batch, waited, queue, full, taken, quiet>>

\* There is room: for all that is left; or for a part, and the next send finds none.
\* What a file's body has no room for is left out, unnoticed.
SendSome(w) ==
    /\ \E c \in Conns, now \in BOOLEAN :
          /\ Sending(w, c) /\ ~full[c]
          /\ full' = [full EXCEPT ![c] = now]
          /\ \/ Finish(w, ~stage[w].torn)
             \/ now /\ AsFile(w) /\ Finish(w, FALSE)
             \/ /\ now /\ ~stage[w].begun
                /\ stage' = [stage EXCEPT ![w].begun = TRUE]
                /\ UNCHANGED <<job, inbox>>
    /\ UNCHANGED <<peer, client, rcvd, tables, ready, loop, batch, waited, queue, taken, quiet>>

\* Mutant of SendFull: a page, too, is given up.
GiveUp(w) ==
    /\ \E c \in Conns : Sending(w, c) /\ full[c]
    /\ Finish(w, FALSE)
    /\ UNCHANGED <<peer, client, rcvd, tables, ready, loop, batch, waited, queue, full, taken, quiet>>

\* There is none (EAGAIN).  A page waits for room, and the worker with it; JSON is
\* given up; after a file's header a page is sent, and a file's body is left out.
SendFull(w) ==
    /\ \E c \in Conns : Sending(w, c) /\ full[c]
    /\ \/ job[w].req[1] \in Json /\ Finish(w, FALSE)
       \/ AsFile(w) /\ stage[w].begun /\ Finish(w, FALSE)
       \/ /\ AsFile(w)
          /\ stage' = [stage EXCEPT ![w] = [begun |-> FALSE, page |-> TRUE, torn |-> stage[w].begun]]
          /\ UNCHANGED <<job, inbox>>
    /\ UNCHANGED <<peer, client, rcvd, tables, ready, loop, batch, waited, queue, full, taken, quiet>>

\* The number is closed (EBADF), or its client has gone: sends fail, or go to nobody.
SendGone(w) ==
    /\ job[w] # NoTask
    /\ ~ \E c \in Conns : Sending(w, c)
    /\ Finish(w, FALSE)
    /\ UNCHANGED <<peer, client, rcvd, tables, ready, loop, batch, waited, queue, full, taken, quiet>>

\* Or a send to a client that has gone raises SIGPIPE, which ends the process; the
\* kernel closes what it had open.
Killed(w) ==
    /\ job[w] # NoTask
    /\ \E c \in Conns : owner[job[w].fd] = c /\ fin[c]
    /\ CloseAll(Open)
    /\ loop' = "killed"
    /\ batch' = {}
    /\ queue' = <<>>
    /\ job' = [v \in Workers |-> NoTask]
    /\ stage' = [v \in Workers |-> NotBegun]
    /\ UNCHANGED <<client, rcvd, waited, full, taken, quiet, inbox>>

-----------------------------------------------------------------------------

EventStep(e) ==
    AcceptFails(e) \/ Accept(e) \/ ReadEvent(e) \/ HangUpEvent(e)

LoopStep ==
    \/ EpollWait
    \/ \E e \in batch : EventStep(e)
    \/ EpollTimeout
    \/ CheckIdleConnections

WorkerStep(w) == StartTask(w) \/ SendSome(w) \/ SendFull(w) \/ SendGone(w)

Next ==
    \/ \E c \in Conns : Connect(c) \/ Send(c) \/ HangUp(c) \/ Reads(c)
    \/ Tick
    \/ LoopStep
    \/ EpollFails
    \/ \E w \in Workers : WorkerStep(w) \/ Killed(w)

\* The event loop and the workers are threads that run whenever they can.  Clients
\* may stop sending at any point, and nothing depends on the clock advancing; but it
\* is assumed that a client that stays reads what it is sent, for one that does not
\* keeps a worker waiting for as long as it stays.
Fairness ==
    /\ WF_vars(LoopStep)
    /\ \A w \in Workers : WF_vars(WorkerStep(w))
    /\ \A c \in Conns : WF_vars(Reads(c))

Spec == Init /\ [][Next]_vars /\ Fairness

-----------------------------------------------------------------------------
(* Properties.                                                             *)

\* Every variable has its type.
TypeOK ==
    /\ peer \in [Conns -> {"new", "backlog", "open", "closed"}]
    /\ sent \in [Conns -> Nat] /\ \A c \in Conns : sent[c] <= 2 * MaxReq[c]
    /\ rcvd \in [Conns -> Nat] /\ \A c \in Conns : rcvd[c] <= sent[c]
    /\ fin \in [Conns -> BOOLEAN]
    /\ owner \in [Fds -> Conns \cup {Nobody}]
    /\ ready \subseteq Fds
    /\ loop \in {"wait", "batch", "idle", "stopped", "killed"}
    /\ batch \subseteq Events
    /\ waited \in 0 .. Interval
    /\ connections \in [DOMAIN connections -> 0 .. AgeCap] /\ DOMAIN connections \subseteq Fds
    /\ buffers \in [DOMAIN buffers -> Seq(Conns \X Nat)] /\ DOMAIN buffers \subseteq Fds
    /\ queue \in Seq(Tasks)
    /\ job \in [Workers -> Tasks \cup {NoTask}]
    /\ stage \in [Workers -> Stages]
    /\ full \in [Conns -> BOOLEAN]
    /\ taken \in [Conns -> Nat]
    /\ quiet \in [Conns -> 0 .. AgeCap]
    /\ inbox \in [Conns -> Seq(Responses)]

\* connections_, client_buffers_, epoll's list and the file table tell the same
\* story: no descriptor leaks, none is tracked twice, nothing is remembered of one
\* that was closed, and an event of the batch is about the connection that has the
\* descriptor now, although earlier events of the batch close and accept
\* (TcpServer.cpp:229-257, 355-371).
TablesAgree ==
    /\ DOMAIN connections = Open
    /\ DOMAIN buffers \subseteq Open
    /\ ready \subseteq Open
    /\ \A c \in Conns : peer[c] = "open" <=> Cardinality({f \in Fds : owner[f] = c}) = 1
    /\ \A c \in Conns : Cardinality({f \in Fds : owner[f] = c}) <= 1
    /\ \A e \in batch : e.fd # Listener => owner[e.fd] = e.of

\* The stream is split without loss, repetition or mixing (TcpServer.cpp:260-316):
\* what a connection's buffer holds is what it received after the requests already
\* handed over, also on a descriptor that served another connection before; every
\* task is one whole request of the connection it was read from; and a complete
\* request is left unhandled only if it came with the end of its connection
\* (278: is_conn_close skips the splitting).
FramingExact ==
    /\ TypeOK
    /\ \A f \in DOMAIN buffers \cap Open :
           buffers[f] = Stream(owner[f], 2 * taken[owner[f]] + 1, rcvd[owner[f]])
    /\ \A t \in {queue[n] : n \in DOMAIN queue} \cup ({job[w] : w \in Workers} \ {NoTask}) :
           \E k \in 1 .. taken[t.of] : t.req = Stream(t.of, 2 * k - 1, 2 * k)
    /\ \A c \in Conns : rcvd[c] >= 2 * taken[c] + 2 => fin[c] /\ peer[c] = "closed"

\* Edge-triggered reading strands nothing: an open connection with something to
\* read has an event on the ready list or in the batch being handled.
EdgeNotLost ==
    \A f \in Open : Readable(owner[f]) =>
        f \in ready \/ \E e \in batch : e.fd = f

\* The server closes a connection only if its client hung up, if it has not been
\* heard from for more than MAX_IDLE_TIME, or if the server itself ends; and a signal
\* ends it only when some client has hung up (TcpServer.cpp:297, 320-352, 355-371).
ClosesForAReason ==
    [][\A c \in Conns : peer[c] = "open" /\ peer'[c] = "closed" =>
           \/ fin[c] \/ quiet[c] > MaxIdle
           \/ loop' = "stopped"
           \/ loop' = "killed" /\ \E d \in Conns : fin[d]]_vars

\* A complete request is answered to the client that sent it, in full if the answer is
\* a page, unless that client hangs up or is closed first, no descriptor is left to
\* accept it with, or the server ends.  Only JSON and files may come to an end without
\* having gone whole (HttpHandler.cpp:207-231 against 306-331 and 505-514).
RequestsAnswered ==
    \A c \in Conns : \A k \in 1 .. MaxReq[c] :
        sent[c] >= 2 * k ~>
            \/ \E n \in DOMAIN inbox[c] :
                   /\ inbox[c][n].req = Token(c, 2 * k - 1)
                   /\ inbox[c][n].whole \/ Token(c, 2 * k - 1) \in Json \cup Static
            \/ fin[c]
            \/ peer[c] = "closed"
            \/ peer[c] = "backlog" /\ Open = Fds
            \/ loop \in {"stopped", "killed"}

\* The requests of c before the n-th one of its own to which a response ended that
\* had neither been answered nor given up by then.
Late(c, box, n) ==
    {k \in 1 .. MaxReq[c] : /\ 2 * k - 1 < box[n].req[2]
                            /\ Token(c, 2 * k - 1) \notin {box[i].req : i \in 1 .. n}}

\* Pipelined requests: when a response ends, at most as many earlier requests of its
\* connection still wait for theirs as there are other workers, whatever sockets are
\* full and however long a worker waits for room (TcpServer.cpp:305, HttpHandler.cpp:220).
\* One worker answers in order; two do not.
AnswersNearlyInOrder ==
    \A c \in Conns : \A n \in DOMAIN inbox[c] :
        inbox[c][n].req[1] = c => Cardinality(Late(c, inbox[c], n)) < Cardinality(Workers)

\* A response goes to the connection whose request it answers.  Does NOT hold:
\* the descriptor may have been closed and given to another connection while
\* the task was queued or running.
ResponsesReachTheirClient ==
    \A c \in Conns : \A n \in DOMAIN inbox[c] : inbox[c][n].req[1] = c
=============================================================================
