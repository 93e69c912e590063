---------------------------- MODULE SelectServer ----------------------------
(***************************************************************************)
(* TcpServer in select mode (src/net/TcpServer.cpp:120-189) with the       *)
(* handleRequest of that mode (src/http/HttpHandler.cpp:257-263).          *)
(*                                                                         *)
(* The descriptors block.  The loop alone accepts and reads, and closes    *)
(* what has ended; but a worker, too, closes the descriptor of a request   *)
(* it does not keep alive, and tells nobody: the number stays in           *)
(* client_fds, where select refuses it (EBADF, and the loop goes round for *)
(* ever) or finds the next connection under it, or a file that a worker is *)
(* about to send.  A send to a client that has gone may raise SIGPIPE,     *)
(* which nothing ignores: it ends the server, whoever else it serves.      *)
(***************************************************************************)
EXTENDS Sockets

CONSTANTS
    Fds,         \* the descriptor numbers clients and files may get
    Listener,    \* server_fd
    Nobody, File,
    Static,      \* the requests <<connection, k>> for a file that exists
    Workers,
    NoTask

ASSUME SelectAssumption == Fds \subseteq Nat /\ Listener \notin Fds /\ {Nobody, File} \cap Conns = {}

VARIABLES
    owner,         \* file table: descriptor -> connection, File or Nobody
    client_fds,
    read_fds,
    loop,          \* "set" (builds the sets, calls select), "blocked" (in select),
                   \* "accept", "scan", "killed" (the process has ended)
    i,
    queue,         \* the pool's queue of [fd, chunk]
    job,           \* worker -> [fd, chunk, at, file], at = "handle", "file" (it is
                   \*           open), "sending" (a part is sent), "close", or NoTask
    workerClosed   \* history: a worker has closed a connection

files == <<owner, client_fds>>
pool == <<queue, job, workerClosed>>
selectVars == <<owner, client_fds, read_fds, loop, i, queue, job, workerClosed>>

Open == {f \in Fds : owner[f] # Nobody}
Served == {f \in Fds : owner[f] \in Conns}

\* recv on f would not wait (it fails on a file); recv on f would not return data.
NoWait(f) == IF f \in Served THEN Readable(owner[f]) ELSE TRUE
NoData(f) == IF f \in Served THEN fin[owner[f]] /\ sent[owner[f]] = rcvd[owner[f]] ELSE TRUE

\* Whatever has descriptor f is closed.
CloseFd(f) ==
    /\ peer' = [c \in Conns |-> IF owner[f] = c THEN "closed" ELSE peer[c]]
    /\ owner' = [owner EXCEPT ![f] = Nobody]

\* Mutant of Watched: select(max_fd, ...) in place of select(max_fd + 1, ...).
WatchedBelowMax == {client_fds[n] : n \in {m \in DOMAIN client_fds :
                      \E k \in DOMAIN client_fds : client_fds[m] < client_fds[k]}}

\* What the loop puts into the set, read back.
Watched == {client_fds[n] : n \in DOMAIN client_fds}

LowestFree == CHOOSE f \in Fds \ Open : \A g \in Fds \ Open : f <= g

SelectInit ==
    /\ owner = [f \in Fds |-> Nobody]
    /\ client_fds = <<>>
    /\ read_fds = {}
    /\ loop = "set"
    /\ i = 1
    /\ queue = <<>>
    /\ job = [w \in Workers |-> NoTask]
    /\ workerClosed = FALSE

-----------------------------------------------------------------------------
(* The loop.                                                               *)

\* select begins; with a descriptor that is not open it fails instead, and the
\* loop tries again, which changes nothing.
SelectCall ==
    /\ loop = "set"
    /\ Watched \subseteq Open
    /\ loop' = "blocked"
    /\ UNCHANGED <<sockets, files, read_fds, i, pool>>

\* It returns what is readable.  A descriptor closed while it sleeps is passed over.
SelectReturn ==
    LET hits == {f \in Watched \cap Open : NoWait(f)}
                    \cup (IF Backlog # {} THEN {Listener} ELSE {})
    IN  /\ loop = "blocked"
        /\ hits # {}
        /\ read_fds' = hits
        /\ loop' = "accept"
        /\ UNCHANGED <<sockets, files, i, pool>>

Accept ==
    /\ loop = "accept" /\ Listener \in read_fds
    /\ Fds \ Open # {}
    /\ \E c \in Backlog :
          /\ peer' = [peer EXCEPT ![c] = "open"]
          /\ owner' = [owner EXCEPT ![LowestFree] = c]
    /\ client_fds' = Append(client_fds, LowestFree)
    /\ loop' = "scan" /\ i' = 1
    /\ UNCHANGED <<client, rcvd, replies, read_fds, pool>>

\* No descriptor is left: continue, past the clients that are waiting.
AcceptFails ==
    /\ loop = "accept" /\ Listener \in read_fds
    /\ Fds \ Open = {}
    /\ loop' = "set"
    /\ UNCHANGED <<sockets, files, read_fds, i, pool>>

NothingToAccept ==
    /\ loop = "accept" /\ Listener \notin read_fds
    /\ loop' = "scan" /\ i' = 1
    /\ UNCHANGED <<sockets, files, read_fds, pool>>

Pass ==
    /\ loop = "scan" /\ i \in DOMAIN client_fds
    /\ client_fds[i] \notin read_fds
    /\ i' = i + 1
    /\ UNCHANGED <<sockets, files, read_fds, loop, pool>>

\* recv takes what is there, up to 2047 bytes of it; it waits if there is nothing.
Receive ==
    /\ loop = "scan" /\ i \in DOMAIN client_fds
    /\ LET f == client_fds[i]
           c == owner[f]
       IN  /\ f \in read_fds \cap Served
           /\ sent[c] > rcvd[c]
           /\ rcvd' = [rcvd EXCEPT ![c] = Chunk(c).to]
           /\ queue' = Append(queue, [fd |-> f, chunk |-> Chunk(c)])
    /\ i' = i + 1
    /\ UNCHANGED <<peer, client, replies, files, read_fds, loop, job, workerClosed>>

\* Mutant of Erased: the closed descriptor stays in the vector.
NotErased(s, n) == s

Erased(s, n) == SubSeq(s, 1, n - 1) \o SubSeq(s, n + 1, Len(s))

\* recv returns 0, or fails because the number is no connection's any more: close
\* (a file, in the worst case) and erase.
ReceiveEnd ==
    /\ loop = "scan" /\ i \in DOMAIN client_fds
    /\ LET f == client_fds[i]
       IN  /\ f \in read_fds
           /\ NoData(f)
           /\ CloseFd(f)
    /\ client_fds' = Erased(client_fds, i)
    /\ UNCHANGED <<client, rcvd, replies, read_fds, loop, i, pool>>

ScanDone ==
    /\ loop = "scan" /\ i \notin DOMAIN client_fds
    /\ loop' = "set"
    /\ UNCHANGED <<sockets, files, read_fds, i, pool>>

LoopStep ==
    \/ SelectCall \/ SelectReturn
    \/ Accept \/ AcceptFails \/ NothingToAccept
    \/ Pass \/ Receive \/ ReceiveEnd \/ ScanDone

-----------------------------------------------------------------------------
(* The workers.                                                            *)

StartTask(w) ==
    /\ loop # "killed"
    /\ job[w] = NoTask
    /\ queue # <<>>
    /\ job' = [job EXCEPT ![w] =
                 [fd |-> Head(queue).fd, chunk |-> Head(queue).chunk, at |-> "handle", file |-> Listener]]
    /\ queue' = Tail(queue)
    /\ UNCHANGED <<sockets, files, read_fds, loop, i, workerClosed>>

AtWork(w, at) == job[w] # NoTask /\ job[w].at = at

\* A chunk without the end of a header is dropped and the connection kept, "to
\* wait for more".
Drop(w) ==
    /\ AtWork(w, "handle")
    /\ ~Complete(job[w].chunk)
    /\ job' = [job EXCEPT ![w] = NoTask]
    /\ UNCHANGED <<sockets, files, read_fds, loop, i, queue, workerClosed>>

\* Static files: one more descriptor for as long as it takes.
WantsFile(chunk) == \E r \in Static : r[1] = chunk.of /\ 2 * r[2] - 1 = chunk.from

OpenFile(w) ==
    /\ AtWork(w, "handle")
    /\ Complete(job[w].chunk) /\ WantsFile(job[w].chunk)
    /\ Fds \ Open # {}
    /\ owner' = [owner EXCEPT ![LowestFree] = File]
    /\ job' = [job EXCEPT ![w] = [@ EXCEPT !.at = "file", !.file = LowestFree]]
    /\ UNCHANGED <<sockets, client_fds, read_fds, loop, i, queue, workerClosed>>

\* There is an answer to send on the number, and room for it if it is a connection's.
Answers(w) ==
    \/ AtWork(w, "file") \/ AtWork(w, "sending")
    \/ /\ AtWork(w, "handle")
       /\ Complete(job[w].chunk)
       /\ WantsFile(job[w].chunk) => Fds \ Open = {}

Room(f) == f \in Served => ~full[owner[f]]

Gone(f) == f \in Served => fin[owner[f]]

Waits(w) ==
    /\ Answers(w) /\ ~AtWork(w, "sending")
    /\ job[w].fd \in Served
    /\ SendPart(owner[job[w].fd])
    /\ job' = [job EXCEPT ![w] = [@ EXCEPT !.at = "sending"]]
    /\ UNCHANGED <<peer, client, rcvd, inbox, files, read_fds, loop, i, queue, workerClosed>>

\* What is left is sent, or cannot be: the client has gone, or the number is no
\* connection's.  The connection is to be closed if the chunk asks for that or if a
\* send failed, which goes unnoticed for some answers.
Handle(w) ==
    /\ Answers(w) /\ Room(job[w].fd)
    /\ LET t == job[w]
           c == owner[t.fd]
       IN  /\ \E failed \in {FALSE, Gone(t.fd)} :
                 job' = [job EXCEPT ![w] = IF AsksToClose(t.chunk) \/ failed
                                           THEN [t EXCEPT !.at = "close"] ELSE NoTask]
           /\ inbox' = [d \in Conns |-> IF d = c THEN inbox[d] \cup {t.chunk} ELSE inbox[d]]
           /\ IF t.file = Listener
              THEN UNCHANGED <<peer, owner, workerClosed>>
              ELSE CloseFd(t.file) /\ workerClosed' = (workerClosed \/ t.file \in Served)
    /\ UNCHANGED <<client, rcvd, full, client_fds, read_fds, loop, i, queue>>

\* Or a send to a client that has gone raises SIGPIPE: the process ends, and the
\* kernel closes what it had open.
Killed(w) ==
    /\ Answers(w)
    /\ job[w].fd \in Served /\ Gone(job[w].fd)
    /\ loop' = "killed"
    /\ peer' = [c \in Conns |-> IF peer[c] \in {"backlog", "open"} THEN "closed" ELSE peer[c]]
    /\ owner' = [f \in Fds |-> Nobody]
    /\ client_fds' = <<>> /\ queue' = <<>>
    /\ job' = [v \in Workers |-> NoTask]
    /\ UNCHANGED <<client, rcvd, replies, read_fds, i, workerClosed>>

\* close(client_fd) of handleRequest, whoever has the number by now.
WorkerClose(w) ==
    /\ AtWork(w, "close")
    /\ CloseFd(job[w].fd)
    /\ workerClosed' = (workerClosed \/ job[w].fd \in Open)
    /\ job' = [job EXCEPT ![w] = NoTask]
    /\ UNCHANGED <<client, rcvd, replies, client_fds, read_fds, loop, i, queue>>

WorkerStep(w) ==
    StartTask(w) \/ Drop(w) \/ OpenFile(w) \/ Waits(w) \/ Handle(w) \/ WorkerClose(w)

SelectNext == LoopStep \/ \E w \in Workers : WorkerStep(w) \/ Killed(w)

-----------------------------------------------------------------------------

\* No connection is ever lost from client_fds, and until a worker closes one the
\* vector is the file table without repetition, and recv, on sockets that block,
\* always finds something to read (TcpServer.cpp:135-187).
SelectSound ==
    /\ SocketsTypeOK
    /\ Served \subseteq Watched
    /\ ~workerClosed =>
          /\ Watched = Served
          /\ \A m, n \in DOMAIN client_fds : client_fds[m] = client_fds[n] => m = n
          /\ loop = "scan" /\ i \in DOMAIN client_fds /\ client_fds[i] \in read_fds
                => NoWait(client_fds[i])

\* Where this server stops answering: a worker has closed a connection (from then
\* on select may fail, or recv wait, for ever), or another client's leaving has ended
\* the server.
SelectExcused == workerClosed \/ (loop = "killed" /\ \E c \in Conns : fin[c])

\* Or no descriptor is left for a connection that waits, which hides all the others.
OutOfDescriptors == Backlog # {} /\ Open = Fds
=============================================================================
