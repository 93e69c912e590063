---------------------------- MODULE HttpHandler ----------------------------
(***************************************************************************)
(* HttpHandler::handleRequest (src/http/HttpHandler.cpp) as several        *)
(* workers run it: which route answers, how each route sends its response  *)
(* on a non-blocking socket, and what it does with the counters that       *)
(* /status reports.                                                        *)
(*                                                                         *)
(* A response is a number of units.  A socket takes units while it has     *)
(* room and refuses with EAGAIN when it has none.  Once the client is gone *)
(* a send may fail with ECONNRESET, the first time, and then fails with    *)
(* EPIPE; EPIPE comes with SIGPIPE, which the program neither ignores nor  *)
(* handles, unless send was given MSG_NOSIGNAL.                            *)
(*                                                                         *)
(* Bounds: MaxReq requests in a run; got stops counting at Length + 1.     *)
(***************************************************************************)
EXTENDS Integers, FiniteSets, HttpText

CONSTANTS
    Workers,
    Clients,     \* connections
    Kinds,       \* what requests ask for; see Routes
    Room,        \* units a socket buffers for a client that is not reading
    Length,      \* units in a response that takes more than one send
    MaxReq,
    Gone         \* the clients that may go away

Routes == {"incomplete", "forbidden", "file", "nofile", "api", "status", "dynamic"}

ASSUME HttpAssumption ==
    /\ Kinds \subseteq Routes
    /\ Room \in Nat \ {0}
    /\ Length \in Nat \ {0}
    /\ MaxReq \in Nat
    /\ Gone \subseteq Clients
    /\ IsFiniteSet(Workers)

VARIABLES
    at,                   \* worker -> "idle", or the part of a response it sends:
                          \*           "403", "head", "block", "json", "dynamic"
    job,                  \* worker -> [client, kind, req]
    left,                 \* worker -> units of that part not yet sent
    active_connections,
    total_requests,
    room,                 \* client -> units its socket can still take
    peer,                 \* client -> "here", "reset" (the next send fails with
                          \*           ECONNRESET) or "dead" (sends fail with EPIPE)
    alive,                \* the process has not been killed
    got,                  \* history: [req, part] -> units handed to the socket
    ended                 \* history: [req, kind, failed] of handlers that returned

vars == <<at, job, left, active_connections, total_requests, room, peer, alive, got, ended>>

Parts == {"403", "head", "block", "json", "dynamic"}
NoJob == [client |-> "none", kind |-> "none", req |-> 0]
Busy == {w \in Workers : at[w] # "idle"}
Units(p) == IF p = "403" THEN 1 ELSE Length

-----------------------------------------------------------------------------

Init ==
    /\ at = [w \in Workers |-> "idle"]
    /\ job = [w \in Workers |-> NoJob]
    /\ left = [w \in Workers |-> 0]
    /\ active_connections = 0
    /\ total_requests = 0
    /\ room = [c \in Clients |-> Room]
    /\ peer = [c \in Clients |-> "here"]
    /\ alive = TRUE
    /\ got = [r \in (1 .. MaxReq) \X Parts |-> 0]
    /\ ended = {}

\* The client reads what it has been sent; or it goes away.
Drain(c) ==
    /\ alive
    /\ peer[c] = "here"
    /\ room[c] < Room
    /\ room' = [room EXCEPT ![c] = Room]
    /\ UNCHANGED <<at, job, left, active_connections, total_requests, peer, alive, got, ended>>

Leave(c) ==
    /\ alive
    /\ c \in Gone
    /\ peer[c] = "here"
    /\ \E p \in {"reset", "dead"} : peer' = [peer EXCEPT ![c] = p]
    /\ UNCHANGED <<at, job, left, active_connections, total_requests, room, alive, got, ended>>

-----------------------------------------------------------------------------

\* The part of the response a route sends first.
FirstPart(k) ==
    CASE k = "forbidden"        -> "403"
      [] k = "file"             -> "head"
      [] k \in {"api", "status"} -> "json"
      [] OTHER                  -> "dynamic"

\* handleRequest counts the request and chooses the route.
Begin(w) ==
    /\ alive
    /\ at[w] = "idle"
    /\ total_requests < MaxReq
    /\ \E c \in Clients, k \in Kinds \ {"incomplete"} :
          /\ job' = [job EXCEPT ![w] = [client |-> c, kind |-> k, req |-> total_requests + 1]]
          /\ at' = [at EXCEPT ![w] = FirstPart(k)]
          /\ left' = [left EXCEPT ![w] = Units(FirstPart(k))]
    /\ total_requests' = total_requests + 1
    /\ active_connections' = active_connections + 1
    /\ UNCHANGED <<room, peer, alive, got, ended>>

\* ... but goes no further with a request whose header has no end.
Incomplete(w) ==
    /\ alive
    /\ at[w] = "idle"
    /\ total_requests < MaxReq
    /\ "incomplete" \in Kinds
    /\ total_requests' = total_requests + 1
    /\ active_connections' = active_connections + 1
    /\ UNCHANGED <<at, job, left, room, peer, alive, got, ended>>

Client(w) == job[w].client

\* The worker goes on to part p of the response.
Continue(w, p) ==
    /\ at' = [at EXCEPT ![w] = p]
    /\ left' = [left EXCEPT ![w] = Units(p)]
    /\ UNCHANGED <<job, ended, active_connections>>

\* handleRequest returns; n is what it takes off active_connections.
Return(w, n, failed) ==
    /\ at' = [at EXCEPT ![w] = "idle"]
    /\ job' = [job EXCEPT ![w] = NoJob]
    /\ left' = [left EXCEPT ![w] = 0]
    /\ ended' = ended \cup {[req |-> job[w].req, kind |-> job[w].kind, failed |-> failed]}
    /\ active_connections' = active_connections - n

CountTo(n) == IF n > Length THEN Length + 1 ELSE n

\* send() takes n units of the part the worker is at.
Take(w, n) ==
    /\ n > 0 /\ n <= left[w] /\ n <= room[Client(w)]
    /\ peer[Client(w)] = "here"
    /\ room' = [room EXCEPT ![Client(w)] = @ - n]
    /\ got' = [got EXCEPT ![<<job[w].req, at[w]>>] = CountTo(@ + n)]
    /\ UNCHANGED <<peer, alive, total_requests>>

\* send() fails, with EAGAIN or with ECONNRESET.
Full(w) ==
    /\ peer[Client(w)] = "here" /\ room[Client(w)] = 0
    /\ UNCHANGED <<room, got, peer, alive, total_requests>>
Reset(w) ==
    /\ peer[Client(w)] = "reset"
    /\ peer' = [peer EXCEPT ![Client(w)] = "dead"]
    /\ UNCHANGED <<room, got, alive, total_requests>>
Fails(w) == Full(w) \/ Reset(w)

\* send() without MSG_NOSIGNAL to a client that is gone.
Killed(w) ==
    /\ alive
    /\ at[w] \in Parts \ {"403"}
    /\ peer[Client(w)] = "dead"
    /\ alive' = FALSE
    /\ UNCHANGED <<at, job, left, active_connections, total_requests, room, peer, got, ended>>

\* Mutant of Sent: a partial send does not advance the count of bytes sent.
SentForgotten(n, l) == l

Sent(n, l) == l - n

\* A loop whose send took some of the units but not the last goes round again.
SendMore(w) ==
    /\ at[w] \in {"head", "json", "dynamic"}
    /\ \E n \in 1 .. Length :
          n < left[w] /\ Take(w, n) /\ left' = [left EXCEPT ![w] = Sent(n, @)]
    /\ UNCHANGED <<at, job, active_connections, ended>>

\* send403Response: one send, its result ignored; serverStaticFile then reports
\* failure, and handleRequest falls through to the dynamic response.
Send403(w) ==
    /\ at[w] = "403"
    /\ \/ Take(w, 1)
       \/ Fails(w)
       \/ peer[Client(w)] = "dead" /\ UNCHANGED <<room, got, peer, alive, total_requests>>
    /\ Continue(w, "dynamic")

\* Mutant of SendHead: one send, however much of the header it took.
SendHeadOnce(w) ==
    /\ at[w] = "head"
    /\ \/ (\E n \in 1 .. Length : Take(w, n)) /\ Continue(w, "block")
       \/ Fails(w) /\ Continue(w, "dynamic")

\* The header of a file is sent; any failure, EAGAIN included, falls through to
\* the dynamic response.
SendHead(w) ==
    /\ at[w] = "head"
    /\ \/ Take(w, left[w]) /\ Continue(w, "block")
       \/ Fails(w) /\ Continue(w, "dynamic")

\* A block of the file is sent if there is room for it; nobody looks whether it was.
SendBlock(w) ==
    /\ at[w] = "block"
    /\ Take(w, 1) \/ Fails(w)
    /\ IF left[w] > 1
       THEN left' = [left EXCEPT ![w] = @ - 1] /\ UNCHANGED <<at, job, active_connections, ended>>
       ELSE Return(w, 0, FALSE)

\* What /status and the two API routes take off the counter.
JsonOff(w) == IF job[w].kind = "status" THEN 1 ELSE 0

\* sendJsonResponse gives up at the first send that fails.  Its keep_alive is a
\* copy: the caller does not learn of the failure.
SendJson(w) ==
    /\ at[w] = "json"
    /\ Take(w, left[w]) \/ Fails(w)
    /\ Return(w, JsonOff(w), FALSE)

\* Mutant of DynamicOff: the loop's error path and the end both decrement.
DynamicOffTwice == 2

DynamicOff == 1

\* The dynamic route retries on EAGAIN; any other error ends it and the connection.
GivesUp(w) == Reset(w) /\ Return(w, DynamicOff, TRUE)

SendDynamic(w) ==
    /\ at[w] = "dynamic"
    /\ \/ Take(w, left[w]) /\ Return(w, DynamicOff, FALSE)
       \/ GivesUp(w)

Send(w) ==
    /\ alive
    /\ SendMore(w) \/ Send403(w) \/ SendHead(w) \/ SendBlock(w) \/ SendJson(w) \/ SendDynamic(w)

Next ==
    \/ \E c \in Clients : Drain(c) \/ Leave(c)
    \/ \E w \in Workers : Begin(w) \/ Incomplete(w) \/ Send(w) \/ Killed(w)

\* Workers run; a client that stays goes on reading.
Spec ==
    /\ Init /\ [][Next]_vars
    /\ \A w \in Workers : WF_vars(Send(w) \/ Killed(w))
    /\ \A c \in Clients : WF_vars(Drain(c))

-----------------------------------------------------------------------------

\* Every variable has its type; a handler at work has something left to send, and
\* no part of a response is sent more than once over.
TypeOK ==
    /\ at \in [Workers -> Parts \cup {"idle"}]
    /\ job \in [Workers -> [client : Clients \cup {"none"}, kind : Kinds \cup {"none"},
                            req : 0 .. MaxReq]]
    /\ left \in [Workers -> 0 .. Length]
    /\ \A w \in Workers : (at[w] = "idle") <=> (left[w] = 0)
    /\ active_connections \in 0 .. MaxReq
    /\ total_requests \in 0 .. MaxReq
    /\ room \in [Clients -> 0 .. Room]
    /\ peer \in [Clients -> {"here", "reset", "dead"}]
    /\ alive \in BOOLEAN
    /\ got \in [(1 .. MaxReq) \X Parts -> Nat]
    /\ \A r \in 1 .. MaxReq, p \in Parts : got[<<r, p>>] <= Units(p)

\* What requests ask for that the loop would tear, or the handler take for another.
Torn == {r.route : r \in Samples \ WellSplit}
Misread == {r.route : r \in Samples \ Understood}

\* Whatever a worker is at work on was handed over by the loop exactly as its client sent
\* it, however its bytes and those before it arrived, and by then the loop has lost,
\* repeated or reordered no byte of any stream (TcpServer.cpp:260-302).
StreamSplit ==
    /\ \A w \in Busy : job[w].kind \notin Torn
    /\ total_requests > 0 => NothingLost

\* A worker is at work on what its client meant, by method, path, form and Connection
\* header, and a path it looks for has been resolved as a stack of directories would
\* (HttpHandler.cpp:15-43, 424-488).
RequestUnderstood ==
    /\ \A w \in Busy : job[w].kind \notin Misread
    /\ (\E w \in Busy : job[w].kind \in {"file", "forbidden"}) => PathsResolved

\* Whatever order requests come and fail in, active_connections never falls below the
\* number of handlers at work, and with none at work is never negative
\* (HttpHandler.cpp:126, 193, 218, 229, 236).
NeverUndercounts ==
    TypeOK /\ active_connections >= Cardinality(Busy)

\* Whatever sockets are full on the way, also when another worker fills the same one, a
\* handler that leaves the connection open has sent a dynamic response whole, or for a file
\* its header whole; and no part of a file's body reaches the socket before the whole of its
\* header (HttpHandler.cpp:207-231, 303-327).  A JSON response may be cut at a full socket
\* and a file lose blocks of its body, the connection open all the same: AllDataSent.
ResponsesWhole ==
    /\ \A e \in ended :
          e.kind \notin {"api", "status"} /\ ~e.failed
              => \/ got[<<e.req, "dynamic">>] = Length
                 \/ e.kind = "file" /\ got[<<e.req, "head">>] = Length
    /\ \A r \in 1 .. MaxReq : got[<<r, "block">>] > 0 => got[<<r, "head">>] = Length

\* What the code says of its send loops: all data is sent (HttpHandler.cpp:501, README.md:225).
\* For clients that stay it is not so: sendJsonResponse gives up at a full socket, and the
\* blocks of a file are sent once.
AllDataSent ==
    \A e \in ended :
        CASE e.kind \in {"api", "status"} -> got[<<e.req, "json">>] = Length
          [] e.kind = "file"              -> got[<<e.req, "block">>] = Length
          [] OTHER                        -> got[<<e.req, "dynamic">>] = Length

\* With clients that read or go away, no response keeps a worker for ever.
HandlersEnd == \A w \in Workers : at[w] # "idle" ~> (at[w] = "idle" \/ ~alive)
=============================================================================
