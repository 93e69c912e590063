-------------------------------- MODULE Wrk --------------------------------
(***************************************************************************)
(* One thread of wrk (wrk/src/wrk.c) on its event loop (ae.c, ae_epoll.c): *)
(* it connects, writes its request, reads responses, waits out the delay a *)
(* script asks for, and connects again when a connection ends or fails.    *)
(*                                                                         *)
(* A request is Length units of writing and holds Pipeline requests for    *)
(* the server, which answers only what it has received whole.  HttpParser  *)
(* says what the parser makes of the text of an answer; of a text that     *)
(* ends no response, wrk learns nothing.  Here an answer is one piece:     *)
(*   "keep"    a response after which the connection stays                 *)
(*   "close"   a response that says the connection closes                  *)
(*   "body"    a response whose body the end of the connection ends        *)
(*                                                                         *)
(* Bound: MaxTrouble connects that fail at once and connections that the   *)
(* server ends or resets when no answer said so.                           *)
(***************************************************************************)
EXTENDS Integers, FiniteSets, Sequences, SequencesExt, HttpParser

CONSTANTS Connections, Fds, Pipeline, Length, MaxTrouble

ASSUME WrkAssumption ==
    /\ Fds \subseteq Nat /\ IsFiniteSet(Fds)
    /\ Pipeline \in Nat \ {0} /\ Length \in Nat \ {0}
    /\ Connections \in Nat \ {0} /\ MaxTrouble \in Nat

VARIABLES
    fd_,        \* connection -> its fd, or a number that no longer is
    delayed, written,
    pending,    \* connection -> answers awaited; -1: what an unsigned 0 wraps to
    parser,     \* connection -> "fresh", "eof" (in a body that the end of the
                \*   connection ends), "dead" (after a response that closes)
    delay,      \* cfg.delay: the script has a delay
    events,     \* fd -> [mask, rproc, wproc, data]: the file events
    timers,     \* connection -> its delay_request timers
    fired,      \* fd -> the events of this turn not yet handled
    loop,       \* "poll", "events", "timers", "ended"
    stop,       \* the flag main sets
    socket,     \* fd -> [owner, up, err, fin, owed, inbox]: the kernel and the server
    troubles,
    lost,       \* history: connections whose last connect failed
    disturbed   \* history: connections that met a timer not meant for them

wrkVars == <<fd_, delayed, written, pending, parser, timers, events, socket,
             troubles, lost, disturbed>>
vars == <<wrkVars, delay, fired, loop, stop>>

Conns == 1 .. Connections
Nobody == 0
NoEvents == [mask |-> {}, rproc |-> "none", wproc |-> "none", data |-> Nobody]
Closed == [owner |-> Nobody, up |-> FALSE, err |-> FALSE, fin |-> FALSE, owed |-> 0,
           inbox |-> <<>>]

-----------------------------------------------------------------------------
(* The thread as one value, so that a callback is a function of it.        *)

Thread ==
    [fd |-> fd_, delayed |-> delayed, written |-> written, pending |-> pending,
     parser |-> parser, events |-> events, timers |-> timers, socket |-> socket,
     troubles |-> troubles, lost |-> lost, disturbed |-> disturbed]

Becomes(w) ==
    /\ fd_' = w.fd /\ delayed' = w.delayed /\ written' = w.written /\ pending' = w.pending
    /\ parser' = w.parser /\ events' = w.events /\ timers' = w.timers /\ socket' = w.socket
    /\ troubles' = w.troubles /\ lost' = w.lost /\ disturbed' = w.disturbed

\* aeCreateFileEvent.  epoll refuses a number that is not open, and a change to events it
\* has forgotten, as it does when the number is closed.  An fd has one clientData.
CreateFileEvent(w, fd, mask, proc, c) ==
    LET has == w.events[fd]
        with == [mask |-> has.mask \cup mask,
                 rproc |-> IF "r" \in mask THEN proc ELSE has.rproc,
                 wproc |-> IF "w" \in mask THEN proc ELSE has.wproc, data |-> c]
    IN  IF w.socket[fd].owner = Nobody THEN w
        ELSE [w EXCEPT !.events[fd] = with,
                       !.disturbed = IF w.socket[fd].owner = c THEN @
                                     ELSE @ \cup {c, w.socket[fd].owner}]

DeleteFileEvent(w, fd, mask) == [w EXCEPT !.events[fd].mask = @ \ mask]

\* socket and connect, which may fail at once.
connect_socket(w, c, failing) ==
    LET free == {fd \in Fds : w.socket[fd].owner = Nobody}
        fd == CHOOSE low \in free : \A other \in free : low <= other
        opened == [w EXCEPT !.socket[fd] = [Closed EXCEPT !.owner = c], !.fd[c] = fd,
                            !.lost = @ \ {c}]
    IN  IF failing \/ free = {} \/ w.events[fd].mask # {}
        THEN [w EXCEPT !.lost = @ \cup {c}, !.troubles = IF failing THEN @ + 1 ELSE @]
        ELSE CreateFileEvent(opened, fd, {"r", "w"}, "socket_connected", c)

\* Mutant of Forget: the events stay in the table when the number is closed.
ForgetNothing(w, fd) == w

\* The events of a number about to be closed.
Forget(w, fd) == DeleteFileEvent(w, fd, {"r", "w"})

\* A timer still running is the one thing that does not start anew.
reconnect_socket(w, c, failing) ==
    connect_socket([Forget(w, w.fd[c]) EXCEPT
                        !.socket[w.fd[c]] = IF @.owner = c THEN Closed ELSE @,
                        !.disturbed = IF w.timers[c] > 0 THEN @ \cup {c} ELSE @], c, failing)

-----------------------------------------------------------------------------
(* The callbacks of wrk.                                                   *)

socket_connected(w, c, fd) ==
    CreateFileEvent(
        CreateFileEvent([w EXCEPT !.parser[c] = "fresh", !.written[c] = 0],
                        fd, {"r"}, "socket_readable", c),
        fd, {"w"}, "socket_writeable", c)

\* The request has left, and the server owes its answers.
Asked(w, c, fd) ==
    DeleteFileEvent([w EXCEPT !.written[c] = 0, !.socket[w.fd[c]].owed = @ + Pipeline],
                    fd, {"w"})

\* What write returns: -1 for an error, 0 for EAGAIN, or the units it took.
Writes(w, c) ==
    LET to == w.socket[w.fd[c]]
    IN  IF to.err \/ to.owner = Nobody THEN {-1}
        ELSE IF ~to.up THEN {0} ELSE 0 .. Length - w.written[c]

socket_writeable(w, c, fd, took, failing) ==
    LET begun == IF w.written[c] = 0 THEN [w EXCEPT !.pending[c] = Pipeline] ELSE w
    IN  IF w.delayed[c]
        THEN [DeleteFileEvent(w, fd, {"w"}) EXCEPT
                 !.timers[c] = @ + 1,
                 !.disturbed = IF w.timers[c] > 0 THEN @ \cup {c} ELSE @]
        ELSE IF took = -1 THEN reconnect_socket(begun, c, failing)
        ELSE IF took + w.written[c] = Length THEN Asked(begun, c, fd)
        ELSE [begun EXCEPT !.written[c] = @ + took]

\* With the last response awaited the request is written again; a response that does not
\* keep the connection ends it here, whether or not more is awaited.
response_complete(w, c, keeps, failing) ==
    LET left == IF w.pending[c] > 0 THEN w.pending[c] - 1 ELSE -1
        counted == [w EXCEPT !.pending[c] = left]
        again == IF left # 0 THEN counted
                 ELSE CreateFileEvent([counted EXCEPT !.delayed[c] = delay], w.fd[c], {"w"},
                                      "socket_writeable", c)
    IN  IF keeps THEN [again EXCEPT !.parser[c] = "fresh"]
        ELSE reconnect_socket(again, c, failing)

\* The parser on one piece, with what the pieces before it led to in acc [w, ok]: text
\* after a response that closes is an error.
Parsed(acc, piece, c, F) ==
    LET w == acc.w
    IN  IF w.parser[c] = "dead" \/ ~acc.ok THEN [acc EXCEPT !.ok = FALSE]
        ELSE CASE piece = "body" -> [acc EXCEPT !.w.parser[c] = "eof"]
               [] piece = "keep" -> [acc EXCEPT !.w = response_complete(w, c, TRUE, FALSE)]
               [] OTHER -> [acc EXCEPT
                     !.w = response_complete([w EXCEPT !.parser[c] = "dead"], c, FALSE, 1 \in F)]

\* The end of the connection completes a response whose body it ends, and wrk connects
\* again; it is then an error too, as everywhere else, and wrk connects once more.
ReadEnd(w, c, F) ==
    reconnect_socket(IF w.parser[c] = "eof"
                     THEN response_complete([w EXCEPT !.parser[c] = "dead"], c, FALSE, 1 \in F)
                     ELSE w,
                     c, 2 \in F)

\* http_parser_execute on what one read has brought.
Executed(w, pieces, c, F) ==
    LET acc[n \in 0 .. Len(pieces)] ==
            IF n = 0 THEN [w |-> w, ok |-> TRUE] ELSE Parsed(acc[n - 1], pieces[n], c, F)
    IN  acc[Len(pieces)]

\* A read takes some of the pieces there are; with none it meets the end of the
\* connection or fails.
socket_readable(w, c, some, F) ==
    LET from == w.socket[w.fd[c]]
        rest == [w EXCEPT !.socket[w.fd[c]].inbox = SubSeq(@, some + 1, Len(@))]
        done == Executed(rest, SubSeq(from.inbox, 1, some), c, F)
    IN  IF from.inbox = <<>>
        THEN IF from.fin THEN ReadEnd(w, c, F) ELSE reconnect_socket(w, c, 2 \in F)
        ELSE IF done.ok THEN done.w ELSE reconnect_socket(done.w, c, 2 \in F)

Call(w, proc, fd, some, took, F) ==
    LET c == w.events[fd].data
    IN  CASE proc = "socket_connected" -> socket_connected(w, c, fd)
          [] proc = "socket_readable"  -> socket_readable(w, c, some, F)
          [] OTHER                     -> socket_writeable(w, c, fd, took, 3 \in F)

-----------------------------------------------------------------------------
(* The event loop.                                                         *)

NewThread ==
    [fd |-> [c \in Conns |-> 0], delayed |-> [c \in Conns |-> delay],
     written |-> [c \in Conns |-> 0], pending |-> [c \in Conns |-> 0],
     parser |-> [c \in Conns |-> "fresh"], events |-> [fd \in Fds |-> NoEvents],
     timers |-> [c \in Conns |-> 0], socket |-> [fd \in Fds |-> Closed],
     troubles |-> 0, lost |-> {}, disturbed |-> {}]

\* thread_main connects every connection; those of F fail.
Started(F) ==
    LET upTo[c \in 0 .. Connections] ==
            IF c = 0 THEN NewThread ELSE connect_socket(upTo[c - 1], c, c \in F)
    IN  upTo[Connections]

\* The loop begins when they all have been.
Init ==
    /\ delay \in BOOLEAN
    /\ \E F \in SUBSET Conns :
          /\ Cardinality(F) <= MaxTrouble
          /\ \E all \in {Started(F)} :
                /\ fd_ = all.fd /\ delayed = all.delayed /\ written = all.written
                /\ pending = all.pending /\ parser = all.parser /\ events = all.events
                /\ timers = all.timers /\ socket = all.socket /\ troubles = all.troubles
                /\ lost = all.lost /\ disturbed = all.disturbed
    /\ fired = [fd \in Fds |-> {}]
    /\ loop = "poll" /\ stop = FALSE

Watching(fd) == events[fd].mask
Readable(fd) == socket[fd].inbox # <<>> \/ socket[fd].fin \/ socket[fd].err

\* aeApiPoll: an error counts as writable, asked for or not.
Ready(fd) ==
    IF Watching(fd) = {} THEN {}
    ELSE (IF "r" \in Watching(fd) /\ Readable(fd) THEN {"r"} ELSE {})
         \cup (IF socket[fd].err \/ ("w" \in Watching(fd) /\ socket[fd].up) THEN {"w"} ELSE {})

\* epoll_wait ends with all that is ready, or at the next timer with nothing.
Poll ==
    /\ loop = "poll"
    /\ fired' = [fd \in Fds |-> Ready(fd)]
    /\ loop' = IF \A fd \in Fds : Ready(fd) = {} THEN "timers" ELSE "events"
    /\ UNCHANGED <<wrkVars, delay, stop>>

\* The loop takes an fd that has fired, of which the order is epoll's.
Takes(fd) ==
    /\ loop = "events" /\ fired[fd] # {}
    /\ fired' = [fired EXCEPT ![fd] = {}]
    /\ UNCHANGED loop

AfterRead(fd, some, F) ==
    IF "r" \in Watching(fd) \cap fired[fd] THEN Call(Thread, events[fd].rproc, fd, some, 0, F)
    ELSE Thread

\* Of what has fired for fd, the loop calls what is registered by then; the second call
\* sees what the first one registered.
HandleEvent(fd) ==
    /\ Takes(fd)
    /\ \E F \in SUBSET (1 .. 3), some \in 0 .. Len(socket[fd].inbox) :
          /\ troubles + Cardinality(F) <= MaxTrouble
          /\ some = 0 => socket[fd].inbox = <<>>
          /\ \E one \in {AfterRead(fd, some, F)} :
                LET has == one.events[fd]
                    again == "r" \in Watching(fd) \cap fired[fd] /\ has.wproc = has.rproc
                IN  IF "w" \in has.mask \cap fired[fd] /\ ~again
                    THEN \E took \in Writes(one, has.data) :
                            \E two \in {Call(one, has.wproc, fd, 0, took, F)} : Becomes(two)
                    ELSE Becomes(one)
    /\ UNCHANGED <<delay, stop>>

\* Mutant of EventsDone: timers wait for a turn without file events.
EventsDoneFirst ==
    /\ loop = "events" /\ \A fd \in Fds : fired[fd] = {}
    /\ loop' = "poll"
    /\ UNCHANGED <<wrkVars, delay, fired, stop>>

EventsDone ==
    /\ loop = "events" /\ \A fd \in Fds : fired[fd] = {}
    /\ loop' = "timers"
    /\ UNCHANGED <<wrkVars, delay, fired, stop>>

\* delay_request, for whatever socket the connection's fd is by now.
FireDelay(c) ==
    /\ loop = "timers" /\ timers[c] > 0
    /\ Becomes(CreateFileEvent([Thread EXCEPT !.delayed[c] = FALSE, !.timers[c] = @ - 1],
                               fd_[c], {"w"}, "socket_writeable", c))
    /\ UNCHANGED <<delay, fired, loop, stop>>

\* The oldest timer is record_rate's, which alone looks at stop.
RecordRate ==
    /\ loop = "timers"
    /\ loop' = IF stop THEN "ended" ELSE "poll"
    /\ UNCHANGED <<wrkVars, delay, fired, stop>>

TimersDone ==
    /\ loop = "timers"
    /\ loop' = "poll"
    /\ UNCHANGED <<wrkVars, delay, fired, stop>>

MainStops ==
    /\ ~stop
    /\ stop' = TRUE
    /\ UNCHANGED <<wrkVars, delay, fired, loop>>

LoopStep == Poll \/ (\E fd \in Fds : HandleEvent(fd)) \/ EventsDone \/ TimersDone
TimerStep == RecordRate \/ \E c \in Conns : FireDelay(c)

-----------------------------------------------------------------------------
(* The kernel and the server.                                              *)

Turns(fd, to) ==
    /\ loop # "ended" /\ socket[fd].owner # Nobody
    /\ ~socket[fd].err /\ ~socket[fd].fin
    /\ socket' = [socket EXCEPT ![fd] = to]
    /\ UNCHANGED <<fd_, delayed, written, pending, parser, timers, events, lost, disturbed,
                   delay, fired, loop, stop>>

Established(fd) ==
    /\ ~socket[fd].up
    /\ Turns(fd, [socket[fd] EXCEPT !.up = TRUE])
    /\ UNCHANGED troubles

\* The connection is refused, or reset, or ends in good order.
Dropped(fd) ==
    /\ troubles < MaxTrouble
    /\ troubles' = troubles + 1
    /\ \/ Turns(fd, [socket[fd] EXCEPT !.err = TRUE])
       \/ socket[fd].up /\ Turns(fd, [socket[fd] EXCEPT !.fin = TRUE])

\* The server answers; having said that it closes, it may yet go on answering.
Answers(fd) ==
    /\ socket[fd].owed > 0
    /\ LET to == [socket[fd] EXCEPT !.owed = @ - 1]
       IN  \/ \E end \in {<<"keep">>, <<"close">>} :
                Turns(fd, [to EXCEPT !.inbox = @ \o end])
          \/ \E end \in {<<"close">>, <<"body">>} :
                Turns(fd, [to EXCEPT !.inbox = @ \o end, !.owed = 0, !.fin = TRUE])
    /\ UNCHANGED troubles

Server == \E fd \in Fds : Established(fd) \/ Dropped(fd) \/ Answers(fd)

Next == LoopStep \/ TimerStep \/ MainStops \/ Server

\* The loop runs, whatever the callbacks do; record_rate's timer comes due again and again.
Fairness ==
    /\ WF_<<loop, fired>>(Poll \/ (\E fd \in Fds : Takes(fd)) \/ EventsDone \/ TimersDone)
    /\ SF_vars(RecordRate)

Spec == Init /\ [][Next]_vars /\ Fairness

-----------------------------------------------------------------------------

\* The piece that an answer is here.
Piece(r) == IF r.eof THEN "body" ELSE IF r.keeps THEN "keep" ELSE "close"

Misread == {Piece(r) : r \in Responses \ Understood}

\* Whatever answers wait to be read, whatever follows them and however reads cut them, the
\* parser tells wrk what the server sent; and what never ends does not hold it
\* (http_parser.c:631-2029).
ResponsesUnderstood ==
    \A fd \in Fds :
        /\ Range(socket[fd].inbox) \cap Misread = {}
        /\ socket[fd].inbox # <<>> => HeadersBounded

\* What a connection awaits is as many answers as the server will see requests
\* (script.c:262-301), and it goes to what the URL says (http_parser.c:2111-2382).
CommandUnderstood ==
    /\ (\E c \in Conns : pending[c] > 0) => RequestsCounted
    /\ (\E fd \in Fds : socket[fd].owner # Nobody) => UrlsSplit

\* The loop serves the connection, which has something to wait for: it may write, or a
\* timer is to wake it, or the server has yet to answer or to end it.  It awaits the
\* answers that are still to come, and writes again only when none is.
Kept(c) ==
    LET mine == socket[fd_[c]]
        has == events[fd_[c]]
        asked == "w" \notin has.mask /\ timers[c] = 0
        ends == mine.fin \/ mine.err \/ "close" \in Range(mine.inbox)
    IN  /\ mine.owner = c /\ has.data = c /\ "r" \in has.mask
        /\ timers[c] > 0 => delayed[c] /\ "w" \notin has.mask
        /\ asked => mine.owed > 0 \/ mine.inbox # <<>> \/ mine.fin \/ mine.err
        /\ ~ends => mine.owed + Len(mine.inbox) = IF asked THEN pending[c] ELSE 0

\* Through connects that fail, connections that drop at any moment, answers cut anywhere
\* and events handled in any order, each connection is kept, unless its last connect
\* failed or a delay timer outlived the connection it was set for
\* (wrk.c:236-271, 291-296, 324-448, ae.c:139-178, 394-415).
ConnectionsKept ==
    /\ \A fd \in Fds : socket[fd].owner = Nobody => events[fd].mask = {}
    /\ \A c \in Conns \ (lost \cup disturbed) : Kept(c)

\* However busy its connections are, a thread ends once main has asked it to
\* (wrk.c:139, 286, ae.c:420-421).
RunEnds == stop ~> loop = "ended"
=============================================================================
