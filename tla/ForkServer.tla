----------------------------- MODULE ForkServer -----------------------------
(***************************************************************************)
(* TcpServer in fork mode, the default (src/net/TcpServer.cpp:5-8, 88-117) *)
(* with the handleRequest of that mode (src/http/HttpHandler.cpp:239-253). *)
(*                                                                         *)
(* A child answers one connection and ends.  Only the forking thread lives *)
(* on in it: a mutex another thread held at that moment stays locked in    *)
(* the child, and the logger's queue_mutex_ is the one it needs first.     *)
(***************************************************************************)
EXTENDS Sockets

CONSTANT None    \* no connection

ASSUME ForkAssumption == None \notin Conns

VARIABLES
    parent,     \* "accept", "fork", "close", "reap"
    current,    \* client_fd: the connection the parent is at, or None
    child,      \* connection -> "none", "recv", "answer", "sending" (a part is sent),
                \*               "close", "exit", "zombie", "reaped", "hung"
    chunk,      \* connection -> what its child has read
    holders,    \* connection -> processes that have it open
    logging,    \* the parent's logger thread holds queue_mutex_
    pending,    \* SIGCHLD is pending; several count as one
    handling    \* some thread of the parent is in sigchld_handler

forkVars == <<parent, current, child, chunk, holders, logging, pending, handling>>

Zombies == {c \in Conns : child[c] = "zombie"}

ForkInit ==
    /\ parent = "accept"
    /\ current = None
    /\ child = [c \in Conns |-> "none"]
    /\ chunk = [c \in Conns |-> Chunk(c)]
    /\ holders = [c \in Conns |-> {}]
    /\ logging = FALSE
    /\ pending = FALSE
    /\ handling = FALSE

\* p closes the connection, which ends when nobody has it open any more.
CloseBy(p, c) ==
    /\ holders' = [holders EXCEPT ![c] = @ \ {p}]
    /\ peer' = IF holders[c] \subseteq {p} THEN [peer EXCEPT ![c] = "closed"] ELSE peer

-----------------------------------------------------------------------------
(* The parent.                                                             *)

ParentAccept ==
    /\ parent = "accept"
    /\ \E c \in Backlog :
          /\ peer' = [peer EXCEPT ![c] = "open"]
          /\ holders' = [holders EXCEPT ![c] = {"parent"}]
          /\ current' = c
    /\ parent' = "fork"
    /\ UNCHANGED <<client, rcvd, replies, child, chunk, logging, pending, handling>>

\* The child inherits the lock as it is, and its first act is to log.
Fork ==
    /\ parent = "fork"
    /\ child' = [child EXCEPT ![current] = IF logging THEN "hung" ELSE "recv"]
    /\ holders' = [holders EXCEPT ![current] = {"parent", "child"}]
    /\ parent' = "close"
    /\ UNCHANGED <<sockets, current, chunk, logging, pending, handling>>

ForkFails ==
    /\ parent = "fork"
    /\ CloseBy("parent", current)
    /\ parent' = "accept"
    /\ current' = None
    /\ UNCHANGED <<client, rcvd, replies, child, chunk, logging, pending, handling>>

ParentClose ==
    /\ parent = "close"
    /\ CloseBy("parent", current)
    /\ parent' = "reap"
    /\ current' = None
    /\ UNCHANGED <<client, rcvd, replies, child, chunk, logging, pending, handling>>

\* One round of a waitpid(-1, ..., WNOHANG) loop.
Reap == \E c \in Zombies : child' = [child EXCEPT ![c] = "reaped"]

ParentReap ==
    /\ parent = "reap"
    /\ \/ Reap /\ UNCHANGED parent
       \/ Zombies = {} /\ parent' = "accept" /\ UNCHANGED child
    /\ UNCHANGED <<sockets, current, chunk, holders, logging, pending, handling>>

\* SIGCHLD is delivered to whatever thread does not block it ...
Signal ==
    /\ pending /\ ~handling
    /\ pending' = FALSE
    /\ handling' = TRUE
    /\ UNCHANGED <<sockets, parent, current, child, chunk, holders, logging>>

\* Mutant of Handler: "if" in place of "while".
HandlerOnce ==
    /\ handling
    /\ Reap \/ (Zombies = {} /\ UNCHANGED child)
    /\ handling' = FALSE
    /\ UNCHANGED <<sockets, parent, current, chunk, holders, logging, pending>>

\* ... and sigchld_handler waits for every child that has ended.
Handler ==
    /\ handling
    /\ \/ Reap /\ UNCHANGED handling
       \/ Zombies = {} /\ handling' = FALSE /\ UNCHANGED child
    /\ UNCHANGED <<sockets, parent, current, chunk, holders, logging, pending>>

\* The logger thread takes the mutex and gives it back (AsyncLogger::worker).
LoggerLock ==
    /\ ~logging
    /\ logging' = TRUE
    /\ UNCHANGED <<sockets, parent, current, child, chunk, holders, pending, handling>>

LoggerUnlock ==
    /\ logging
    /\ logging' = FALSE
    /\ UNCHANGED <<sockets, parent, current, child, chunk, holders, pending, handling>>

-----------------------------------------------------------------------------
(* A child.                                                                *)

Go(c, s) == child' = [child EXCEPT ![c] = s]

\* One recv, of 2047 bytes at most; with nothing but an end of file handleRequest returns at once.
ChildReceive(c) ==
    /\ child[c] = "recv"
    /\ Readable(c)
    /\ chunk' = [chunk EXCEPT ![c] = Chunk(c)]
    /\ rcvd' = [rcvd EXCEPT ![c] = Chunk(c).to]
    /\ Go(c, IF sent[c] > rcvd[c] THEN "answer" ELSE "close")
    /\ UNCHANGED <<peer, client, replies, parent, current, holders, logging, pending, handling>>

ChildWaits(c) ==
    /\ child[c] = "answer" /\ Complete(chunk[c])
    /\ SendPart(c)
    /\ Go(c, "sending")
    /\ UNCHANGED <<peer, client, rcvd, inbox, parent, current, chunk, holders, logging, pending, handling>>

\* A chunk without the end of a header is not answered.
ChildAnswer(c) ==
    /\ child[c] \in {"answer", "sending"} /\ ~full[c]
    /\ inbox' = IF Complete(chunk[c]) THEN [inbox EXCEPT ![c] = @ \cup {chunk[c]}] ELSE inbox
    /\ Go(c, "close")
    /\ UNCHANGED <<peer, client, rcvd, full, parent, current, chunk, holders, logging, pending, handling>>

\* The child ends: the kernel closes what it has open and sends SIGCHLD.
Dies(c) ==
    /\ CloseBy("child", c)
    /\ Go(c, "zombie")
    /\ pending' = TRUE
    /\ UNCHANGED <<client, rcvd, replies, parent, current, chunk, logging, handling>>

\* send raises SIGPIPE if the client is gone, and ends this child only.
ChildKilled(c) ==
    /\ child[c] \in {"answer", "sending"} /\ Complete(chunk[c])
    /\ fin[c]
    /\ Dies(c)

\* handleRequest closes the descriptor, and startWithFork tries to once more.
ChildClose(c) ==
    /\ child[c] = "close"
    /\ CloseBy("child", c)
    /\ Go(c, "exit")
    /\ UNCHANGED <<client, rcvd, replies, parent, current, chunk, logging, pending, handling>>

\* exit(0) runs the destructors of the statics.  ~AsyncLogger joins a thread that
\* is not there, and its condition variable has a waiter in the parent's memory
\* image: undefined, and either it is of no consequence or the child stays.
ChildExit(c) ==
    /\ child[c] = "exit"
    /\ Dies(c)

ChildStays(c) ==
    /\ child[c] = "exit"
    /\ Go(c, "hung")
    /\ UNCHANGED <<sockets, parent, current, chunk, holders, logging, pending, handling>>

ChildStep(c) ==
    \/ ChildReceive(c) \/ ChildWaits(c) \/ ChildAnswer(c) \/ ChildKilled(c)
    \/ ChildClose(c) \/ ChildExit(c) \/ ChildStays(c)

ParentStep == ParentAccept \/ Fork \/ ForkFails \/ ParentClose \/ ParentReap

SignalStep == Signal \/ Handler

ForkNext ==
    \/ ParentStep \/ SignalStep
    \/ LoggerLock \/ LoggerUnlock
    \/ \E c \in Conns : ChildStep(c)

-----------------------------------------------------------------------------

\* A connection is open in at most its own child and, until the parent has gone
\* on, in the parent: when the child is done the client sees the end of it
\* (TcpServer.cpp:105-114, HttpHandler.cpp:250).
ForkHolders ==
    /\ SocketsTypeOK
    /\ \A c \in Conns :
          /\ "parent" \in holders[c] => current = c
          /\ "child" \in holders[c] => child[c] \in {"recv", "answer", "sending", "close", "hung"}
          /\ peer[c] = "open" <=> holders[c] # {}

\* Where this server does not answer: the fork failed, the child hangs on the
\* inherited lock, or it has answered a request already.
ForkExcused(c, k) == child[c] = "hung" \/ (child[c] = "none" /\ peer[c] = "closed") \/ k > 1
=============================================================================
