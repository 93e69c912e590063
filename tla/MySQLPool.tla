----------------------------- MODULE MySQLPool -----------------------------
(***************************************************************************)
(* MySQLPool (src/utils/MySQLPool.h, MySQLPool.cpp): the connections to    *)
(* MySQL, lent to the threads that call getConnection one at a time; and   *)
(* DB::query and DB::execute (src/db/DB.cpp) as the callers that use them. *)
(* Both borrow a connection, run one statement and give the connection     *)
(* back, except that they return at once when the statement fails.         *)
(*                                                                         *)
(* A critical section of _mtx is one step.  releaseConnection looks at     *)
(* _isClosed before it takes the mutex: that look is a step of its own.    *)
(* A waiting thread leaves cv.wait_for woken or with its five seconds      *)
(* over, and evaluates the predicate again either way.                     *)
(*                                                                         *)
(* Handles are identities; one that a failed ping replaces is never used   *)
(* again, so the number of Handles bounds the replacements and the times   *)
(* that init is called.                                                    *)
(***************************************************************************)
EXTENDS Integers, Sequences, FiniteSets

CONSTANTS
    Threads,
    Handles,     \* MYSQL objects ever allocated
    NoHandle,
    MaxConn      \* max_conn of init

ASSUME MySQLPoolAssumption ==
    /\ IsFiniteSet(Threads)
    /\ NoHandle \notin Handles
    /\ MaxConn \in Nat \ {0}

VARIABLES
    connQueue,   \* _connQueue
    isClosed,    \* _isClosed
    pool,        \* "new", or "ready": init was called, whether or not it threw
    at,          \* thread -> "idle", "waiting", "woken", "expired", "using",
                 \*           "releasing" (has seen the pool open)
    held,        \* thread -> the handle it was lent
    opened,      \* history: connections init has made, less those closePool closed
    forgotten,   \* history: handles let go of, neither returned nor closed
    status       \* handle -> "unborn", "live", "dropped" by the server,
                 \*           "unconnected", "closed" (mysql_close)

vars == <<connQueue, isClosed, pool, at, held, opened, forgotten, status>>

Idle == {connQueue[n] : n \in DOMAIN connQueue}
Lent == {held[t] : t \in Threads} \ {NoHandle}
Allocated == {h \in Handles : status[h] \notin {"unborn", "closed"}}
InState(s) == {t \in Threads : at[t] = s}

-----------------------------------------------------------------------------

Init ==
    /\ connQueue = <<>>
    /\ isClosed = FALSE
    /\ pool = "new"
    /\ at = [t \in Threads |-> "idle"]
    /\ held = [t \in Threads |-> NoHandle]
    /\ opened = 0
    /\ forgotten = {}
    /\ status = [h \in Handles |-> "unborn"]

\* init: MaxConn connections, or an exception at the first that cannot be made,
\* with those made before it left in the queue.  A closed pool is open again: what
\* was lent before may still come back to it.  Nobody calls it on an open pool.
InitPool ==
    /\ pool = "new" \/ isClosed
    /\ \E n \in 0 .. MaxConn : \E order \in [1 .. n -> {h \in Handles : status[h] = "unborn"}] :
          /\ \A i, j \in 1 .. n : order[i] = order[j] => i = j
          /\ connQueue' = connQueue \o order
          /\ status' = [h \in Handles |->
                           IF \E i \in 1 .. n : order[i] = h THEN "live" ELSE status[h]]
          /\ opened' = opened + n
    /\ isClosed' = FALSE
    /\ pool' = "ready"
    /\ UNCHANGED <<at, held, forgotten>>

\* The server drops a connection: its wait_timeout, a restart.
Drop(h) ==
    /\ status[h] = "live"
    /\ status' = [status EXCEPT ![h] = "dropped"]
    /\ UNCHANGED <<connQueue, isClosed, pool, opened, at, held, forgotten>>

MustWait == ~isClosed /\ connQueue = <<>>

\* Mutant of Refused: the closed flag is looked at only if nothing is idle.
RefusedIfEmpty == isClosed /\ connQueue = <<>>

Refused == isClosed

\* Mutant of Replaced: the handle just closed is returned.
NotReplaced(h, n) == n = h

\* Which handle stands in for h after a failed ping.
Replaced(h, n) == status[n] = "unborn"

Become(t, s) == at' = [at EXCEPT ![t] = s]

\* The rest of getConnection once its wait is over, in the same critical section.
Proceed(t) ==
    \/ /\ Refused
       /\ Become(t, "idle")
       /\ UNCHANGED <<connQueue, held, status>>
    \/ /\ ~Refused
       /\ connQueue # <<>>
       /\ Become(t, "using")
       /\ connQueue' = Tail(connQueue)
       /\ LET h == Head(connQueue)
          IN  \/ /\ status[h] = "live"
                 /\ held' = [held EXCEPT ![t] = h]
                 /\ UNCHANGED status
              \/ /\ status[h] # "live"
                 /\ \E n \in Handles : \E s \in {"live", "unconnected"} :
                       /\ Replaced(h, n)
                       /\ held' = [held EXCEPT ![t] = n]
                       /\ status' = IF n = h THEN [status EXCEPT ![h] = "closed"]
                                    ELSE [status EXCEPT ![h] = "closed", ![n] = s]

\* getConnection finds something at once, or a notified thread does.
Get(t) ==
    /\ pool = "ready"
    /\ at[t] \in {"idle", "woken"}
    /\ ~MustWait
    /\ Proceed(t)
    /\ UNCHANGED <<isClosed, pool, opened, forgotten>>

\* Nothing yet: sleep, or go back to sleep.
Wait(t) ==
    /\ pool = "ready"
    /\ at[t] \in {"idle", "woken"}
    /\ MustWait
    /\ Become(t, "waiting")
    /\ UNCHANGED <<connQueue, isClosed, pool, opened, held, forgotten, status>>

\* A spurious wakeup, or the five seconds are over.
SpuriousWake(t) ==
    /\ at[t] = "waiting"
    /\ Become(t, "woken")
    /\ UNCHANGED <<connQueue, isClosed, pool, opened, held, forgotten, status>>

Expire(t) ==
    /\ at[t] = "waiting"
    /\ Become(t, "expired")
    /\ UNCHANGED <<connQueue, isClosed, pool, opened, held, forgotten, status>>

\* Mutant of LastLook: the front is popped, and nullptr returned all the same.
LastLookLosing(t) ==
    /\ at[t] = "expired"
    /\ Become(t, "idle")
    /\ connQueue' = IF connQueue = <<>> THEN <<>> ELSE Tail(connQueue)
    /\ UNCHANGED <<isClosed, pool, opened, held, forgotten, status>>

\* wait_for still evaluates the predicate: a late notification is not wasted.
LastLook(t) ==
    /\ at[t] = "expired"
    /\ \/ MustWait /\ Become(t, "idle") /\ UNCHANGED <<connQueue, held, status>>
       \/ ~MustWait /\ Proceed(t)
    /\ UNCHANGED <<isClosed, pool, opened, forgotten>>

\* The thread lets go of its handle, and nobody else knows of it.
Forget(t) ==
    /\ at[t] = "using"
    /\ Become(t, "idle")
    /\ held' = [held EXCEPT ![t] = NoHandle]
    /\ forgotten' = forgotten \cup {held[t]}
    /\ UNCHANGED <<connQueue, isClosed, pool, opened, status>>

\* mysql_query fails in DB::query or DB::execute: logged, and the handle is forgotten,
\* for good: nothing else gives it back.
QueryFails(t) == Forget(t)

\* releaseConnection on a closed pool returns without closing the handle.
ReleaseToClosed(t) == isClosed /\ Forget(t)

ReleaseCheck(t) ==
    /\ at[t] = "using"
    /\ ~isClosed
    /\ Become(t, "releasing")
    /\ UNCHANGED <<connQueue, isClosed, pool, opened, held, forgotten, status>>

\* Mutant of Woken: the notification is forgotten.
WokenNone == {{}}

\* notify_one, under the mutex: one waiting thread, if there is one.
Woken == IF InState("waiting") = {} THEN {{}} ELSE {{t} : t \in InState("waiting")}

\* Mutant of HandsOver: the caller goes on using what it has released.
KeepsUsing(t) == held

HandsOver(t) == [held EXCEPT ![t] = NoHandle]

Release(t) ==
    /\ at[t] = "releasing"
    /\ connQueue' = Append(connQueue, held[t])
    /\ held' = HandsOver(t)
    /\ \E W \in Woken :
          at' = [u \in Threads |-> IF u = t THEN "idle"
                                   ELSE IF u \in W THEN "woken" ELSE at[u]]
    /\ UNCHANGED <<isClosed, pool, opened, forgotten, status>>

\* Mutant of ToWake: notify_one in closePool.
OneToWake ==
    IF InState("waiting") = {} THEN {} ELSE {CHOOSE t \in InState("waiting") : TRUE}

ToWake == InState("waiting")

\* closePool closes what is idle, not what is lent.  DB::close and the pool's
\* destructor call it.
ClosePool ==
    /\ isClosed' = TRUE
    /\ status' = [h \in Handles |-> IF h \in Idle THEN "closed" ELSE status[h]]
    /\ connQueue' = <<>>
    /\ opened' = opened - Len(connQueue)
    /\ at' = [t \in Threads |-> IF t \in ToWake THEN "woken" ELSE at[t]]
    /\ UNCHANGED <<pool, held, forgotten>>

ThreadStep(t) ==
    \/ at[t] # "idle" /\ (Get(t) \/ Wait(t))
    \/ LastLook(t)
    \/ ReleaseToClosed(t) \/ ReleaseCheck(t) \/ Release(t)

Next ==
    \/ InitPool
    \/ \E h \in Handles : Drop(h)
    \/ \E t \in Threads : Get(t) \/ Wait(t) \/ SpuriousWake(t) \/ Expire(t)
    \/ \E t \in Threads : LastLook(t) \/ ReleaseToClosed(t) \/ ReleaseCheck(t) \/ Release(t)
    \/ \E t \in Threads : QueryFails(t)
    \/ ClosePool

\* A thread that is in a call, or has a connection, goes on; nobody has to start
\* a call, and neither the passing of five seconds nor the failure of a statement is
\* counted on.
Spec == Init /\ [][Next]_vars /\ \A t \in Threads : WF_vars(ThreadStep(t))

-----------------------------------------------------------------------------

\* Every variable has its type; a thread has a handle exactly while it uses or
\* returns one.  CapacityKept says that opened is never below 0.
TypeOK ==
    /\ connQueue \in Seq(Handles)
    /\ isClosed \in BOOLEAN
    /\ pool \in {"new", "ready"}
    /\ opened \in Int
    /\ at \in [Threads -> {"idle", "waiting", "woken", "expired", "using", "releasing"}]
    /\ held \in [Threads -> Handles \cup {NoHandle}]
    /\ \A t \in Threads : at[t] \in {"using", "releasing"} <=> held[t] # NoHandle
    /\ forgotten \subseteq Handles
    /\ status \in [Handles -> {"unborn", "live", "dropped", "unconnected", "closed"}]

\* A connection is used by one thread at a time: it is once in the queue, or
\* lent to one thread, and never both.
LentOnce ==
    /\ \A m, n \in DOMAIN connQueue : connQueue[m] = connQueue[n] => m = n
    /\ \A t, u \in Threads : held[t] = held[u] /\ held[t] # NoHandle => t = u
    /\ Idle \cap Lent = {}

\* Nobody can reach a MYSQL object that mysql_close has freed, whatever the
\* order of pings, reconnections, late releases and closePool.
NoFreedHandle == \A h \in Idle \cup Lent : status[h] \in {"live", "dropped", "unconnected"}

\* While a thread waits, every idle connection has a thread on its way to it:
\* no notification is lost, not even to a thread whose time has just run out.
NoIdleConnectionWhileWaiting ==
    InState("waiting") # {} =>
        Len(connQueue) <= Cardinality(InState("woken") \cup InState("expired"))

\* A closed pool lends nothing until init opens it again, although a release that
\* raced with closePool may have put a connection back into its queue.
NothingLentAfterClose ==
    [][isClosed => \A t \in Threads : held[t] = NoHandle => held'[t] = NoHandle]_vars

\* The connections are accounted for.  Every one that is open is idle, lent or
\* forgotten on one of the two paths that forget; and these are exactly as many as
\* the calls of init made, less those that closePool closed, through timeouts that
\* race with releases, replacements of dropped connections, late wakeups and releases
\* that come after the pool was closed, or opened again.
CapacityKept ==
    /\ Allocated = Idle \cup Lent \cup forgotten
    /\ (Idle \cup Lent) \cap forgotten = {}
    /\ Cardinality(Allocated) = opened

\* closePool sends every waiting thread away, without their having to time out, if
\* init does not open the pool again before they have looked.
CloseWakesWaiters ==
    isClosed ~> ~isClosed \/ \A t \in Threads : at[t] \notin {"waiting", "woken"}
=============================================================================
