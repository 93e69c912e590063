------------------------------ MODULE MCUtils ------------------------------
(***************************************************************************)
(* The three parts of src/utils the other modules rest on, in one run:     *)
(* the thread pool with two workers and two callers sharing three tasks;   *)
(* the logger with two logging threads and two messages from each; and the *)
(* LRU cache with four keys and two values in three places, so that nodes  *)
(* of the head, the middle and the tail are moved and memory is reused.    *)
(*                                                                         *)
(* They share no variable, and the only call from one to another is that   *)
(* the pool logs when it has been made and when it has stopped.  A         *)
(* behaviour in which one of them moves, and which one is left open, is    *)
(* all there is to see of the three.                                       *)
(***************************************************************************)
EXTENDS ThreadPool, AsyncLogger, LRUCache

CONSTANTS
    w1, w2, c1, c2, t1, t2, t3,
    p1, p2,
    k1, k2, k3, k4, v1, v2, n1, n2, n3, n4

MCWorkers == {w1, w2}
MCClients == {c1, c2}
MCTasks == {t1, t2, t3}
MCProducers == {p1, p2}
MCKeys == {k1, k2, k3, k4}
MCValues == {v1, v2}
MCNodes == {n1, n2, n3, n4}

VARIABLE active    \* the part that moves

utilsVars == <<active, vars, loggerVars, cacheVars>>

InPool(A) == active = "pool" /\ A /\ UNCHANGED <<active, loggerVars, cacheVars>>
InLogger(A) == active = "logger" /\ A /\ UNCHANGED <<active, vars, cacheVars>>
InCache(A) == active = "cache" /\ A /\ UNCHANGED <<active, vars, loggerVars>>

UtilsInit ==
    /\ active \in {"pool", "logger", "cache"}
    /\ Init /\ LoggerInit /\ CacheInit

UtilsNext == InPool(Next) \/ InLogger(LoggerNext) \/ InCache(CacheNext)

\* Each part keeps the fairness of its own specification.
UtilsFairness ==
    /\ \A w \in Workers : WF_utilsVars(InPool(WorkerStep(w)))
    /\ \A c \in Clients : WF_utilsVars(InPool(NotifyOne(c)))
    /\ WF_utilsVars(InPool(StopStep))
    /\ \A p \in Producers :
          WF_utilsVars(InLogger(PushLog(p))) /\ WF_utilsVars(InLogger(Notify(p)))
    /\ WF_utilsVars(InLogger(LoggerWorkerStep))
    /\ WF_utilsVars(InLogger(LoggerStopStep))

UtilsSpec == UtilsInit /\ [][UtilsNext]_utilsVars /\ UtilsFairness
=============================================================================
