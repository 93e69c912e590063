----------------------------- MODULE ThreadPool -----------------------------
(***************************************************************************)
(* ThreadPool (src/utils/ThreadPool.h, ThreadPool.cpp): the threads that   *)
(* run every request handler, the queue they share with the event loop,    *)
(* and stop(), which the destructor calls too.                             *)
(*                                                                         *)
(* A critical section of mtx is one step: no thread gives the mutex up in  *)
(* the middle of one except by cv.wait, which is where a worker's section  *)
(* ends.  The two notifications are made after the mutex is released, so   *)
(* the pushed-but-not-yet-notified instant is a state of the model.        *)
(***************************************************************************)
EXTENDS Naturals, Sequences, FiniteSets

CONSTANTS
    Workers,    \* the threads the constructor creates
    Clients,    \* the threads that call enqueue
    Tasks,      \* the closures enqueued; each one once
    NoTask      \* the empty std::function a worker starts its loop with

ASSUME PoolAssumption ==
    /\ Workers # {}
    /\ IsFiniteSet(Workers)
    /\ IsFiniteSet(Clients)
    /\ NoTask \notin Tasks

VARIABLES
    tasks,      \* the queue
    stopflag,
    at,         \* worker -> "ready" (about to lock mtx), "waiting" in cv.wait,
                \*           "running" a task, "exited"
    held,       \* worker -> the task it runs
    client,     \* client -> "idle", or "pushed": it still owes its notify_one
    stopper,    \* the thread in stop(): "idle", "flagged", "joining", "stopped"
    accepted,   \* history: tasks pushed before stopflag was set
    done        \* history: tasks executed

vars == <<tasks, stopflag, at, held, client, stopper, accepted, done>>

InState(s) == {w \in Workers : at[w] = s}
Owing == {c \in Clients : client[c] = "pushed"}
Queued == {tasks[i] : i \in DOMAIN tasks}
Held == {held[w] : w \in Workers} \ {NoTask}

-----------------------------------------------------------------------------

Init ==
    /\ tasks = <<>>
    /\ stopflag = FALSE
    /\ at = [w \in Workers |-> "ready"]
    /\ held = [w \in Workers |-> NoTask]
    /\ client = [c \in Clients |-> "idle"]
    /\ stopper = "idle"
    /\ accepted = {}
    /\ done = {}

\* Mutants of Push: never notify; notify only when the queue was empty.
PushSilently(c, t) ==
    /\ client[c] = "idle"
    /\ t \notin Queued \cup Held \cup done
    /\ tasks' = Append(tasks, t)
    /\ accepted' = IF stopflag THEN accepted ELSE accepted \cup {t}
    /\ UNCHANGED <<stopflag, at, held, client, stopper, done>>

PushNotifyingIfEmpty(c, t) ==
    /\ client[c] = "idle"
    /\ t \notin Queued \cup Held \cup done
    /\ tasks' = Append(tasks, t)
    /\ accepted' = IF stopflag THEN accepted ELSE accepted \cup {t}
    /\ client' = [client EXCEPT ![c] = IF tasks = <<>> THEN "pushed" ELSE "idle"]
    /\ UNCHANGED <<stopflag, at, held, stopper, done>>

\* The locked half of enqueue.  Nothing refuses a task after stop.
Push(c, t) ==
    /\ client[c] = "idle"
    /\ t \notin Queued \cup Held \cup done
    /\ tasks' = Append(tasks, t)
    /\ accepted' = IF stopflag THEN accepted ELSE accepted \cup {t}
    /\ client' = [client EXCEPT ![c] = "pushed"]
    /\ UNCHANGED <<stopflag, at, held, stopper, done>>

\* The workers one notify_one may wake: any one of those asleep, or nobody.
Woken == IF InState("waiting") = {} THEN {{}} ELSE {{w} : w \in InState("waiting")}

\* The other half: cv.notify_one() with the mutex released.
NotifyOne(c) ==
    /\ client[c] = "pushed"
    /\ \E W \in Woken :
          at' = [w \in Workers |-> IF w \in W THEN "ready" ELSE at[w]]
    /\ client' = [client EXCEPT ![c] = "idle"]
    /\ UNCHANGED <<tasks, stopflag, held, stopper, accepted, done>>

\* What a worker's cv.wait waits for, and what makes it leave its loop.
WaitOver == stopflag \/ tasks # <<>>
MayExit == stopflag /\ tasks = <<>>

Sleep(w) ==
    /\ at[w] = "ready"
    /\ ~WaitOver
    /\ at' = [at EXCEPT ![w] = "waiting"]
    /\ UNCHANGED <<tasks, stopflag, held, client, stopper, accepted, done>>

Exit(w) ==
    /\ at[w] = "ready"
    /\ WaitOver
    /\ MayExit
    /\ at' = [at EXCEPT ![w] = "exited"]
    /\ UNCHANGED <<tasks, stopflag, held, client, stopper, accepted, done>>

\* Mutant of Take: the newest task is taken.
TakeNewest(w) ==
    /\ at[w] = "ready"
    /\ WaitOver
    /\ ~MayExit
    /\ held' = [held EXCEPT ![w] = tasks[Len(tasks)]]
    /\ tasks' = SubSeq(tasks, 1, Len(tasks) - 1)
    /\ at' = [at EXCEPT ![w] = "running"]
    /\ UNCHANGED <<stopflag, client, stopper, accepted, done>>


Take(w) ==
    /\ at[w] = "ready"
    /\ WaitOver
    /\ ~MayExit
    /\ held' = [held EXCEPT ![w] = Head(tasks)]
    /\ tasks' = Tail(tasks)
    /\ at' = [at EXCEPT ![w] = "running"]
    /\ UNCHANGED <<stopflag, client, stopper, accepted, done>>

\* Mutant of Finish: the worker keeps the closure it has run.
FinishKeepingTask(w) ==
    /\ at[w] = "running"
    /\ done' = done \cup {held[w]}
    /\ at' = [at EXCEPT ![w] = "ready"]
    /\ UNCHANGED <<tasks, stopflag, held, client, stopper, accepted>>

\* task() returns and the worker goes round its loop.
Finish(w) ==
    /\ at[w] = "running"
    /\ done' = done \cup {held[w]}
    /\ held' = [held EXCEPT ![w] = NoTask]
    /\ at' = [at EXCEPT ![w] = "ready"]
    /\ UNCHANGED <<tasks, stopflag, client, stopper, accepted>>

\* A condition variable may wake a thread nobody notified.
SpuriousWake(w) ==
    /\ at[w] = "waiting"
    /\ at' = [at EXCEPT ![w] = "ready"]
    /\ UNCHANGED <<tasks, stopflag, held, client, stopper, accepted, done>>

\* stop(): by hand, and again from the destructor.
SetStop ==
    /\ stopper \in {"idle", "stopped"}
    /\ stopflag' = TRUE
    /\ stopper' = "flagged"
    /\ UNCHANGED <<tasks, at, held, client, accepted, done>>

\* Mutant of NotifyAll: notify_one, which wakes one worker of several.
NotifyJustOne ==
    /\ stopper = "flagged"
    /\ \E W \in Woken :
          at' = [w \in Workers |-> IF w \in W THEN "ready" ELSE at[w]]
    /\ stopper' = "joining"
    /\ UNCHANGED <<tasks, stopflag, held, client, accepted, done>>


NotifyAll ==
    /\ stopper = "flagged"
    /\ at' = [w \in Workers |-> IF at[w] = "waiting" THEN "ready" ELSE at[w]]
    /\ stopper' = "joining"
    /\ UNCHANGED <<tasks, stopflag, held, client, accepted, done>>

\* The last join has returned.
Joined ==
    /\ stopper = "joining"
    /\ InState("exited") = Workers
    /\ stopper' = "stopped"
    /\ UNCHANGED <<tasks, stopflag, at, held, client, accepted, done>>

WorkerStep(w) == Sleep(w) \/ Exit(w) \/ Take(w) \/ Finish(w)
StopStep == NotifyAll \/ Joined

Next ==
    \/ \E c \in Clients : NotifyOne(c) \/ \E t \in Tasks : Push(c, t)
    \/ \E w \in Workers : WorkerStep(w) \/ SpuriousWake(w)
    \/ SetStop
    \/ StopStep

\* The scheduler runs every thread that can run, and every task returns.
\* Nobody has to call enqueue or stop, and no spurious wakeup may be counted on.
Fairness ==
    /\ \A w \in Workers : WF_vars(WorkerStep(w))
    /\ \A c \in Clients : WF_vars(NotifyOne(c))
    /\ WF_vars(StopStep)

Spec == Init /\ [][Next]_vars /\ Fairness

-----------------------------------------------------------------------------

\* Every variable has its type, and the threads' states go together.
TypeOK ==
    /\ tasks \in Seq(Tasks)
    /\ stopflag \in BOOLEAN
    /\ at \in [Workers -> {"ready", "waiting", "running", "exited"}]
    /\ held \in [Workers -> Tasks \cup {NoTask}]
    /\ \A w \in Workers : at[w] = "running" <=> held[w] # NoTask
    /\ client \in [Clients -> {"idle", "pushed"}]
    /\ stopper \in {"idle", "flagged", "joining", "stopped"}
    /\ accepted \subseteq Tasks
    /\ done \subseteq Tasks

\* A closure runs at most once: a task is in one place of the queue, or in the
\* hands of one worker, or executed, and never in two of these.
RunsOnce ==
    /\ \A i, j \in DOMAIN tasks : tasks[i] = tasks[j] => i = j
    /\ \A v, w \in Workers : held[v] = held[w] /\ held[v] # NoTask => v = w
    /\ Queued \cap Held = {}
    /\ Queued \cap done = {}
    /\ Held \cap done = {}

\* When stop() has joined the workers, every task pushed before it was called
\* has been executed: stop drains the queue, it does not drop it.
StopDrains == stopper = "stopped" => accepted \subseteq done

\* No lost wakeup: while some worker sleeps, each queued task has a worker
\* already on its way to the mutex or a notify_one still to come, although
\* enqueue notifies only after it has released the mutex.
NoLostWakeup ==
    InState("waiting") # {} =>
        Len(tasks) <= Cardinality(InState("ready")) + Cardinality(Owing)

\* Every task pushed before stop is executed, whatever the order of pushes,
\* notifications, sleeps and the call of stop.
AcceptedTasksRun == \A t \in Tasks : t \in accepted ~> t \in done

\* stop() returns: no worker sleeps through the notify_all.
StopReturns == stopper = "flagged" ~> stopper = "stopped"

-----------------------------------------------------------------------------

Phase ==
    IF ~stopflag THEN "open"
    ELSE IF InState("exited") = Workers THEN "closed"
    ELSE "closing"

Promise == INSTANCE TaskPool WITH
    Width <- Cardinality(Workers),
    pending <- tasks,
    running <- Held,
    promised <- accepted,
    phase <- Phase

\* The pool keeps the promise of TaskPool: FIFO start, no more tasks at once
\* than threads, and closed only when every promised task is executed.
ImplementsTaskPool == Promise!Spec
=============================================================================
