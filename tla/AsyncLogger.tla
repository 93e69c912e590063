---------------------------- MODULE AsyncLogger ----------------------------
(***************************************************************************)
(* AsyncLogger (src/utils/Logger.h, Logger.cpp): any thread logs, one      *)
(* background thread writes, and stop() (the destructor's too) flushes.    *)
(*                                                                         *)
(* stop_flag_ is an atomic read and written without queue_mutex_, so what  *)
(* a thread does about it and what it does under the mutex are separate    *)
(* steps.  In particular the worker evaluates cv_.wait's predicate and     *)
(* then blocks, still holding the mutex: that instant is the state         *)
(* "deciding".  Every other critical section is one step.                  *)
(*                                                                         *)
(* Bound: each producer logs MaxLogs messages.                             *)
(***************************************************************************)
EXTENDS Naturals, Sequences, FiniteSets

CONSTANTS
    Producers,   \* threads that call log()
    MaxLogs,     \* messages each of them logs
    NoMsg

ASSUME LoggerAssumption ==
    /\ MaxLogs \in Nat
    /\ NoMsg \notin Producers \X Nat

VARIABLES
    log_queue,
    stop_flag,
    worker,      \* "top" of its loop, "locking", "deciding", "waiting",
                 \*   "writing", "exited"
    hand,        \* the message the worker has popped
    producer,    \* producer -> "idle", "checked" (not stopped), "pushed"
    logs,        \* producer -> calls of log() begun
    log_stopper, \* "idle", "flagged", "joining", "draining", "writing", "returned"
    spare,       \* the message stop() has popped
    pushed,      \* history: messages in the order they entered the queue
    written,     \* history: messages in the order writeOne was given them
    due          \* history: how many had been pushed when stop() returned

loggerVars == <<log_queue, stop_flag, worker, hand, producer, logs, log_stopper, spare,
                pushed, written, due>>

Messages == Producers \X (1 .. MaxLogs)
MutexFree == worker # "deciding"
One(m) == IF m = NoMsg THEN <<>> ELSE <<m>>

-----------------------------------------------------------------------------

LoggerInit ==
    /\ log_queue = <<>>
    /\ stop_flag = FALSE
    /\ worker = "top"
    /\ hand = NoMsg
    /\ producer = [p \in Producers |-> "idle"]
    /\ logs = [p \in Producers |-> 0]
    /\ log_stopper = "idle"
    /\ spare = NoMsg
    /\ pushed = <<>>
    /\ written = <<>>
    /\ due = 0

(* log() *)

\* The unlocked look at stop_flag_; a stopped logger ignores the message.
Log(p) ==
    /\ producer[p] = "idle"
    /\ logs[p] < MaxLogs
    /\ logs' = [logs EXCEPT ![p] = @ + 1]
    /\ producer' = [producer EXCEPT ![p] = IF stop_flag THEN "idle" ELSE "checked"]
    /\ UNCHANGED <<log_queue, stop_flag, worker, hand, log_stopper, spare, pushed, written, due>>

PushLog(p) ==
    /\ producer[p] = "checked"
    /\ MutexFree
    /\ log_queue' = Append(log_queue, <<p, logs[p]>>)
    /\ pushed' = Append(pushed, <<p, logs[p]>>)
    /\ producer' = [producer EXCEPT ![p] = "pushed"]
    /\ UNCHANGED <<stop_flag, worker, hand, logs, log_stopper, spare, written, due>>

\* Mutant of WakeWorker: the notification is forgotten.
WakeNobody == worker

\* cv_.notify_one(): the worker is the only thread that ever waits.
WakeWorker == IF worker = "waiting" THEN "locking" ELSE worker

Notify(p) ==
    /\ producer[p] = "pushed"
    /\ worker' = WakeWorker
    /\ producer' = [producer EXCEPT ![p] = "idle"]
    /\ UNCHANGED <<log_queue, stop_flag, hand, logs, log_stopper, spare, pushed, written, due>>

(* worker() *)

\* The loop condition, which reads the queue without the mutex.
Top ==
    /\ worker = "top"
    /\ worker' = IF ~stop_flag \/ log_queue # <<>> THEN "locking" ELSE "exited"
    /\ UNCHANGED <<log_queue, stop_flag, hand, producer, logs, log_stopper, spare, pushed, written, due>>

\* The predicate is false: the worker is about to block.
Decide ==
    /\ worker = "locking"
    /\ log_queue = <<>> /\ ~stop_flag
    /\ worker' = "deciding"
    /\ UNCHANGED <<log_queue, stop_flag, hand, producer, logs, log_stopper, spare, pushed, written, due>>

Block ==
    /\ worker = "deciding"
    /\ worker' = "waiting"
    /\ UNCHANGED <<log_queue, stop_flag, hand, producer, logs, log_stopper, spare, pushed, written, due>>

WorkerSpuriousWake ==
    /\ worker = "waiting"
    /\ worker' = "locking"
    /\ UNCHANGED <<log_queue, stop_flag, hand, producer, logs, log_stopper, spare, pushed, written, due>>

Break ==
    /\ worker = "locking"
    /\ log_queue = <<>> /\ stop_flag
    /\ worker' = "exited"
    /\ UNCHANGED <<log_queue, stop_flag, hand, producer, logs, log_stopper, spare, pushed, written, due>>

\* Mutant of Pop: the front is moved from but not popped.
PopForgotten == log_queue

Pop == Tail(log_queue)

TakeLog ==
    /\ worker = "locking"
    /\ log_queue # <<>>
    /\ hand' = Head(log_queue)
    /\ log_queue' = Pop
    /\ worker' = "writing"
    /\ UNCHANGED <<stop_flag, producer, logs, log_stopper, spare, pushed, written, due>>

Write ==
    /\ worker = "writing"
    /\ written' = Append(written, hand)
    /\ hand' = NoMsg
    /\ worker' = "top"
    /\ UNCHANGED <<log_queue, stop_flag, producer, logs, log_stopper, spare, pushed, due>>

(* stop(), called once: by hand or by the destructor *)

SetFlag ==
    /\ log_stopper = "idle"
    /\ stop_flag' = TRUE
    /\ log_stopper' = "flagged"
    /\ UNCHANGED <<log_queue, worker, hand, producer, logs, spare, pushed, written, due>>

StopNotify ==
    /\ log_stopper = "flagged"
    /\ worker' = WakeWorker
    /\ log_stopper' = "joining"
    /\ UNCHANGED <<log_queue, stop_flag, hand, producer, logs, spare, pushed, written, due>>

\* Mutant of WorkerGone: the drain does not wait for the join.
NoJoin == TRUE

WorkerGone == worker = "exited"

Join ==
    /\ log_stopper = "joining"
    /\ WorkerGone
    /\ log_stopper' = "draining"
    /\ UNCHANGED <<log_queue, stop_flag, worker, hand, producer, logs, spare, pushed, written, due>>

\* The drain pops with the mutex held and writes with it released.
Drain ==
    /\ log_stopper = "draining"
    /\ MutexFree
    /\ log_queue # <<>>
    /\ spare' = Head(log_queue)
    /\ log_queue' = Tail(log_queue)
    /\ log_stopper' = "writing"
    /\ UNCHANGED <<stop_flag, worker, hand, producer, logs, pushed, written, due>>

DrainWrite ==
    /\ log_stopper = "writing"
    /\ written' = Append(written, spare)
    /\ spare' = NoMsg
    /\ log_stopper' = "draining"
    /\ UNCHANGED <<log_queue, stop_flag, worker, hand, producer, logs, pushed, due>>

\* Mutant of NothingLeft: stop() without the drain loop.
NoDrain == TRUE

NothingLeft == log_queue = <<>>

Return ==
    /\ log_stopper = "draining"
    /\ MutexFree
    /\ NothingLeft
    /\ log_stopper' = "returned"
    /\ due' = Len(pushed)
    /\ UNCHANGED <<log_queue, stop_flag, worker, hand, producer, logs, spare, pushed, written>>

LoggerWorkerStep == Top \/ Decide \/ Block \/ Break \/ TakeLog \/ Write
LoggerStopStep == StopNotify \/ Join \/ Drain \/ DrainWrite \/ Return

LoggerNext ==
    \/ \E p \in Producers : Log(p) \/ PushLog(p) \/ Notify(p)
    \/ LoggerWorkerStep
    \/ WorkerSpuriousWake
    \/ SetFlag
    \/ LoggerStopStep

\* Threads that can run do; nobody has to log or to call stop().
LoggerSpec ==
    /\ LoggerInit /\ [][LoggerNext]_loggerVars
    /\ \A p \in Producers : WF_loggerVars(PushLog(p)) /\ WF_loggerVars(Notify(p))
    /\ WF_loggerVars(LoggerWorkerStep)
    /\ WF_loggerVars(LoggerStopStep)

-----------------------------------------------------------------------------

\* Every variable has its type; a thread holds a message exactly while it
\* writes, and a producer in the middle of log() has something to push.
LoggerTypeOK ==
    /\ log_queue \in Seq(Messages)
    /\ stop_flag \in BOOLEAN
    /\ worker \in {"top", "locking", "deciding", "waiting", "writing", "exited"}
    /\ hand \in Messages \cup {NoMsg}
    /\ worker = "writing" <=> hand # NoMsg
    /\ producer \in [Producers -> {"idle", "checked", "pushed"}]
    /\ logs \in [Producers -> 0 .. MaxLogs]
    /\ \A p \in Producers : producer[p] # "idle" => logs[p] > 0
    /\ log_stopper \in {"idle", "flagged", "joining", "draining", "writing", "returned"}
    /\ spare \in Messages \cup {NoMsg}
    /\ log_stopper = "writing" <=> spare # NoMsg
    /\ pushed \in Seq(Messages)
    /\ written \in Seq(Messages)
    /\ due \in Nat

\* The file shows the messages in the order they were queued, each once, and
\* none is skipped, across the hand-over from the worker to stop()'s drain.
LogInOrder == pushed = written \o One(hand) \o One(spare) \o log_queue

\* When stop() returns, all that had been queued by then has been written, the
\* messages queued after the worker's last look at the queue included.  (A
\* producer that passed the look at stop_flag_ in time can still push later;
\* that message stays in the queue, and due does not count it.)
StopFlushes == log_stopper = "returned" => Len(written) >= due

\* log_file_, which writeOne uses without the mutex, has one user at a time.
OneWriter == ~(worker = "writing" /\ log_stopper = "writing")

\* Without stop(), every queued message is written: no push goes unnoticed by
\* a sleeping worker.
MessagesWritten ==
    \A m \in Messages :
        (\E n \in DOMAIN pushed : pushed[n] = m) ~>
            (\E n \in DOMAIN written : written[n] = m) \/ stop_flag

\* stop() wakes the worker and returns.  Does NOT hold: the flag is set and the
\* notification made without the mutex, and both can fall between the worker's
\* look at the flag and its going to sleep.
LoggerStopReturns == log_stopper = "flagged" ~> log_stopper = "returned"
=============================================================================
