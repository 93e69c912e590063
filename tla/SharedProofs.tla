---------------------------- MODULE SharedProofs ----------------------------
(***************************************************************************)
(* Proofs about the three objects that the threads of the program share:   *)
(* the asynchronous logger, for any producers and messages; the pool of    *)
(* MySQL connections under DB::query and DB::execute, for any finite set   *)
(* of threads, any set of handles and any pool size, with every drop,      *)
(* timeout, failure and late release; and the LRU cache, for any keys,     *)
(* values, memory and capacity.                                            *)
(***************************************************************************)
EXTENDS AsyncLogger, MySQLPool, LRUCache, QueueLemmas

-----------------------------------------------------------------------------
(* The logger: type correctness.                                           *)

\* A message held by a thread is never the empty hand.
LEMMA NoMsgIsNoMessage == NoMsg \notin Messages
BY LoggerAssumption DEF Messages

\* Every reachable state of the logger is of the expected shape, and a thread
\* holds a message exactly while it writes it.
THEOREM LoggerTypeCorrect == LoggerSpec => []LoggerTypeOK
<1>1. LoggerInit => LoggerTypeOK
  <2> SUFFICES ASSUME LoggerInit PROVE LoggerTypeOK
    OBVIOUS
  <2>1. /\ log_queue \in Seq(Messages)
        /\ pushed \in Seq(Messages)
        /\ written \in Seq(Messages)
    BY DEF LoggerInit
  <2>2. /\ producer \in [Producers -> {"idle", "checked", "pushed"}]
        /\ logs \in [Producers -> 0 .. MaxLogs]
        /\ \A p \in Producers : producer[p] = "idle"
    BY LoggerAssumption DEF LoggerInit
  <2> QED BY <2>1, <2>2 DEF LoggerInit, LoggerTypeOK
<1>2. LoggerTypeOK /\ [LoggerNext]_loggerVars => LoggerTypeOK'
  <2> SUFFICES ASSUME LoggerTypeOK, [LoggerNext]_loggerVars PROVE LoggerTypeOK'
    OBVIOUS
  <2> USE DEF LoggerTypeOK
  <2>1. ASSUME NEW p \in Producers, Log(p) PROVE LoggerTypeOK'
    BY <2>1, LoggerAssumption DEF Log
  <2>2. ASSUME NEW p \in Producers, PushLog(p) PROVE LoggerTypeOK'
    <3>1. <<p, logs[p]>> \in Messages
      <4>1. logs[p] \in 0 .. MaxLogs /\ logs[p] > 0
        BY <2>2 DEF PushLog
      <4> HIDE DEF LoggerTypeOK
      <4>2. logs[p] \in 1 .. MaxLogs
        BY <4>1, LoggerAssumption
      <4> QED BY <4>2 DEF Messages
    <3>2. log_queue' \in Seq(Messages) /\ pushed' \in Seq(Messages)
      BY <2>2, <3>1, AppendProperties DEF PushLog
    <3> QED BY <2>2, <3>2 DEF PushLog
  <2>3. ASSUME NEW p \in Producers, Notify(p) PROVE LoggerTypeOK'
    BY <2>3 DEF Notify, WakeWorker
  <2>4. CASE Top
    BY <2>4 DEF Top
  <2>5. CASE Decide
    BY <2>5 DEF Decide
  <2>6. CASE Block
    BY <2>6 DEF Block
  <2>7. CASE Break
    BY <2>7 DEF Break
  <2>8. CASE TakeLog
    <3>1. Head(log_queue) \in Messages /\ Tail(log_queue) \in Seq(Messages)
      BY <2>8, HeadTailProperties DEF TakeLog
    <3> QED BY <2>8, <3>1, NoMsgIsNoMessage DEF TakeLog, Pop
  <2>9. CASE Write
    BY <2>9, NoMsgIsNoMessage DEF Write
  <2>10. CASE WorkerSpuriousWake
    BY <2>10 DEF WorkerSpuriousWake
  <2>11. CASE SetFlag
    BY <2>11 DEF SetFlag
  <2>12. CASE StopNotify
    BY <2>12 DEF StopNotify, WakeWorker
  <2>13. CASE Join
    BY <2>13 DEF Join
  <2>14. CASE Drain
    <3>1. Head(log_queue) \in Messages /\ Tail(log_queue) \in Seq(Messages)
      BY <2>14, HeadTailProperties DEF Drain
    <3> QED BY <2>14, <3>1, NoMsgIsNoMessage DEF Drain
  <2>15. CASE DrainWrite
    BY <2>15, NoMsgIsNoMessage DEF DrainWrite
  <2>16. CASE Return
    BY <2>16 DEF Return
  <2>17. CASE UNCHANGED loggerVars
    BY <2>17 DEF loggerVars
  <2> QED BY <2>1, <2>2, <2>3, <2>4, <2>5, <2>6, <2>7, <2>8, <2>9, <2>10, <2>11,
             <2>12, <2>13, <2>14, <2>15, <2>16, <2>17
          DEF LoggerNext, LoggerWorkerStep, LoggerStopStep
<1> QED BY <1>1, <1>2, PTL DEF LoggerSpec

-----------------------------------------------------------------------------
(* The logger: the hand-over from the worker to stop().                    *)

\* Past the join, the worker has left its loop.
HandedOver == log_stopper \in {"draining", "writing", "returned"} => worker = "exited"

\* The join is what keeps the worker out while stop() drains, and nothing wakes
\* a worker that has left.
LEMMA HandedOverInvariant == LoggerSpec => []HandedOver
<1>1. LoggerInit => HandedOver
  BY DEF LoggerInit, HandedOver
<1>2. HandedOver /\ [LoggerNext]_loggerVars => HandedOver'
  <2> SUFFICES ASSUME HandedOver, [LoggerNext]_loggerVars PROVE HandedOver'
    OBVIOUS
  <2> USE DEF HandedOver
  <2>1. ASSUME NEW p \in Producers, Log(p) \/ PushLog(p) PROVE HandedOver'
    BY <2>1 DEF Log, PushLog
  <2>2. ASSUME NEW p \in Producers, Notify(p) PROVE HandedOver'
    BY <2>2 DEF Notify, WakeWorker
  <2>3. CASE LoggerWorkerStep
    BY <2>3 DEF LoggerWorkerStep, Top, Decide, Block, Break, TakeLog, Write
  <2>4. CASE WorkerSpuriousWake
    BY <2>4 DEF WorkerSpuriousWake
  <2>5. CASE SetFlag
    BY <2>5 DEF SetFlag
  <2>6. CASE StopNotify
    BY <2>6 DEF StopNotify
  <2>7. CASE Join
    BY <2>7 DEF Join, WorkerGone
  <2>8. CASE Drain \/ DrainWrite \/ Return
    BY <2>8 DEF Drain, DrainWrite, Return
  <2>9. CASE UNCHANGED loggerVars
    BY <2>9 DEF loggerVars
  <2> QED BY <2>1, <2>2, <2>3, <2>4, <2>5, <2>6, <2>7, <2>8, <2>9 DEF LoggerNext, LoggerStopStep
<1> QED BY <1>1, <1>2, PTL DEF LoggerSpec

\* The log file is never written by two threads at once, although neither
\* holds the mutex while it writes.
THEOREM LoggerOneWriter == LoggerSpec => []OneWriter
<1>1. HandedOver => OneWriter
  BY DEF HandedOver, OneWriter
<1> QED BY <1>1, HandedOverInvariant, PTL

-----------------------------------------------------------------------------
(* The logger: order and completeness of the log.                          *)

\* What a hand holds is a sequence of messages, empty or of one.
LEMMA OneIsSeq ==
    ASSUME NEW m \in Messages \cup {NoMsg}
    PROVE  /\ One(m) \in Seq(Messages)
           /\ m = NoMsg => One(m) = <<>>
           /\ m # NoMsg => One(m) = <<m>>
BY NoMsgIsNoMessage DEF One

\* The file holds the queued messages in their order, each once, with no gap, in
\* every schedule of producers, worker and stop().
THEOREM LoggerKeepsOrder == LoggerSpec => []LogInOrder
<1>1. LoggerInit => LogInOrder
  <2> SUFFICES ASSUME LoggerInit PROVE LogInOrder
    OBVIOUS
  <2>1. One(NoMsg) = <<>>
    BY DEF One
  <2>2. <<>> \o <<>> = <<>>
    BY ConcatEmptySeq, EmptySeq
  <2> QED BY <2>1, <2>2 DEF LoggerInit, LogInOrder
<1>2. LoggerTypeOK /\ LoggerTypeOK' /\ HandedOver /\ LogInOrder /\ [LoggerNext]_loggerVars => LogInOrder'
  <2> SUFFICES ASSUME LoggerTypeOK, LoggerTypeOK', HandedOver, LogInOrder, [LoggerNext]_loggerVars
               PROVE  LogInOrder'
    OBVIOUS
  <2> DEFINE Before == written \o One(hand) \o One(spare)
  <2>0. /\ {written, One(hand), One(spare), log_queue} \subseteq Seq(Messages)
        /\ written \o One(hand) \in Seq(Messages)
        /\ Before \in Seq(Messages)
        /\ {hand, spare} \subseteq Messages \cup {NoMsg}
        /\ pushed = Before \o log_queue
    <3>1. /\ written \in Seq(Messages) /\ log_queue \in Seq(Messages)
          /\ One(hand) \in Seq(Messages) /\ One(spare) \in Seq(Messages)
      BY OneIsSeq DEF LoggerTypeOK
    <3>2. written \o One(hand) \in Seq(Messages)
      BY <3>1, ConcatProperties
    <3>3. Before \in Seq(Messages)
      BY <3>1, <3>2, ConcatProperties
    <3> QED BY <3>1, <3>2, <3>3 DEF LoggerTypeOK, LogInOrder
  <2>1. ASSUME NEW p \in Producers, PushLog(p) PROVE LogInOrder'
    <3> DEFINE m == <<p, logs[p]>>
    <3>1. m \in Messages
      <4>1. logs[p] \in 1 .. MaxLogs
        BY <2>1, LoggerAssumption DEF PushLog, LoggerTypeOK
      <4> QED BY <4>1 DEF Messages
    <3>2. Append(Before \o log_queue, m) = Before \o Append(log_queue, m)
      <4> HIDE DEF Before, m
      <4>1. /\ Before \in Seq(Messages) /\ log_queue \in Seq(Messages)
            /\ Before \o log_queue \in Seq(Messages) /\ <<m>> \in Seq(Messages)
        BY <2>0, <3>1, ConcatProperties
      <4>2. Append(Before \o log_queue, m) = (Before \o log_queue) \o <<m>>
        BY <3>1, <4>1, AppendIsConcat
      <4>3. Append(log_queue, m) = log_queue \o <<m>>
        BY <3>1, <4>1, AppendIsConcat
      <4>4. (Before \o log_queue) \o <<m>> = Before \o (log_queue \o <<m>>)
        BY <4>1, ConcatAssociative
      <4> QED BY <4>2, <4>3, <4>4
    <3> QED BY <2>0, <2>1, <3>2 DEF PushLog, LogInOrder
  <2>2. CASE TakeLog
    <3>1. /\ hand = NoMsg /\ spare = NoMsg /\ log_queue # <<>>
          /\ hand' = Head(log_queue) /\ log_queue' = Tail(log_queue)
          /\ UNCHANGED <<spare, pushed, written>>
      BY <2>2 DEF TakeLog, Pop, LoggerTypeOK, HandedOver
    <3>2. Head(log_queue) \in Messages
      BY <2>0, <3>1, HeadTailProperties
    <3>3. One(hand') = <<Head(log_queue)>> /\ One(spare') = <<>>
      BY <3>1, <3>2, OneIsSeq, NoMsgIsNoMessage
    <3>4. Before = written
      BY <2>0, <3>1, OneIsSeq, ConcatEmptySeq
    <3>5. written \o log_queue = (written \o <<Head(log_queue)>>) \o Tail(log_queue)
      BY <2>0, <3>1, MoveFront
    <3>6. (written \o <<Head(log_queue)>>) \o <<>> = written \o <<Head(log_queue)>>
      <4>1. written \o <<Head(log_queue)>> \in Seq(Messages)
        BY <2>0, <3>2, ConcatProperties
      <4> QED BY <4>1, ConcatEmptySeq
    <3> QED BY <2>0, <3>1, <3>3, <3>4, <3>5, <3>6 DEF LogInOrder
  <2>3. CASE Write
    <3>1. /\ hand \in Messages /\ hand # NoMsg /\ hand' = NoMsg
          /\ written' = Append(written, hand)
          /\ UNCHANGED <<log_queue, spare, pushed>>
      BY <2>3 DEF Write, LoggerTypeOK
    <3>2. written' = written \o One(hand)
      BY <2>0, <3>1, OneIsSeq, AppendIsConcat
    <3>3. written' \o One(hand') = written \o One(hand)
      <4>1. One(hand') = <<>>
        BY <3>1 DEF One
      <4> QED BY <2>0, <3>2, <4>1, ConcatEmptySeq
    <3> QED BY <2>0, <3>1, <3>3 DEF LogInOrder
  <2>4. CASE Drain
    <3>1. /\ hand = NoMsg /\ spare = NoMsg /\ log_queue # <<>>
          /\ spare' = Head(log_queue) /\ log_queue' = Tail(log_queue)
          /\ UNCHANGED <<hand, pushed, written>>
      BY <2>4 DEF Drain, LoggerTypeOK, HandedOver
    <3>2. Head(log_queue) \in Messages
      BY <2>0, <3>1, HeadTailProperties
    <3>3. One(spare') = <<Head(log_queue)>> /\ One(hand') = <<>>
      BY <3>1, <3>2, OneIsSeq, NoMsgIsNoMessage
    <3>4. Before = written /\ written \o <<>> = written
      BY <2>0, <3>1, OneIsSeq, ConcatEmptySeq
    <3>5. written \o log_queue = (written \o <<Head(log_queue)>>) \o Tail(log_queue)
      BY <2>0, <3>1, MoveFront
    <3> QED BY <2>0, <3>1, <3>3, <3>4, <3>5 DEF LogInOrder
  <2>5. CASE DrainWrite
    <3>1. /\ spare \in Messages /\ spare # NoMsg /\ spare' = NoMsg /\ hand = NoMsg
          /\ written' = Append(written, spare)
          /\ UNCHANGED <<log_queue, hand, pushed>>
      BY <2>5 DEF DrainWrite, LoggerTypeOK, HandedOver
    <3>2. /\ One(hand) = <<>> /\ One(hand') = <<>> /\ One(spare') = <<>>
          /\ One(spare) = <<spare>>
      BY <3>1, OneIsSeq
    <3>3. written' = written \o <<spare>> /\ written' \in Seq(Messages)
      BY <2>0, <3>1, AppendIsConcat DEF LoggerTypeOK
    <3>4. Before = written'
      BY <2>0, <3>2, <3>3, ConcatEmptySeq
    <3>5. written' \o One(hand') \o One(spare') = written'
      BY <3>2, <3>3, ConcatEmptySeq
    <3> QED BY <2>0, <3>1, <3>4, <3>5 DEF LogInOrder
  <2>6. CASE UNCHANGED <<pushed, written, hand, spare, log_queue>>
    BY <2>6 DEF LogInOrder
  <2> QED BY <2>1, <2>2, <2>3, <2>4, <2>5, <2>6
          DEF LoggerNext, LoggerWorkerStep, LoggerStopStep, loggerVars, Log, Notify, Top, Decide, Block, Break,
              WorkerSpuriousWake, SetFlag, StopNotify, Join, Return
<1> QED BY <1>1, <1>2, LoggerTypeCorrect, HandedOverInvariant, PTL DEF LoggerSpec

-----------------------------------------------------------------------------
(* The logger: the flush.                                                  *)

\* When stop() has returned, everything queued by then is in the file, the
\* messages queued while the worker left and the drain ran included.
THEOREM LoggerStopFlushes == LoggerSpec => []StopFlushes
<1>1. LoggerInit => StopFlushes
  BY DEF LoggerInit, StopFlushes
<1>2. LoggerTypeOK /\ HandedOver /\ LogInOrder /\ StopFlushes /\ [LoggerNext]_loggerVars => StopFlushes'
  <2> SUFFICES ASSUME LoggerTypeOK, HandedOver, LogInOrder, StopFlushes, [LoggerNext]_loggerVars
               PROVE  StopFlushes'
    OBVIOUS
  <2>1. CASE Return
    <3>1. /\ log_queue = <<>> /\ hand = NoMsg /\ spare = NoMsg
          /\ due' = Len(pushed) /\ written' = written
      BY <2>1 DEF Return, NothingLeft, LoggerTypeOK, HandedOver
    <3>2. pushed = written
      <4>1. One(NoMsg) = <<>> /\ written \o <<>> = written
        BY ConcatEmptySeq DEF One, LoggerTypeOK
      <4> QED BY <3>1, <4>1 DEF LogInOrder
    <3>3. Len(written) \in Nat
      BY LenProperties DEF LoggerTypeOK
    <3> QED BY <3>1, <3>2, <3>3 DEF StopFlushes
  <2>2. CASE Write \/ DrainWrite
    BY <2>2 DEF Write, DrainWrite, StopFlushes, HandedOver
  <2>3. CASE UNCHANGED <<due, written>> /\ (log_stopper' = log_stopper \/ log_stopper' # "returned")
    BY <2>3 DEF StopFlushes
  <2> QED BY <2>1, <2>2, <2>3
          DEF LoggerNext, LoggerWorkerStep, LoggerStopStep, loggerVars, Log, PushLog, Notify, Top, Decide, Block,
              Break, TakeLog, WorkerSpuriousWake, SetFlag, StopNotify, Join, Drain
<1> QED BY <1>1, <1>2, LoggerTypeCorrect, HandedOverInvariant, LoggerKeepsOrder, PTL DEF LoggerSpec

-----------------------------------------------------------------------------
(* The connection pool: type correctness.                                  *)

\* The step of a thread that leaves getConnection or looks again, whichever of
\* its callers takes it.
GetsAnswer(t) ==
    /\ at[t] \in {"idle", "woken", "expired"}
    /\ pool = "ready" \/ at[t] = "expired"
    /\ Proceed(t)
    /\ UNCHANGED <<isClosed, pool, opened, forgotten>>

\* What a thread does while it has no connection and gets none: a closed pool
\* sends it away, an empty one makes it wait or lets its time run out, and a
\* waiting thread wakes up.
StaysWithout(t) ==
    /\ pool = "ready" \/ at[t] # "idle"
    /\ \E s \in {"idle", "waiting", "woken", "expired"} :
          /\ Become(t, s)
          /\ \/ isClosed /\ at[t] \in {"idle", "woken", "expired"} /\ s = "idle"
             \/ /\ MustWait /\ at[t] \in {"idle", "woken", "expired"}
                /\ s \in {"idle", "waiting"}
             \/ at[t] = "waiting" /\ s \in {"woken", "expired"}
    /\ UNCHANGED <<connQueue, isClosed, pool, opened, held, forgotten, status>>

\* Every step is one of these.
LEMMA StepCases ==
    ASSUME [Next]_vars
    PROVE  \/ InitPool
           \/ \E h \in Handles : Drop(h)
           \/ \E t \in Threads : GetsAnswer(t)
           \/ \E t \in Threads : StaysWithout(t)
           \/ \E t \in Threads : Forget(t)
           \/ \E t \in Threads : ReleaseCheck(t)
           \/ \E t \in Threads : Release(t)
           \/ ClosePool
           \/ UNCHANGED vars
<1>1. ASSUME NEW t \in Threads, Get(t) PROVE GetsAnswer(t)
  BY <1>1 DEF Get, GetsAnswer
<1>2. ASSUME NEW t \in Threads, Wait(t) \/ SpuriousWake(t) \/ Expire(t)
      PROVE  StaysWithout(t)
  BY <1>2 DEF Wait, SpuriousWake, Expire, StaysWithout
<1>3. ASSUME NEW t \in Threads, LastLook(t) PROVE GetsAnswer(t) \/ StaysWithout(t)
  BY <1>3 DEF LastLook, GetsAnswer, StaysWithout
<1>4. ASSUME NEW t \in Threads, ReleaseToClosed(t) \/ QueryFails(t) PROVE Forget(t)
  BY <1>4 DEF ReleaseToClosed, QueryFails
<1> QED BY <1>1, <1>2, <1>3, <1>4 DEF Next

\* The lending branch of getConnection.
Lends(t, n) ==
    /\ at[t] \in {"idle", "woken", "expired"}
    /\ pool = "ready" \/ at[t] = "expired"
    /\ ~isClosed
    /\ connQueue # <<>>
    /\ at' = [at EXCEPT ![t] = "using"]
    /\ connQueue' = Tail(connQueue)
    /\ held' = [held EXCEPT ![t] = n]
    /\ \/ n = Head(connQueue) /\ status[n] = "live" /\ status' = status
       \/ /\ status[Head(connQueue)] # "live"
          /\ status[n] = "unborn"
          /\ IF n = Head(connQueue)
             THEN status' = [status EXCEPT ![n] = "closed"]
             ELSE \E s \in {"live", "unconnected"} :
                     status' = [status EXCEPT ![Head(connQueue)] = "closed", ![n] = s]
    /\ UNCHANGED <<isClosed, pool, opened, forgotten>>

\* A thread is answered with nothing, by a closed pool, or with a handle.
LEMMA AnswerCases ==
    ASSUME TypeOK, NEW t \in Threads, GetsAnswer(t)
    PROVE  StaysWithout(t) \/ \E n \in Handles : Lends(t, n)
<1>1. CASE Refused
  BY <1>1 DEF GetsAnswer, Proceed, Refused, StaysWithout
<1>2. CASE ~Refused
  <2>1. connQueue # <<>> /\ Head(connQueue) \in Handles
    BY <1>2, HeadTailProperties DEF GetsAnswer, Proceed, TypeOK
  <2> QED BY <1>2, <2>1 DEF GetsAnswer, Proceed, Refused, Replaced, Become, Lends
<1> QED BY <1>1, <1>2

\* Putting n different new connections at the back of the queue, as init does.
Makes(n, order) ==
    /\ n \in Nat /\ order \in [1 .. n -> Handles] /\ order \in Seq(Handles)
    /\ Distinct(order) /\ Elements(order) \subseteq Handles
    /\ connQueue' = connQueue \o order
    /\ \A h \in Elements(order) : status[h] = "unborn" /\ status'[h] = "live"
    /\ \A h \in Handles \ Elements(order) : status'[h] = status[h]
    /\ opened' = opened + n

\* init makes some number of different new connections.
LEMMA InitMakes == ASSUME TypeOK, InitPool PROVE \E n : \E order : Makes(n, order)
<1>1. PICK n \in 0 .. MaxConn : \E order \in [1 .. n -> {h \in Handles : status[h] = "unborn"}] :
          /\ \A i, j \in 1 .. n : order[i] = order[j] => i = j
          /\ connQueue' = connQueue \o order
          /\ status' = [h \in Handles |->
                           IF \E i \in 1 .. n : order[i] = h THEN "live" ELSE status[h]]
          /\ opened' = opened + n
  BY DEF InitPool
<1>2. PICK order \in [1 .. n -> {h \in Handles : status[h] = "unborn"}] :
          /\ \A i, j \in 1 .. n : order[i] = order[j] => i = j
          /\ connQueue' = connQueue \o order
          /\ status' = [h \in Handles |->
                           IF \E i \in 1 .. n : order[i] = h THEN "live" ELSE status[h]]
          /\ opened' = opened + n
  BY <1>1
<1>3. n \in Nat
  BY MySQLPoolAssumption
<1>4. order \in [1 .. n -> Handles] /\ Distinct(order)
  BY <1>2 DEF Distinct
<1>5. order \in Seq(Handles)
  BY <1>3, <1>4, SeqDef
<1>6. Elements(order) = {h \in Handles : \E i \in 1 .. n : order[i] = h}
  BY <1>4 DEF Elements
<1>7. \A h \in Elements(order) : h \in Handles /\ status[h] = "unborn"
  BY <1>2, <1>4 DEF Elements
<1>8. /\ \A h \in Elements(order) : status[h] = "unborn" /\ status'[h] = "live"
      /\ \A h \in Handles \ Elements(order) : status'[h] = status[h]
  BY <1>2, <1>6, <1>7
<1> QED BY <1>2, <1>3, <1>4, <1>5, <1>7, <1>8 DEF Makes

\* Every reachable state of the pool is of the expected shape, and a thread has
\* a handle exactly while it uses or returns one.
THEOREM ConnectionsTypeCorrect == Spec => []TypeOK
<1>1. Init => TypeOK
  <2> SUFFICES ASSUME Init PROVE TypeOK
    OBVIOUS
  <2>1. connQueue \in Seq(Handles)
    BY EmptySeq DEF Init
  <2>2. /\ at \in [Threads -> {"idle"}]
        /\ held \in [Threads -> {NoHandle}]
        /\ status \in [Handles -> {"unborn"}]
    BY DEF Init
  <2>3. isClosed \in BOOLEAN /\ forgotten \subseteq Handles /\ pool = "new"
    BY Zenon DEF Init
  <2>4. opened = 0
    BY Zenon DEF Init
  <2> QED BY <2>1, <2>2, <2>3, <2>4 DEF TypeOK
<1>2. TypeOK /\ [Next]_vars => TypeOK'
  <2> SUFFICES ASSUME TypeOK, [Next]_vars PROVE TypeOK'
    OBVIOUS
  <2> USE DEF TypeOK
  <2>0. NoHandle \notin Handles
    BY MySQLPoolAssumption
  <2>1. CASE InitPool
    <3>1. PICK n, order : Makes(n, order)
      BY <2>1, InitMakes
    <3>2. connQueue' \in Seq(Handles)
      BY <3>1, JoinDistinct DEF Makes
    <3>3. opened' \in Int
      BY <3>1 DEF Makes
    <3> QED BY <2>1, <3>2, <3>3 DEF InitPool
  <2>2. ASSUME NEW h \in Handles, Drop(h) PROVE TypeOK'
    BY <2>2 DEF Drop
  <2>3. ASSUME NEW t \in Threads, StaysWithout(t) PROVE TypeOK'
    BY <2>3 DEF StaysWithout, Become
  <2>4. ASSUME NEW t \in Threads, NEW n \in Handles, Lends(t, n) PROVE TypeOK'
    <3>1. Head(connQueue) \in Handles /\ Tail(connQueue) \in Seq(Handles)
      BY <2>4, HeadTailProperties DEF Lends
    <3>2. status' \in [Handles -> {"unborn", "live", "dropped", "unconnected", "closed"}]
      BY <2>4, <3>1 DEF Lends
    <3> QED BY <2>0, <2>4, <3>1, <3>2 DEF Lends
  <2>5. ASSUME NEW t \in Threads, Forget(t) PROVE TypeOK'
    BY <2>5 DEF Forget, Become
  <2>6. ASSUME NEW t \in Threads, ReleaseCheck(t) PROVE TypeOK'
    BY <2>6 DEF ReleaseCheck, Become
  <2>7. ASSUME NEW t \in Threads, Release(t) PROVE TypeOK'
    <3>1. connQueue' \in Seq(Handles)
      BY <2>7, AppendProperties DEF Release
    <3>2. PICK W \in Woken :
             at' = [u \in Threads |-> IF u = t THEN "idle"
                                      ELSE IF u \in W THEN "woken" ELSE at[u]]
      BY <2>7 DEF Release
    <3>3. W \subseteq InState("waiting")
      BY DEF Woken
    <3> QED BY <2>7, <3>1, <3>2, <3>3 DEF Release, HandsOver, InState
  <2>8. CASE ClosePool
    <3>1. <<>> \in Seq(Handles) /\ Len(connQueue) \in Nat
      BY EmptySeq, LenProperties
    <3> QED BY <2>8, <3>1 DEF ClosePool, ToWake, InState
  <2>9. CASE UNCHANGED vars
    BY <2>9 DEF vars
  <2>10. ASSUME NEW t \in Threads, GetsAnswer(t) PROVE TypeOK'
    BY <2>3, <2>4, <2>10, AnswerCases
  <2> HIDE DEF TypeOK
  <2> QED BY <2>1, <2>2, <2>3, <2>5, <2>6, <2>7, <2>8, <2>9, <2>10, StepCases
<1> QED BY <1>1, <1>2, PTL DEF Spec

-----------------------------------------------------------------------------
(* The connection pool: before init.                                       *)

\* Until init has been called there is nothing to lend, and nobody has asked.
QuietBeforeInit ==
    pool = "new" =>
        /\ connQueue = <<>> /\ forgotten = {}
        /\ \A t \in Threads : at[t] = "idle"
        /\ \A h \in Handles : status[h] = "unborn"

\* Before init nothing is queued, lent, forgotten or allocated.
LEMMA QuietInvariant == Spec => []QuietBeforeInit
<1>1. Init => QuietBeforeInit
  BY DEF Init, QuietBeforeInit
<1>2. TypeOK /\ QuietBeforeInit /\ [Next]_vars => QuietBeforeInit'
  <2> SUFFICES ASSUME TypeOK, QuietBeforeInit, [Next]_vars PROVE QuietBeforeInit'
    OBVIOUS
  <2> USE DEF QuietBeforeInit
  <2>1. CASE InitPool
    BY <2>1, MySQLPoolAssumption DEF InitPool
  <2>2. ASSUME NEW h \in Handles, Drop(h) PROVE QuietBeforeInit'
    BY <2>2 DEF Drop
  <2>3. ASSUME NEW t \in Threads, GetsAnswer(t) PROVE QuietBeforeInit'
    BY <2>3 DEF GetsAnswer
  <2>4. ASSUME NEW t \in Threads, StaysWithout(t) PROVE QuietBeforeInit'
    BY <2>4 DEF StaysWithout
  <2>5. ASSUME NEW t \in Threads, Forget(t) \/ ReleaseCheck(t) \/ Release(t)
        PROVE  QuietBeforeInit'
    BY <2>5 DEF Forget, ReleaseCheck, Release
  <2>6. CASE ClosePool
    BY <2>6 DEF ClosePool, ToWake, InState, Idle
  <2>7. CASE UNCHANGED vars
    BY <2>7 DEF vars
  <2> HIDE DEF QuietBeforeInit
  <2> QED BY <2>1, <2>2, <2>3, <2>4, <2>5, <2>6, <2>7, StepCases
<1> QED BY <1>1, <1>2, ConnectionsTypeCorrect, PTL DEF Spec

-----------------------------------------------------------------------------
(* The connection pool: one user for a connection, no use of a freed one.  *)

\* The queue and the threads share the connections out among them.
LentOnceInParts ==
    /\ Distinct(connQueue)
    /\ \A t, u \in Threads : held[t] = held[u] /\ held[t] # NoHandle => t = u
    /\ \A t \in Threads : held[t] \notin Elements(connQueue)

\* LentOnce, said of the queue and the hands instead of the sets they make.
LEMMA LentOnceParts == ASSUME TypeOK PROVE LentOnce <=> LentOnceInParts
<1>1. Idle = Elements(connQueue)
  BY DEF Idle, Elements
<1>2. NoHandle \notin Elements(connQueue)
  BY ElementOfSeq, LenProperties, MySQLPoolAssumption DEF TypeOK, Elements
<1> QED BY <1>1, <1>2 DEF LentOnce, LentOnceInParts, Lent, Distinct

\* A handle that is in the queue or lent is one that MySQL knows.
Open == {"live", "dropped", "unconnected"}
ReachableIsOpen ==
    /\ \A h \in Elements(connQueue) : status[h] \in Open
    /\ \A t \in Threads : held[t] # NoHandle => status[held[t]] \in Open

\* NoFreedHandle, said of the queue and the hands.
LEMMA NoFreedHandleParts == NoFreedHandle <=> ReachableIsOpen
BY DEF NoFreedHandle, ReachableIsOpen, Idle, Lent, Elements, Open

\* The two go together: a handle is freed only by whoever has just taken it out
\* of the queue, or by closePool while it is in the queue.
Sharing == LentOnceInParts /\ ReachableIsOpen

\* Nothing is shared at the start.
LEMMA SharingInitially == Init => Sharing
BY DEF Init, Sharing, LentOnceInParts, ReachableIsOpen, Distinct, Elements

\* No step puts one handle in two places or a freed one within reach.
LEMMA SharingPreserved ==
    ASSUME TypeOK, QuietBeforeInit, Sharing, [Next]_vars PROVE Sharing'
<1> USE DEF Sharing
<1>0. NoHandle \notin Handles /\ Elements(connQueue) \subseteq Handles
  BY ElementOfSeq, LenProperties, MySQLPoolAssumption DEF TypeOK, Elements
<1>1. CASE InitPool
  <2>1. PICK n, order : Makes(n, order)
    BY <1>1, InitMakes
  <2>2. held' = held
    BY <1>1 DEF InitPool
  <2>3. \A g \in Elements(order) : /\ g \notin Elements(connQueue)
                                   /\ \A t \in Threads : held[t] # g
    BY <1>0, <2>1 DEF Makes, ReachableIsOpen, Open
  <2>4. /\ Elements(connQueue') = Elements(connQueue) \cup Elements(order)
        /\ Distinct(connQueue')
    BY <2>1, <2>3, JoinDistinct DEF Makes, LentOnceInParts, TypeOK
  <2>5. LentOnceInParts'
    BY <2>2, <2>3, <2>4 DEF LentOnceInParts
  <2>6. ASSUME NEW g \in Handles, status[g] \in Open PROVE status'[g] \in Open
    BY <2>1, <2>6 DEF Makes, Open
  <2>7. ReachableIsOpen'
    BY <1>0, <2>1, <2>2, <2>4, <2>6 DEF Makes, ReachableIsOpen, TypeOK, Open
  <2> QED BY <2>5, <2>7
<1>2. ASSUME NEW h \in Handles, Drop(h) PROVE Sharing'
  BY <1>2, <1>0 DEF Drop, LentOnceInParts, ReachableIsOpen, TypeOK, Open
<1>3. ASSUME NEW t \in Threads, StaysWithout(t) PROVE Sharing'
  BY <1>3 DEF StaysWithout, LentOnceInParts, ReachableIsOpen
<1>4. ASSUME NEW t \in Threads, NEW n \in Handles, Lends(t, n) PROVE Sharing'
  <2> DEFINE h == Head(connQueue)
  <2>1. /\ h \in Elements(connQueue)
        /\ connQueue' = Tail(connQueue)
        /\ Elements(connQueue') = Elements(connQueue) \ {h}
        /\ Distinct(connQueue')
    BY <1>4, PopDistinct DEF Lends, LentOnceInParts, TypeOK
  <2>2. held'[t] = n /\ \A u \in Threads \ {t} : held'[u] = held[u]
    BY <1>4 DEF Lends, TypeOK
  <2>3. status[h] \in Open
    BY <2>1 DEF ReachableIsOpen
  <2>4. \/ n = h /\ status' = status
        \/ /\ status[n] = "unborn" /\ n # h
           /\ status'[n] \in Open
           /\ \A g \in Handles \ {h, n} : status'[g] = status[g]
    BY <1>0, <1>4, <2>1, <2>3 DEF Lends, TypeOK, Open
  <2>5. n \notin Elements(connQueue') /\ \A u \in Threads \ {t} : held[u] # n
    <3>1. CASE n = h
      BY <2>1, <3>1 DEF LentOnceInParts
    <3>2. CASE status[n] = "unborn"
      BY <1>0, <2>1, <3>2 DEF ReachableIsOpen, Open
    <3> QED BY <2>4, <3>1, <3>2
  <2>6. LentOnceInParts'
    <3>1. ASSUME NEW u \in Threads PROVE held'[u] \notin Elements(connQueue')
      BY <2>1, <2>2, <2>5 DEF LentOnceInParts
    <3>2. ASSUME NEW u \in Threads, NEW v \in Threads,
                 held'[u] = held'[v], held'[u] # NoHandle
          PROVE  u = v
      BY <3>2, <2>2, <2>5 DEF LentOnceInParts
    <3> QED BY <2>1, <3>1, <3>2 DEF LentOnceInParts
  <2>7. ReachableIsOpen'
    <3>1. ASSUME NEW g \in Elements(connQueue') PROVE status'[g] \in Open
      BY <1>0, <2>1, <2>4, <2>5 DEF ReachableIsOpen
    <3>2. ASSUME NEW u \in Threads, held'[u] # NoHandle PROVE status'[held'[u]] \in Open
      <4>1. CASE u = t
        BY <2>2, <2>3, <2>4, <4>1
      <4>2. CASE u # t
        <5>1. held'[u] = held[u] /\ held[u] \in Handles /\ held[u] # n /\ held[u] # h
          BY <2>1, <2>2, <2>5, <3>2, <4>2 DEF LentOnceInParts, TypeOK
        <5> QED BY <2>4, <3>2, <5>1 DEF ReachableIsOpen
      <4> QED BY <4>1, <4>2
    <3> QED BY <3>1, <3>2 DEF ReachableIsOpen
  <2> QED BY <2>6, <2>7
<1>5. ASSUME NEW t \in Threads, Forget(t) PROVE Sharing'
  <2>1. held'[t] = NoHandle /\ \A u \in Threads \ {t} : held'[u] = held[u]
    BY <1>5 DEF Forget, TypeOK
  <2>2. UNCHANGED <<connQueue, status>>
    BY <1>5 DEF Forget
  <2> QED BY <1>0, <2>1, <2>2 DEF LentOnceInParts, ReachableIsOpen
<1>6. ASSUME NEW t \in Threads, ReleaseCheck(t) PROVE Sharing'
  BY <1>6 DEF ReleaseCheck, LentOnceInParts, ReachableIsOpen
<1>7. ASSUME NEW t \in Threads, Release(t) PROVE Sharing'
  <2>1. held[t] \in Handles
    BY <1>7 DEF Release, TypeOK
  <2>2. held'[t] = NoHandle /\ \A u \in Threads \ {t} : held'[u] = held[u]
    BY <1>7 DEF Release, HandsOver, TypeOK
  <2>3. connQueue' = Append(connQueue, held[t]) /\ status' = status
    BY <1>7 DEF Release
  <2>4. Elements(connQueue') = Elements(connQueue) \cup {held[t]} /\ Distinct(connQueue')
    BY <2>1, <2>3, PushDistinct DEF LentOnceInParts, TypeOK
  <2>5. \A u \in Threads \ {t} : held[u] # held[t]
    BY <1>0, <2>1 DEF LentOnceInParts
  <2>6. LentOnceInParts'
    BY <1>0, <2>1, <2>2, <2>4, <2>5 DEF LentOnceInParts
  <2>7. ReachableIsOpen'
    BY <1>0, <2>1, <2>2, <2>3, <2>4 DEF ReachableIsOpen
  <2> QED BY <2>6, <2>7
<1>8. CASE ClosePool
  <2>1. Elements(connQueue') = {} /\ Distinct(connQueue')
    BY <1>8 DEF ClosePool, Elements, Distinct
  <2>2. held' = held
    BY <1>8 DEF ClosePool
  <2>3. ASSUME NEW t \in Threads, held[t] # NoHandle PROVE status'[held[t]] = status[held[t]]
    <3>1. held[t] \in Handles /\ held[t] \notin Idle
      BY <2>3 DEF LentOnceInParts, TypeOK, Idle, Elements
    <3> QED BY <1>8, <3>1 DEF ClosePool
  <2> QED BY <2>1, <2>2, <2>3 DEF LentOnceInParts, ReachableIsOpen
<1>9. CASE UNCHANGED vars
  BY <1>9 DEF vars, LentOnceInParts, ReachableIsOpen
<1>10. ASSUME NEW t \in Threads, GetsAnswer(t) PROVE Sharing'
  BY <1>3, <1>4, <1>10, AnswerCases
<1> HIDE DEF Sharing
<1> QED BY <1>1, <1>2, <1>3, <1>5, <1>6, <1>7, <1>8, <1>9, <1>10, StepCases

\* Sharing holds in every reachable state.
LEMMA SharingInvariant == Spec => [](TypeOK /\ Sharing)
BY ConnectionsTypeCorrect, QuietInvariant, SharingInitially, SharingPreserved, PTL DEF Spec

\* No two threads ever use one connection, and none uses an idle one.
THEOREM ConnectionsLentOnce == Spec => []LentOnce
<1>1. TypeOK /\ Sharing => LentOnce
  BY LentOnceParts DEF Sharing
<1> QED BY <1>1, SharingInvariant, PTL

\* No thread can reach a connection that mysql_close has freed.
THEOREM ConnectionsNotFreed == Spec => []NoFreedHandle
<1>1. Sharing => NoFreedHandle
  BY NoFreedHandleParts DEF Sharing
<1> QED BY <1>1, SharingInvariant, PTL

-----------------------------------------------------------------------------
(* The connection pool: after closePool.                                   *)

\* Nobody gets a connection out of a closed pool, also not one that a late
\* release has put into its queue.
THEOREM ConnectionsNotLentAfterClose == Spec => NothingLentAfterClose
<1>1. ASSUME TypeOK, [Next]_vars, isClosed, NEW t \in Threads, held[t] = NoHandle
      PROVE  held'[t] = NoHandle
  <2>1. ASSUME NEW u \in Threads, GetsAnswer(u) PROVE held'[t] = NoHandle
    BY <1>1, <2>1, AnswerCases DEF StaysWithout, Lends
  <2>2. ASSUME NEW u \in Threads, Forget(u) \/ Release(u) PROVE held'[t] = NoHandle
    BY <1>1, <2>2 DEF Forget, Release, HandsOver, TypeOK
  <2>3. CASE UNCHANGED held
    BY <1>1, <2>3
  <2> QED BY <1>1, <2>1, <2>2, <2>3, StepCases
          DEF InitPool, Drop, StaysWithout, ReleaseCheck, ClosePool, vars
<1>2. TypeOK /\ [Next]_vars =>
         [isClosed => \A t \in Threads : held[t] = NoHandle => held'[t] = NoHandle]_vars
  BY <1>1
<1> QED BY <1>2, ConnectionsTypeCorrect, PTL DEF Spec, NothingLentAfterClose

-----------------------------------------------------------------------------
(* The connection pool: no connection idle while a thread sleeps.          *)

\* closePool wakes everybody, and nobody goes to sleep on a closed pool.
NobodyWaitsOnClosed == isClosed => InState("waiting") = {}

\* No thread ever sleeps on a closed pool.
LEMMA ClosedInvariant == Spec => []NobodyWaitsOnClosed
<1>1. Init => NobodyWaitsOnClosed
  BY DEF Init, NobodyWaitsOnClosed
<1>2. TypeOK /\ NobodyWaitsOnClosed /\ [Next]_vars => NobodyWaitsOnClosed'
  <2> SUFFICES ASSUME TypeOK, NobodyWaitsOnClosed, [Next]_vars
               PROVE  NobodyWaitsOnClosed'
    OBVIOUS
  <2> USE DEF NobodyWaitsOnClosed, InState
  <2>1. CASE InitPool
    BY <2>1 DEF InitPool
  <2>2. ASSUME NEW h \in Handles, Drop(h) PROVE NobodyWaitsOnClosed'
    BY <2>2 DEF Drop
  <2>3. ASSUME NEW t \in Threads, StaysWithout(t) PROVE NobodyWaitsOnClosed'
    BY <2>3 DEF StaysWithout, Become, MustWait, TypeOK
  <2>4. ASSUME NEW t \in Threads, NEW n \in Handles, Lends(t, n) PROVE NobodyWaitsOnClosed'
    BY <2>4 DEF Lends
  <2>5. ASSUME NEW t \in Threads, Forget(t) \/ ReleaseCheck(t) PROVE NobodyWaitsOnClosed'
    BY <2>5 DEF Forget, ReleaseCheck, Become, TypeOK
  <2>6. ASSUME NEW t \in Threads, Release(t) PROVE NobodyWaitsOnClosed'
    BY <2>6 DEF Release
  <2>7. CASE ClosePool
    BY <2>7 DEF ClosePool, ToWake
  <2>8. CASE UNCHANGED vars
    BY <2>8 DEF vars
  <2>9. ASSUME NEW t \in Threads, GetsAnswer(t) PROVE NobodyWaitsOnClosed'
    BY <2>3, <2>4, <2>9, AnswerCases
  <2> HIDE DEF NobodyWaitsOnClosed, InState
  <2> QED BY <2>1, <2>2, <2>3, <2>5, <2>6, <2>7, <2>8, <2>9, StepCases
<1> QED BY <1>1, <1>2, ConnectionsTypeCorrect, PTL DEF Spec

\* The threads on their way to the queue.
Coming == InState("woken") \cup InState("expired")

\* The threads on their way are finitely many, so they can be counted.
LEMMA ComingFinite ==
    /\ IsFiniteSet(Coming) /\ Cardinality(Coming) \in Nat
    /\ TypeOK => Len(connQueue) \in Nat
<1>1. Coming \subseteq Threads
  BY DEF Coming, InState
<1>2. TypeOK => Len(connQueue) \in Nat
  BY LenProperties DEF TypeOK
<1> QED BY <1>1, <1>2, FS_Subset, FS_CardinalityType, MySQLPoolAssumption

\* While a thread waits, there are at least as many threads on their way to the
\* queue as there are connections in it: a notification reaches somebody who
\* looks, also if it reaches a thread as its time runs out.
THEOREM ConnectionsNotIdleWhileWaiting == Spec => []NoIdleConnectionWhileWaiting
<1>1. Init => NoIdleConnectionWhileWaiting
  BY DEF Init, NoIdleConnectionWhileWaiting, InState
<1>2. TypeOK /\ QuietBeforeInit /\ NobodyWaitsOnClosed /\ NoIdleConnectionWhileWaiting
      /\ [Next]_vars => NoIdleConnectionWhileWaiting'
  <2> SUFFICES ASSUME TypeOK, QuietBeforeInit, NobodyWaitsOnClosed,
                      NoIdleConnectionWhileWaiting, [Next]_vars
               PROVE  NoIdleConnectionWhileWaiting'
    OBVIOUS
  <2>0. InState("waiting") # {} => Len(connQueue) <= Cardinality(Coming)
    BY DEF NoIdleConnectionWhileWaiting, Coming
  <2> DEFINE Goal == InState("waiting")' # {} => Len(connQueue') <= Cardinality(Coming')
  <2> SUFFICES Goal
    BY DEF NoIdleConnectionWhileWaiting, Coming
  <2>1. CASE InitPool
    <3>1. InState("waiting") = {}
      BY <2>1 DEF InitPool, QuietBeforeInit, NobodyWaitsOnClosed, InState
    <3> QED BY <2>1, <3>1 DEF InitPool, InState
  <2>2. ASSUME NEW t \in Threads, StaysWithout(t) PROVE Goal
    <3>1. CASE isClosed
      <4>1. InState("waiting")' = {}
        BY <2>2, <3>1 DEF NobodyWaitsOnClosed, StaysWithout, Become, MustWait, InState, TypeOK
      <4> QED BY <4>1
    <3>2. CASE MustWait /\ ~isClosed /\ at[t] # "waiting"
      <4>1. Len(connQueue') = 0
        BY <2>2, <3>2 DEF MustWait, StaysWithout
      <4>2. Coming' = Coming \ {t}
        BY <2>2, <3>2 DEF StaysWithout, Become, Coming, InState, TypeOK
      <4>3. Cardinality(Coming') \in Nat
        BY <4>2, ComingFinite, CountMoves
      <4> QED BY <4>1, <4>3
    <3>3. CASE at[t] = "waiting" /\ ~isClosed
      <4>1. /\ t \in InState("waiting") /\ t \notin Coming
            /\ Coming' = Coming \cup {t} /\ connQueue' = connQueue
        BY <2>2, <3>3 DEF StaysWithout, Become, Coming, InState, TypeOK
      <4>2. Cardinality(Coming') = Cardinality(Coming) + 1
        BY <4>1, ComingFinite, CountMoves
      <4> QED BY <2>0, <4>1, <4>2, ComingFinite
    <3> QED BY <2>2, <3>1, <3>2, <3>3 DEF StaysWithout
  <2>3. ASSUME NEW t \in Threads, NEW n \in Handles, Lends(t, n) PROVE Goal
    <3>1. Len(connQueue') = Len(connQueue) - 1
      BY <2>3, HeadTailProperties DEF Lends, TypeOK
    <3>2. Coming' = Coming \ {t} /\ InState("waiting")' = InState("waiting")
      BY <2>3 DEF Lends, Coming, InState, TypeOK
    <3>3. Cardinality(Coming') \in {Cardinality(Coming), Cardinality(Coming) - 1}
      BY <3>2, ComingFinite, CountMoves
    <3> QED BY <2>0, <3>1, <3>2, <3>3, ComingFinite
  <2>4. ASSUME NEW t \in Threads, Release(t) PROVE Goal
    <3>1. Len(connQueue') = Len(connQueue) + 1
      BY <2>4, AppendProperties DEF Release, TypeOK
    <3>2. at[t] = "releasing"
      BY <2>4 DEF Release
    <3>3. PICK W \in Woken :
             at' = [u \in Threads |-> IF u = t THEN "idle"
                                      ELSE IF u \in W THEN "woken" ELSE at[u]]
      BY <2>4 DEF Release
    <3>4. CASE InState("waiting") = {}
      <4>1. InState("waiting")' = {}
        BY <3>3, <3>4 DEF InState, Woken
      <4> QED BY <4>1
    <3>5. CASE InState("waiting") # {}
      <4>1. PICK w \in InState("waiting") : W = {w}
        BY <3>5 DEF Woken
      <4>2. Coming' = Coming \cup {w} /\ w \notin Coming
        BY <3>2, <3>3, <4>1 DEF Coming, InState, TypeOK
      <4>3. Cardinality(Coming') = Cardinality(Coming) + 1
        BY <4>2, ComingFinite, CountMoves
      <4> QED BY <2>0, <3>1, <3>5, <4>3, ComingFinite
    <3> QED BY <3>4, <3>5
  <2>5. CASE ClosePool
    <3>1. InState("waiting")' = {}
      BY <2>5 DEF ClosePool, ToWake, InState
    <3> QED BY <3>1
  <2>6. ASSUME NEW t \in Threads, Forget(t) \/ ReleaseCheck(t) PROVE Goal
    <3>1. /\ connQueue' = connQueue
          /\ Coming' = Coming /\ InState("waiting")' = InState("waiting")
      BY <2>6 DEF Forget, ReleaseCheck, Become, Coming, InState, TypeOK
    <3> QED BY <2>0, <3>1
  <2>7. CASE UNCHANGED <<at, connQueue>>
    BY <2>0, <2>7 DEF Coming, InState
  <2>8. ASSUME NEW t \in Threads, GetsAnswer(t) PROVE Goal
    BY <2>2, <2>3, <2>8, AnswerCases
  <2> HIDE DEF Goal
  <2>9. ASSUME NEW h \in Handles, Drop(h) PROVE UNCHANGED <<at, connQueue>>
    BY <2>9 DEF Drop
  <2> QED BY <2>1, <2>2, <2>4, <2>5, <2>6, <2>7, <2>8, <2>9, StepCases DEF vars
<1> QED BY <1>1, <1>2, ConnectionsTypeCorrect, QuietInvariant, ClosedInvariant, PTL DEF Spec

-----------------------------------------------------------------------------
(* The connection pool: the connections are accounted for.                 *)

\* Where a handle is: in the queue, in a thread's hands, or forgotten.
InHand(h) == \E t \in Threads : held[t] = h
Accounted ==
    /\ \A h \in Handles :
          status[h] \in Open <=> h \in Elements(connQueue) \/ InHand(h) \/ h \in forgotten
    /\ \A h \in forgotten : h \notin Elements(connQueue) /\ ~InHand(h)
    /\ IsFiniteSet(Allocated)
    /\ Cardinality(Allocated) = opened

\* A handle is allocated while MySQL knows it.
LEMMA AllocatedIsOpen == ASSUME TypeOK PROVE Allocated = {h \in Handles : status[h] \in Open}
BY DEF TypeOK, Allocated, Open

\* What Accounted says of every handle is what CapacityKept says of the sets.
LEMMA AccountedSuffices == ASSUME TypeOK, Accounted PROVE CapacityKept
<1>1. Idle = Elements(connQueue) /\ Idle \subseteq Handles
  BY ElementOfSeq, LenProperties DEF Idle, Elements, TypeOK
<1>2. Lent = {h \in Handles : InHand(h)}
  BY MySQLPoolAssumption DEF Lent, InHand, TypeOK
<1>3. Allocated = Idle \cup Lent \cup forgotten
  BY <1>1, <1>2, AllocatedIsOpen DEF Accounted, TypeOK
<1> QED BY <1>1, <1>2, <1>3 DEF CapacityKept, Accounted

\* Every step moves a handle between queue, hands and the forgotten, or swaps it
\* for its replacement, and so loses none.
LEMMA AccountedPreserved ==
    ASSUME TypeOK, TypeOK', QuietBeforeInit, Sharing, Accounted, [Next]_vars
    PROVE  Accounted'
<1>0. NoHandle \notin Handles /\ Elements(connQueue) \subseteq Handles
  BY ElementOfSeq, LenProperties, MySQLPoolAssumption DEF TypeOK, Elements
<1>1. CASE InitPool
  <2>1. PICK n, order : Makes(n, order)
    BY <1>1, InitMakes
  <2>2. UNCHANGED <<held, forgotten>>
    BY <1>1 DEF InitPool
  <2>3. \A h \in Elements(order) : /\ h \in Handles /\ status[h] \notin Open
                                   /\ status'[h] \in Open
    BY <2>1 DEF Makes, Open, Elements
  <2>4. Elements(connQueue') = Elements(connQueue) \cup Elements(order)
    BY <2>1, JoinDistinct DEF Makes, TypeOK
  <2>5. \A h : InHand(h)' <=> InHand(h)
    BY <2>2 DEF InHand
  <2>6. ASSUME NEW h \in Handles
        PROVE  status'[h] \in Open <=>
                  h \in Elements(connQueue') \/ InHand(h)' \/ h \in forgotten'
    <3>1. CASE h \in Elements(order)
      BY <2>3, <2>4, <3>1
    <3>2. CASE h \notin Elements(order)
      BY <2>1, <2>2, <2>4, <2>5, <3>2 DEF Makes, Accounted
    <3> QED BY <3>1, <3>2
  <2>7. \A h \in forgotten' : h \notin Elements(connQueue') /\ ~InHand(h)'
    BY <2>2, <2>3, <2>4, <2>5 DEF Accounted, TypeOK
  <2>8. /\ Allocated' = Allocated \cup Elements(order)
        /\ Allocated \cap Elements(order) = {}
    <3>1. Allocated = {h \in Handles : status[h] \in Open}
      BY AllocatedIsOpen
    <3>2. Allocated' = {h \in Handles : status'[h] \in Open}
      BY DEF TypeOK, Allocated, Open
    <3> QED BY <2>1, <2>3, <3>1, <3>2 DEF Makes
  <2>9. IsFiniteSet(Elements(order)) /\ Cardinality(Elements(order)) = n
    BY <2>1, CountDistinct DEF Makes
  <2>10. IsFiniteSet(Allocated') /\ Cardinality(Allocated') = opened'
    <3>1. /\ IsFiniteSet(Allocated \cup Elements(order))
          /\ Cardinality(Allocated \cup Elements(order)) =
                Cardinality(Allocated) + Cardinality(Elements(order)) - Cardinality({})
      BY <2>8, <2>9, FS_Union DEF Accounted
    <3>2. Cardinality({}) = 0
      BY FS_EmptySet
    <3> QED BY <2>1, <2>8, <2>9, <3>1, <3>2 DEF Makes, Accounted, TypeOK
  <2> QED BY <2>6, <2>7, <2>10 DEF Accounted
<1>2. ASSUME NEW h \in Handles, Drop(h) PROVE Accounted'
  <2>1. /\ \A g \in Handles : status'[g] \in Open <=> status[g] \in Open
        /\ UNCHANGED <<connQueue, held, forgotten, opened>>
    BY <1>2 DEF Drop, TypeOK, Open
  <2>2. Allocated' = Allocated
    BY <2>1, AllocatedIsOpen DEF TypeOK, Allocated, Open
  <2>3. \A g : InHand(g)' <=> InHand(g)
    BY <2>1 DEF InHand
  <2> QED BY <2>1, <2>2, <2>3 DEF Accounted
<1>3. ASSUME NEW t \in Threads, NEW n \in Handles, Lends(t, n) PROVE Accounted'
  <2> DEFINE h == Head(connQueue)
  <2>1. /\ h \in Elements(connQueue) /\ h \in Handles
        /\ Elements(connQueue') = Elements(connQueue) \ {h}
    BY <1>0, <1>3, PopDistinct DEF Lends, Sharing, LentOnceInParts, TypeOK
  <2>2. /\ held' = [held EXCEPT ![t] = n] /\ held[t] = NoHandle
        /\ UNCHANGED <<forgotten, opened>>
    BY <1>3 DEF Lends, TypeOK
  <2>3. \A g \in Handles : InHand(g)' <=> InHand(g) \/ g = n
    BY <1>0, <2>2 DEF InHand, TypeOK
  <2>4. ~InHand(h)
    BY <2>1 DEF InHand, Sharing, LentOnceInParts
  <2>5. CASE n = h /\ status' = status
    <3>1. Allocated' = Allocated
      BY <2>5 DEF Allocated
    <3> QED BY <2>1, <2>2, <2>3, <2>4, <2>5, <3>1 DEF Accounted, TypeOK
  <2>6. CASE ~(n = h /\ status' = status)
    <3>1. status[h] \in Open /\ status[h] # "unborn"
      BY <2>1 DEF Sharing, ReachableIsOpen, Open
    <3>2. PICK s \in {"live", "unconnected"} :
             /\ n # h /\ status[n] = "unborn"
             /\ status' = [status EXCEPT ![h] = "closed", ![n] = s]
      BY <1>3, <2>6, <3>1 DEF Lends
    <3>3. /\ status'[h] = "closed" /\ status'[n] \in Open
          /\ \A g \in Handles \ {h, n} : status'[g] = status[g]
      BY <2>1, <3>2 DEF TypeOK, Open
    <3>4. Allocated' = (Allocated \ {h}) \cup {n} /\ h \in Allocated /\ n \notin Allocated
      BY <2>1, <3>1, <3>2, <3>3 DEF Allocated, Open
    <3>5. IsFiniteSet(Allocated') /\ Cardinality(Allocated') = Cardinality(Allocated)
      <4>1. /\ IsFiniteSet(Allocated \ {h})
            /\ Cardinality(Allocated \ {h}) = Cardinality(Allocated) - 1
            /\ Cardinality(Allocated) \in Nat
        BY <3>4, CountMoves DEF Accounted
      <4>2. n \notin Allocated \ {h}
        BY <3>4
      <4> HIDE DEF h
      <4>3. /\ IsFiniteSet((Allocated \ {h}) \cup {n})
            /\ Cardinality((Allocated \ {h}) \cup {n}) = Cardinality(Allocated \ {h}) + 1
        BY <4>1, <4>2, CountMoves
      <4> QED BY <3>4, <4>1, <4>3
    <3>6. ~InHand(n) /\ n \notin Elements(connQueue) /\ n \notin forgotten
      BY <3>2 DEF Accounted, Open
    <3>7. h \notin forgotten
      BY <2>1 DEF Accounted
    <3>8. ASSUME NEW g \in Handles
          PROVE  status'[g] \in Open <=>
                    g \in Elements(connQueue') \/ InHand(g)' \/ g \in forgotten'
      <4>1. CASE g = h
        <5>1. status'[h] \notin Open
          BY <3>3 DEF Open
        <5> QED BY <4>1, <5>1, <2>1, <2>2, <2>3, <2>4, <3>2, <3>7
      <4>2. CASE g = n
        BY <4>2, <2>3, <3>3
      <4>3. CASE g # h /\ g # n
        BY <4>3, <2>1, <2>2, <2>3, <3>3 DEF Accounted
      <4> QED BY <4>1, <4>2, <4>3
    <3>9. \A g \in forgotten' : g \notin Elements(connQueue') /\ ~InHand(g)'
      BY <2>1, <2>2, <2>3, <3>6 DEF Accounted, TypeOK
    <3> QED BY <2>2, <3>5, <3>8, <3>9 DEF Accounted
  <2> QED BY <1>3, <2>5, <2>6
<1>4. ASSUME NEW t \in Threads, Forget(t) PROVE Accounted'
  <2>1. /\ held' = [held EXCEPT ![t] = NoHandle] /\ held[t] \in Handles
        /\ forgotten' = forgotten \cup {held[t]}
        /\ UNCHANGED <<connQueue, status, opened>>
    BY <1>4 DEF Forget, TypeOK
  <2>2. \A u \in Threads \ {t} : held[u] # held[t]
    BY <1>0, <2>1 DEF Sharing, LentOnceInParts
  <2>3. \A g \in Handles : InHand(g)' <=> InHand(g) /\ g # held[t]
    BY <1>0, <2>1, <2>2 DEF InHand, TypeOK
  <2>4. held[t] \notin Elements(connQueue) /\ InHand(held[t])
    BY DEF Sharing, LentOnceInParts, InHand
  <2>5. Allocated' = Allocated
    BY <2>1 DEF Allocated
  <2> QED BY <2>1, <2>3, <2>4, <2>5 DEF Accounted, TypeOK
<1>5. ASSUME NEW t \in Threads, Release(t) PROVE Accounted'
  <2>1. /\ held' = [held EXCEPT ![t] = NoHandle] /\ held[t] \in Handles
        /\ connQueue' = Append(connQueue, held[t])
        /\ UNCHANGED <<forgotten, status, opened>>
    BY <1>5 DEF Release, HandsOver, TypeOK
  <2>2. \A u \in Threads \ {t} : held[u] # held[t]
    BY <1>0, <2>1 DEF Sharing, LentOnceInParts
  <2>3. \A g \in Handles : InHand(g)' <=> InHand(g) /\ g # held[t]
    BY <1>0, <2>1, <2>2 DEF InHand, TypeOK
  <2>4. Elements(connQueue') = Elements(connQueue) \cup {held[t]} /\ InHand(held[t])
    BY <2>1, PushDistinct DEF InHand, TypeOK
  <2>5. Allocated' = Allocated
    BY <2>1 DEF Allocated
  <2> QED BY <2>1, <2>3, <2>4, <2>5 DEF Accounted, TypeOK
<1>6. CASE ClosePool
  <2>1. /\ Elements(connQueue') = {}
        /\ UNCHANGED <<held, forgotten>>
        /\ opened' = opened - Len(connQueue)
        /\ status' = [h \in Handles |-> IF h \in Elements(connQueue) THEN "closed"
                                                                     ELSE status[h]]
    BY <1>6 DEF ClosePool, Idle, Elements
  <2>2. \A g : InHand(g)' <=> InHand(g)
    BY <2>1 DEF InHand
  <2>3. \A g \in Elements(connQueue) : ~InHand(g) /\ g \notin forgotten
    BY DEF Sharing, LentOnceInParts, InHand, Accounted
  <2>4. \A g \in Handles :
           status'[g] \in Open <=> status[g] \in Open /\ g \notin Elements(connQueue)
    BY <2>1 DEF Open
  <2>5. Elements(connQueue) \subseteq Allocated
    BY <1>0, AllocatedIsOpen DEF Accounted
  <2>6. Allocated' = Allocated \ Elements(connQueue)
    <3>1. Allocated = {h \in Handles : status[h] \in Open}
      BY AllocatedIsOpen
    <3>2. Allocated' = {h \in Handles : status'[h] \in Open}
      BY DEF TypeOK, Allocated, Open
    <3> QED BY <2>4, <3>1, <3>2
  <2>7. Cardinality(Elements(connQueue)) = Len(connQueue)
    <3>1. Len(connQueue) \in Nat /\ connQueue \in [1 .. Len(connQueue) -> Handles]
      BY LenProperties DEF TypeOK
    <3>2. Distinct(connQueue)
      BY DEF Sharing, LentOnceInParts
    <3> QED BY <3>1, <3>2, CountDistinct
  <2>8. IsFiniteSet(Allocated') /\ Cardinality(Allocated') = opened'
    <3>1. /\ IsFiniteSet(Allocated \ Elements(connQueue))
          /\ Cardinality(Allocated \ Elements(connQueue)) =
                Cardinality(Allocated) - Cardinality(Allocated \cap Elements(connQueue))
      BY FS_Difference DEF Accounted
    <3>2. Allocated \cap Elements(connQueue) = Elements(connQueue)
      BY <2>5
    <3> QED BY <2>1, <2>6, <2>7, <3>1, <3>2 DEF Accounted
  <2> QED BY <2>1, <2>2, <2>3, <2>4, <2>8 DEF Accounted, TypeOK
<1>7. CASE UNCHANGED <<connQueue, opened, held, forgotten, status>>
  <2>1. Allocated' = Allocated /\ \A g : InHand(g)' <=> InHand(g)
    BY <1>7 DEF Allocated, InHand
  <2> QED BY <1>7, <2>1 DEF Accounted
<1>8. ASSUME NEW t \in Threads, StaysWithout(t) \/ ReleaseCheck(t) PROVE Accounted'
  BY <1>7, <1>8 DEF StaysWithout, ReleaseCheck
<1>9. ASSUME NEW t \in Threads, GetsAnswer(t) PROVE Accounted'
  BY <1>3, <1>8, <1>9, AnswerCases
<1>10. CASE UNCHANGED vars
  BY <1>7, <1>10 DEF vars
<1> QED BY <1>1, <1>2, <1>4, <1>5, <1>6, <1>8, <1>9, <1>10, StepCases

\* Every open connection is idle, lent, or forgotten by a failing statement or a
\* late release; and there are exactly as many as the calls of init made, less those
\* that closePool closed.
THEOREM ConnectionsAccountedFor == Spec => []CapacityKept
<1>1. Init => Accounted
  <2> SUFFICES ASSUME Init PROVE Accounted
    OBVIOUS
  <2>1. Allocated = {} /\ Elements(connQueue) = {} /\ forgotten = {} /\ opened = 0
    BY DEF Init, Allocated, Elements
  <2>2. \A h \in Handles : ~InHand(h) /\ status[h] \notin Open
    BY MySQLPoolAssumption DEF Init, InHand, Open
  <2> QED BY <2>1, <2>2, FS_EmptySet DEF Accounted
<1>2. TypeOK /\ Accounted => CapacityKept
  BY AccountedSuffices
<1> QED BY <1>1, <1>2, AccountedPreserved, ConnectionsTypeCorrect, QuietInvariant,
          SharingInvariant, PTL DEF Spec

-----------------------------------------------------------------------------
(* The cache: linked lists and the sequences of their nodes.               *)

\* The pointers of l run through the m different nodes of s, both ways.
Linked(l, s, m) ==
    /\ s \in [1 .. m -> Nodes]
    /\ \A i, j \in 1 .. m : s[i] = s[j] => i = j
    /\ l.head = IF m = 0 THEN Null ELSE s[1]
    /\ l.tail = IF m = 0 THEN Null ELSE s[m]
    /\ \A i \in 1 .. m : /\ l.prev[s[i]] = IF i = 1 THEN Null ELSE s[i - 1]
                         /\ l.next[s[i]] = IF i = m THEN Null ELSE s[i + 1]

\* The sequence with its p-th element moved to the front, with a new first element, and
\* without its last.
Moved(s, p, m) == [i \in 1 .. m |-> IF i = 1 THEN s[p] ELSE IF i <= p THEN s[i - 1] ELSE s[i]]
Longer(s, n, m) == [i \in 1 .. m + 1 |-> IF i = 1 THEN n ELSE s[i - 1]]
Shorter(s, m) == [i \in 1 .. m - 1 |-> s[i]]

\* What assigning through a pointer does to the next or prev fields.
Assigned(f, n, v) == [x \in Nodes |-> IF x = n THEN v ELSE f[x]]
Pointers == [Nodes -> Nodes \cup {Null}]

LEMMA PointType ==
    \A f \in Pointers, n, v \in Nodes \cup {Null} :
        Point(f, n, v) = Assigned(f, n, v) /\ Assigned(f, n, v) \in Pointers
BY LRUAssumption DEF Point, Assigned, Pointers

\* Making a node the head, field by field.
IsAtHead(a, l, n, z) ==
    /\ a \in Lists /\ a.head = n /\ a.tail = z
    /\ \A x \in Nodes : a.next[x] = IF x = n THEN l.head ELSE l.next[x]
    /\ \A x \in Nodes : a.prev[x] = IF x = n THEN Null ELSE IF x = l.head THEN n ELSE l.prev[x]

LEMMA AtHeadFields ==
    ASSUME NEW l \in Lists, NEW n \in Nodes, NEW z \in Nodes \cup {Null}
    PROVE  IsAtHead(AtHead(l, n, z), l, n, z)
<1> DEFINE q == Assigned(l.prev, l.head, n)
           r == Assigned(q, n, Null)
           next == Assigned(l.next, n, l.head)
<1>1. l.head \in Nodes \cup {Null} /\ l.prev \in Pointers /\ l.next \in Pointers
      /\ n \in Nodes \cup {Null} /\ Null \in Nodes \cup {Null}
  BY DEF Lists, Pointers
<1>2. q = Point(l.prev, l.head, n) /\ q \in Pointers
  BY <1>1, PointType
<1>3. r = Point(q, n, Null) /\ r \in Pointers
  <2> HIDE DEF q
  <2> QED BY <1>1, <1>2, PointType
<1>4. next = Point(l.next, n, l.head) /\ next \in Pointers
  BY <1>1, PointType
<1>5. AtHead(l, n, z) = [head |-> n, tail |-> z, next |-> next, prev |-> r]
  BY <1>2, <1>3, <1>4 DEF AtHead
<1>6. \A x \in Nodes : next[x] = IF x = n THEN l.head ELSE l.next[x]
  BY DEF Assigned
<1>7. \A x \in Nodes : r[x] = IF x = n THEN Null ELSE IF x = l.head THEN n ELSE l.prev[x]
  BY DEF Assigned
<1> HIDE DEF q, r, next
<1> QED BY <1>3, <1>4, <1>5, <1>6, <1>7 DEF IsAtHead, Lists, Pointers

\* Taking a node out of its place, field by field.
LEMMA UnlinkedFields ==
    ASSUME NEW l \in Lists, NEW n \in Nodes
    PROVE  /\ Unlinked(l, n) \in Lists
           /\ Unlinked(l, n).head = l.head
           /\ Unlinked(l, n).tail = IF l.tail = n THEN l.prev[n] ELSE l.tail
           /\ \A x \in Nodes : Unlinked(l, n).next[x] = IF x = l.prev[n] THEN l.next[n] ELSE l.next[x]
           /\ \A x \in Nodes : Unlinked(l, n).prev[x] = IF x = l.next[n] THEN l.prev[n] ELSE l.prev[x]
<1> DEFINE next == Assigned(l.next, l.prev[n], l.next[n])
           prev == Assigned(l.prev, l.next[n], l.prev[n])
           last == IF l.tail = n THEN l.prev[n] ELSE l.tail
<1>1. l.prev \in Pointers /\ l.next \in Pointers /\ l.head \in Nodes \cup {Null}
      /\ l.prev[n] \in Nodes \cup {Null} /\ l.next[n] \in Nodes \cup {Null} /\ last \in Nodes \cup {Null}
  BY DEF Lists, Pointers
<1>2. next = Point(l.next, l.prev[n], l.next[n]) /\ next \in Pointers
  BY <1>1, PointType
<1>3. prev = Point(l.prev, l.next[n], l.prev[n]) /\ prev \in Pointers
  BY <1>1, PointType
<1>4. Unlinked(l, n) = [head |-> l.head, tail |-> last, next |-> next, prev |-> prev]
  BY <1>2, <1>3 DEF Unlinked
<1>5. \A x \in Nodes : next[x] = IF x = l.prev[n] THEN l.next[n] ELSE l.next[x]
  BY DEF Assigned
<1>6. \A x \in Nodes : prev[x] = IF x = l.next[n] THEN l.prev[n] ELSE l.prev[x]
  BY DEF Assigned
<1> HIDE DEF next, prev
<1> QED BY <1>1, <1>2, <1>3, <1>4, <1>5, <1>6 DEF Lists, Pointers

\* A used node goes to the front, and the others keep their order.
LEMMA MoveLinked ==
    ASSUME NEW l \in Lists, NEW m \in Nat, NEW s, Linked(l, s, m), NEW p \in 1 .. m
    PROVE  MoveToHead(l, s[p]) \in Lists /\ Linked(MoveToHead(l, s[p]), Moved(s, p, m), m)
<1> DEFINE n == s[p]
           k == MoveToHead(l, n)
           t == Moved(s, p, m)
<1>1. /\ s \in [1 .. m -> Nodes] /\ n \in Nodes /\ 1 \in 1 .. m /\ m \in 1 .. m
      /\ \A i, j \in 1 .. m : s[i] = s[j] => i = j
      /\ l.head = s[1] /\ l.tail = s[m]
      /\ \A i \in 1 .. m : /\ l.prev[s[i]] = IF i = 1 THEN Null ELSE s[i - 1]
                           /\ l.next[s[i]] = IF i = m THEN Null ELSE s[i + 1]
  BY DEF Linked
<1>2. \A i \in 1 .. m : s[i] # Null
  BY <1>1, LRUAssumption
<1>3. CASE p = 1
  <2>1. k = l
    BY <1>1, <1>3 DEF MoveToHead
  <2>2. \A i \in 1 .. m : t[i] = s[i]
    BY <1>3 DEF Moved
  <2>3. t = s
    BY <1>1, <2>2 DEF Moved
  <2> QED BY <2>1, <2>3
<1>4. CASE p # 1
  <2> DEFINE u == Unlinked(l, n)
  <2>1. k = AtHead(u, n, u.tail)
    BY <1>1, <1>4 DEF MoveToHead
  <2>2. p - 1 \in 1 .. m /\ l.prev[n] = s[p - 1] /\ l.next[n] = IF p = m THEN Null ELSE s[p + 1]
    BY <1>1, <1>4
  <2>3. /\ u \in Lists /\ u.head = s[1]
        /\ u.tail = IF p = m THEN s[p - 1] ELSE s[m]
        /\ \A x \in Nodes : u.next[x] = IF x = s[p - 1] THEN l.next[n] ELSE l.next[x]
        /\ \A x \in Nodes : u.prev[x] = IF x = l.next[n] THEN s[p - 1] ELSE l.prev[x]
    <3>1. l.tail = n <=> p = m
      BY <1>1
    <3>2. /\ u \in Lists
          /\ u.head = l.head
          /\ u.tail = IF l.tail = n THEN l.prev[n] ELSE l.tail
          /\ \A x \in Nodes : u.next[x] = IF x = l.prev[n] THEN l.next[n] ELSE l.next[x]
          /\ \A x \in Nodes : u.prev[x] = IF x = l.next[n] THEN l.prev[n] ELSE l.prev[x]
      <4>1. n \in Nodes
        BY <1>1
      <4> HIDE DEF n
      <4> QED BY <4>1, UnlinkedFields
    <3> HIDE DEF u
    <3> QED BY <1>1, <2>2, <3>1, <3>2
  <2> HIDE DEF u
  <2>4. /\ k \in Lists /\ k.head = n /\ k.tail = u.tail
        /\ \A x \in Nodes : k.next[x] = IF x = n THEN s[1] ELSE u.next[x]
        /\ \A x \in Nodes : k.prev[x] = IF x = n THEN Null ELSE IF x = s[1] THEN n ELSE u.prev[x]
    <3>1. u \in Lists /\ n \in Nodes /\ u.tail \in Nodes \cup {Null}
      BY <1>1, <2>3 DEF Lists
    <3>2. IsAtHead(AtHead(u, n, u.tail), u, n, u.tail)
      <4> HIDE DEF n
      <4> QED BY <3>1, AtHeadFields
    <3> QED BY <2>1, <2>3, <3>2 DEF IsAtHead
  <2>5. t \in [1 .. m -> Nodes] /\ \A i \in 1 .. m : t[i] = IF i = 1 THEN n ELSE IF i <= p THEN s[i - 1] ELSE s[i]
    <3>1. \A i \in 1 .. m : i # 1 => i - 1 \in 1 .. m
      OBVIOUS
    <3> QED BY <1>1, <3>1 DEF Moved
  <2> HIDE DEF k, t
  <2> DEFINE from(i) == IF i = 1 THEN p ELSE IF i <= p THEN i - 1 ELSE i
  <2>6. \A i \in 1 .. m : from(i) \in 1 .. m /\ t[i] = s[from(i)]
    BY <2>5
  <2>7. \A i, j \in 1 .. m : t[i] = t[j] => i = j
    <3>1. \A i, j \in 1 .. m : from(i) = from(j) => i = j
      OBVIOUS
    <3> HIDE DEF from
    <3> QED BY <1>1, <2>6, <3>1
  <2>8. k.head = t[1]
    BY <1>1, <2>4, <2>5
  <2>9. k.tail = t[m]
    BY <1>1, <1>4, <2>3, <2>4, <2>5
  <2>10. ASSUME NEW i \in 1 .. m
         PROVE  k.prev[t[i]] = IF i = 1 THEN Null ELSE t[i - 1]
    <3>1. CASE i = 1
      BY <1>1, <2>4, <2>5, <3>1
    <3>2. CASE i = 2
      <4>1. t[i] = s[1] /\ t[i - 1] = n /\ s[1] # n
        BY <1>1, <1>4, <2>5, <3>2
      <4> QED BY <1>1, <2>4, <3>2, <4>1
    <3>3. CASE i > 2 /\ i <= p
      <4>1. i - 1 \in 1 .. m /\ i - 1 # p /\ i - 1 # 1 /\ i - 1 # p + 1 /\ i - 1 - 1 = i - 2
        BY <3>3
      <4>2. t[i] = s[i - 1] /\ t[i - 1] = s[i - 2]
        BY <2>5, <3>3, <4>1
      <4>3. s[i - 1] # n /\ s[i - 1] # s[1] /\ s[i - 1] # l.next[n] /\ s[i - 1] \in Nodes
        <5>1. p # m => p + 1 \in 1 .. m
          OBVIOUS
        <5> QED BY <1>1, <1>2, <2>2, <4>1, <5>1
      <4>4. l.prev[s[i - 1]] = s[i - 2]
        BY <1>1, <4>1
      <4> QED BY <2>3, <2>4, <3>3, <4>2, <4>3, <4>4
    <3>4. CASE i > 2 /\ i = p + 1
      <4>1. t[i] = s[i] /\ t[i - 1] = s[p - 1] /\ p # m /\ l.next[n] = s[i]
        BY <1>4, <2>2, <2>5, <3>4
      <4>2. s[i] # n /\ s[i] # s[1] /\ s[i] \in Nodes
        BY <1>1, <3>4
      <4> QED BY <2>3, <2>4, <3>4, <4>1, <4>2
    <3>5. CASE i > 2 /\ i > p + 1
      <4>1. i - 1 \in 1 .. m /\ ~(i - 1 <= p) /\ i - 1 # 1 /\ i # p
        BY <3>5
      <4>2. t[i] = s[i] /\ t[i - 1] = s[i - 1]
        BY <2>5, <3>5, <4>1
      <4>3. s[i] # n /\ s[i] # s[1] /\ s[i] # l.next[n] /\ s[i] \in Nodes
        <5>1. p # m => p + 1 \in 1 .. m
          OBVIOUS
        <5> QED BY <1>1, <1>2, <2>2, <3>5, <4>1, <5>1
      <4>4. l.prev[s[i]] = s[i - 1]
        BY <1>1, <3>5
      <4> QED BY <2>3, <2>4, <3>5, <4>2, <4>3, <4>4
    <3>6. i = 1 \/ i = 2 \/ (i > 2 /\ (i <= p \/ i = p + 1 \/ i > p + 1))
      OBVIOUS
    <3> QED BY <3>1, <3>2, <3>3, <3>4, <3>5, <3>6
  <2>11. ASSUME NEW i \in 1 .. m
         PROVE  k.next[t[i]] = IF i = m THEN Null ELSE t[i + 1]
    <3>1. CASE i = 1
      <4>1. t[1] = n /\ i # m /\ t[2] = s[1]
        BY <1>4, <2>5, <3>1
      <4> QED BY <1>1, <2>4, <3>1, <4>1
    <3>2. CASE i # 1 /\ i < p
      <4>1. i - 1 \in 1 .. m /\ i - 1 # p /\ i - 1 # p - 1 /\ i - 1 # m /\ i # m /\ i + 1 \in 1 .. m
            /\ i - 1 + 1 = i /\ i + 1 - 1 = i
        BY <3>2
      <4>2. t[i] = s[i - 1] /\ t[i + 1] = s[i]
        BY <2>5, <3>2, <4>1
      <4>3. s[i - 1] # n /\ s[i - 1] # s[p - 1] /\ s[i - 1] \in Nodes
        BY <1>1, <2>2, <4>1
      <4>4. l.next[s[i - 1]] = s[i]
        BY <1>1, <4>1
      <4> QED BY <2>3, <2>4, <4>1, <4>2, <4>3, <4>4
    <3>3. CASE i # 1 /\ i = p
      <4>1. t[i] = s[p - 1] /\ s[p - 1] # n /\ s[p - 1] \in Nodes
        BY <1>1, <2>2, <2>5, <3>3
      <4>2. k.next[t[i]] = l.next[n]
        BY <2>3, <2>4, <4>1
      <4>3. p # m => t[p + 1] = s[p + 1]
        BY <2>5
      <4> QED BY <2>2, <3>3, <4>2, <4>3
    <3>4. CASE i > p
      <4>1. i # 1 /\ i # p - 1 /\ i # p
        BY <3>4
      <4>2. t[i] = s[i] /\ (i # m => t[i + 1] = s[i + 1])
        BY <2>5, <3>4
      <4>3. s[i] # n /\ s[i] # s[p - 1] /\ s[i] \in Nodes
        BY <1>1, <2>2, <4>1
      <4> QED BY <1>1, <2>3, <2>4, <4>2, <4>3
    <3>5. i = 1 \/ (i # 1 /\ i < p) \/ (i # 1 /\ i = p) \/ i > p
      OBVIOUS
    <3> QED BY <3>1, <3>2, <3>3, <3>4, <3>5
  <2>12. m # 0
    OBVIOUS
  <2>13. Linked(k, t, m)
    BY <2>5, <2>7, <2>8, <2>9, <2>10, <2>11, <2>12 DEF Linked
  <2> QED BY <2>4, <2>13 DEF k, t
<1> QED BY <1>3, <1>4

\* A new node goes in front of the others.
LEMMA AddLinked ==
    ASSUME NEW l \in Lists, NEW m \in Nat, NEW s, Linked(l, s, m),
           NEW n \in Nodes, \A i \in 1 .. m : s[i] # n
    PROVE  AddToHead(l, n) \in Lists /\ Linked(AddToHead(l, n), Longer(s, n, m), m + 1)
<1> DEFINE z == IF l.tail = Null THEN n ELSE l.tail
           a == AddToHead(l, n)
           t == Longer(s, n, m)
<1>1. /\ s \in [1 .. m -> Nodes]
      /\ \A i, j \in 1 .. m : s[i] = s[j] => i = j
      /\ l.head = IF m = 0 THEN Null ELSE s[1]
      /\ l.tail = IF m = 0 THEN Null ELSE s[m]
      /\ \A i \in 1 .. m : /\ l.prev[s[i]] = IF i = 1 THEN Null ELSE s[i - 1]
                           /\ l.next[s[i]] = IF i = m THEN Null ELSE s[i + 1]
  BY DEF Linked
<1>2. Null \notin Nodes
  BY LRUAssumption
<1>3. z \in Nodes \cup {Null} /\ a = AtHead(l, n, z)
  BY DEF Lists, AddToHead
<1>4. IsAtHead(a, l, n, z)
  BY <1>3, AtHeadFields
<1>5. z = IF m = 0 THEN n ELSE s[m]
  <2>1. m # 0 => m \in 1 .. m
    OBVIOUS
  <2> QED BY <1>1, <1>2, <2>1
<1> HIDE DEF z, a
<1>6. t \in [1 .. m + 1 -> Nodes] /\ t[1] = n /\ \A i \in 1 .. m : t[i + 1] = s[i] /\ i + 1 \in 1 .. m + 1
  <2>1. \A i \in 1 .. m + 1 : i # 1 => i - 1 \in 1 .. m
    OBVIOUS
  <2>2. 1 \in 1 .. m + 1 /\ \A i \in 1 .. m : i + 1 \in 1 .. m + 1 /\ i + 1 # 1 /\ i + 1 - 1 = i
    OBVIOUS
  <2> QED BY <1>1, <2>1, <2>2 DEF Longer
<1> HIDE DEF t
<1>7. \A i \in 1 .. m + 1 : i = 1 \/ \E j \in 1 .. m : i = j + 1
  <2>1. \A i \in 1 .. m + 1 : i # 1 => i - 1 \in 1 .. m /\ i = (i - 1) + 1
    OBVIOUS
  <2> QED BY <2>1
<1>8. \A i, j \in 1 .. m + 1 : t[i] = t[j] => i = j
  BY <1>1, <1>6, <1>7
<1>9. a.head = t[1] /\ a.tail = t[m + 1]
  <2>1. CASE m = 0
    BY <1>4, <1>5, <1>6, <2>1 DEF IsAtHead
  <2>2. CASE m # 0
    <3>1. m \in 1 .. m
      BY <2>2
    <3> QED BY <1>4, <1>5, <1>6, <2>2, <3>1 DEF IsAtHead
  <2> QED BY <2>1, <2>2
<1>10. a.prev[t[1]] = Null /\ a.next[t[1]] = IF 1 = m + 1 THEN Null ELSE t[1 + 1]
  <2>1. a.prev[n] = Null /\ a.next[n] = l.head
    BY <1>4 DEF IsAtHead
  <2>2. CASE m = 0
    BY <1>1, <1>6, <2>1, <2>2
  <2>3. CASE m # 0
    <3>1. 1 \in 1 .. m /\ 1 # m + 1
      BY <2>3
    <3>2. t[1 + 1] = s[1]
      BY <1>6, <3>1
    <3> QED BY <1>1, <1>6, <2>1, <2>3, <3>1, <3>2
  <2> QED BY <2>2, <2>3
<1>11. ASSUME NEW j \in 1 .. m
       PROVE  /\ a.prev[t[j + 1]] = t[j + 1 - 1]
              /\ a.next[t[j + 1]] = IF j + 1 = m + 1 THEN Null ELSE t[j + 1 + 1]
  <2>1. t[j + 1] = s[j] /\ s[j] \in Nodes /\ s[j] # n /\ l.head = s[1]
    BY <1>1, <1>6
  <2>2. a.next[s[j]] = l.next[s[j]] /\ a.prev[s[j]] = IF j = 1 THEN n ELSE l.prev[s[j]]
    <3>1. s[j] = l.head <=> j = 1
      BY <1>1, <2>1
    <3> QED BY <1>4, <2>1, <3>1 DEF IsAtHead
  <2>3. a.prev[t[j + 1]] = t[j + 1 - 1]
    <3>1. j + 1 - 1 = j
      OBVIOUS
    <3>2. j # 1 => j - 1 \in 1 .. m /\ j - 1 + 1 = j
      OBVIOUS
    <3>3. j # 1 => t[j] = s[j - 1]
      BY <1>6, <3>2
    <3> QED BY <1>1, <1>6, <2>1, <2>2, <3>1, <3>3
  <2>4. j # m => t[j + 1 + 1] = s[j + 1]
    <3>1. j # m => j + 1 \in 1 .. m
      OBVIOUS
    <3> QED BY <1>6, <3>1
  <2>5. l.next[s[j]] = IF j = m THEN Null ELSE s[j + 1]
    BY <1>1
  <2>6. j + 1 = m + 1 <=> j = m
    OBVIOUS
  <2> QED BY <2>1, <2>2, <2>3, <2>4, <2>5, <2>6
<1>12. ASSUME NEW i \in 1 .. m + 1
       PROVE  /\ a.prev[t[i]] = IF i = 1 THEN Null ELSE t[i - 1]
              /\ a.next[t[i]] = IF i = m + 1 THEN Null ELSE t[i + 1]
  <2>1. CASE i = 1
    BY <1>10, <2>1
  <2>2. ASSUME NEW j \in 1 .. m, i = j + 1
        PROVE  /\ a.prev[t[i]] = IF i = 1 THEN Null ELSE t[i - 1]
               /\ a.next[t[i]] = IF i = m + 1 THEN Null ELSE t[i + 1]
    <3>1. i # 1
      BY <2>2
    <3> QED BY <1>11, <2>2, <3>1
  <2> QED BY <1>7, <2>1, <2>2
<1>13. Linked(a, t, m + 1)
  <2>1. m + 1 # 0
    OBVIOUS
  <2> QED BY <1>6, <1>8, <1>9, <1>12, <2>1 DEF Linked
<1> QED BY <1>4, <1>13 DEF IsAtHead, a, t

\* The last node goes; nothing points to it any more.
LEMMA RemoveLinked ==
    ASSUME NEW l \in Lists, NEW m \in Nat \ {0}, NEW s, Linked(l, s, m)
    PROVE  RemoveTail(l) \in Lists /\ Linked(RemoveTail(l), Shorter(s, m), m - 1) /\ l.tail = s[m]
<1> DEFINE e == l.prev[l.tail]
           next == Assigned(l.next, e, Null)
           r == RemoveTail(l)
           t == Shorter(s, m)
           k == m - 1
<1>1. /\ s \in [1 .. m -> Nodes] /\ m \in 1 .. m /\ 1 \in 1 .. m
      /\ \A i, j \in 1 .. m : s[i] = s[j] => i = j
      /\ l.head = s[1] /\ l.tail = s[m]
      /\ \A i \in 1 .. m : /\ l.prev[s[i]] = IF i = 1 THEN Null ELSE s[i - 1]
                           /\ l.next[s[i]] = IF i = m THEN Null ELSE s[i + 1]
  BY DEF Linked
<1>2. Null \notin Nodes
  BY LRUAssumption
<1>3. e = IF m = 1 THEN Null ELSE s[k]
  BY <1>1
<1>4. k \in Nat /\ (m = 1 <=> k = 0) /\ k + 1 = m /\ \A i \in 1 .. k : i \in 1 .. m /\ i # m
  OBVIOUS
<1> HIDE DEF k
<1>5. k # 0 => k \in 1 .. k /\ 1 \in 1 .. k
  BY <1>4
<1>6. e \in Nodes \cup {Null} /\ l.next \in Pointers /\ Null \in Nodes \cup {Null}
  BY <1>1, <1>3, <1>4, <1>5 DEF Lists, Pointers
<1> HIDE DEF e
<1>7. next = Point(l.next, e, Null) /\ next \in Pointers
  BY <1>6, PointType
<1>8. \A x \in Nodes : next[x] = IF x = e THEN Null ELSE l.next[x]
  BY DEF Assigned
<1>9. r = [head |-> IF e = Null THEN Null ELSE l.head, tail |-> e, next |-> next, prev |-> l.prev]
  BY <1>7 DEF RemoveTail, e
<1> HIDE DEF r, next
<1>10. r \in Lists
  BY <1>6, <1>7, <1>9 DEF Lists, Pointers
<1>11. t \in [1 .. k -> Nodes] /\ \A i \in 1 .. k : t[i] = s[i]
  BY <1>1, <1>4 DEF Shorter, k
<1> HIDE DEF t
<1>12. \A i, j \in 1 .. k : t[i] = t[j] => i = j
  BY <1>1, <1>4, <1>11
<1>13. r.head = (IF k = 0 THEN Null ELSE t[1]) /\ r.tail = IF k = 0 THEN Null ELSE t[k]
  <2>1. k # 0 => s[k] # Null
    BY <1>1, <1>2, <1>4, <1>5
  <2> QED BY <1>1, <1>3, <1>4, <1>5, <1>9, <1>11, <2>1
<1>14. ASSUME NEW i \in 1 .. k
       PROVE  r.prev[t[i]] = (IF i = 1 THEN Null ELSE t[i - 1]) /\ r.next[t[i]] = IF i = k THEN Null ELSE t[i + 1]
  <2>1. i \in 1 .. m /\ i # m /\ k # 0 /\ m # 1 /\ t[i] = s[i] /\ s[i] \in Nodes
    BY <1>1, <1>4, <1>11
  <2>2. (i # 1 => i - 1 \in 1 .. k) /\ (i # k => i + 1 \in 1 .. k)
    BY <1>4
  <2>3. s[i] = e <=> i = k
    BY <1>1, <1>3, <1>4, <1>5, <2>1
  <2> QED BY <1>1, <1>8, <1>9, <1>11, <2>1, <2>2, <2>3
<1>15. Linked(r, t, k)
  BY <1>11, <1>12, <1>13, <1>14 DEF Linked
<1> QED BY <1>1, <1>10, <1>15 DEF r, t, k

\* Walking along the list finds its nodes in that order, and in no other.
LEMMA OrderOfLinked ==
    ASSUME NEW l, NEW m \in Nat, NEW s, Linked(l, s, m), NEW nodes, nodes = {s[i] : i \in 1 .. m}
    PROVE  Order(l, nodes, m) = s
<1> DEFINE Walks(t) == \A i \in 1 .. m : t[i] = IF i = 1 THEN l.head ELSE l.next[t[i - 1]]
<1>1. /\ s \in [1 .. m -> nodes]
      /\ m # 0 => l.head = s[1]
      /\ \A i \in 1 .. m : l.next[s[i]] = IF i = m THEN Null ELSE s[i + 1]
  BY DEF Linked
<1>2. Walks(s)
  <2>1. ASSUME NEW i \in 1 .. m PROVE s[i] = IF i = 1 THEN l.head ELSE l.next[s[i - 1]]
    <3>1. m # 0 /\ (i # 1 => i - 1 \in 1 .. m /\ i - 1 # m /\ i - 1 + 1 = i)
      OBVIOUS
    <3> QED BY <1>1, <3>1
  <2> QED BY <2>1
<1>3. ASSUME NEW t \in [1 .. m -> nodes], Walks(t) PROVE t = s
  <2> DEFINE D == {i \in 1 .. m : t[i] # s[i]}
  <2>1. CASE D # {}
    <3>1. D \subseteq Nat
      OBVIOUS
    <3>2. PICK i \in D : \A j \in D : i <= j
      BY <2>1, <3>1, Least
    <3>3. i \in 1 .. m /\ t[i] # s[i]
      BY <3>2
    <3>4. i # 1
      BY <1>2, <1>3, <3>3
    <3>5. i - 1 \in 1 .. m /\ ~(i <= i - 1)
      BY <3>3, <3>4
    <3>6. t[i - 1] = s[i - 1]
      BY <3>2, <3>5
    <3>7. t[i] = l.next[t[i - 1]]
      BY <1>3, <3>3, <3>4
    <3>8. s[i] = l.next[s[i - 1]]
      BY <1>2, <3>3, <3>4
    <3> QED BY <3>3, <3>6, <3>7, <3>8
  <2>2. CASE D = {}
    <3>1. \A i \in 1 .. m : t[i] = s[i]
      BY <2>2
    <3>2. s \in [1 .. m -> nodes] /\ t \in [1 .. m -> nodes]
      BY <1>1, <1>3
    <3>3. s = [i \in 1 .. m |-> s[i]] /\ t = [i \in 1 .. m |-> t[i]]
      BY <3>2
    <3> QED BY <3>1, <3>3, Zenon
  <2> QED BY <2>1, <2>2
<1> QED BY <1>1, <1>2, <1>3 DEF Order

-----------------------------------------------------------------------------
(* The cache: the list, the nodes it runs through and the hash table.      *)

Records == [key : Keys, value : Values]

\* Exactly the n nodes of s are allocated.
Filled(d, s, n) ==
    /\ d \in [Nodes -> Records \cup {Missing}]
    /\ \A x \in Nodes : d[x] # Missing <=> \E i \in 1 .. n : s[i] = x

\* The hash table has the key of each of them, and nothing else.
Hashed(d, m, s, n) ==
    /\ DOMAIN m \subseteq Keys /\ m \in [DOMAIN m -> Nodes]
    /\ \A i \in 1 .. n : d[s[i]].key \in DOMAIN m /\ m[d[s[i]].key] = s[i]
    /\ \A k \in DOMAIN m : \E i \in 1 .. n : m[k] = s[i] /\ d[s[i]].key = k

Whole(l, d, m, s, n) == l \in Lists /\ Linked(l, s, n) /\ Filled(d, s, n) /\ Hashed(d, m, s, n)

\* A node whose key the hash table has, moved to the front with a new value.
LEMMA WholeMove ==
    ASSUME NEW n \in Nat, NEW l, NEW d, NEW m, NEW s, Whole(l, d, m, s, n),
           NEW k \in DOMAIN m, NEW v \in Values
    PROVE  \E p \in 1 .. n :
              /\ s[p] = m[k] /\ d[s[p]].key = k
              /\ Whole(MoveToHead(l, m[k]), [d EXCEPT ![m[k]] = [key |-> @.key, value |-> v]], m,
                       Moved(s, p, n), n)
<1>1. PICK p \in 1 .. n : m[k] = s[p] /\ d[s[p]].key = k
  BY DEF Whole, Hashed
<1> DEFINE e == [d EXCEPT ![m[k]] = [key |-> @.key, value |-> v]]
           t == Moved(s, p, n)
           a == MoveToHead(l, m[k])
<1>2. a \in Lists /\ Linked(a, t, n)
  BY <1>1, MoveLinked DEF Whole
<1>3. s \in [1 .. n -> Nodes] /\ s[p] \in Nodes /\ k \in Keys /\ d \in [Nodes -> Records \cup {Missing}]
      /\ d[s[p]] # Missing /\ \A x \in Nodes : d[x] # Missing <=> \E i \in 1 .. n : s[i] = x
  BY <1>1 DEF Whole, Linked, Filled, Hashed
<1>4. e = [d EXCEPT ![s[p]] = [key |-> k, value |-> v]]
  BY <1>1
<1>5. [key |-> k, value |-> v] \in Records /\ [key |-> k, value |-> v] # Missing
  BY <1>3, LRUAssumption DEF Records
<1> DEFINE r == [key |-> k, value |-> v]
<1>6. r \in Records /\ r # Missing /\ r.key = k /\ e = [d EXCEPT ![s[p]] = r]
  BY <1>4, <1>5
<1> HIDE DEF e, r
<1>7. \A i \in 1 .. n : \E j \in 1 .. n : t[i] = s[j]
  <2>1. ASSUME NEW i \in 1 .. n PROVE \E j \in 1 .. n : t[i] = s[j]
    <3>1. CASE i = 1
      BY <3>1 DEF Moved
    <3>2. CASE i # 1 /\ i <= p
      <4>1. i - 1 \in 1 .. n
        BY <3>2
      <4>2. t[i] = s[i - 1]
        BY <3>2 DEF Moved
      <4> QED BY <4>1, <4>2
    <3>3. CASE i # 1 /\ ~(i <= p)
      BY <3>3 DEF Moved
    <3> QED BY <3>1, <3>2, <3>3
  <2> QED BY <2>1
<1>8. \A j \in 1 .. n : \E i \in 1 .. n : t[i] = s[j]
  <2>1. ASSUME NEW j \in 1 .. n PROVE \E i \in 1 .. n : t[i] = s[j]
    <3>1. CASE j = p
      <4>1. 1 \in 1 .. n
        OBVIOUS
      <4>2. t[1] = s[p]
        BY <4>1 DEF Moved
      <4> QED BY <3>1, <4>1, <4>2
    <3>2. CASE j < p
      <4>1. j + 1 \in 1 .. n /\ j + 1 # 1 /\ j + 1 <= p /\ j + 1 - 1 = j
        BY <3>2
      <4>2. t[j + 1] = s[j]
        BY <4>1 DEF Moved
      <4> QED BY <4>1, <4>2
    <3>3. CASE j > p
      <4>1. j # 1 /\ ~(j <= p)
        BY <3>3
      <4> QED BY <4>1 DEF Moved
    <3>4. j = p \/ j < p \/ j > p
      OBVIOUS
    <3> QED BY <3>1, <3>2, <3>3, <3>4
  <2> QED BY <2>1
<1> HIDE DEF t
<1>9. Filled(e, t, n)
  <2>1. e \in [Nodes -> Records \cup {Missing}]
    BY <1>3, <1>6
  <2>2. \A x \in Nodes : e[x] # Missing <=> d[x] # Missing
    BY <1>3, <1>6
  <2>3. \A x \in Nodes : (\E i \in 1 .. n : t[i] = x) <=> \E j \in 1 .. n : s[j] = x
    BY <1>7, <1>8
  <2> QED BY <1>3, <2>1, <2>2, <2>3 DEF Filled
<1>10. Hashed(e, m, t, n)
  <2>1. \A j \in 1 .. n : e[s[j]].key = d[s[j]].key
    BY <1>1, <1>3, <1>6
  <2>2. /\ DOMAIN m \subseteq Keys /\ m \in [DOMAIN m -> Nodes]
        /\ \A i \in 1 .. n : d[s[i]].key \in DOMAIN m /\ m[d[s[i]].key] = s[i]
        /\ \A x \in DOMAIN m : \E i \in 1 .. n : m[x] = s[i] /\ d[s[i]].key = x
    BY DEF Whole, Hashed
  <2>3. ASSUME NEW i \in 1 .. n PROVE e[t[i]].key \in DOMAIN m /\ m[e[t[i]].key] = t[i]
    <3>1. PICK j \in 1 .. n : t[i] = s[j]
      BY <1>7
    <3>2. e[t[i]].key = d[s[j]].key
      BY <2>1, <3>1
    <3> QED BY <2>2, <3>1, <3>2
  <2>4. ASSUME NEW x \in DOMAIN m PROVE \E i \in 1 .. n : m[x] = t[i] /\ e[t[i]].key = x
    <3>1. PICK j \in 1 .. n : m[x] = s[j] /\ d[s[j]].key = x
      BY <2>2
    <3>2. PICK i \in 1 .. n : t[i] = s[j]
      BY <1>8
    <3>3. e[t[i]].key = d[s[j]].key
      BY <2>1, <3>2
    <3> QED BY <3>1, <3>2, <3>3
  <2> QED BY <2>2, <2>3, <2>4 DEF Hashed
<1> QED BY <1>1, <1>2, <1>9, <1>10 DEF Whole, e, t

\* A free node filled with a key the hash table does not have, in front of the others.
Known(m, k, x) == [y \in DOMAIN m \cup {k} |-> IF y = k THEN x ELSE m[y]]

LEMMA WholeAdd ==
    ASSUME NEW n \in Nat, NEW l, NEW d, NEW m, NEW s, Whole(l, d, m, s, n),
           NEW x \in Nodes, d[x] = Missing, NEW k \in Keys, k \notin DOMAIN m, NEW v \in Values
    PROVE  Whole(AddToHead(l, x), [d EXCEPT ![x] = [key |-> k, value |-> v]], Known(m, k, x),
                 Longer(s, x, n), n + 1)
<1> DEFINE r == [key |-> k, value |-> v]
           e == [d EXCEPT ![x] = r]
           t == Longer(s, x, n)
           a == AddToHead(l, x)
           b == Known(m, k, x)
<1>1. r \in Records /\ r # Missing /\ r.key = k
  BY LRUAssumption DEF Records
<1>2. s \in [1 .. n -> Nodes] /\ d \in [Nodes -> Records \cup {Missing}]
      /\ \A y \in Nodes : d[y] # Missing <=> \E i \in 1 .. n : s[i] = y
  BY DEF Whole, Linked, Filled
<1>3. \A i \in 1 .. n : s[i] # x
  BY <1>2
<1>4. a \in Lists /\ Linked(a, t, n + 1)
  BY <1>3, AddLinked DEF Whole
<1> HIDE DEF r
<1>5. 1 \in 1 .. n + 1 /\ t[1] = x /\ \A i \in 1 .. n : i + 1 \in 1 .. n + 1 /\ t[i + 1] = s[i]
  <2>1. 1 \in 1 .. n + 1 /\ \A i \in 1 .. n : i + 1 \in 1 .. n + 1 /\ i + 1 # 1 /\ i + 1 - 1 = i
    OBVIOUS
  <2> QED BY <2>1 DEF Longer
<1>6. \A i \in 1 .. n + 1 : i = 1 \/ \E j \in 1 .. n : i = j + 1
  <2>1. \A i \in 1 .. n + 1 : i # 1 => i - 1 \in 1 .. n /\ i = (i - 1) + 1
    OBVIOUS
  <2> QED BY <2>1
<1> HIDE DEF t
<1>7. Filled(e, t, n + 1)
  <2>1. e \in [Nodes -> Records \cup {Missing}]
    BY <1>1, <1>2
  <2>2. \A y \in Nodes : e[y] # Missing <=> y = x \/ d[y] # Missing
    BY <1>1, <1>2
  <2>3. \A y \in Nodes : (\E i \in 1 .. n + 1 : t[i] = y) <=> y = x \/ \E j \in 1 .. n : s[j] = y
    BY <1>5, <1>6
  <2> QED BY <1>2, <2>1, <2>2, <2>3 DEF Filled
<1>8. Hashed(e, b, t, n + 1)
  <2>1. /\ DOMAIN m \subseteq Keys /\ m \in [DOMAIN m -> Nodes]
        /\ \A i \in 1 .. n : d[s[i]].key \in DOMAIN m /\ m[d[s[i]].key] = s[i]
        /\ \A y \in DOMAIN m : \E i \in 1 .. n : m[y] = s[i] /\ d[s[i]].key = y
    BY DEF Whole, Hashed
  <2>2. DOMAIN b = DOMAIN m \cup {k} /\ b[k] = x /\ \A y \in DOMAIN m : b[y] = m[y]
    BY DEF Known
  <2>3. DOMAIN b \subseteq Keys /\ b \in [DOMAIN b -> Nodes]
    BY <2>1, <2>2 DEF Known
  <2>4. e[x].key = k /\ \A i \in 1 .. n : e[s[i]].key = d[s[i]].key
    BY <1>1, <1>2, <1>3
  <2>5. ASSUME NEW i \in 1 .. n + 1 PROVE e[t[i]].key \in DOMAIN b /\ b[e[t[i]].key] = t[i]
    <3>1. CASE i = 1
      BY <1>5, <2>2, <2>4, <3>1
    <3>2. ASSUME NEW j \in 1 .. n, i = j + 1 PROVE e[t[i]].key \in DOMAIN b /\ b[e[t[i]].key] = t[i]
      <4>1. t[i] = s[j] /\ e[s[j]].key = d[s[j]].key
        BY <1>5, <2>4, <3>2
      <4> QED BY <2>1, <2>2, <4>1
    <3> QED BY <1>6, <3>1, <3>2
  <2>6. ASSUME NEW y \in DOMAIN b PROVE \E i \in 1 .. n + 1 : b[y] = t[i] /\ e[t[i]].key = y
    <3>1. CASE y = k
      BY <1>5, <2>2, <2>4, <3>1
    <3>2. CASE y # k
      <4>1. y \in DOMAIN m
        BY <2>2, <3>2
      <4>2. PICK j \in 1 .. n : m[y] = s[j] /\ d[s[j]].key = y
        BY <2>1, <4>1
      <4>3. b[y] = t[j + 1] /\ e[t[j + 1]].key = y /\ j + 1 \in 1 .. n + 1
        BY <1>5, <2>2, <2>4, <4>1, <4>2
      <4> QED BY <4>3
    <3> QED BY <3>1, <3>2
  <2> HIDE DEF e, b
  <2> QED BY <2>3, <2>5, <2>6 DEF Hashed
<1> QED BY <1>4, <1>7, <1>8 DEF Whole, e, b, t, r

\* The last node freed, and its key forgotten.
LEMMA WholeRemove ==
    ASSUME NEW n \in Nat \ {0}, NEW l, NEW d, NEW m, NEW s, Whole(l, d, m, s, n)
    PROVE  Whole(RemoveTail(l), [d EXCEPT ![l.tail] = Missing], Forgotten(m, d[l.tail].key),
                 Shorter(s, n), n - 1)
<1> DEFINE z == l.tail
           e == [d EXCEPT ![z] = Missing]
           b == Forgotten(m, d[z].key)
           t == Shorter(s, n)
           a == RemoveTail(l)
           k == n - 1
<1>1. a \in Lists /\ Linked(a, t, k) /\ z = s[n]
  BY RemoveLinked DEF Whole
<1>2. /\ s \in [1 .. n -> Nodes] /\ n \in 1 .. n /\ d \in [Nodes -> Records \cup {Missing}]
      /\ \A i, j \in 1 .. n : s[i] = s[j] => i = j
      /\ \A y \in Nodes : d[y] # Missing <=> \E i \in 1 .. n : s[i] = y
  BY DEF Whole, Linked, Filled
<1>3. \A i \in 1 .. k : i \in 1 .. n /\ i # n /\ t[i] = s[i]
  BY DEF Shorter
<1>4. \A i \in 1 .. n : i = n \/ i \in 1 .. k
  OBVIOUS
<1> HIDE DEF t, k
<1>5. Filled(e, t, k)
  <2>1. e \in [Nodes -> Records \cup {Missing}] /\ \A y \in Nodes : e[y] # Missing <=> y # z /\ d[y] # Missing
    BY <1>1, <1>2
  <2>2. \A y \in Nodes : (\E i \in 1 .. k : t[i] = y) <=> y # z /\ \E j \in 1 .. n : s[j] = y
    BY <1>1, <1>2, <1>3, <1>4
  <2> QED BY <1>2, <2>1, <2>2 DEF Filled
<1>6. Hashed(e, b, t, k)
  <2>1. /\ DOMAIN m \subseteq Keys /\ m \in [DOMAIN m -> Nodes]
        /\ \A i \in 1 .. n : d[s[i]].key \in DOMAIN m /\ m[d[s[i]].key] = s[i]
        /\ \A y \in DOMAIN m : \E i \in 1 .. n : m[y] = s[i] /\ d[s[i]].key = y
    BY DEF Whole, Hashed
  <2>2. DOMAIN b = DOMAIN m \ {d[z].key} /\ \A y \in DOMAIN b : b[y] = m[y]
    BY DEF Forgotten
  <2>3. DOMAIN b \subseteq Keys /\ b \in [DOMAIN b -> Nodes]
    BY <2>1, <2>2 DEF Forgotten
  <2>4. \A i \in 1 .. k : e[t[i]] = d[s[i]]
    BY <1>1, <1>2, <1>3
  <2>5. ASSUME NEW i \in 1 .. k PROVE e[t[i]].key \in DOMAIN b /\ b[e[t[i]].key] = t[i]
    <3>1. i \in 1 .. n /\ t[i] = s[i] /\ s[i] # s[n]
      BY <1>2, <1>3
    <3>2. d[s[i]].key # d[z].key
      BY <1>1, <1>2, <2>1, <3>1
    <3> QED BY <2>1, <2>2, <2>4, <3>1, <3>2
  <2>6. ASSUME NEW y \in DOMAIN b PROVE \E i \in 1 .. k : b[y] = t[i] /\ e[t[i]].key = y
    <3>1. PICK j \in 1 .. n : m[y] = s[j] /\ d[s[j]].key = y
      BY <2>1, <2>2
    <3>2. j # n
      BY <1>1, <2>2, <3>1
    <3>3. j \in 1 .. k
      BY <1>4, <3>2
    <3> QED BY <1>3, <2>2, <2>4, <3>1, <3>3
  <2> HIDE DEF e, b
  <2> QED BY <2>3, <2>5, <2>6 DEF Hashed
<1> QED BY <1>1, <1>5, <1>6 DEF Whole, e, b, t, k

-----------------------------------------------------------------------------
(* The cache: the steps, in terms of the nodes of the list in their order. *)

Ordered(s) == Whole(list, data, map, s, size)

\* A get that finds its key moves one node to the front.
LEMMA HitStep ==
    ASSUME size \in Nat, NEW s, Ordered(s), NEW k \in Keys, Hit(k)
    PROVE  \E p \in 1 .. size :
              /\ s[p] = map[k] /\ data[s[p]].key = k /\ answer' = data[s[p]].value
              /\ answer' \in Values
              /\ data' = data /\ size' = size
              /\ Whole(list', data', map', Moved(s, p, size), size')
<1>1. k \in DOMAIN map /\ list' = MoveToHead(list, map[k]) /\ answer' = data[map[k]].value
      /\ data' = data /\ map' = map /\ size' = size
  BY DEF Hit
<1>2. data[map[k]] \in Records
  <2>1. PICK i \in 1 .. size : map[k] = s[i]
    BY <1>1 DEF Ordered, Whole, Hashed
  <2>2. s[i] \in Nodes
    BY DEF Ordered, Whole, Linked
  <2> QED BY <2>1, <2>2 DEF Ordered, Whole, Filled
<1> DEFINE v == data[map[k]].value
           e == [data EXCEPT ![map[k]] = [key |-> @.key, value |-> v]]
<1>3. v \in Values
  BY <1>2 DEF Records
<1>4. PICK p \in 1 .. size :
         s[p] = map[k] /\ data[s[p]].key = k
         /\ Whole(MoveToHead(list, map[k]), e, map, Moved(s, p, size), size)
  <2> HIDE DEF v
  <2> QED BY <1>1, <1>3, WholeMove DEF Ordered
<1>5. e = data
  <2>1. [key |-> data[map[k]].key, value |-> v] = data[map[k]]
    BY <1>2 DEF Records
  <2>2. data \in [Nodes -> Records \cup {Missing}]
    BY DEF Ordered, Whole, Filled
  <2> QED BY <2>1, <2>2
<1> QED BY <1>1, <1>3, <1>4, <1>5

\* A put that finds its key does so too, and gives the node its new value.
LEMMA UpdateStep ==
    ASSUME size \in Nat, NEW s, Ordered(s), NEW k \in Keys, NEW v \in Values, Update(k, v)
    PROVE  \E p \in 1 .. size :
              /\ s[p] = map[k] /\ data[s[p]].key = k /\ answer' = answer
              /\ data' = [data EXCEPT ![s[p]] = [key |-> k, value |-> v]] /\ size' = size
              /\ Whole(list', data', map', Moved(s, p, size), size')
<1>1. k \in DOMAIN map /\ list' = MoveToHead(list, map[k]) /\ map' = map /\ size' = size
      /\ data' = [data EXCEPT ![map[k]] = [key |-> @.key, value |-> v]] /\ answer' = answer
  BY DEF Update
<1>2. PICK p \in 1 .. size :
         s[p] = map[k] /\ data[s[p]].key = k
         /\ Whole(list', data', map, Moved(s, p, size), size)
  BY <1>1, WholeMove DEF Ordered
<1> QED BY <1>1, <1>2

\* A put of a new key fills a free node; beyond the capacity the last node is freed.
LEMMA InsertStep ==
    ASSUME size \in Nat, NEW s, Ordered(s), NEW k \in Keys, NEW v \in Values, Insert(k, v)
    PROVE  \E x \in Nodes :
              LET t == Longer(s, x, size)
                  e == [data EXCEPT ![x] = [key |-> k, value |-> v]]
              IN  /\ data[x] = Missing /\ k \notin DOMAIN map /\ answer' = answer
                  /\ \/ /\ ~Full(size + 1) /\ size' = size + 1 /\ data' = e
                        /\ Whole(list', data', map', t, size')
                     \/ /\ Full(size + 1) /\ size' = size
                        /\ data' = [e EXCEPT ![t[size + 1]] = Missing]
                        /\ Whole(list', data', map', Shorter(t, size + 1), size')
<1>1. k \notin DOMAIN map /\ answer' = answer
  BY DEF Insert
<1>2. PICK x \in Nodes \ Used :
         LET grown == AddToHead(list, x)
             filled == [data EXCEPT ![x] = [key |-> k, value |-> v]]
             known == Known(map, k, x)
         IN  IF Full(size + 1)
             THEN /\ list' = RemoveTail(grown)
                  /\ map' = Forgotten(known, filled[grown.tail].key)
                  /\ data' = [filled EXCEPT ![grown.tail] = Missing]
                  /\ size' = size
             ELSE /\ list' = grown /\ map' = known /\ data' = filled /\ size' = size + 1
  BY DEF Insert, Known
<1> DEFINE g == AddToHead(list, x)
           e == [data EXCEPT ![x] = [key |-> k, value |-> v]]
           b == Known(map, k, x)
           t == Longer(s, x, size)
<1>3. x \in Nodes /\ data[x] = Missing
  BY DEF Used
<1>4. Whole(g, e, b, t, size + 1)
  BY <1>1, <1>3, WholeAdd DEF Ordered
<1>5. CASE ~Full(size + 1)
  <2>1. list' = g /\ map' = b /\ data' = e /\ size' = size + 1
    BY <1>2, <1>5
  <2> HIDE DEF g, b, e, t
  <2>2. Whole(list', data', map', t, size')
    BY <1>4, <2>1
  <2> QED BY <1>1, <1>3, <1>5, <2>1, <2>2 DEF e, t
<1>6. CASE Full(size + 1)
  <2>1. list' = RemoveTail(g) /\ map' = Forgotten(b, e[g.tail].key)
        /\ data' = [e EXCEPT ![g.tail] = Missing] /\ size' = size
    BY <1>2, <1>6
  <2> HIDE DEF g, b, e, t
  <2>2. size + 1 \in Nat \ {0} /\ size + 1 - 1 = size
    OBVIOUS
  <2>3. Whole(list', data', map', Shorter(t, size + 1), size')
    <3> DEFINE n == size + 1
               k2 == n - 1
    <3>1. n \in Nat \ {0} /\ k2 = size' /\ Whole(g, e, b, t, n)
      BY <1>4, <2>1, <2>2
    <3> HIDE DEF n
    <3>2. Whole(RemoveTail(g), [e EXCEPT ![g.tail] = Missing], Forgotten(b, e[g.tail].key),
                Shorter(t, n), n - 1)
      BY <3>1, WholeRemove
    <3> QED BY <2>1, <3>1, <3>2 DEF n
  <2>4. g.tail = t[size + 1]
    BY <1>4, <2>2, RemoveLinked DEF Whole
  <2> QED BY <1>1, <1>3, <1>6, <2>1, <2>3, <2>4 DEF e, t
<1> QED BY <1>5, <1>6

-----------------------------------------------------------------------------
(* The cache: the whole structure is sound.                                *)

\* The pointers run through the allocated nodes in some order, and the hash table is
\* in step: inductive, where CacheSound alone would admit a list and a ring beside it.
Chained ==
    /\ size \in 0 .. Capacity
    /\ answer \in Values \cup {Missing}
    /\ \E s : Ordered(s)

LEMMA ChainedInit == CacheInit => Chained
<1> SUFFICES ASSUME CacheInit PROVE Chained
  OBVIOUS
<1> DEFINE s == [i \in 1 .. 0 |-> Null]
<1>1. list \in Lists
  BY DEF CacheInit, Lists
<1>2. Linked(list, s, 0)
  <2>1. 1 .. 0 = {}
    OBVIOUS
  <2>2. s \in [1 .. 0 -> Nodes]
    BY <2>1
  <2> QED BY <2>1, <2>2 DEF CacheInit, Linked
<1>3. Filled(data, s, 0) /\ Hashed(data, map, s, 0)
  <2>1. 1 .. 0 = {}
    OBVIOUS
  <2> QED BY <2>1 DEF CacheInit, Filled, Hashed
<1>4. size = 0 /\ size \in 0 .. Capacity /\ answer = Missing
  BY LRUAssumption DEF CacheInit
<1> HIDE DEF s
<1> QED BY <1>1, <1>2, <1>3, <1>4 DEF Chained, Ordered, Whole

LEMMA ChainedStep == Chained /\ [CacheNext]_cacheVars => Chained'
<1> SUFFICES ASSUME Chained, [CacheNext]_cacheVars PROVE Chained'
  OBVIOUS
<1>1. PICK s : Ordered(s)
  BY DEF Chained
<1>2. size \in Nat /\ size \in 0 .. Capacity /\ Capacity \in Nat
  BY LRUAssumption DEF Chained
<1> DEFINE Goal == size' \in 0 .. Capacity /\ \E t : Whole(list', data', map', t, size')
<1>3. ASSUME NEW k \in Keys, Hit(k) PROVE Goal /\ answer' \in Values
  BY <1>1, <1>2, <1>3, HitStep
<1>4. ASSUME NEW k \in Keys, Miss(k) PROVE Goal /\ answer' = Missing
  BY <1>1, <1>2, <1>4 DEF Miss, Ordered
<1>5. ASSUME NEW k \in Keys, NEW v \in Values, Update(k, v) PROVE Goal /\ answer' = answer
  BY <1>1, <1>2, <1>5, UpdateStep
<1>6. ASSUME NEW k \in Keys, NEW v \in Values, Insert(k, v) PROVE Goal /\ answer' = answer
  <2>1. ~Full(size + 1) => size + 1 \in 0 .. Capacity
    BY <1>2 DEF Full
  <2> QED BY <1>1, <1>2, <1>6, <2>1, InsertStep
<1>7. ASSUME UNCHANGED cacheVars PROVE Goal /\ answer' = answer
  BY <1>1, <1>2, <1>7 DEF cacheVars, Ordered
<1>8. Goal /\ answer' \in Values \cup {Missing, answer}
  <2> HIDE DEF Goal
  <2>1. CASE UNCHANGED cacheVars
    BY <1>7, <2>1
  <2> QED BY <1>3, <1>4, <1>5, <1>6, <2>1 DEF CacheNext
<1> QED BY <1>8 DEF Chained, Ordered

LEMMA ChainedAlways == CacheSpec => []Chained
BY ChainedInit, ChainedStep, PTL DEF CacheSpec

\* After any gets and puts, of any keys and values and whatever the capacity, the
\* pointers, the hash table and the count of LRU_Cache.cpp:8-66 describe one list.
THEOREM LRUCacheSound == CacheSpec => []CacheSound
<1>1. Chained => CacheSound
  <2> SUFFICES ASSUME NEW s, Ordered(s), Chained PROVE CacheSound
    BY DEF Chained
  <2>1. /\ size \in Nat /\ size \in 0 .. Capacity /\ list \in Lists
        /\ s \in [1 .. size -> Nodes]
        /\ \A i, j \in 1 .. size : s[i] = s[j] => i = j
        /\ list.head = IF size = 0 THEN Null ELSE s[1]
        /\ list.tail = IF size = 0 THEN Null ELSE s[size]
        /\ \A i \in 1 .. size : /\ list.prev[s[i]] = IF i = 1 THEN Null ELSE s[i - 1]
                                /\ list.next[s[i]] = IF i = size THEN Null ELSE s[i + 1]
    BY LRUAssumption DEF Chained, Ordered, Whole, Linked
  <2>2. /\ data \in [Nodes -> Records \cup {Missing}]
        /\ \A x \in Used : \E i \in 1 .. size : s[i] = x
        /\ \A i \in 1 .. size : s[i] \in Used /\ s[i] # Null
    BY <2>1, LRUAssumption DEF Ordered, Whole, Filled, Used
  <2>3. /\ DOMAIN map \subseteq Keys /\ map \in [DOMAIN map -> Nodes]
        /\ \A i \in 1 .. size : data[s[i]].key \in DOMAIN map /\ map[data[s[i]].key] = s[i]
        /\ \A k \in DOMAIN map : \E i \in 1 .. size : map[k] = s[i] /\ data[s[i]].key = k
    BY DEF Ordered, Whole, Hashed
  <2>4. CacheTypeOK
    BY <2>1, <2>2, <2>3 DEF CacheTypeOK, Chained, Records
  <2>5. MapMatchesList
    <3>1. \A n \in Used : data[n].key \in DOMAIN map /\ map[data[n].key] = n
      BY <2>2, <2>3
    <3>2. \A k \in DOMAIN map : map[k] \in Used /\ data[map[k]].key = k
      BY <2>2, <2>3
    <3>3. size = Cardinality(Used)
      <4>1. Distinct(s) /\ Elements(s) = Used
        BY <2>1, <2>2 DEF Distinct, Elements
      <4> QED BY <2>1, <4>1, CountDistinct
    <3>4. size <= Capacity
      BY <2>1, LRUAssumption
    <3> QED BY <3>1, <3>2, <3>3, <3>4 DEF MapMatchesList
  <2>6. ListSound
    <3>1. size # 0 => 1 \in 1 .. size /\ size \in 1 .. size
      BY <2>1
    <3>2. (list.head = Null <=> size = 0) /\ (list.tail = Null <=> size = 0)
      BY <2>1, <2>2, <3>1
    <3>3. Used = {} <=> size = 0
      <4>1. size = 0 => 1 .. size = {}
        OBVIOUS
      <4> QED BY <2>2, <3>1, <4>1
    <3>4. ASSUME NEW n \in Used
          PROVE  /\ list.next[n] \in Used \cup {Null} /\ list.prev[n] \in Used \cup {Null}
                 /\ list.next[n] = Null <=> n = list.tail
                 /\ list.prev[n] = Null <=> n = list.head
                 /\ list.next[n] # Null => list.prev[list.next[n]] = n
                 /\ list.prev[n] # Null => list.next[list.prev[n]] = n
      <4>1. PICK i \in 1 .. size : s[i] = n
        BY <2>2
      <4>2. size # 0 /\ (i # 1 => i - 1 \in 1 .. size /\ i - 1 # size /\ i - 1 + 1 = i)
            /\ (i # size => i + 1 \in 1 .. size /\ i + 1 # 1 /\ i + 1 - 1 = i)
        BY <2>1
      <4>3. n = list.tail <=> i = size
        BY <2>1, <3>1, <4>1, <4>2
      <4>4. n = list.head <=> i = 1
        BY <2>1, <3>1, <4>1, <4>2
      <4>5. CASE i # size
        <5>1. list.next[n] = s[i + 1] /\ list.prev[s[i + 1]] = s[i]
          BY <2>1, <4>1, <4>2, <4>5
        <5>2. s[i + 1] \in Used /\ s[i + 1] # Null
          BY <2>2, <4>2, <4>5
        <5>3. CASE i = 1
          <6>1. list.prev[n] = Null
            BY <2>1, <4>1, <5>3
          <6> QED BY <4>1, <4>3, <4>4, <4>5, <5>1, <5>2, <5>3, <6>1
        <5>4. CASE i # 1
          <6>1. list.prev[n] = s[i - 1] /\ list.next[s[i - 1]] = s[i]
            BY <2>1, <4>1, <4>2, <5>4
          <6>2. s[i - 1] \in Used /\ s[i - 1] # Null
            BY <2>2, <4>2, <5>4
          <6> QED BY <4>1, <4>3, <4>4, <4>5, <5>1, <5>2, <5>4, <6>1, <6>2
        <5> QED BY <5>3, <5>4
      <4>6. CASE i = size
        <5>1. list.next[n] = Null
          BY <2>1, <4>1, <4>6
        <5>2. CASE i = 1
          <6>1. list.prev[n] = Null
            BY <2>1, <4>1, <5>2
          <6> QED BY <4>3, <4>4, <4>6, <5>1, <5>2, <6>1
        <5>3. CASE i # 1
          <6>1. list.prev[n] = s[i - 1] /\ list.next[s[i - 1]] = s[i]
            BY <2>1, <4>1, <4>2, <5>3
          <6>2. s[i - 1] \in Used /\ s[i - 1] # Null
            BY <2>2, <4>2, <5>3
          <6> QED BY <4>1, <4>3, <4>4, <4>6, <5>1, <5>3, <6>1, <6>2
        <5> QED BY <5>2, <5>3
      <4> QED BY <4>5, <4>6
    <3>5. list.head # Null => {list.head, list.tail} \subseteq Used
      BY <2>1, <2>2, <3>1, <3>2
    <3> QED BY <3>2, <3>3, <3>4, <3>5 DEF ListSound
  <2> QED BY <2>4, <2>5, <2>6 DEF CacheSound
<1> QED BY <1>1, ChainedAlways, PTL

-----------------------------------------------------------------------------
(* The cache: the list is the order of last use.                           *)

\* What the entries of LRU are, when s is the order of the nodes: now and after a step.
LEMMA EntriesInOrder ==
    ASSUME NEW s, Ordered(s), size \in Nat
    PROVE  Entries = [i \in 1 .. size |-> data[s[i]]]
<1> DEFINE nodes == {n \in Nodes : data[n] # Missing}
<1>1. nodes = {s[i] : i \in 1 .. size} /\ Linked(list, s, size)
  BY DEF Ordered, Whole, Filled, Linked
<1> HIDE DEF nodes
<1>2. Order(list, nodes, size) = s
  BY <1>1, OrderOfLinked
<1>3. Used = nodes
  BY DEF Used, nodes
<1> QED BY <1>2, <1>3 DEF Entries

LEMMA EntriesNext ==
    ASSUME NEW s, Whole(list', data', map', s, size'), size' \in Nat
    PROVE  Entries' = [i \in 1 .. size' |-> data'[s[i]]]
<1> DEFINE nodes == {n \in Nodes : data'[n] # Missing}
<1>1. nodes = {s[i] : i \in 1 .. size'} /\ Linked(list', s, size')
  BY DEF Whole, Filled, Linked
<1> HIDE DEF nodes
<1>2. Order(list', nodes, size') = s
  BY <1>1, OrderOfLinked
<1>3. Used' = nodes
  BY DEF Used, nodes
<1> QED BY <1>2, <1>3 DEF Entries

\* Moving a node to the front, with a value, is a use of its entry.
LEMMA MovedIsUse ==
    ASSUME NEW s, Ordered(s), size \in Nat, NEW p \in 1 .. size, NEW v,
           Whole(list', data', map', Moved(s, p, size), size'), size' = size,
           \A x \in Nodes : data'[x] = IF x = s[p] THEN [key |-> data[s[p]].key, value |-> v] ELSE data[x]
    PROVE  Abstract!Use(p, v) /\ p \in DOMAIN Entries /\ Entries[p] = data[s[p]]
<1> DEFINE r == [key |-> data[s[p]].key, value |-> v]
           t == Moved(s, p, size)
<1>1. Entries = [i \in 1 .. size |-> data[s[i]]]
  BY EntriesInOrder
<1>2. Entries' = [i \in 1 .. size |-> data'[t[i]]]
  BY EntriesNext
<1>3. s \in [1 .. size -> Nodes] /\ \A i, j \in 1 .. size : s[i] = s[j] => i = j
  BY DEF Ordered, Whole, Linked
<1>4. ASSUME NEW i \in 1 .. size
      PROVE  data'[t[i]] = IF i = 1 THEN r ELSE IF i <= p THEN Entries[i - 1] ELSE Entries[i]
  <2> HIDE DEF r
  <2>1. CASE i = 1
    BY <1>3, <2>1 DEF Moved, r
  <2>2. CASE i # 1 /\ i <= p
    <3>1. i - 1 \in 1 .. size /\ i - 1 # p
      BY <2>2
    <3>2. t[i] = s[i - 1]
      BY <2>2 DEF Moved
    <3> QED BY <1>1, <1>3, <2>2, <3>1, <3>2
  <2>3. CASE i # 1 /\ ~(i <= p)
    <3>1. t[i] = s[i] /\ i # p
      BY <2>3 DEF Moved
    <3> QED BY <1>1, <1>3, <2>3, <3>1
  <2> QED BY <2>1, <2>2, <2>3
<1>5. Abstract!Fronted(r, p, size)
      = [i \in 1 .. size |-> IF i = 1 THEN r ELSE IF i <= p THEN Entries[i - 1] ELSE Entries[i]]
  BY DEF Abstract!Fronted
<1>6. Entries' = Abstract!Fronted(r, p, size)
  <2> HIDE DEF r, t
  <2> QED BY <1>2, <1>4, <1>5
<1>7. Len(Entries) = size /\ p \in DOMAIN Entries /\ Entries[p] = data[s[p]]
  BY <1>1
<1> QED BY <1>6, <1>7 DEF Abstract!Use

\* The linked list and the hash table implement the least-recently-used cache: every get
\* answers as LRU does and every put evicts what LRU evicts (LRU_Cache.cpp:8-66).
THEOREM LRUCacheImplementsLRU == CacheSpec => ImplementsLRU
<1>1. CacheInit => Abstract!Init
  <2> SUFFICES ASSUME CacheInit PROVE Abstract!Init
    OBVIOUS
  <2>1. PICK s : Ordered(s)
    BY ChainedInit DEF Chained
  <2>2. size = 0 /\ answer = Missing
    BY DEF CacheInit
  <2>3. Entries = << >>
    BY <2>1, <2>2, EntriesInOrder
  <2> QED BY <2>2, <2>3 DEF Abstract!Init
<1>2. Chained /\ [CacheNext]_cacheVars => [Abstract!Next]_(Abstract!vars)
  <2> SUFFICES ASSUME Chained, [CacheNext]_cacheVars
               PROVE  Abstract!Next \/ UNCHANGED Abstract!vars
    OBVIOUS
  <2>1. PICK s : Ordered(s)
    BY DEF Chained
  <2>2. size \in Nat /\ size <= Capacity /\ Capacity \in Nat
    BY LRUAssumption DEF Chained
  <2>3. Entries = [i \in 1 .. size |-> data[s[i]]]
    BY <2>1, <2>2, EntriesInOrder
  <2>4. ASSUME NEW k \in Keys, k \notin DOMAIN map PROVE ~Abstract!Has(k)
    <3>1. \A i \in 1 .. size : data[s[i]].key \in DOMAIN map
      BY <2>1 DEF Ordered, Whole, Hashed
    <3> QED BY <2>3, <2>4, <3>1 DEF Abstract!Has
  <2>5. ASSUME NEW k \in Keys, Hit(k) PROVE Abstract!Get(k)
    <3>1. PICK p \in 1 .. size :
             /\ s[p] = map[k] /\ data[s[p]].key = k /\ answer' = data[s[p]].value
             /\ data' = data /\ size' = size
             /\ Whole(list', data', map', Moved(s, p, size), size')
      BY <2>1, <2>2, <2>5, HitStep
    <3>2. data[s[p]] \in Records
      <4>1. s[p] \in Nodes /\ \E i \in 1 .. size : s[i] = s[p]
        BY <2>1 DEF Ordered, Whole, Linked
      <4> QED BY <2>1, <4>1 DEF Ordered, Whole, Filled
    <3>3. [key |-> data[s[p]].key, value |-> data[s[p]].value] = data[s[p]]
      BY <3>2 DEF Records
    <3>4. \A x \in Nodes : data'[x] = IF x = s[p]
             THEN [key |-> data[s[p]].key, value |-> data[s[p]].value] ELSE data[x]
      BY <3>1, <3>3
    <3>5. Abstract!Use(p, data[s[p]].value) /\ p \in DOMAIN Entries /\ Entries[p] = data[s[p]]
      BY <2>1, <2>2, <3>1, <3>4, MovedIsUse
    <3> QED BY <3>1, <3>5 DEF Abstract!Get
  <2>6. ASSUME NEW k \in Keys, Miss(k) PROVE Abstract!Get(k)
    <3>1. answer' = Missing /\ k \notin DOMAIN map
      BY <2>6 DEF Miss
    <3>2. Entries' = Entries
      BY <2>6 DEF Miss, Entries, Used
    <3> QED BY <2>4, <3>1, <3>2 DEF Abstract!Get
  <2>7. ASSUME NEW k \in Keys, NEW v \in Values, Update(k, v) PROVE Abstract!Put(k, v)
    <3>1. PICK p \in 1 .. size :
             /\ s[p] = map[k] /\ data[s[p]].key = k /\ answer' = answer
             /\ data' = [data EXCEPT ![s[p]] = [key |-> k, value |-> v]] /\ size' = size
             /\ Whole(list', data', map', Moved(s, p, size), size')
      BY <2>1, <2>2, <2>7, UpdateStep
    <3>2. \A x \in Nodes : data'[x] = IF x = s[p]
             THEN [key |-> data[s[p]].key, value |-> v] ELSE data[x]
      <4>1. [key |-> data[s[p]].key, value |-> v] = [key |-> k, value |-> v]
        BY <3>1
      <4>2. data \in [Nodes -> Records \cup {Missing}]
        BY <2>1 DEF Ordered, Whole, Filled
      <4> QED BY <3>1, <4>1, <4>2
    <3>3. Abstract!Use(p, v) /\ p \in DOMAIN Entries /\ Entries[p] = data[s[p]]
      <4>1. Whole(list', data', map', Moved(s, p, size), size') /\ size' = size
        BY <3>1
      <4> QED BY <2>1, <2>2, <3>2, <4>1, MovedIsUse
    <3> QED BY <3>1, <3>3 DEF Abstract!Put
  <2>8. ASSUME NEW k \in Keys, NEW v \in Values, Insert(k, v) PROVE Abstract!Put(k, v)
    <3> DEFINE r == [key |-> k, value |-> v]
    <3>1. PICK x \in Nodes :
             LET t == Longer(s, x, size)
                 e == [data EXCEPT ![x] = r]
             IN  /\ data[x] = Missing /\ k \notin DOMAIN map /\ answer' = answer
                 /\ \/ /\ ~Full(size + 1) /\ size' = size + 1 /\ data' = e
                       /\ Whole(list', data', map', t, size')
                    \/ /\ Full(size + 1) /\ size' = size
                       /\ data' = [e EXCEPT ![t[size + 1]] = Missing]
                       /\ Whole(list', data', map', Shorter(t, size + 1), size')
      BY <2>1, <2>2, <2>8, InsertStep
    <3> DEFINE t == Longer(s, x, size)
               e == [data EXCEPT ![x] = r]
               length == IF Full(size + 1) THEN size ELSE size + 1
    <3>2. /\ s \in [1 .. size -> Nodes] /\ data \in [Nodes -> Records \cup {Missing}]
          /\ \A i, j \in 1 .. size : s[i] = s[j] => i = j
          /\ \A y \in Nodes : data[y] # Missing <=> \E i \in 1 .. size : s[i] = y
      BY <2>1 DEF Ordered, Whole, Linked, Filled
    <3>3. data[x] = Missing /\ k \notin DOMAIN map /\ answer' = answer
      BY <3>1
    <3>4. \A i \in 1 .. size : s[i] # x
      BY <3>2, <3>3
    <3>5. Len(Entries) = size /\ ~Abstract!Has(k)
      BY <2>2, <2>3, <2>4, <3>3
    <3>6. Abstract!Grown = length /\ length \in {size, size + 1}
      BY <2>2, <3>5 DEF Abstract!Grown, Full
    <3>7. ASSUME NEW i \in 1 .. size + 1
          PROVE  e[t[i]] = IF i = 1 THEN r ELSE Entries[i - 1]
      <4> HIDE DEF r
      <4>1. CASE i = 1
        BY <3>2, <4>1 DEF Longer
      <4>2. CASE i # 1
        <5>1. i - 1 \in 1 .. size
          BY <2>2, <4>2
        <5>2. t[i] = s[i - 1]
          BY <4>2 DEF Longer
        <5> QED BY <2>3, <3>2, <3>4, <4>2, <5>1, <5>2
      <4> QED BY <4>1, <4>2
    <3>8. Abstract!Fronted(r, Len(Entries) + 1, Abstract!Grown)
          = [i \in 1 .. length |-> IF i = 1 THEN r ELSE IF i <= size + 1 THEN Entries[i - 1] ELSE Entries[i]]
      <4> HIDE DEF r, length
      <4> QED BY <3>5, <3>6 DEF Abstract!Fronted
    <3>9. Entries' = [i \in 1 .. length |-> e[t[i]]]
      <4>1. CASE ~Full(size + 1)
        <5>1. size' = size + 1 /\ data' = e /\ Whole(list', data', map', t, size') /\ size' \in Nat
          BY <2>2, <3>1, <4>1
        <5> HIDE DEF e, t
        <5>2. Entries' = [i \in 1 .. size' |-> data'[t[i]]]
          BY <5>1, EntriesNext
        <5> QED BY <4>1, <5>1, <5>2
      <4>2. CASE Full(size + 1)
        <5>1. size' = size /\ data' = [e EXCEPT ![t[size + 1]] = Missing]
              /\ Whole(list', data', map', Shorter(t, size + 1), size')
          BY <3>1, <4>2
        <5>2. Entries' = [i \in 1 .. size |-> data'[Shorter(t, size + 1)[i]]]
          BY <2>2, <5>1, EntriesNext
        <5>3. ASSUME NEW i \in 1 .. size PROVE data'[Shorter(t, size + 1)[i]] = e[t[i]]
          <6>1. i \in 1 .. size + 1 - 1 /\ size + 1 # 1 /\ size + 1 \in 1 .. size + 1 /\ i \in 1 .. size + 1
                /\ size + 1 - 1 = size /\ size \in 1 .. size
            BY <2>2
          <6>2. Shorter(t, size + 1)[i] = t[i]
            BY <6>1 DEF Shorter
          <6>3. t[size + 1] = s[size] /\ t[i] = IF i = 1 THEN x ELSE s[i - 1]
            BY <6>1 DEF Longer
          <6>4. t[i] # t[size + 1] /\ t[i] \in Nodes
            <7>1. i # 1 => i - 1 \in 1 .. size /\ i - 1 # size
              BY <2>2
            <7> QED BY <3>2, <3>4, <6>1, <6>3, <7>1
          <6>5. DOMAIN e = Nodes
            BY <3>2
          <6> HIDE DEF e, t
          <6> QED BY <5>1, <6>2, <6>4, <6>5
        <5> HIDE DEF e, t
        <5> QED BY <4>2, <5>2, <5>3
      <4> QED BY <4>1, <4>2
    <3>10. ASSUME NEW i \in 1 .. length PROVE i \in 1 .. size + 1 /\ i <= size + 1
      BY <2>2, <3>6
    <3>11. Entries' = Abstract!Fronted(r, Len(Entries) + 1, Abstract!Grown)
      <4> HIDE DEF e, t, r, length
      <4> QED BY <3>7, <3>8, <3>9, <3>10
    <3> QED BY <3>3, <3>5, <3>11 DEF Abstract!Put
  <2>9. CASE UNCHANGED cacheVars
    BY <2>9 DEF cacheVars, Abstract!vars, Entries, Used
  <2> QED BY <2>5, <2>6, <2>7, <2>8, <2>9 DEF CacheNext, Abstract!Next
<1> QED BY <1>1, <1>2, ChainedAlways, PTL DEF CacheSpec, ImplementsLRU, Abstract!Spec
=============================================================================
