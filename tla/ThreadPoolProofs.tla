-------------------------- MODULE ThreadPoolProofs --------------------------
(***************************************************************************)
(* Proofs, for any finite set of workers and of enqueuing threads and any  *)
(* set of tasks, of the safety properties of ThreadPool.                   *)
(***************************************************************************)
EXTENDS ThreadPool, QueueLemmas

-----------------------------------------------------------------------------
(* Type correctness.                                                       *)

\* Every reachable state of the pool is of the expected shape, and a worker
\* holds a task exactly while it runs.
THEOREM PoolTypeCorrect == Spec => []TypeOK
<1>1. Init => TypeOK
  <2> SUFFICES ASSUME Init PROVE TypeOK
    OBVIOUS
  <2>1. tasks \in Seq(Tasks)
    BY DEF Init
  <2>2. \A w \in Workers : at[w] = "ready" /\ held[w] = NoTask
    BY DEF Init
  <2>3. /\ at \in [Workers -> {"ready", "waiting", "running", "exited"}]
        /\ held \in [Workers -> Tasks \cup {NoTask}]
        /\ client \in [Clients -> {"idle", "pushed"}]
    BY DEF Init
  <2> QED BY <2>1, <2>2, <2>3 DEF Init, TypeOK
<1>2. TypeOK /\ [Next]_vars => TypeOK'
  <2> SUFFICES ASSUME TypeOK, [Next]_vars PROVE TypeOK'
    OBVIOUS
  <2> USE DEF TypeOK
  <2>1. ASSUME NEW c \in Clients, NEW t \in Tasks, Push(c, t) PROVE TypeOK'
    BY <2>1 DEF Push
  <2>2. ASSUME NEW c \in Clients, NotifyOne(c) PROVE TypeOK'
    BY <2>2 DEF NotifyOne, Woken, InState
  <2>3. ASSUME NEW w \in Workers, Sleep(w) PROVE TypeOK'
    BY <2>3 DEF Sleep
  <2>4. ASSUME NEW w \in Workers, Exit(w) PROVE TypeOK'
    BY <2>4 DEF Exit
  <2>5. ASSUME NEW w \in Workers, Take(w) PROVE TypeOK'
    <3>1. tasks # <<>>
      BY <2>5 DEF Take, WaitOver, MayExit
    <3>2. Head(tasks) \in Tasks /\ Tail(tasks) \in Seq(Tasks)
      BY <3>1, TailElements
    <3> QED BY <2>5, <3>2, PoolAssumption DEF Take
  <2>6. ASSUME NEW w \in Workers, Finish(w) PROVE TypeOK'
    BY <2>6, PoolAssumption DEF Finish
  <2>7. ASSUME NEW w \in Workers, SpuriousWake(w) PROVE TypeOK'
    BY <2>7 DEF SpuriousWake
  <2>8. CASE SetStop
    BY <2>8 DEF SetStop
  <2>9. CASE NotifyAll
    BY <2>9 DEF NotifyAll
  <2>10. CASE Joined
    BY <2>10 DEF Joined
  <2>11. CASE UNCHANGED vars
    BY <2>11 DEF vars
  <2> QED BY <2>1, <2>2, <2>3, <2>4, <2>5, <2>6, <2>7, <2>8, <2>9, <2>10, <2>11
          DEF Next, WorkerStep, StopStep
<1> QED BY <1>1, <1>2, PTL DEF Spec

-----------------------------------------------------------------------------
(* A closure runs at most once.                                            *)

\* No schedule makes two workers run the same closure, or one run it twice.
THEOREM PoolRunsOnce == Spec => []RunsOnce
<1>1. Init => RunsOnce
  BY DEF Init, RunsOnce, Queued, Held
<1>2. TypeOK /\ RunsOnce /\ [Next]_vars => RunsOnce'
  <2> SUFFICES ASSUME TypeOK, RunsOnce, [Next]_vars PROVE RunsOnce'
    OBVIOUS
  <2>1. ASSUME NEW c \in Clients, NEW t \in Tasks, Push(c, t) PROVE RunsOnce'
    <3>1. /\ held' = held /\ done' = done
          /\ t \notin Queued /\ t \notin Held /\ t \notin done
          /\ tasks' = Append(tasks, t)
      BY <2>1 DEF Push
    <3>2. Queued' = Queued \cup {t}
      BY <3>1, AppendElements, tasks \in Seq(Tasks) DEF Queued, TypeOK
    <3>3. Held' = Held
      BY <3>1 DEF Held
    <3>4. \A i, j \in DOMAIN tasks' : tasks'[i] = tasks'[j] => i = j
      BY <3>1, AppendElements DEF Queued, TypeOK, RunsOnce
    <3> QED BY <3>1, <3>2, <3>3, <3>4 DEF RunsOnce
  <2>2. ASSUME NEW w \in Workers, Take(w) PROVE RunsOnce'
    <3>1. tasks # <<>> /\ at[w] = "ready"
      BY <2>2 DEF Take, WaitOver, MayExit
    <3>2. /\ held' = [held EXCEPT ![w] = Head(tasks)]
          /\ tasks' = Tail(tasks)
          /\ done' = done
      BY <2>2 DEF Take
    <3>3. held[w] = NoTask /\ tasks \in Seq(Tasks)
      BY <3>1 DEF TypeOK
    <3>4. Head(tasks) \in Queued
      BY <3>1, <3>3, TailElements DEF Queued
    <3>5. Queued' = Queued \ {Head(tasks)}
      <4>1. ASSUME NEW i \in DOMAIN tasks' PROVE tasks'[i] \in Queued \ {Head(tasks)}
        BY <4>1, <3>1, <3>2, <3>3, TailElements DEF Queued, RunsOnce
      <4>2. ASSUME NEW i \in DOMAIN tasks, tasks[i] # Head(tasks)
            PROVE  \E j \in DOMAIN tasks' : tasks'[j] = tasks[i]
        BY <4>2, <3>1, <3>2, <3>3, TailKeepsRest
      <4> QED BY <4>1, <4>2 DEF Queued
    <3>6. Held' = Held \cup {Head(tasks)}
      <4>1. Head(tasks) # NoTask
        BY <3>1, <3>3, TailElements, PoolAssumption
      <4>2. held'[w] = Head(tasks) /\ \A v \in Workers \ {w} : held'[v] = held[v]
        BY <3>2 DEF TypeOK
      <4> QED BY <4>1, <4>2, <3>3 DEF Held
    <3>7. \A i, j \in DOMAIN tasks' : tasks'[i] = tasks'[j] => i = j
      BY <3>1, <3>2, <3>3, TailElements DEF RunsOnce
    <3>8. \A u, v \in Workers :
             held'[u] = held'[v] /\ held'[u] # NoTask => u = v
      BY <3>2, <3>4 DEF RunsOnce, TypeOK, Held
    <3> QED BY <3>2, <3>4, <3>5, <3>6, <3>7, <3>8 DEF RunsOnce
  <2>3. ASSUME NEW w \in Workers, Finish(w) PROVE RunsOnce'
    <3>1. /\ tasks' = tasks
          /\ done' = done \cup {held[w]}
          /\ held' = [held EXCEPT ![w] = NoTask]
          /\ held[w] # NoTask
      BY <2>3 DEF Finish, TypeOK
    <3>2. Queued' = Queued
      BY <3>1 DEF Queued
    <3>3. held'[w] = NoTask /\ \A v \in Workers \ {w} : held'[v] = held[v]
      BY <3>1 DEF TypeOK
    <3>4. held[w] \in Held /\ Held' = Held \ {held[w]}
      BY <3>1, <3>3 DEF Held, RunsOnce
    <3> QED BY <3>1, <3>2, <3>3, <3>4 DEF RunsOnce
  <2>4. CASE UNCHANGED <<tasks, held, done>>
    BY <2>4 DEF RunsOnce, Queued, Held
  <2> QED BY <2>1, <2>2, <2>3, <2>4
          DEF Next, WorkerStep, StopStep, NotifyOne, Sleep, Exit, SpuriousWake,
              SetStop, NotifyAll, Joined, vars
<1> QED BY <1>1, <1>2, PoolTypeCorrect, PTL DEF Spec

-----------------------------------------------------------------------------
(* stop() drains the queue.                                                *)

\* What makes StopDrains inductive: an accepted task is never mislaid, and a
\* worker leaves its loop only when no accepted task is left in the queue.
DrainInv ==
    /\ accepted \subseteq Queued \cup Held \cup done
    /\ stopper # "idle" => stopflag
    /\ InState("exited") # {} => stopflag /\ accepted \cap Queued = {}
    /\ stopper = "stopped" => InState("exited") = Workers

\* Once the workers have all exited nobody holds a task, so the drain
\* invariant says that stop() has executed all it accepted.
LEMMA DrainInvSuffices == TypeOK /\ DrainInv => StopDrains
  <1> SUFFICES ASSUME TypeOK, DrainInv, stopper = "stopped"
               PROVE  accepted \subseteq done
    BY DEF StopDrains
  <1>1. InState("exited") = Workers /\ Workers # {}
    BY PoolAssumption DEF DrainInv
  <1>2. Held = {}
    BY <1>1 DEF TypeOK, Held, InState
  <1> QED BY <1>1, <1>2 DEF DrainInv

\* At every moment an accepted task is queued, held or executed, and workers leave
\* only a queue that has none left.
LEMMA DrainInvariant == Spec => []DrainInv
<1>1. Init => DrainInv
  BY PoolAssumption DEF Init, DrainInv, Queued, InState
<1>2. TypeOK /\ RunsOnce /\ DrainInv /\ [Next]_vars => DrainInv'
  <2> SUFFICES ASSUME TypeOK, RunsOnce, DrainInv, [Next]_vars PROVE DrainInv'
    OBVIOUS
  <2>1. ASSUME NEW c \in Clients, NEW t \in Tasks, Push(c, t) PROVE DrainInv'
    <3>1. /\ held' = held /\ done' = done /\ at' = at
          /\ stopflag' = stopflag /\ stopper' = stopper
          /\ t \notin Queued \cup Held \cup done
          /\ tasks' = Append(tasks, t)
          /\ accepted' = IF stopflag THEN accepted ELSE accepted \cup {t}
      BY <2>1 DEF Push
    <3>2. Queued' = Queued \cup {t}
      BY <3>1, AppendElements, tasks \in Seq(Tasks) DEF Queued, TypeOK
    <3>3. Held' = Held /\ InState("exited")' = InState("exited")
      BY <3>1 DEF Held, InState
    <3> QED BY <3>1, <3>2, <3>3 DEF DrainInv
  <2>2. ASSUME NEW w \in Workers, Take(w) PROVE DrainInv'
    <3>1. tasks # <<>> /\ at[w] = "ready"
      BY <2>2 DEF Take, WaitOver, MayExit
    <3>2. /\ held' = [held EXCEPT ![w] = Head(tasks)]
          /\ tasks' = Tail(tasks)
          /\ at' = [at EXCEPT ![w] = "running"]
          /\ UNCHANGED <<done, accepted, stopflag, stopper>>
      BY <2>2 DEF Take
    <3>3. held[w] = NoTask /\ tasks \in Seq(Tasks)
      BY <3>1 DEF TypeOK
    <3>4. \A q \in Queued : q = Head(tasks) \/ q \in Queued'
      BY <3>2, TailKeepsRest, <3>1, <3>3 DEF Queued
    <3>5. Queued' \subseteq Queued
      BY <3>1, <3>2, <3>3, TailElements DEF Queued
    <3>6. Held \cup {Head(tasks)} \subseteq Held'
      <4>1. Head(tasks) # NoTask
        BY <3>1, <3>3, TailElements, PoolAssumption
      <4>2. held'[w] = Head(tasks) /\ \A v \in Workers \ {w} : held'[v] = held[v]
        BY <3>2 DEF TypeOK
      <4> QED BY <4>1, <4>2, <3>3 DEF Held
    <3>7. InState("exited")' = InState("exited")
      BY <3>1, <3>2 DEF InState, TypeOK
    <3> QED BY <3>2, <3>4, <3>5, <3>6, <3>7 DEF DrainInv
  <2>3. ASSUME NEW w \in Workers, Finish(w) PROVE DrainInv'
    <3>1. /\ UNCHANGED <<tasks, accepted, stopflag, stopper>>
          /\ done' = done \cup {held[w]}
          /\ held' = [held EXCEPT ![w] = NoTask]
          /\ at' = [at EXCEPT ![w] = "ready"]
          /\ at[w] = "running"
      BY <2>3 DEF Finish
    <3>2. Queued' = Queued
      BY <3>1 DEF Queued
    <3>3. Held \subseteq Held' \cup done'
      BY <3>1 DEF Held, TypeOK
    <3>4. InState("exited")' = InState("exited")
      BY <3>1 DEF InState, TypeOK
    <3> QED BY <3>1, <3>2, <3>3, <3>4 DEF DrainInv
  <2>4. ASSUME NEW w \in Workers, Exit(w) PROVE DrainInv'
    <3>1. /\ UNCHANGED <<tasks, accepted, stopflag, stopper, held, done>>
          /\ at' = [at EXCEPT ![w] = "exited"]
          /\ stopflag /\ tasks = <<>>
      BY <2>4 DEF Exit, MayExit
    <3>2. Queued' = {} /\ Queued = {} /\ Held' = Held
      BY <3>1 DEF Queued, Held
    <3>3. InState("exited")' = InState("exited") \cup {w}
      BY <3>1 DEF InState, TypeOK
    <3> QED BY <3>1, <3>2, <3>3 DEF DrainInv, InState
  <2>5. CASE Joined
    <3>1. /\ UNCHANGED <<tasks, accepted, stopflag, held, done, at>>
          /\ stopper = "joining" /\ InState("exited") = Workers
      BY <2>5 DEF Joined
    <3> QED BY <3>1 DEF DrainInv, Queued, Held, InState
  <2>6. CASE SetStop
    BY <2>6 DEF SetStop, DrainInv, Queued, Held, InState
  <2>7. ASSUME NEW c \in Clients, NotifyOne(c) PROVE DrainInv'
    <3>1. \A v \in Workers : at'[v] = "exited" <=> at[v] = "exited"
      BY <2>7 DEF NotifyOne, Woken, InState
    <3>2. InState("exited")' = InState("exited")
      BY <3>1 DEF InState
    <3> QED BY <2>7, <3>2 DEF NotifyOne, DrainInv, Queued, Held
  <2>8. ASSUME NEW w \in Workers, Sleep(w) \/ SpuriousWake(w) PROVE DrainInv'
    <3>1. \A v \in Workers : at'[v] = "exited" <=> at[v] = "exited"
      BY <2>8 DEF Sleep, SpuriousWake, TypeOK
    <3>2. InState("exited")' = InState("exited")
      BY <3>1 DEF InState
    <3> QED BY <2>8, <3>2 DEF Sleep, SpuriousWake, DrainInv, Queued, Held
  <2>9. CASE NotifyAll
    <3>1. \A v \in Workers : at'[v] = "exited" <=> at[v] = "exited"
      BY <2>9 DEF NotifyAll
    <3>2. InState("exited")' = InState("exited")
      BY <3>1 DEF InState
    <3> QED BY <2>9, <3>2 DEF NotifyAll, DrainInv, Queued, Held
  <2>10. CASE UNCHANGED vars
    BY <2>10 DEF vars, DrainInv, Queued, Held, InState
  <2> QED BY <2>1, <2>2, <2>3, <2>4, <2>5, <2>6, <2>7, <2>8, <2>9, <2>10
          DEF Next, WorkerStep, StopStep
<1> QED BY <1>1, <1>2, PoolTypeCorrect, PoolRunsOnce, PTL DEF Spec

\* When stop() has returned, every task accepted before it was called has been
\* executed, whatever the number of workers and of tasks.
THEOREM PoolStopDrains == Spec => []StopDrains
BY DrainInvariant, DrainInvSuffices, PoolTypeCorrect, PTL

-----------------------------------------------------------------------------
(* No wakeup is lost.                                                      *)

\* The workers ready to lock mtx and the clients about to notify are finitely
\* many.
LEMMA WakersFinite ==
    ASSUME TypeOK
    PROVE  /\ IsFiniteSet(InState("ready")) /\ Cardinality(InState("ready")) \in Nat
           /\ IsFiniteSet(Owing) /\ Cardinality(Owing) \in Nat
           /\ Len(tasks) \in Nat
<1>1. InState("ready") \subseteq Workers /\ Owing \subseteq Clients
  BY DEF InState, Owing
<1>2. Len(tasks) \in Nat
  BY DEF TypeOK
<1> QED BY <1>1, <1>2, FS_Subset, FS_CardinalityType, PoolAssumption

\* While a worker sleeps, the queue is no longer than the workers on their way
\* to it and the notifications still owed: no task waits for want of a wakeup.
THEOREM PoolNoLostWakeup == Spec => []NoLostWakeup
<1>1. Init => NoLostWakeup
  BY DEF Init, NoLostWakeup, InState
<1>2. TypeOK /\ NoLostWakeup /\ [Next]_vars => NoLostWakeup'
  <2> SUFFICES ASSUME TypeOK, NoLostWakeup, [Next]_vars PROVE NoLostWakeup'
    OBVIOUS
  <2> USE WakersFinite
  <2>1. ASSUME NEW c \in Clients, NEW t \in Tasks, Push(c, t) PROVE NoLostWakeup'
    <3>1. /\ client[c] = "idle" /\ client' = [client EXCEPT ![c] = "pushed"]
          /\ at' = at /\ tasks' = Append(tasks, t)
      BY <2>1 DEF Push
    <3>2. Len(tasks') = Len(tasks) + 1
      BY <3>1, AppendElements DEF TypeOK
    <3>3. Owing' = Owing \cup {c} /\ c \notin Owing
      BY <3>1 DEF Owing, TypeOK
    <3>4. Cardinality(Owing') = Cardinality(Owing) + 1
      BY <3>3, CountMoves
    <3>5. InState("waiting")' = InState("waiting") /\ InState("ready")' = InState("ready")
      BY <3>1 DEF InState
    <3> QED BY <3>2, <3>4, <3>5 DEF NoLostWakeup
  <2>2. ASSUME NEW c \in Clients, NotifyOne(c) PROVE NoLostWakeup'
    <3>1. /\ client[c] = "pushed" /\ client' = [client EXCEPT ![c] = "idle"]
          /\ tasks' = tasks
      BY <2>2 DEF NotifyOne
    <3>2. Owing' = Owing \ {c} /\ c \in Owing
      BY <3>1 DEF Owing, TypeOK
    <3>3. Cardinality(Owing') = Cardinality(Owing) - 1
      BY <3>2, CountMoves
    <3>4. CASE InState("waiting") = {}
      <4>1. at' = at
        BY <2>2, <3>4 DEF NotifyOne, Woken, TypeOK
      <4> QED BY <4>1, <3>4 DEF NoLostWakeup, InState
    <3>5. CASE InState("waiting") # {}
      <4>1. PICK w \in InState("waiting") :
              at' = [v \in Workers |-> IF v \in {w} THEN "ready" ELSE at[v]]
        BY <2>2, <3>5 DEF NotifyOne, Woken
      <4>2. InState("ready")' = InState("ready") \cup {w} /\ w \notin InState("ready")
        BY <4>1 DEF InState, TypeOK
      <4>3. Cardinality(InState("ready")') = Cardinality(InState("ready")) + 1
        BY <4>2, CountMoves
      <4> QED BY <3>1, <3>3, <3>5, <4>3 DEF NoLostWakeup
    <3> QED BY <3>4, <3>5
  <2>3. ASSUME NEW w \in Workers, Sleep(w) PROVE NoLostWakeup'
    <3>1. tasks' = <<>> /\ Len(tasks') = 0
      BY <2>3 DEF Sleep, WaitOver
    <3>2. TypeOK'
      BY <2>3 DEF Sleep, TypeOK
    <3>3. Cardinality(InState("ready")') \in Nat /\ Cardinality(Owing') \in Nat
      <4>1. InState("ready")' = InState("ready") \ {w} /\ Owing' = Owing
        BY <2>3 DEF Sleep, InState, Owing, TypeOK
      <4> QED BY <4>1, CountMoves
    <3> QED BY <3>1, <3>3 DEF NoLostWakeup
  <2>4. ASSUME NEW w \in Workers, Take(w) PROVE NoLostWakeup'
    <3>1. tasks # <<>> /\ at[w] = "ready"
      BY <2>4 DEF Take, WaitOver, MayExit
    <3>2. /\ tasks' = Tail(tasks) /\ client' = client
          /\ at' = [at EXCEPT ![w] = "running"]
      BY <2>4 DEF Take
    <3>3. Len(tasks') = Len(tasks) - 1
      BY <3>1, <3>2, TailElements DEF TypeOK
    <3>4. InState("ready")' = InState("ready") \ {w} /\ w \in InState("ready")
      BY <3>1, <3>2 DEF InState, TypeOK
    <3>5. Cardinality(InState("ready")') = Cardinality(InState("ready")) - 1
      BY <3>4, CountMoves
    <3>6. InState("waiting")' = InState("waiting") /\ Owing' = Owing
      BY <3>1, <3>2 DEF InState, Owing, TypeOK
    <3> QED BY <3>3, <3>5, <3>6 DEF NoLostWakeup
  <2>5. ASSUME NEW w \in Workers, Finish(w) \/ SpuriousWake(w) PROVE NoLostWakeup'
    <3>1. /\ at[w] # "ready" /\ at' = [at EXCEPT ![w] = "ready"]
          /\ tasks' = tasks /\ client' = client
      BY <2>5 DEF Finish, SpuriousWake
    <3>2. InState("ready")' = InState("ready") \cup {w} /\ w \notin InState("ready")
      BY <3>1 DEF InState, TypeOK
    <3>3. Cardinality(InState("ready")') = Cardinality(InState("ready")) + 1
      BY <3>2, CountMoves
    <3>4. InState("waiting")' \subseteq InState("waiting") /\ Owing' = Owing
      BY <3>1 DEF InState, Owing, TypeOK
    <3> QED BY <3>1, <3>3, <3>4 DEF NoLostWakeup
  <2>6. ASSUME NEW w \in Workers, Exit(w) PROVE NoLostWakeup'
    <3>1. Len(tasks') = 0
      BY <2>6 DEF Exit, MayExit
    <3>2. InState("ready")' = InState("ready") \ {w} /\ Owing' = Owing
      BY <2>6 DEF Exit, InState, Owing, TypeOK
    <3>3. Cardinality(InState("ready")') \in Nat
      BY <3>2, CountMoves
    <3> QED BY <3>1, <3>2, <3>3 DEF NoLostWakeup
  <2>7. CASE NotifyAll
    <3>1. InState("waiting")' = {}
      BY <2>7 DEF NotifyAll, InState
    <3> QED BY <3>1 DEF NoLostWakeup
  <2>8. CASE UNCHANGED <<at, client, tasks>>
    BY <2>8 DEF NoLostWakeup, InState, Owing
  <2> QED BY <2>1, <2>2, <2>3, <2>4, <2>5, <2>6, <2>7, <2>8
          DEF Next, WorkerStep, StopStep, SetStop, Joined, vars
<1> QED BY <1>1, <1>2, PoolTypeCorrect, PTL DEF Spec

-----------------------------------------------------------------------------
(* The pool implements TaskPool.                                           *)

\* With a worker that holds nothing, fewer tasks run than there are workers.
LEMMA RunningBelowWidth ==
    ASSUME TypeOK, NEW w \in Workers, held[w] = NoTask
    PROVE  Cardinality(Held) < Cardinality(Workers)
<1> DEFINE V == {v \in Workers : held[v] # NoTask}
           f == [v \in V |-> held[v]]
<1>1. V \subseteq Workers \ {w}
  OBVIOUS
<1>2. /\ IsFiniteSet(Workers \ {w})
      /\ Cardinality(Workers \ {w}) = Cardinality(Workers) - 1
      /\ Cardinality(Workers) \in Nat
  BY CountMoves, PoolAssumption
<1>3. /\ IsFiniteSet(V) /\ Cardinality(V) <= Cardinality(Workers \ {w})
      /\ Cardinality(V) \in Nat
  BY <1>1, <1>2, FS_Subset, FS_CardinalityType
<1>4. f \in Surjection(V, Held)
  BY DEF Surjection, Held
<1>5. IsFiniteSet(Held) /\ Cardinality(Held) <= Cardinality(V)
  BY <1>3, <1>4, FS_Surjection
<1>6. Cardinality(Held) \in Nat
  BY <1>5, FS_CardinalityType
<1> QED BY <1>2, <1>3, <1>5, <1>6

\* What the phase says of a pool that has workers.
LEMMA PhaseFacts ==
    /\ Phase = "open" <=> ~stopflag
    /\ Phase = "closed" <=> stopflag /\ InState("exited") = Workers
    /\ Phase \in {"open", "closing", "closed"}
BY DEF Phase

\* A step that moves no task and lets no worker out is not seen from outside.
LEMMA UnseenStep ==
    ASSUME UNCHANGED <<tasks, held, done, accepted, stopflag>>,
           InState("exited")' = InState("exited")
    PROVE  UNCHANGED Promise!vars
BY DEF Promise!vars, Held, Phase

\* ThreadPool keeps what TaskPool promises: tasks start once, in the order of
\* enqueue, at most as many at a time as there are threads, and the pool is
\* closed only when every task accepted before stop() has been executed.
THEOREM PoolImplementsTaskPool == Spec => ImplementsTaskPool
<1>1. Init => Promise!Init
  BY PoolAssumption DEF Init, Promise!Init, Held, Phase
<1>2. TypeOK /\ RunsOnce /\ DrainInv /\ [Next]_vars => [Promise!Next]_(Promise!vars)
  <2> SUFFICES ASSUME TypeOK, RunsOnce, DrainInv, [Next]_vars
               PROVE  Promise!Next \/ UNCHANGED Promise!vars
    OBVIOUS
  <2>0. NoTask \notin Tasks
    BY PoolAssumption
  <2>1. ASSUME NEW c \in Clients, NEW t \in Tasks, Push(c, t) PROVE Promise!Submit(t)
    <3>1. t \notin Promise!Submitted
      BY <2>1 DEF Push, Promise!Submitted, Promise!Pending, Queued
    <3>2. Held' = Held /\ Phase' = Phase
      BY <2>1 DEF Push, Held, Phase, InState
    <3> QED BY <2>1, <3>1, <3>2, PhaseFacts DEF Push, Promise!Submit
  <2>2. ASSUME NEW w \in Workers, Take(w) PROVE Promise!Start
    <3>1. /\ tasks # <<>> /\ at[w] = "ready" /\ held[w] = NoTask
          /\ tasks' = Tail(tasks)
          /\ held' = [held EXCEPT ![w] = Head(tasks)]
          /\ at' = [at EXCEPT ![w] = "running"]
          /\ UNCHANGED <<stopflag, accepted, done>>
      BY <2>2 DEF Take, WaitOver, MayExit, TypeOK
    <3>2. InState("exited")' = InState("exited") /\ w \notin InState("exited")
      BY <3>1 DEF InState, TypeOK
    <3>3. Phase' = Phase /\ Phase # "closed"
      BY <3>1, <3>2 DEF Phase
    <3>4. Held' = Held \cup {Head(tasks)}
      <4>1. Head(tasks) # NoTask
        BY <2>0, <3>1, TailElements DEF TypeOK
      <4>2. held'[w] = Head(tasks) /\ \A v \in Workers \ {w} : held'[v] = held[v]
        BY <3>1 DEF TypeOK
      <4> QED BY <3>1, <4>1, <4>2 DEF Held
    <3>5. Promise!Cardinality(Held) = Cardinality(Held)
      BY DEF Promise!Cardinality, Cardinality
    <3> QED BY <3>1, <3>3, <3>4, <3>5, RunningBelowWidth DEF Promise!Start
  <2>3. ASSUME NEW w \in Workers, Finish(w)
       PROVE  held[w] \in Tasks /\ Promise!Finish(held[w])
    <3>1. /\ at[w] = "running" /\ held[w] # NoTask
          /\ held' = [held EXCEPT ![w] = NoTask]
          /\ at' = [at EXCEPT ![w] = "ready"]
          /\ done' = done \cup {held[w]}
          /\ UNCHANGED <<tasks, stopflag, accepted>>
      BY <2>3 DEF Finish, TypeOK
    <3>2. held'[w] = NoTask /\ \A v \in Workers \ {w} : held'[v] = held[v]
      BY <3>1 DEF TypeOK
    <3>3. held[w] \in Held /\ Held' = Held \ {held[w]}
      BY <3>1, <3>2 DEF Held, RunsOnce
    <3>4. InState("exited")' = InState("exited")
      BY <3>1 DEF InState, TypeOK
    <3>5. held[w] \in Tasks
      BY <3>1 DEF TypeOK
    <3> QED BY <3>1, <3>3, <3>4, <3>5 DEF Promise!Finish, Phase
  <2>4. ASSUME NEW w \in Workers, Exit(w) PROVE Promise!Closed \/ UNCHANGED Promise!vars
    <3>1. /\ UNCHANGED <<tasks, accepted, stopflag, held, done>>
          /\ at[w] = "ready" /\ at' = [at EXCEPT ![w] = "exited"]
          /\ stopflag /\ tasks = <<>>
      BY <2>4 DEF Exit, MayExit
    <3>2. Held' = Held /\ Phase = "closing"
      BY <3>1 DEF Held, Phase, InState
    <3>3. CASE InState("exited")' = Workers
      <4>1. \A v \in Workers : held[v] = NoTask
        BY <3>1, <3>3 DEF TypeOK, InState
      <4>2. Held = {} /\ Queued = {}
        BY <3>1, <4>1 DEF Held, Queued
      <4>3. Phase' = "closed"
        BY <3>1, <3>3 DEF Phase
      <4> QED BY <3>1, <3>2, <4>2, <4>3 DEF DrainInv, Promise!Closed
    <3>4. CASE InState("exited")' # Workers
      <4>1. Phase' = "closing"
        BY <3>1, <3>4 DEF Phase
      <4> QED BY <3>1, <3>2, <4>1 DEF Promise!vars
    <3> QED BY <3>3, <3>4
  <2>5. CASE SetStop
    <3>1. UNCHANGED <<tasks, accepted, at, held, done>> /\ stopflag' = TRUE
      BY <2>5 DEF SetStop
    <3>2. Held' = Held /\ InState("exited")' = InState("exited")
      BY <3>1 DEF Held, InState
    <3>3. CASE stopflag
      BY <3>1, <3>2, <3>3, UnseenStep
    <3>4. CASE ~stopflag
      <4>1. InState("exited") # Workers
        BY <3>4, PoolAssumption DEF DrainInv
      <4>2. Phase = "open" /\ Phase' = "closing"
        BY <3>1, <3>2, <3>4, <4>1 DEF Phase
      <4> QED BY <3>1, <3>2, <4>2 DEF Promise!Close, Promise!Next
    <3> QED BY <3>3, <3>4, stopflag \in BOOLEAN DEF TypeOK
  <2>6. ASSUME NEW c \in Clients, NotifyOne(c) PROVE UNCHANGED Promise!vars
    <3>1. \A v \in Workers : at'[v] = "exited" <=> at[v] = "exited"
      BY <2>6 DEF NotifyOne, Woken, InState
    <3>2. InState("exited")' = InState("exited")
      BY <3>1 DEF InState
    <3> QED BY <2>6, <3>2, UnseenStep DEF NotifyOne
  <2>7. ASSUME NEW w \in Workers, Sleep(w) \/ SpuriousWake(w) PROVE UNCHANGED Promise!vars
    <3>1. \A v \in Workers : at'[v] = "exited" <=> at[v] = "exited"
      BY <2>7 DEF Sleep, SpuriousWake, TypeOK
    <3>2. InState("exited")' = InState("exited")
      BY <3>1 DEF InState
    <3> QED BY <2>7, <3>2, UnseenStep DEF Sleep, SpuriousWake
  <2>8. CASE NotifyAll \/ Joined \/ UNCHANGED vars
    <3>1. \A v \in Workers : at'[v] = "exited" <=> at[v] = "exited"
      BY <2>8 DEF NotifyAll, Joined, vars
    <3>2. InState("exited")' = InState("exited")
      BY <3>1 DEF InState
    <3> QED BY <2>8, <3>2, UnseenStep DEF NotifyAll, Joined, vars
  <2> QED BY <2>1, <2>2, <2>3, <2>4, <2>5, <2>6, <2>7, <2>8
          DEF Next, WorkerStep, StopStep, Promise!Next
<1> QED BY <1>1, <1>2, PoolTypeCorrect, PoolRunsOnce, DrainInvariant, PTL
        DEF Spec, ImplementsTaskPool, Promise!Spec
=============================================================================
