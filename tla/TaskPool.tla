------------------------------ MODULE TaskPool ------------------------------
(***************************************************************************)
(* What the rest of the server may rely on when it hands work to           *)
(* ThreadPool::enqueue: a task is started once, in the order tasks were    *)
(* accepted, by one of at most Width threads, and a pool that has closed   *)
(* leaves no task behind that it accepted before it was asked to close.    *)
(* ThreadPool.tla is shown to implement this module.                       *)
(***************************************************************************)
EXTENDS Naturals, Sequences, FiniteSets

CONSTANTS
    Tasks,   \* the closures handed to the pool; each one is submitted once
    Width    \* the number of threads

VARIABLES
    pending,    \* accepted and not started, oldest first
    running,    \* being executed
    done,       \* executed
    promised,   \* accepted while the pool was open
    phase       \* "open", then "closing", then "closed"

vars == <<pending, running, done, promised, phase>>

Pending == {pending[i] : i \in DOMAIN pending}
Submitted == Pending \cup running \cup done

Init ==
    /\ pending = <<>>
    /\ running = {}
    /\ done = {}
    /\ promised = {}
    /\ phase = "open"

Submit(t) ==
    /\ t \notin Submitted
    /\ pending' = Append(pending, t)
    /\ promised' = IF phase = "open" THEN promised \cup {t} ELSE promised
    /\ UNCHANGED <<running, done, phase>>

Start ==
    /\ phase # "closed"
    /\ pending # <<>>
    /\ Cardinality(running) < Width
    /\ pending' = Tail(pending)
    /\ running' = running \cup {Head(pending)}
    /\ UNCHANGED <<done, promised, phase>>

Finish(t) ==
    /\ t \in running
    /\ running' = running \ {t}
    /\ done' = done \cup {t}
    /\ UNCHANGED <<pending, promised, phase>>

Close ==
    /\ phase = "open"
    /\ phase' = "closing"
    /\ UNCHANGED <<pending, running, done, promised>>

Closed ==
    /\ phase = "closing"
    /\ running = {}
    /\ promised \subseteq done
    /\ phase' = "closed"
    /\ UNCHANGED <<pending, running, done, promised>>

Next ==
    \/ \E t \in Tasks : Submit(t) \/ Finish(t)
    \/ Start
    \/ Close
    \/ Closed

Spec == Init /\ [][Next]_vars
=============================================================================
