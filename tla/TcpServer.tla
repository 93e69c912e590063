----------------------------- MODULE TcpServer -----------------------------
(***************************************************************************)
(* TcpServer::start (src/net/TcpServer.cpp:78-86): the mode that main      *)
(* chose (src/main.cpp:38-49) decides which of the servers runs.  Epoll    *)
(* mode is modelled on its own, in EpollServer; here the other two run     *)
(* against the same clients.                                               *)
(***************************************************************************)
EXTENDS SelectServer, ForkServer

VARIABLE mode_

vars == <<mode_, sockets, selectVars, forkVars>>

\* setMode is called, or not, before start and never again.
Init ==
    /\ mode_ \in {"select", "fork"}
    /\ SocketsInit
    /\ SelectInit
    /\ ForkInit

InSelect(A) == mode_ = "select" /\ A /\ UNCHANGED <<mode_, forkVars>>
InFork(A) == mode_ = "fork" /\ A /\ UNCHANGED <<mode_, selectVars>>

Next ==
    \/ \E c \in Conns : loop # "killed" /\ ClientStep(c) /\ UNCHANGED <<mode_, selectVars, forkVars>>
    \/ InSelect(SelectNext)
    \/ InFork(ForkNext)

\* Threads and processes run whenever they can, and the logger gives its mutex
\* back.  Clients may stop sending at any point; but it is assumed that a client that
\* stays reads what it is sent, for one that does not keeps a worker, or its child,
\* waiting for as long as it stays.
Spec ==
    /\ Init /\ [][Next]_vars
    /\ WF_vars(InSelect(LoopStep))
    /\ \A w \in Workers : WF_vars(InSelect(WorkerStep(w)))
    /\ WF_vars(InFork(ParentStep))
    /\ WF_vars(InFork(SignalStep))
    /\ WF_vars(InFork(LoggerUnlock))
    /\ \A c \in Conns : WF_vars(InFork(ChildStep(c)))
    /\ \A c \in Conns : WF_vars(Reads(c) /\ UNCHANGED <<mode_, selectVars, forkVars>>)

\* The bookkeeping of the mode that runs is sound.
ModesSound == IF mode_ = "select" THEN SelectSound ELSE ForkHolders

\* Every child that ends is waited for, although signals are merged and others end
\* while the handler runs (TcpServer.cpp:5-8, 114).
ChildrenReaped == \A c \in Conns : child[c] = "zombie" ~> child[c] = "reaped"

\* A client that sends whole requests, one at a time and none longer than one recv
\* returns, is answered whatever the others do: send halves, long requests or several
\* at once, stop reading for a while, or leave.  Unless it hangs up itself, its server
\* is in one of the states that excuse it, or no descriptor is ever left again for a
\* connection that waits (TcpServer.cpp:88-189, HttpHandler.cpp:239-263).
PoliteClientsAnswered ==
    \/ <>[](mode_ = "select" /\ OutOfDescriptors)
    \/ \A c \in Conns : \A k \in 1 .. MaxReq[c] :
          sent[c] = 2 * k /\ polite[c] ~>
              \/ Answered(c, k) \/ fin[c] \/ ~polite[c]
              \/ mode_ = "select" /\ SelectExcused
              \/ mode_ = "fork" /\ ForkExcused(c, k)
=============================================================================
