-------------------------- MODULE TcpServerProofs --------------------------
(***************************************************************************)
(* Proofs about TcpServer: the bookkeeping of the select server and that   *)
(* of the fork server, for any connections, descriptors and workers.       *)
(***************************************************************************)
EXTENDS TcpServer, QueueLemmas

-----------------------------------------------------------------------------
(* The invariants.                                                         *)

Chunks == [of : Conns, from : Nat, to : Nat]
Jobs == [fd : Fds, chunk : Chunks, at : {"handle", "file", "sending", "close"}, file : Fds \cup {Listener}]

SelectTypes ==
    /\ owner \in [Fds -> Conns \cup {File, Nobody}]
    /\ client_fds \in Seq(Fds)
    /\ i \in Nat \ {0}
    /\ queue \in Seq([fd : Fds, chunk : Chunks])
    /\ job \in [Workers -> Jobs \cup {NoTask}]

\* What is left of a round of the loop finds something to read.
Round ==
    /\ loop = "accept" =>
          read_fds \subseteq Served \cup {Listener} /\ \A f \in read_fds \cap Served : NoWait(f)
    /\ loop = "scan" =>
          \A n \in DOMAIN client_fds :
              n >= i /\ client_fds[n] \in read_fds => NoWait(client_fds[n])

\* What makes SelectSound inductive: a connection has one descriptor, and what was
\* readable when select returned still is until the loop comes to it.
Tables ==
    /\ \A f \in Served : peer[owner[f]] = "open"
    /\ \A f, g \in Served : owner[f] = owner[g] => f = g
    /\ Served \subseteq Watched
    /\ ~workerClosed =>
          /\ Watched = Served
          /\ \A m, n \in DOMAIN client_fds : client_fds[m] = client_fds[n] => m = n
          /\ Round

SelectInv == SocketsTypeOK /\ SelectTypes /\ Tables

\* What makes ForkHolders inductive: the parent has exactly the connection it is at.
ForkInv ==
    /\ ForkHolders
    /\ parent \in {"accept", "fork", "close", "reap"}
    /\ current \in Conns \cup {None}
    /\ child \in [Conns -> {"none", "recv", "answer", "sending", "close", "exit", "zombie", "reaped", "hung"}]
    /\ holders \in [Conns -> SUBSET {"parent", "child"}]
    /\ current = None <=> parent \in {"accept", "reap"}
    /\ \A c \in Conns : current = c => "parent" \in holders[c]

Inv == mode_ \in {"select", "fork"} /\ IF mode_ = "select" THEN SelectInv ELSE ForkInv

-----------------------------------------------------------------------------
(* The clients.                                                            *)

\* A client changes what it has sent, and lets no connection be readable no more.
LEMMA ClientFacts ==
    ASSUME NEW c \in Conns, ClientStep(c), SocketsTypeOK
    PROVE  /\ SocketsTypeOK'
           /\ \A d \in Conns : peer'[d] = "open" <=> peer[d] = "open"
           /\ \A d \in Conns : Readable(d) => Readable(d)'
<1>1. CASE Connect(c)
  BY <1>1 DEF Connect, SocketsTypeOK, Readable, client, replies
<1>2. CASE Send(c)
  <2>1. PICK n \in {1, 2} : sent[c] + n <= 2 * MaxReq[c] /\ sent' = [sent EXCEPT ![c] = @ + n]
    BY <1>2 DEF Send
  <2>2. \E b \in BOOLEAN : polite' = [polite EXCEPT ![c] = b]
    BY <1>2 DEF Send
  <2>3. polite' \in [Conns -> BOOLEAN]
    BY <2>2 DEF SocketsTypeOK
  <2>4. peer' = peer /\ rcvd' = rcvd /\ fin' = fin /\ full' = full
    BY <1>2 DEF Send, replies
  <2>5. \A d \in Conns : sent[d] \in Nat /\ rcvd[d] \in Nat /\ sent[d] <= sent'[d] /\ sent'[d] \in Nat
    BY <2>1 DEF SocketsTypeOK
  <2>6. \A d \in Conns : sent'[d] <= 2 * MaxReq[d]
    BY <2>1 DEF SocketsTypeOK
  <2>7. sent' \in [Conns -> Nat]
    BY <2>1 DEF SocketsTypeOK
  <2> QED BY <2>3, <2>4, <2>5, <2>6, <2>7 DEF SocketsTypeOK, Readable
<1>3. CASE HangUp(c)
  <2>1. PICK n \in {sent[c], rcvd[c]} : sent' = [sent EXCEPT ![c] = n]
    BY <1>3 DEF HangUp
  <2>2. peer' = peer /\ rcvd' = rcvd /\ polite' = polite /\ fin' = [fin EXCEPT ![c] = TRUE]
    BY <1>3 DEF HangUp
  <2>3. \A d \in Conns : sent'[d] <= 2 * MaxReq[d] /\ rcvd[d] <= sent'[d]
    <3>1. \A d \in Conns :
              MaxReq[d] \in Nat /\ sent[d] \in Nat /\ rcvd[d] \in Nat /\ rcvd[d] <= sent[d]
              /\ sent[d] <= 2 * MaxReq[d]
      BY SocketsAssumption DEF SocketsAssumption, SocketsTypeOK
    <3>2. \A d \in Conns : sent'[d] = IF d = c THEN n ELSE sent[d]
      BY <2>1 DEF SocketsTypeOK
    <3> QED BY <3>1, <3>2
  <2>4. sent' \in [Conns -> Nat] /\ fin' \in [Conns -> BOOLEAN] /\ full' \in [Conns -> BOOLEAN]
    BY <1>3, <2>1, <2>2 DEF SocketsTypeOK, HangUp
  <2>5. \A d \in Conns : Readable(d) => Readable(d)'
    BY <2>1, <2>2 DEF SocketsTypeOK, Readable
  <2> QED BY <2>2, <2>3, <2>4, <2>5 DEF SocketsTypeOK
<1>4. CASE Reads(c)
  BY <1>4 DEF Reads, SocketsTypeOK, Readable, client
<1> QED BY <1>1, <1>2, <1>3, <1>4 DEF ClientStep

\* recv takes something if there is something, and never more than there is.
LEMMA ChunkFacts ==
    ASSUME NEW c \in Conns, SocketsTypeOK
    PROVE  /\ Chunk(c).to \in Nat /\ rcvd[c] <= Chunk(c).to /\ Chunk(c).to <= sent[c]
           /\ Chunk(c) \in Chunks
<1>1. sent[c] \in Nat /\ rcvd[c] \in Nat /\ rcvd[c] <= sent[c]
  BY DEF SocketsTypeOK
<1>2. MaxReq[c] \in Nat
  BY SocketsAssumption DEF SocketsAssumption
<1>3. ASSUME NEW n \in Ends(c) PROVE n \in Nat /\ rcvd[c] <= n /\ n <= sent[c]
  <2>1. CASE n = sent[c]
    BY <1>1, <2>1
  <2>2. CASE n # sent[c]
    <3>1. PICK k \in Filled(c) : n = 2 * k - 1
      BY <2>2 DEF Ends
    <3>2. k \in 1 .. MaxReq[c] /\ rcvd[c] < 2 * k - 1 /\ 2 * k - 1 <= sent[c]
      BY <3>1 DEF Filled
    <3> QED BY <1>1, <1>2, <3>1, <3>2
  <2> QED BY <2>1, <2>2
<1>4. sent[c] \in Ends(c)
  BY DEF Ends
<1>5. \E n \in Ends(c) : \A m \in Ends(c) : n <= m
  BY <1>3, <1>4, Least
<1>6. Chunk(c).to \in Ends(c)
  BY <1>5 DEF Chunk
<1> QED BY <1>1, <1>3, <1>6 DEF Chunk, Chunks

-----------------------------------------------------------------------------
(* The fork server.                                                        *)

LEMMA ForkInitially == SocketsInit /\ ForkInit => ForkInv
  BY SocketsAssumption, ForkAssumption
     DEF SocketsInit, ForkInit, ForkInv, ForkHolders, SocketsTypeOK

LEMMA ForkClient ==
    ASSUME ForkInv, NEW c \in Conns, ClientStep(c), UNCHANGED forkVars
    PROVE  ForkInv'
  BY ClientFacts DEF ForkInv, ForkHolders, forkVars

\* Closing in one process leaves the connection to the other, or ends it.
LEMMA ClosedByOne ==
    ASSUME ForkInv, NEW p \in {"parent", "child"}, NEW c \in Conns, CloseBy(p, c),
           UNCHANGED <<client, rcvd, full>>
    PROVE  /\ SocketsTypeOK'
           /\ holders' \in [Conns -> SUBSET {"parent", "child"}]
           /\ \A d \in Conns : peer'[d] = "open" <=> holders'[d] # {}
           /\ \A d \in Conns, q \in {"parent", "child"} :
                 q \in holders'[d] <=> q \in holders[d] /\ ~(q = p /\ d = c)
<1>1. holders' = [holders EXCEPT ![c] = @ \ {p}]
  BY DEF CloseBy
<1>2. holders' \in [Conns -> SUBSET {"parent", "child"}]
  BY <1>1 DEF ForkInv
<1>3. \A d \in Conns, q \in {"parent", "child"} :
          q \in holders'[d] <=> q \in holders[d] /\ ~(q = p /\ d = c)
  BY <1>1 DEF ForkInv
<1>4. peer' \in [Conns -> {"new", "backlog", "open", "closed"}]
  BY DEF CloseBy, ForkInv, ForkHolders, SocketsTypeOK
<1>5. SocketsTypeOK'
  BY <1>4 DEF ForkInv, ForkHolders, SocketsTypeOK, client
<1>6. ASSUME NEW d \in Conns PROVE peer'[d] = "open" <=> holders'[d] # {}
  <2>1. CASE d # c
    BY <1>1, <2>1 DEF CloseBy, ForkInv, ForkHolders, SocketsTypeOK
  <2>2. CASE d = c
    BY <1>1, <2>2 DEF CloseBy, ForkInv, ForkHolders, SocketsTypeOK
  <2> QED BY <2>1, <2>2
<1> QED BY <1>2, <1>3, <1>5, <1>6

LEMMA ForkParent == ASSUME ForkInv, ParentStep PROVE ForkInv'
<1>1. CASE ParentAccept
  <2>1. PICK c \in Backlog : /\ peer' = [peer EXCEPT ![c] = "open"]
                             /\ holders' = [holders EXCEPT ![c] = {"parent"}]
                             /\ current' = c
    BY <1>1 DEF ParentAccept
  <2>2. c \in Conns /\ peer[c] = "backlog" /\ c # None
    BY ForkAssumption DEF Backlog
  <2>3. SocketsTypeOK'
    BY <1>1, <2>1, <2>2 DEF ParentAccept, ForkInv, ForkHolders, SocketsTypeOK, client, replies
  <2>4. parent = "accept" /\ parent' = "fork" /\ child' = child /\ current = None
    BY <1>1 DEF ParentAccept, ForkInv
  <2>5. holders[c] = {}
    BY <2>2 DEF ForkInv, ForkHolders
  <2>6. ForkHolders'
    BY <2>1, <2>2, <2>3, <2>4, <2>5, ForkAssumption DEF ForkInv, ForkHolders, SocketsTypeOK
  <2> QED BY <2>1, <2>2, <2>4, <2>6 DEF ForkInv
<1>2. CASE Fork
  <2>1. current \in Conns
    BY <1>2 DEF Fork, ForkInv
  <2>2. SocketsTypeOK' /\ peer' = peer /\ current' = current
    BY <1>2 DEF Fork, ForkInv, ForkHolders, SocketsTypeOK, sockets
  <2>3. parent = "fork" /\ parent' = "close"
    BY <1>2 DEF Fork
  <2>4. /\ holders' = [holders EXCEPT ![current] = {"parent", "child"}]
        /\ \E s \in {"hung", "recv"} : child' = [child EXCEPT ![current] = s]
    BY <1>2 DEF Fork
  <2>5. "parent" \in holders[current] /\ peer[current] = "open"
    BY <2>1 DEF ForkInv, ForkHolders
  <2>6. ForkHolders'
    BY <2>1, <2>2, <2>4, <2>5 DEF ForkInv, ForkHolders
  <2> QED BY <2>1, <2>2, <2>3, <2>4, <2>6 DEF ForkInv
<1>3. CASE ForkFails \/ ParentClose
  <2>1. /\ current \in Conns /\ current' = None /\ parent' \in {"accept", "reap"}
        /\ CloseBy("parent", current) /\ child' = child /\ UNCHANGED <<client, rcvd, full>>
    BY <1>3 DEF ForkFails, ParentClose, ForkInv, replies
  <2>2. /\ SocketsTypeOK'
        /\ holders' \in [Conns -> SUBSET {"parent", "child"}]
        /\ \A d \in Conns : peer'[d] = "open" <=> holders'[d] # {}
        /\ \A d \in Conns, q \in {"parent", "child"} :
              q \in holders'[d] <=> q \in holders[d] /\ ~(q = "parent" /\ d = current)
    BY <2>1, ClosedByOne
  <2>3. ForkHolders'
    BY <2>1, <2>2 DEF ForkInv, ForkHolders
  <2> QED BY <2>1, <2>2, <2>3, ForkAssumption DEF ForkInv
<1>4. CASE ParentReap
  <2>1. UNCHANGED <<sockets, current, holders>>
    BY <1>4 DEF ParentReap
  <2>2. child' = child \/ \E c \in Zombies : child' = [child EXCEPT ![c] = "reaped"]
    BY <1>4 DEF ParentReap, Reap
  <2>3. parent = "reap" /\ parent' \in {"accept", "reap"}
    BY <1>4 DEF ParentReap
  <2>4. SocketsTypeOK'
    BY <2>1 DEF ForkInv, ForkHolders, SocketsTypeOK, sockets
  <2>5. ForkHolders'
    BY <2>1, <2>2, <2>4 DEF ForkInv, ForkHolders, Zombies, sockets
  <2> QED BY <2>1, <2>2, <2>3, <2>5 DEF ForkInv, Zombies
<1> QED BY <1>1, <1>2, <1>3, <1>4 DEF ParentStep

LEMMA ForkSignal == ASSUME ForkInv, SignalStep \/ LoggerLock \/ LoggerUnlock PROVE ForkInv'
<1>1. UNCHANGED <<sockets, parent, current, holders>>
  BY DEF SignalStep, Signal, Handler, LoggerLock, LoggerUnlock
<1>2. child' = child \/ \E c \in Zombies : child' = [child EXCEPT ![c] = "reaped"]
  BY DEF SignalStep, Signal, Handler, LoggerLock, LoggerUnlock, Reap
<1>3. SocketsTypeOK'
  BY <1>1 DEF ForkInv, ForkHolders, SocketsTypeOK, sockets
<1>4. ForkHolders'
  BY <1>1, <1>2, <1>3 DEF ForkInv, ForkHolders, Zombies, sockets
<1> QED BY <1>1, <1>2, <1>4 DEF ForkInv, Zombies

LEMMA ForkChild == ASSUME ForkInv, NEW c \in Conns, ChildStep(c) PROVE ForkInv'
<1>1. CASE ChildReceive(c) \/ ChildWaits(c) \/ ChildAnswer(c)
  <2>1. peer' = peer /\ UNCHANGED <<client, parent, current, holders>>
    BY <1>1 DEF ChildReceive, ChildWaits, ChildAnswer
  <2>2. /\ child[c] \in {"recv", "answer", "sending"}
        /\ \E s \in {"answer", "sending", "close"} : child' = [child EXCEPT ![c] = s]
    BY <1>1 DEF ChildReceive, ChildWaits, ChildAnswer, Go
  <2>3. rcvd' = rcvd \/ rcvd' = [rcvd EXCEPT ![c] = Chunk(c).to]
    BY <1>1 DEF ChildReceive, ChildWaits, ChildAnswer
  <2>4. full' = full \/ full' = [full EXCEPT ![c] = TRUE]
    BY <1>1 DEF ChildReceive, ChildWaits, ChildAnswer, SendPart, replies
  <2>5. SocketsTypeOK'
    BY <2>1, <2>3, <2>4, ChunkFacts DEF ForkInv, ForkHolders, SocketsTypeOK, client
  <2>6. ForkHolders'
    BY <2>1, <2>2, <2>5 DEF ForkInv, ForkHolders
  <2> QED BY <2>1, <2>2, <2>6 DEF ForkInv
<1>2. CASE ChildKilled(c) \/ ChildClose(c) \/ ChildExit(c)
  <2>1. CloseBy("child", c) /\ UNCHANGED <<client, rcvd, full, parent, current>>
    BY <1>2 DEF ChildKilled, ChildClose, ChildExit, Dies, replies
  <2>2. \E s \in {"exit", "zombie"} : child' = [child EXCEPT ![c] = s]
    BY <1>2 DEF ChildKilled, ChildClose, ChildExit, Dies, Go
  <2>3. /\ SocketsTypeOK'
        /\ holders' \in [Conns -> SUBSET {"parent", "child"}]
        /\ \A d \in Conns : peer'[d] = "open" <=> holders'[d] # {}
        /\ \A d \in Conns, q \in {"parent", "child"} :
              q \in holders'[d] <=> q \in holders[d] /\ ~(q = "child" /\ d = c)
    BY <2>1, ClosedByOne
  <2>4. ForkHolders'
    BY <2>1, <2>2, <2>3 DEF ForkInv, ForkHolders
  <2> QED BY <2>1, <2>2, <2>3, <2>4 DEF ForkInv
<1>3. CASE ChildStays(c)
  <2>1. UNCHANGED <<sockets, parent, current, holders>>
    BY <1>3 DEF ChildStays
  <2>2. child[c] = "exit" /\ child' = [child EXCEPT ![c] = "hung"]
    BY <1>3 DEF ChildStays, Go
  <2>3. SocketsTypeOK'
    BY <2>1 DEF ForkInv, ForkHolders, SocketsTypeOK, sockets
  <2>4. ForkHolders'
    BY <2>1, <2>2, <2>3 DEF ForkInv, ForkHolders, sockets
  <2> QED BY <2>1, <2>2, <2>4 DEF ForkInv
<1> QED BY <1>1, <1>2, <1>3 DEF ChildStep


-----------------------------------------------------------------------------
(* The select server: its tables.                                          *)

LEMMA SelectInitially == SocketsInit /\ SelectInit => SelectInv
<1> SUFFICES ASSUME SocketsInit, SelectInit PROVE SelectInv
  OBVIOUS
<1>1. SocketsTypeOK
  BY SocketsAssumption DEF SocketsAssumption, SocketsInit, SocketsTypeOK
<1>2. Served = {} /\ Watched = {} /\ client_fds = <<>> /\ loop = "set"
  BY SelectAssumption DEF SelectAssumption, SelectInit, Served, Watched
<1>3. SelectTypes
  BY DEF SelectInit, SelectTypes
<1>4. Tables
  BY <1>2 DEF Tables, Round
<1> QED BY <1>1, <1>3, <1>4 DEF SelectInv

\* The lowest free descriptor is one that nobody has.
LEMMA FreeDescriptor == Fds \ Open # {} => LowestFree \in Fds /\ owner[LowestFree] = Nobody
<1> SUFFICES ASSUME Fds \ Open # {} PROVE LowestFree \in Fds \ Open
  BY DEF Open
<1>1. Fds \ Open \subseteq Nat
  BY SelectAssumption DEF SelectAssumption
<1>2. \E f \in Fds \ Open : \A g \in Fds \ Open : f <= g
  BY <1>1, Least
<1> QED BY <1>2 DEF LowestFree

\* Closing a descriptor takes it from whoever had it and disturbs no other.
LEMMA ClosingFacts ==
    ASSUME SelectInv, NEW f \in Fds, CloseFd(f), UNCHANGED <<client, rcvd, full>>
    PROVE  /\ owner' \in [Fds -> Conns \cup {File, Nobody}]
           /\ \A g \in Fds : owner'[g] = IF g = f THEN Nobody ELSE owner[g]
           /\ Served' = Served \ {f}
           /\ SocketsTypeOK'
           /\ \A g \in Served' : peer'[owner'[g]] = "open"
           /\ \A g \in Served' : owner'[g] = owner[g]
           /\ f \notin Served => peer' = peer
<1>1. owner \in [Fds -> Conns \cup {File, Nobody}] /\ owner' = [owner EXCEPT ![f] = Nobody]
  BY DEF CloseFd, SelectInv, SelectTypes
<1>2. \A g \in Fds : owner'[g] = IF g = f THEN Nobody ELSE owner[g]
  BY <1>1
<1>3. Served' = Served \ {f}
  BY <1>2, SelectAssumption DEF SelectAssumption, Served
<1>4. peer' = [c \in Conns |-> IF owner[f] = c THEN "closed" ELSE peer[c]]
  BY DEF CloseFd
<1>5. SocketsTypeOK'
  BY <1>4 DEF SelectInv, SocketsTypeOK, client
<1>6. ASSUME NEW g \in Served' PROVE peer'[owner'[g]] = "open" /\ owner'[g] = owner[g]
  <2>1. g \in Served /\ g # f /\ owner'[g] = owner[g] /\ owner[g] \in Conns /\ peer[owner[g]] = "open"
    BY <1>2, <1>3 DEF Served, SelectInv, Tables
  <2>2. owner[f] # owner[g]
    BY <2>1 DEF Served, SelectInv, Tables
  <2> QED BY <1>4, <2>1, <2>2
<1>7. ASSUME f \notin Served PROVE peer' = peer
  BY <1>4, <1>7 DEF Served, SelectInv, SocketsTypeOK
<1> QED BY <1>1, <1>2, <1>3, <1>5, <1>6, <1>7

\* The loop and the vector as they were, a descriptor is closed that is no client's or
\* after which nothing is claimed of the vector.
LEMMA ClosedByWorker ==
    ASSUME SelectInv, NEW f \in Fds, CloseFd(f),
           UNCHANGED <<client, rcvd, full, client_fds, read_fds, loop, i>>,
           workerClosed \/ f \in Served => workerClosed', workerClosed => workerClosed'
    PROVE  SocketsTypeOK' /\ owner' \in [Fds -> Conns \cup {File, Nobody}] /\ Tables'
<1>1. /\ owner' \in [Fds -> Conns \cup {File, Nobody}]
      /\ Served' = Served \ {f}
      /\ SocketsTypeOK'
      /\ \A g \in Served' : peer'[owner'[g]] = "open"
      /\ \A g \in Served' : owner'[g] = owner[g]
  BY ClosingFacts
<1>2. Watched' = Watched
  BY DEF Watched
<1>3. /\ \A g, h \in Served' : owner'[g] = owner'[h] => g = h
      /\ Served' \subseteq Watched'
  BY <1>1, <1>2 DEF SelectInv, Tables
<1>4. ASSUME ~workerClosed'
      PROVE  /\ Watched' = Served'
             /\ \A m, n \in DOMAIN client_fds' : client_fds'[m] = client_fds'[n] => m = n
             /\ Round'
  <2>1. ~workerClosed /\ Served' = Served
    BY <1>1, <1>4
  <2>2. \A g \in Fds : NoWait(g)' = NoWait(g)
    BY <1>1, <2>1 DEF NoWait, Readable, client
  <2>3. \A n \in DOMAIN client_fds : client_fds[n] \in Fds
    BY ElementOfSeq, LenProperties DEF SelectInv, SelectTypes
  <2>4. Served \subseteq Fds
    BY DEF Served
  <2> QED BY <1>2, <2>1, <2>2, <2>3, <2>4 DEF SelectInv, Tables, Round
<1> QED BY <1>1, <1>3, <1>4 DEF Tables

\* Nothing of what the loop works with changes, but that more may be readable.
LEMMA SameTables ==
    ASSUME SelectInv, SocketsTypeOK',
           UNCHANGED <<client_fds, read_fds, loop, i, workerClosed>>,
           owner' \in [Fds -> Conns \cup {File, Nobody}], Served' = Served,
           \A f \in Served : owner'[f] = owner[f],
           \A c \in Conns : peer[c] = "open" => peer'[c] = "open",
           \A c \in Conns : Readable(c) => Readable(c)'
    PROVE  Tables'
<1>1. Watched' = Watched
  BY DEF Watched
<1>2. \A f \in Served : owner[f] \in Conns /\ f \in Fds
  BY DEF Served
<1>3. \A f \in Fds : NoWait(f) => NoWait(f)'
  BY <1>2 DEF NoWait
<1>4. \A n \in DOMAIN client_fds : client_fds[n] \in Fds
  BY ElementOfSeq, LenProperties DEF SelectInv, SelectTypes
<1>5. Round => Round'
  BY <1>2, <1>3, <1>4 DEF Round
<1> QED BY <1>1, <1>2, <1>5 DEF SelectInv, Tables

LEMMA SelectClient ==
    ASSUME SelectInv, NEW c \in Conns, ClientStep(c), UNCHANGED selectVars
    PROVE  SelectInv'
<1>1. /\ SocketsTypeOK'
      /\ \A d \in Conns : peer'[d] = "open" <=> peer[d] = "open"
      /\ \A d \in Conns : Readable(d) => Readable(d)'
  BY ClientFacts DEF SelectInv
<1>2. Served' = Served /\ owner' = owner
  BY DEF selectVars, Served
<1>3. UNCHANGED <<client_fds, read_fds, loop, i, workerClosed>>
  BY DEF selectVars
<1>4. SelectTypes'
  BY DEF selectVars, SelectInv, SelectTypes
<1>5. owner' \in [Fds -> Conns \cup {File, Nobody}]
  BY <1>4 DEF SelectTypes
<1>6. Tables'
  BY <1>1, <1>2, <1>3, <1>5, SameTables
<1> QED BY <1>1, <1>4, <1>6 DEF SelectInv

-----------------------------------------------------------------------------
(* The select server: its workers.                                         *)

LEMMA SelectWorker == ASSUME SelectInv, NEW w \in Workers, WorkerStep(w) PROVE SelectInv'
<1>1. CASE StartTask(w)
  <2>1. /\ Head(queue) \in [fd : Fds, chunk : Chunks]
        /\ Tail(queue) \in Seq([fd : Fds, chunk : Chunks])
    BY <1>1, TailElements DEF StartTask, SelectInv, SelectTypes
  <2>2. queue' = Tail(queue) /\ UNCHANGED <<sockets, files, read_fds, loop, i, workerClosed>>
    BY <1>1 DEF StartTask
  <2>3. job' = [job EXCEPT ![w] =
            [fd |-> Head(queue).fd, chunk |-> Head(queue).chunk, at |-> "handle", file |-> Listener]]
    BY <1>1 DEF StartTask
  <2>4. job \in [Workers -> Jobs \cup {NoTask}]
    BY DEF SelectInv, SelectTypes
  <2>5. job' \in [Workers -> Jobs \cup {NoTask}]
    BY <2>1, <2>3, <2>4 DEF Jobs
  <2>6. SelectTypes'
    BY <2>1, <2>2, <2>5 DEF SelectInv, SelectTypes, files
  <2>7. SocketsTypeOK' /\ Tables'
    BY <2>2 DEF SelectInv, SocketsTypeOK, Tables, Round, Served, Watched, NoWait, Readable,
                sockets, files
  <2> QED BY <2>6, <2>7 DEF SelectInv
<1>2. CASE Drop(w)
  <2>1. job' = [job EXCEPT ![w] = NoTask]
        /\ UNCHANGED <<sockets, files, read_fds, loop, i, queue, workerClosed>>
    BY <1>2 DEF Drop
  <2>2. SelectTypes'
    BY <2>1 DEF SelectInv, SelectTypes, files
  <2>3. SocketsTypeOK' /\ Tables'
    BY <2>1 DEF SelectInv, SocketsTypeOK, Tables, Round, Served, Watched, NoWait, Readable,
                sockets, files
  <2> QED BY <2>2, <2>3 DEF SelectInv
<1>3. CASE OpenFile(w)
  <2>1. /\ owner' = [owner EXCEPT ![LowestFree] = File]
        /\ job' = [job EXCEPT ![w] = [@ EXCEPT !.at = "file", !.file = LowestFree]]
        /\ UNCHANGED <<sockets, client_fds, read_fds, loop, i, queue, workerClosed>>
    BY <1>3 DEF OpenFile
  <2>2. LowestFree \in Fds /\ owner[LowestFree] = Nobody
    BY <1>3, FreeDescriptor DEF OpenFile
  <2>3. job[w] \in Jobs /\ job \in [Workers -> Jobs \cup {NoTask}]
    BY <1>3 DEF OpenFile, AtWork, SelectInv, SelectTypes
  <2>4. [job[w] EXCEPT !.at = "file", !.file = LowestFree] \in Jobs
    BY <2>2, <2>3 DEF Jobs
  <2>5. job' \in [Workers -> Jobs \cup {NoTask}]
    BY <2>1, <2>3, <2>4
  <2>6. owner \in [Fds -> Conns \cup {File, Nobody}] /\ owner' \in [Fds -> Conns \cup {File, Nobody}]
    BY <2>1 DEF SelectInv, SelectTypes
  <2>7. SelectTypes'
    BY <2>1, <2>5, <2>6 DEF SelectInv, SelectTypes
  <2>8. Served' = Served /\ \A f \in Served : owner'[f] = owner[f]
    BY <2>1, <2>2, <2>6, SelectAssumption DEF SelectAssumption, Served
  <2>9. SocketsTypeOK' /\ peer' = peer /\ \A c \in Conns : Readable(c) = Readable(c)'
    BY <2>1 DEF SelectInv, SocketsTypeOK, Readable, sockets
  <2>10. Tables'
    BY <2>1, <2>6, <2>8, <2>9, SameTables
  <2> QED BY <2>7, <2>9, <2>10 DEF SelectInv
<1>4. CASE Waits(w)
  <2>1. /\ job' = [job EXCEPT ![w] = [@ EXCEPT !.at = "sending"]]
        /\ UNCHANGED <<peer, client, rcvd, files, read_fds, loop, i, queue, workerClosed>>
        /\ full' = [full EXCEPT ![owner[job[w].fd]] = TRUE]
    BY <1>4 DEF Waits, SendPart
  <2>2. job[w] \in Jobs /\ job \in [Workers -> Jobs \cup {NoTask}]
    BY <1>4 DEF Waits, Answers, AtWork, SelectInv, SelectTypes
  <2>3. [job[w] EXCEPT !.at = "sending"] \in Jobs
    BY <2>2 DEF Jobs
  <2>4. job' \in [Workers -> Jobs \cup {NoTask}]
    BY <2>1, <2>2, <2>3
  <2>5. SelectTypes'
    BY <2>1, <2>4 DEF SelectInv, SelectTypes, files
  <2>6. SocketsTypeOK' /\ \A c \in Conns : Readable(c) = Readable(c)'
    BY <2>1 DEF SelectInv, SocketsTypeOK, Readable, client
  <2>7. Served' = Served /\ owner' = owner
    BY <2>1 DEF Served, files
  <2>8. Tables'
    BY <2>1, <2>5, <2>6, <2>7, SameTables DEF files, SelectTypes
  <2> QED BY <2>5, <2>6, <2>8 DEF SelectInv
<1>5. CASE Handle(w)
  <2> DEFINE t == job[w]
  <2>1. t \in Jobs /\ job \in [Workers -> Jobs \cup {NoTask}]
    BY <1>5 DEF Handle, Answers, AtWork, SelectInv, SelectTypes
  <2>2. \E next \in {[t EXCEPT !.at = "close"], NoTask} : job' = [job EXCEPT ![w] = next]
    BY <1>5 DEF Handle
  <2>3. [t EXCEPT !.at = "close"] \in Jobs
    BY <2>1 DEF Jobs
  <2>4. job' \in [Workers -> Jobs \cup {NoTask}]
    BY <2>1, <2>2, <2>3
  <2>5. UNCHANGED <<client, rcvd, full, client_fds, read_fds, loop, i, queue>>
    BY <1>5 DEF Handle
  <2>6. SocketsTypeOK' /\ owner' \in [Fds -> Conns \cup {File, Nobody}] /\ Tables'
    <3>1. CASE t.file # Listener
      <4>1. t.file \in Fds
        BY <2>1, <3>1 DEF Jobs
      <4>2. CloseFd(t.file) /\ workerClosed' = (workerClosed \/ t.file \in Served)
        BY <1>5, <3>1 DEF Handle
      <4> QED BY <2>5, <4>1, <4>2, ClosedByWorker
    <3>2. CASE t.file = Listener
      <4>1. UNCHANGED <<peer, owner, workerClosed>>
        BY <1>5, <3>2 DEF Handle
      <4>2. SocketsTypeOK' /\ owner' \in [Fds -> Conns \cup {File, Nobody}]
        BY <2>5, <4>1 DEF SelectInv, SelectTypes, SocketsTypeOK, client
      <4>3. Served' = Served /\ \A c \in Conns : Readable(c) = Readable(c)'
        BY <2>5, <4>1 DEF Served, Readable, client
      <4> QED BY <2>5, <4>1, <4>2, <4>3, SameTables
    <3> QED BY <3>1, <3>2
  <2>7. SelectTypes'
    BY <2>4, <2>5, <2>6 DEF SelectInv, SelectTypes
  <2> QED BY <2>6, <2>7 DEF SelectInv
<1>6. CASE WorkerClose(w)
  <2>1. job[w] \in Jobs /\ job[w].fd \in Fds
    BY <1>6 DEF WorkerClose, AtWork, SelectInv, SelectTypes, Jobs
  <2>2. /\ CloseFd(job[w].fd) /\ workerClosed' = (workerClosed \/ job[w].fd \in Open)
        /\ job' = [job EXCEPT ![w] = NoTask]
        /\ UNCHANGED <<client, rcvd, full, client_fds, read_fds, loop, i, queue>>
    BY <1>6 DEF WorkerClose, replies
  <2>3. job[w].fd \in Served => job[w].fd \in Open
    BY SelectAssumption DEF SelectAssumption, Served, Open
  <2>4. SocketsTypeOK' /\ owner' \in [Fds -> Conns \cup {File, Nobody}] /\ Tables'
    BY <2>1, <2>2, <2>3, ClosedByWorker
  <2>5. SelectTypes'
    BY <2>2, <2>4 DEF SelectInv, SelectTypes
  <2> QED BY <2>4, <2>5 DEF SelectInv
<1> QED BY <1>1, <1>2, <1>3, <1>4, <1>5, <1>6 DEF WorkerStep

\* The end of the process closes everything, and there is no vector any more.
LEMMA SelectKilled == ASSUME SelectInv, NEW w \in Workers, Killed(w) PROVE SelectInv'
<1>1. /\ loop' = "killed" /\ owner' = [f \in Fds |-> Nobody] /\ client_fds' = <<>> /\ queue' = <<>>
      /\ job' = [v \in Workers |-> NoTask] /\ UNCHANGED <<client, rcvd, full, i>>
      /\ peer' = [c \in Conns |-> IF peer[c] \in {"backlog", "open"} THEN "closed" ELSE peer[c]]
  BY DEF Killed, replies
<1>2. SocketsTypeOK'
  BY <1>1 DEF SelectInv, SocketsTypeOK, client
<1>3. SelectTypes'
  BY <1>1 DEF SelectInv, SelectTypes
<1>4. Served' = {} /\ Watched' = {} /\ DOMAIN client_fds' = {}
  BY <1>1, SelectAssumption DEF SelectAssumption, Served, Watched
<1>5. Tables'
  BY <1>1, <1>4 DEF Tables, Round
<1> QED BY <1>2, <1>3, <1>5 DEF SelectInv


-----------------------------------------------------------------------------
(* The select server: its loop.                                            *)

\* Erasing moves what comes after by one place.
LEMMA ErasedElements ==
    ASSUME NEW S, NEW s \in Seq(S), NEW n \in DOMAIN s
    PROVE  /\ Erased(s, n) \in Seq(S)
           /\ DOMAIN s = 1 .. Len(s) /\ Len(s) \in Nat
           /\ DOMAIN Erased(s, n) = 1 .. Len(s) - 1
           /\ \A k \in 1 .. Len(s) - 1 : Erased(s, n)[k] = IF k < n THEN s[k] ELSE s[k + 1]
<1> DEFINE u == SubSeq(s, 1, n - 1)
           v == SubSeq(s, n + 1, Len(s))
<1>1. n \in 1 .. Len(s) /\ Len(s) \in Nat /\ DOMAIN s = 1 .. Len(s)
  BY LenProperties
<1>2. u \in Seq(S) /\ Len(u) = n - 1 /\ \A k \in 1 .. n - 1 : u[k] = s[k]
  BY <1>1, SubSeqProperties
<1>3. v \in Seq(S) /\ Len(v) = Len(s) - n /\ \A k \in 1 .. Len(s) - n : v[k] = s[n + k]
  BY <1>1, SubSeqProperties
<1>4. Erased(s, n) = u \o v
  BY DEF Erased
<1> HIDE DEF u, v
<1>0. /\ u \o v \in Seq(S) /\ Len(u \o v) = Len(u) + Len(v)
      /\ \A k \in 1 .. Len(u) + Len(v) : (u \o v)[k] = IF k <= Len(u) THEN u[k] ELSE v[k - Len(u)]
  BY <1>2, <1>3, ConcatProperties
<1>5. Len(u) + Len(v) = Len(s) - 1
  BY <1>1, <1>2, <1>3
<1>6. \A k \in 1 .. Len(s) - 1 : (u \o v)[k] = IF k <= n - 1 THEN u[k] ELSE v[k - (n - 1)]
  BY <1>0, <1>2, <1>5
<1>7. ASSUME NEW k \in 1 .. Len(s) - 1 PROVE (u \o v)[k] = IF k < n THEN s[k] ELSE s[k + 1]
  <2>1. CASE k < n
    BY <1>1, <1>2, <1>6, <2>1
  <2>2. CASE ~(k < n)
    <3>1. k - (n - 1) \in 1 .. Len(s) - n /\ n + (k - (n - 1)) = k + 1 /\ ~(k <= n - 1)
      BY <1>1, <2>2
    <3>2. (u \o v)[k] = v[k - (n - 1)]
      BY <1>6, <3>1
    <3>3. v[k - (n - 1)] = s[n + (k - (n - 1))]
      BY <1>3, <3>1
    <3> QED BY <2>2, <3>1, <3>2, <3>3
  <2> QED BY <2>1, <2>2
<1>8. DOMAIN (u \o v) = 1 .. Len(s) - 1
  BY <1>0, <1>5, LenProperties
<1> QED BY <1>0, <1>1, <1>4, <1>7, <1>8

\* The vector speaks of descriptors.
LEMMA VectorFacts ==
    ASSUME SelectInv
    PROVE  /\ client_fds \in Seq(Fds) /\ Len(client_fds) \in Nat
           /\ DOMAIN client_fds = 1 .. Len(client_fds)
           /\ \A n \in DOMAIN client_fds : client_fds[n] \in Fds
           /\ i \in Nat \ {0}
  BY ElementOfSeq, LenProperties DEF SelectInv, SelectTypes

\* Of the steps that change no table only the return from select and the passing over
\* an element change what is left of the round.
LEMMA QuietStep ==
    ASSUME SelectInv, UNCHANGED <<sockets, files, pool>>, i' \in Nat \ {0},
           ~workerClosed => Round'
    PROVE  SelectInv'
<1>1. SelectTypes'
  BY DEF SelectInv, SelectTypes, files, pool
<1>2. Served' = Served /\ Watched' = Watched /\ owner' = owner /\ peer' = peer
  BY DEF Served, Watched, files, sockets
<1>3. SocketsTypeOK'
  BY DEF SelectInv, SocketsTypeOK, sockets
<1>4. Tables'
  BY <1>2 DEF SelectInv, Tables, files, pool
<1> QED BY <1>1, <1>3, <1>4 DEF SelectInv

LEMMA SelectQuiet ==
    ASSUME SelectInv, SelectCall \/ SelectReturn \/ AcceptFails \/ NothingToAccept \/ Pass \/ ScanDone
    PROVE  SelectInv'
<1>1. CASE SelectCall \/ AcceptFails \/ ScanDone
  <2>1. loop' \in {"blocked", "set"} /\ i' = i /\ UNCHANGED <<sockets, files, pool>>
    BY <1>1 DEF SelectCall, AcceptFails, ScanDone
  <2> QED BY <2>1, VectorFacts, QuietStep DEF Round
<1>2. CASE SelectReturn
  <2>1. /\ loop' = "accept" /\ i' = i /\ UNCHANGED <<sockets, files, pool>>
        /\ read_fds' = {f \in Watched \cap Open : NoWait(f)}
                          \cup (IF Backlog # {} THEN {Listener} ELSE {})
    BY <1>2 DEF SelectReturn
  <2>2. ASSUME ~workerClosed PROVE Round'
    <3>1. Watched = Served
      BY <2>2 DEF SelectInv, Tables
    <3>2. Served' = Served /\ \A f \in Fds : NoWait(f)' = NoWait(f)
      BY <2>1 DEF Served, NoWait, Readable, sockets, files
    <3>3. Listener \notin Served
      BY SelectAssumption DEF SelectAssumption, Served
    <3>4. Served \subseteq Fds
      BY DEF Served
    <3> QED BY <2>1, <3>1, <3>2, <3>3, <3>4 DEF Round
  <2> QED BY <2>1, <2>2, VectorFacts, QuietStep
<1>3. CASE NothingToAccept
  <2>1. /\ loop = "accept" /\ loop' = "scan" /\ i' = 1
        /\ read_fds' = read_fds /\ UNCHANGED <<sockets, files, pool>>
    BY <1>3 DEF NothingToAccept
  <2>2. ASSUME ~workerClosed PROVE Round'
    <3>1. Watched = Served /\ \A f \in read_fds \cap Served : NoWait(f)
      BY <2>1, <2>2 DEF SelectInv, Tables, Round
    <3>2. \A f \in Fds : NoWait(f)' = NoWait(f)
      BY <2>1 DEF Served, NoWait, Readable, sockets, files
    <3>3. \A n \in DOMAIN client_fds : client_fds[n] \in Served /\ client_fds[n] \in Fds
      BY <3>1, VectorFacts DEF Watched
    <3>4. client_fds' = client_fds
      BY <2>1 DEF files
    <3> QED BY <2>1, <3>1, <3>2, <3>3, <3>4 DEF Round
  <2> QED BY <2>1, <2>2, QuietStep
<1>4. CASE Pass
  <2>1. /\ loop = "scan" /\ loop' = loop /\ i' = i + 1
        /\ read_fds' = read_fds /\ UNCHANGED <<sockets, files, pool>>
    BY <1>4 DEF Pass
  <2>2. ASSUME ~workerClosed PROVE Round'
    <3>1. \A n \in DOMAIN client_fds :
              n >= i /\ client_fds[n] \in read_fds => NoWait(client_fds[n])
      BY <2>1, <2>2 DEF SelectInv, Tables, Round
    <3>2. \A f \in Fds : NoWait(f)' = NoWait(f)
      BY <2>1 DEF Served, NoWait, Readable, sockets, files
    <3>3. client_fds' = client_fds
      BY <2>1 DEF files
    <3>4. \A n \in DOMAIN client_fds : n >= i + 1 => n >= i
      BY VectorFacts
    <3> QED BY <2>1, <3>1, <3>2, <3>3, <3>4, VectorFacts DEF Round
  <2>3. i' \in Nat \ {0}
    BY <2>1, VectorFacts
  <2> QED BY <2>1, <2>2, <2>3, QuietStep
<1> QED BY <1>1, <1>2, <1>3, <1>4

LEMMA SelectAccept == ASSUME SelectInv, Accept PROVE SelectInv'
<1>1. LowestFree \in Fds /\ owner[LowestFree] = Nobody
  BY FreeDescriptor DEF Accept
<1>2. PICK c \in Backlog : /\ peer' = [peer EXCEPT ![c] = "open"]
                           /\ owner' = [owner EXCEPT ![LowestFree] = c]
  BY DEF Accept
<1>3. /\ client_fds' = Append(client_fds, LowestFree) /\ loop = "accept" /\ loop' = "scan" /\ i' = 1
      /\ UNCHANGED <<client, rcvd, full, read_fds, pool>>
  BY DEF Accept, replies
<1>4. c \in Conns /\ peer[c] = "backlog"
  BY DEF Backlog
<1>5. owner \in [Fds -> Conns \cup {File, Nobody}] /\ owner' \in [Fds -> Conns \cup {File, Nobody}]
  BY <1>2, <1>4 DEF SelectInv, SelectTypes
<1>6. SocketsTypeOK'
  BY <1>2, <1>3 DEF SelectInv, SocketsTypeOK, client
<1>7. /\ client_fds' \in Seq(Fds)
      /\ DOMAIN client_fds' = DOMAIN client_fds \cup {Len(client_fds) + 1}
      /\ \A n \in DOMAIN client_fds : client_fds'[n] = client_fds[n]
      /\ client_fds'[Len(client_fds) + 1] = LowestFree
  BY <1>1, <1>3, VectorFacts, AppendElements
<1>8. Watched' = Watched \cup {LowestFree}
  BY <1>7 DEF Watched
<1>9. Served' = Served \cup {LowestFree} /\ LowestFree \notin Served
  BY <1>1, <1>2, <1>4, <1>5, SelectAssumption DEF SelectAssumption, Served
<1>10. SelectTypes'
  BY <1>3, <1>5, <1>7 DEF SelectInv, SelectTypes, pool
<1>11. \A f \in Served' : owner'[f] = IF f = LowestFree THEN c ELSE owner[f]
  BY <1>2, <1>5 DEF Served
<1>12. \A f \in Served : owner[f] \in Conns /\ peer[owner[f]] = "open"
  BY DEF SelectInv, Tables, Served
<1>13. \A f \in Served' : peer'[owner'[f]] = "open"
  BY <1>2, <1>4, <1>9, <1>11, <1>12 DEF SelectInv, SocketsTypeOK
<1>14. \A f, g \in Served' : owner'[f] = owner'[g] => f = g
  BY <1>4, <1>9, <1>11, <1>12 DEF SelectInv, Tables
<1>15. ASSUME ~workerClosed'
       PROVE  /\ Watched' = Served'
              /\ \A m, n \in DOMAIN client_fds' : client_fds'[m] = client_fds'[n] => m = n
              /\ Round'
  <2>1. /\ ~workerClosed /\ Watched = Served
        /\ \A m, n \in DOMAIN client_fds : client_fds[m] = client_fds[n] => m = n
        /\ read_fds \subseteq Served \cup {Listener} /\ \A f \in read_fds \cap Served : NoWait(f)
    BY <1>3, <1>15 DEF SelectInv, Tables, Round, pool
  <2>2. \A n \in DOMAIN client_fds : client_fds[n] \in Served
    BY <2>1 DEF Watched
  <2>3. \A m, n \in DOMAIN client_fds' : client_fds'[m] = client_fds'[n] => m = n
    BY <1>7, <1>9, <2>1, <2>2
  <2>4. LowestFree \notin read_fds
    BY <1>1, <1>9, <2>1, SelectAssumption DEF SelectAssumption
  <2>5. ASSUME NEW f \in read_fds \cap Served PROVE NoWait(f)'
    <3>1. owner'[f] = owner[f] /\ owner[f] \in Conns /\ f \in Fds
      BY <1>9, <1>11, <1>12, <2>5 DEF Served
    <3> QED BY <1>3, <2>1, <2>5, <3>1, <1>9 DEF NoWait, Readable, client
  <2>6. Round'
    BY <1>3, <1>7, <2>2, <2>4, <2>5 DEF Round
  <2> QED BY <1>8, <1>9, <2>1, <2>3, <2>6
<1>16. Tables'
  BY <1>8, <1>9, <1>13, <1>14, <1>15 DEF SelectInv, Tables
<1> QED BY <1>6, <1>10, <1>16 DEF SelectInv

LEMMA SelectReceive == ASSUME SelectInv, Receive PROVE SelectInv'
<1> DEFINE f == client_fds[i]
           c == owner[f]
<1>1. /\ loop = "scan" /\ i \in DOMAIN client_fds /\ f \in Served /\ i' = i + 1
      /\ rcvd' = [rcvd EXCEPT ![c] = Chunk(c).to]
      /\ queue' = Append(queue, [fd |-> f, chunk |-> Chunk(c)])
      /\ UNCHANGED <<peer, client, full, files, read_fds, loop, job, workerClosed>>
  BY DEF Receive, replies
<1>2. f \in Fds /\ c \in Conns
  BY <1>1 DEF Served
<1>3. SocketsTypeOK'
  BY <1>1, <1>2, ChunkFacts DEF SelectInv, SocketsTypeOK, client
<1>4. Chunk(c) \in Chunks
  BY <1>2, ChunkFacts DEF SelectInv
<1>5. queue' \in Seq([fd : Fds, chunk : Chunks])
  BY <1>1, <1>2, <1>4, AppendElements DEF SelectInv, SelectTypes
<1>6. SelectTypes'
  BY <1>1, <1>5, VectorFacts DEF SelectInv, SelectTypes, files
<1>7. Served' = Served /\ Watched' = Watched /\ owner' = owner
  BY <1>1 DEF Served, Watched, files
<1>8. ASSUME ~workerClosed PROVE Round'
  <2>1. /\ \A m, n \in DOMAIN client_fds : client_fds[m] = client_fds[n] => m = n
        /\ \A n \in DOMAIN client_fds : n >= i /\ client_fds[n] \in read_fds => NoWait(client_fds[n])
    BY <1>1, <1>8 DEF SelectInv, Tables, Round
  <2>2. ASSUME NEW n \in DOMAIN client_fds, n >= i + 1, client_fds[n] \in read_fds
        PROVE  NoWait(client_fds[n])'
    <3>1. n >= i /\ n # i
      BY <2>2, VectorFacts
    <3>2. client_fds[n] # f /\ NoWait(client_fds[n])
      BY <1>1, <2>1, <2>2, <3>1
    <3>3. client_fds[n] \in Served => owner[client_fds[n]] # c /\ owner[client_fds[n]] \in Conns
      BY <1>1, <3>2 DEF SelectInv, Tables, Served
    <3>4. client_fds' = client_fds
      BY <1>1 DEF files
    <3> QED BY <1>1, <1>2, <1>7, <3>2, <3>3, <3>4 DEF NoWait, Readable, client, SelectInv, SocketsTypeOK
  <2> QED BY <1>1, <2>2 DEF Round, files
<1>9. Tables'
  BY <1>1, <1>7, <1>8 DEF SelectInv, Tables, files
<1> QED BY <1>3, <1>6, <1>9 DEF SelectInv

LEMMA SelectEnd == ASSUME SelectInv, ReceiveEnd PROVE SelectInv'
<1> DEFINE f == client_fds[i]
<1>1. /\ loop = "scan" /\ i \in DOMAIN client_fds /\ CloseFd(f)
      /\ client_fds' = Erased(client_fds, i)
      /\ UNCHANGED <<client, rcvd, full, read_fds, loop, i, pool>>
  BY DEF ReceiveEnd, replies
<1>2. f \in Fds
  BY <1>1, VectorFacts
<1>3. /\ owner' \in [Fds -> Conns \cup {File, Nobody}]
      /\ Served' = Served \ {f}
      /\ SocketsTypeOK'
      /\ \A g \in Served' : peer'[owner'[g]] = "open"
      /\ \A g \in Served' : owner'[g] = owner[g]
  BY <1>1, <1>2, ClosingFacts
<1>4. /\ client_fds' \in Seq(Fds)
      /\ DOMAIN client_fds = 1 .. Len(client_fds) /\ Len(client_fds) \in Nat
      /\ DOMAIN client_fds' = 1 .. Len(client_fds) - 1
      /\ \A k \in 1 .. Len(client_fds) - 1 :
            client_fds'[k] = IF k < i THEN client_fds[k] ELSE client_fds[k + 1]
  BY <1>1, VectorFacts, ErasedElements
<1>5. SelectTypes'
  BY <1>1, <1>3, <1>4 DEF SelectInv, SelectTypes, pool
<1>6. \A n \in DOMAIN client_fds : client_fds[n] # f =>
          \E k \in DOMAIN client_fds' : client_fds'[k] = client_fds[n]
  <2> SUFFICES ASSUME NEW n \in DOMAIN client_fds, client_fds[n] # f
               PROVE  \E k \in DOMAIN client_fds' : client_fds'[k] = client_fds[n]
    OBVIOUS
  <2>1. CASE n < i
    <3>1. n \in 1 .. Len(client_fds) - 1
      BY <1>1, <1>4, <2>1
    <3> QED BY <1>4, <2>1, <3>1
  <2>2. CASE n > i
    <3>1. n - 1 \in 1 .. Len(client_fds) - 1 /\ ~(n - 1 < i) /\ n - 1 + 1 = n
      BY <1>1, <1>4, <2>2
    <3> QED BY <1>4, <3>1
  <2>3. n # i
    OBVIOUS
  <2> QED BY <1>1, <1>4, <2>1, <2>2, <2>3
<1>7. Served' \subseteq Watched'
  BY <1>3, <1>6 DEF SelectInv, Tables, Watched
<1>8. \A g, h \in Served' : owner'[g] = owner'[h] => g = h
  BY <1>3 DEF SelectInv, Tables
<1>9. ASSUME ~workerClosed'
      PROVE  /\ Watched' = Served'
             /\ \A m, n \in DOMAIN client_fds' : client_fds'[m] = client_fds'[n] => m = n
             /\ Round'
  <2>1. /\ ~workerClosed /\ Watched = Served
        /\ \A m, n \in DOMAIN client_fds : client_fds[m] = client_fds[n] => m = n
        /\ \A n \in DOMAIN client_fds : n >= i /\ client_fds[n] \in read_fds => NoWait(client_fds[n])
    BY <1>1, <1>9 DEF SelectInv, Tables, Round, pool
  <2> DEFINE old(k) == IF k < i THEN k ELSE k + 1
  <2>2. ASSUME NEW k \in DOMAIN client_fds'
        PROVE  /\ old(k) \in DOMAIN client_fds /\ old(k) # i /\ (k >= i => old(k) >= i)
               /\ client_fds'[k] = client_fds[old(k)]
    BY <1>1, <1>4
  <2>3. \A m, n \in DOMAIN client_fds' : old(m) = old(n) => m = n
    BY <1>1, <1>4
  <2> HIDE DEF old
  <2>4. \A m, n \in DOMAIN client_fds' : client_fds'[m] = client_fds'[n] => m = n
    BY <2>1, <2>2, <2>3
  <2>5. \A k \in DOMAIN client_fds' : client_fds'[k] # f /\ client_fds'[k] \in Served
    BY <1>1, <2>1, <2>2 DEF Watched
  <2>6. Watched' \subseteq Served'
    BY <1>3, <2>5 DEF Watched
  <2>7. ASSUME NEW k \in DOMAIN client_fds', k >= i, client_fds'[k] \in read_fds
        PROVE  NoWait(client_fds[k])'
    <3>1. PICK g \in Served : g = client_fds'[k]
      BY <2>5, <2>7
    <3>2. NoWait(g)
      BY <2>1, <2>2, <2>7, <3>1
    <3>3. g \in Served' /\ owner'[g] = owner[g]
      BY <1>3, <2>5, <2>7, <3>1
    <3>4. NoWait(g)'
      BY <1>1, <3>2, <3>3 DEF NoWait, Readable, client
    <3> QED BY <3>1, <3>4 DEF NoWait
  <2>8. Round'
    BY <1>1, <2>7 DEF Round
  <2> QED BY <1>7, <2>4, <2>6, <2>8
<1>10. Tables'
  BY <1>3, <1>7, <1>8, <1>9 DEF Tables
<1> QED BY <1>3, <1>5, <1>10 DEF SelectInv

-----------------------------------------------------------------------------

LEMMA InvInitially == Init => Inv
  BY SelectInitially, ForkInitially DEF Init, Inv

LEMMA InvStep == Inv /\ [Next]_vars => Inv'
<1> SUFFICES ASSUME Inv, [Next]_vars PROVE Inv'
  OBVIOUS
<1>1. CASE \E c \in Conns : ClientStep(c) /\ UNCHANGED <<mode_, selectVars, forkVars>>
  BY <1>1, SelectClient, ForkClient DEF Inv
<1>2. CASE InSelect(SelectNext)
  <2>1. mode_ = "select" /\ mode_' = mode_ /\ SelectInv
    BY <1>2 DEF InSelect, Inv
  <2>2. SelectInv'
    BY <1>2, <2>1, SelectWorker, SelectKilled, SelectQuiet, SelectAccept, SelectReceive, SelectEnd
       DEF InSelect, SelectNext, LoopStep
  <2> QED BY <2>1, <2>2 DEF Inv
<1>3. CASE InFork(ForkNext)
  <2>1. mode_ = "fork" /\ mode_' = mode_ /\ ForkInv
    BY <1>3 DEF InFork, Inv
  <2>2. ForkInv'
    BY <1>3, <2>1, ForkParent, ForkSignal, ForkChild DEF InFork, ForkNext
  <2> QED BY <2>1, <2>2 DEF Inv
<1>4. CASE UNCHANGED vars
  <2>1. mode_' = mode_ /\ UNCHANGED <<sockets, selectVars, forkVars>>
    BY <1>4 DEF vars
  <2>2. SelectInv => SelectInv'
    BY <2>1 DEF SelectInv, SelectTypes, SocketsTypeOK, Tables, Round, Served, Watched,
                NoWait, Readable, sockets, selectVars
  <2>3. ForkInv => ForkInv'
    BY <2>1 DEF ForkInv, ForkHolders, SocketsTypeOK, sockets, forkVars
  <2> QED BY <2>1, <2>2, <2>3 DEF Inv
<1> QED BY <1>1, <1>2, <1>3, <1>4 DEF Next

LEMMA InvSuffices == Inv => ModesSound
<1>1. SelectInv => SelectSound
  <2> SUFFICES ASSUME SelectInv PROVE SelectSound
    OBVIOUS
  <2>1. i >= i
    BY VectorFacts
  <2> QED BY <2>1 DEF SelectInv, Tables, Round, SelectSound
<1> QED BY <1>1 DEF Inv, ModesSound, ForkInv

\* client_fds is the file table until a worker closes a connection, and never misses one;
\* a round of select's loop never waits in recv until then; and a connection is open in
\* its own child and, until the parent has gone on, in the parent
\* (TcpServer.cpp:88-189, HttpHandler.cpp:239-263).
THEOREM ModesAreSound == Spec => []ModesSound
<1> QED BY InvInitially, InvStep, InvSuffices, PTL DEF Spec

=============================================================================
