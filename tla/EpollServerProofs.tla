------------------------- MODULE EpollServerProofs -------------------------
(***************************************************************************)
(* Proofs, for any number of connections, descriptors, requests and        *)
(* workers, of the safety properties of EpollServer.                       *)
(***************************************************************************)
EXTENDS EpollServer, QueueLemmas

-----------------------------------------------------------------------------
(* Streams of tokens.                                                      *)

Tokens == Conns \X Nat

\* A stream is a sequence, of the tokens from i to j.
LEMMA StreamType ==
    ASSUME NEW c \in Conns, NEW i \in Nat, NEW j \in Nat, i <= j + 1
    PROVE  /\ Stream(c, i, j) \in Seq(Tokens)
           /\ Len(Stream(c, i, j)) = j + 1 - i
           /\ \A n \in 1 .. Len(Stream(c, i, j)) : Stream(c, i, j)[n] = <<c, i + n - 1>>
<1>1. j + 1 - i \in Nat
  OBVIOUS
<1>2. \A n \in 1 .. (j + 1 - i) : Token(c, i + n - 1) \in Tokens
  BY DEF Token, Tokens
<1>3. Stream(c, i, j) \in Seq(Tokens)
  BY <1>1, <1>2, IsASeq DEF Stream
<1>4. Len(Stream(c, i, j)) = j + 1 - i
  BY <1>1, <1>3, LenProperties DEF Stream
<1>5. \A n \in 1 .. (j + 1 - i) : Stream(c, i, j)[n] = <<c, i + n - 1>>
  BY DEF Stream, Token
<1> QED BY <1>3, <1>4, <1>5

\* What follows a stream on the wire continues it.
LEMMA StreamJoin ==
    ASSUME NEW c \in Conns, NEW i \in Nat, NEW m \in Nat, NEW j \in Nat, i <= m + 1, m <= j
    PROVE  Stream(c, i, m) \o Stream(c, m + 1, j) = Stream(c, i, j)
<1> DEFINE a == Stream(c, i, m)
           b == Stream(c, m + 1, j)
           s == Stream(c, i, j)
<1>1. /\ a \in Seq(Tokens) /\ Len(a) = m + 1 - i
      /\ \A n \in 1 .. Len(a) : a[n] = <<c, i + n - 1>>
  BY StreamType
<1>2. /\ b \in Seq(Tokens) /\ Len(b) = j + 1 - (m + 1)
      /\ \A n \in 1 .. Len(b) : b[n] = <<c, m + 1 + n - 1>>
  <2>1. m + 1 \in Nat /\ m + 1 <= j + 1
    OBVIOUS
  <2> HIDE DEF b
  <2> QED BY <2>1, StreamType DEF b
<1>3. /\ s \in Seq(Tokens) /\ Len(s) = j + 1 - i
      /\ \A n \in 1 .. Len(s) : s[n] = <<c, i + n - 1>>
  BY StreamType
<1> HIDE DEF a, b, s
<1>0. Len(a) \in Nat /\ Len(b) \in Nat /\ Len(s) = Len(a) + Len(b) /\ i + Len(a) = m + 1
  BY <1>1, <1>2, <1>3
<1>4. a \o b \in Seq(Tokens) /\ Len(a \o b) = Len(s)
  <2>1. a \in Seq(Tokens) /\ b \in Seq(Tokens)
    BY <1>1, <1>2
  <2>2. a \o b \in Seq(Tokens) /\ Len(a \o b) = Len(a) + Len(b)
    BY <2>1, ConcatProperties
  <2> QED BY <1>0, <2>2
<1>5. ASSUME NEW n \in 1 .. Len(s) PROVE (a \o b)[n] = s[n]
  <2>1. n \in 1 .. (Len(a) + Len(b))
    BY <1>0
  <2>2. (a \o b)[n] = IF n <= Len(a) THEN a[n] ELSE b[n - Len(a)]
    BY <1>1, <1>2, <2>1, ConcatProperties
  <2>3. CASE n <= Len(a)
    <3>1. n \in 1 .. Len(a) /\ (a \o b)[n] = a[n]
      BY <1>0, <2>1, <2>2, <2>3
    <3> QED BY <1>1, <1>3, <3>1
  <2>4. CASE n > Len(a)
    <3>1. n - Len(a) \in 1 .. Len(b) /\ m + 1 + (n - Len(a)) - 1 = i + n - 1
      BY <1>0, <2>1, <2>4
    <3>2. (a \o b)[n] = b[n - Len(a)]
      BY <1>0, <2>1, <2>2, <2>4
    <3> QED BY <1>2, <1>3, <3>1, <3>2
  <2> QED BY <1>0, <2>1, <2>3, <2>4
<1>6. a \o b = s
  BY <1>3, <1>4, <1>5, SeqEqual
<1> QED BY <1>6 DEF a, b, s

\* SubSeq under a name of its own, so that a prover need not look into it.
Part(s, m, n) == SubSeq(s, m, n)

\* A part of a stream is the stream of its tokens.
LEMMA StreamPart ==
    ASSUME NEW c \in Conns, NEW i \in Nat \ {0}, NEW j \in Nat, i <= j + 1,
           NEW m \in Nat \ {0}, NEW n \in Nat, m <= n + 1, n <= j + 1 - i
    PROVE  Part(Stream(c, i, j), m, n) = Stream(c, i + m - 1, i + n - 1)
<1> DEFINE s == Stream(c, i, j)
           first == i + m - 1
           last == i + n - 1
           t == Stream(c, first, last)
           u == SubSeq(s, m, n)
<1>1. /\ s \in Seq(Tokens) /\ Len(s) = j + 1 - i
      /\ \A k \in 1 .. Len(s) : s[k] = <<c, i + k - 1>>
  BY StreamType
<1>2. first \in Nat /\ last \in Nat /\ first <= last + 1 /\ last + 1 - first = n - m + 1
  OBVIOUS
<1> HIDE DEF first, last
<1>3. /\ t \in Seq(Tokens) /\ Len(t) = last + 1 - first
      /\ \A k \in 1 .. Len(t) : t[k] = <<c, first + k - 1>>
  BY <1>2, StreamType
<1> HIDE DEF s, t
<1>4. u \in Seq(Tokens) /\ Len(u) = n - m + 1 /\ \A k \in 1 .. (n - m + 1) : u[k] = s[m + k - 1]
  <2>1. \A k \in m .. n : s[k] \in Tokens
    BY <1>1, ElementOfSeq
  <2>2. /\ u \in Seq(Tokens) /\ Len(u) = IF m <= n THEN n - m + 1 ELSE 0
        /\ \A k \in 1 .. (n - m + 1) : u[k] = s[m + k - 1]
    BY <2>1, SubSeqProperties
  <2> QED BY <2>2
<1>5. ASSUME NEW k \in 1 .. Len(t) PROVE u[k] = t[k]
  <2>1. k \in 1 .. (n - m + 1)
    BY <1>2, <1>3
  <2>0. Len(s) = j + 1 - i
    BY <1>1
  <2>2. m + k - 1 \in 1 .. Len(s) /\ i + (m + k - 1) - 1 = first + k - 1
    BY <2>0, <2>1 DEF first
  <2> QED BY <1>1, <1>3, <1>4, <2>1, <2>2
<1>6. u = t
  BY <1>2, <1>3, <1>4, <1>5, SeqEqual
<1> QED BY <1>6 DEF s, t, first, last, Part

-----------------------------------------------------------------------------
(* Type correctness.                                                       *)

\* The descriptor the kernel gives is one that was free.
LEMMA LowestIsFree ==
    ASSUME Fds \ Open # {}
    PROVE  LowestFree \in Fds /\ LowestFree \notin Open
<1>1. \E f \in Fds \ Open : \A g \in Fds \ Open : f <= g
  BY Least, EpollAssumption
<1> QED BY <1>1 DEF LowestFree

\* Closing leaves every table of its type.
LEMMA CloseAllType ==
    ASSUME TypeOK, NEW F, F \subseteq Fds, CloseAll(F)
    PROVE  /\ peer' \in [Conns -> {"new", "backlog", "open", "closed"}]
           /\ owner' \in [Fds -> Conns \cup {Nobody}]
           /\ ready' \subseteq Fds
           /\ connections' \in [DOMAIN connections' -> 0 .. AgeCap]
           /\ DOMAIN connections' \subseteq Fds
           /\ buffers' \in [DOMAIN buffers' -> Seq(Conns \X Nat)]
           /\ DOMAIN buffers' \subseteq Fds
BY DEF TypeOK, CloseAll, Without

\* What the buffer holds and what recv has found, joined, is a sequence of tokens, and
\* so are the requests and the rest it is split into.
LEMMA ReadType ==
    ASSUME TypeOK, NEW f \in Open
    PROVE  LET data == Buffered(f) \o Stream(owner[f], rcvd[owner[f]] + 1, sent[owner[f]])
           IN  /\ owner[f] \in Conns
               /\ Buffered(f) \in Seq(Tokens)
               /\ data \in Seq(Tokens)
               /\ Complete(data) \in Nat
               /\ 2 * Complete(data) <= Len(data) /\ Len(data) <= 2 * Complete(data) + 1
               /\ Rest(data) \in Seq(Tokens)
               /\ Requests(f, data) \in Seq(Tasks)
               /\ Len(Requests(f, data)) = Complete(data)
<1> DEFINE c == owner[f]
           data == Buffered(f) \o Stream(c, rcvd[c] + 1, sent[c])
<1>1. f \in Fds /\ c \in Conns
  BY DEF TypeOK, Open
<1>2. Buffered(f) \in Seq(Tokens)
  BY EmptySeq DEF Buffered, TypeOK, Tokens
<1>3. Stream(c, rcvd[c] + 1, sent[c]) \in Seq(Tokens)
  <2>1. rcvd[c] + 1 \in Nat /\ sent[c] \in Nat /\ rcvd[c] + 1 <= sent[c] + 1
    BY <1>1 DEF TypeOK
  <2> QED BY <1>1, <2>1, StreamType
<1>4. data \in Seq(Tokens) /\ Len(data) \in Nat
  BY <1>2, <1>3, ConcatProperties, LenProperties
<1> HIDE DEF data
<1>5. /\ Complete(data) \in Nat
      /\ 2 * Complete(data) <= Len(data) /\ Len(data) <= 2 * Complete(data) + 1
  BY <1>4 DEF Complete
<1>6. ASSUME NEW m \in Nat \ {0}, NEW n \in Nat, n <= Len(data)
      PROVE  SubSeq(data, m, n) \in Seq(Tokens)
  <2>1. \A k \in m .. n : data[k] \in Tokens
    BY <1>4, <1>6, ElementOfSeq
  <2> QED BY <2>1, SubSeqProperties
<1>7. Rest(data) \in Seq(Tokens)
  BY <1>4, <1>5, <1>6 DEF Rest
<1>8. Requests(f, data) \in Seq(Tasks) /\ Len(Requests(f, data)) = Complete(data)
  <2>1. ASSUME NEW k \in 1 .. Complete(data)
        PROVE  [fd |-> f, of |-> c, req |-> SubSeq(data, 2 * k - 1, 2 * k)] \in Tasks
    <3>1. 2 * k - 1 \in Nat \ {0} /\ 2 * k \in Nat /\ 2 * k <= Len(data)
      BY <1>4, <1>5
    <3>2. SubSeq(data, 2 * k - 1, 2 * k) \in [1 .. 2 -> Tokens]
      <4>1. \A n \in (2 * k - 1) .. (2 * k) : data[n] \in Tokens
        BY <1>4, <3>1, ElementOfSeq
      <4>2. SubSeq(data, 2 * k - 1, 2 * k) = [n \in 1 .. 2 |-> data[2 * k - 1 + n - 1]]
        BY <3>1
      <4>3. \A n \in 1 .. 2 : 2 * k - 1 + n - 1 \in (2 * k - 1) .. (2 * k)
        BY <3>1
      <4> QED BY <4>1, <4>2, <4>3
    <3> QED BY <1>1, <3>2 DEF Tasks, Tokens
  <2>2. Requests(f, data) \in Seq(Tasks)
    BY <1>5, <2>1, IsASeq DEF Requests
  <2> QED BY <1>5, <2>2, LenProperties DEF Requests
<1> QED BY <1>1, <1>2, <1>4, <1>5, <1>7, <1>8 DEF data

\* What a worker's send changes: it goes on with its response, or ends it.
Sends(w) == SendSome(w) \/ SendFull(w) \/ SendGone(w)

LEMMA SendCases ==
    ASSUME TypeOK, NEW w \in Workers, Sends(w)
    PROVE  /\ UNCHANGED <<peer, client, rcvd, tables, ready, loop, batch, waited, queue, taken, quiet>>
           /\ full' \in [Conns -> BOOLEAN]
           /\ job[w] # NoTask
           /\ \/ UNCHANGED <<job, inbox>> /\ stage' \in [Workers -> Stages]
              \/ \E whole \in BOOLEAN : Finish(w, whole)
<1>0. \A v \in Workers : stage[v] \in Stages
  BY DEF TypeOK
<1>1. stage[w].begun \in BOOLEAN /\ (~stage[w].torn) \in BOOLEAN
  BY <1>0 DEF Stages
<1>2. CASE SendSome(w)
  <2>1. PICK c \in Conns, now \in BOOLEAN :
           /\ Sending(w, c)
           /\ full' = [full EXCEPT ![c] = now]
           /\ \/ Finish(w, ~stage[w].torn)
              \/ now /\ AsFile(w) /\ Finish(w, FALSE)
              \/ stage' = [stage EXCEPT ![w].begun = TRUE] /\ UNCHANGED <<job, inbox>>
    BY <1>2 DEF SendSome
  <2>2. full' \in [Conns -> BOOLEAN] /\ job[w] # NoTask
    BY <2>1 DEF TypeOK, Sending
  <2>3. stage' = [stage EXCEPT ![w].begun = TRUE] => stage' \in [Workers -> Stages]
    <3>1. [stage[w] EXCEPT !.begun = TRUE] \in Stages
      BY <1>0 DEF Stages
    <3> QED BY <3>1 DEF TypeOK
  <2>4. UNCHANGED <<peer, client, rcvd, tables, ready, loop, batch, waited, queue, taken, quiet>>
    BY <1>2 DEF SendSome
  <2> QED BY <1>1, <2>1, <2>2, <2>3, <2>4
<1>3. CASE SendFull(w)
  <2>1. /\ job[w] # NoTask
        /\ \/ Finish(w, FALSE)
           \/ /\ stage' = [stage EXCEPT ![w] = [begun |-> FALSE, page |-> TRUE, torn |-> stage[w].begun]]
              /\ UNCHANGED <<job, inbox>>
        /\ UNCHANGED <<peer, client, rcvd, tables, ready, loop, batch, waited, queue, full, taken, quiet>>
    BY <1>3 DEF SendFull, Sending
  <2>2. stage' = [stage EXCEPT ![w] = [begun |-> FALSE, page |-> TRUE, torn |-> stage[w].begun]]
        => stage' \in [Workers -> Stages]
    <3>1. [begun |-> FALSE, page |-> TRUE, torn |-> stage[w].begun] \in Stages
      BY <1>1 DEF Stages
    <3> QED BY <3>1 DEF TypeOK
  <2> QED BY <2>1, <2>2 DEF TypeOK
<1>4. CASE SendGone(w)
  BY <1>4 DEF SendGone, TypeOK
<1> QED BY <1>2, <1>3, <1>4 DEF Sends

\* A killed process has nothing open, nothing queued and nothing under way.
LEMMA KilledFacts ==
    ASSUME NEW w \in Workers, Killed(w)
    PROVE  /\ CloseAll(Open) /\ loop' = "killed" /\ batch' = {} /\ queue' = <<>>
           /\ job' = [v \in Workers |-> NoTask] /\ stage' = [v \in Workers |-> NotBegun]
           /\ UNCHANGED <<sent, fin, rcvd, waited, full, taken, quiet, inbox>>
           /\ \E c \in Conns : fin[c]
BY DEF Killed, client

\* Every variable has its type.
THEOREM EpollTypeCorrect == Spec => []TypeOK
<1>1. Init => TypeOK
  BY EpollAssumption, EmptySeq DEF Init, TypeOK, Stages, NotBegun
<1>2. TypeOK /\ [Next]_vars => TypeOK'
  <2> SUFFICES ASSUME TypeOK, [Next]_vars PROVE TypeOK'
    OBVIOUS
  <2>1. ASSUME NEW c \in Conns, Connect(c) PROVE TypeOK'
    BY <2>1 DEF Connect, TypeOK, client, tables, pool
  <2>2. ASSUME NEW c \in Conns, Send(c) PROVE TypeOK'
    <3>1. sent' = [sent EXCEPT ![c] = @ + 1] /\ sent[c] < 2 * MaxReq[c]
      BY <2>2 DEF Send
    <3>2. \A d \in Conns : MaxReq[d] \in Nat /\ sent[d] \in Nat /\ rcvd[d] \in Nat
                           /\ sent[d] <= 2 * MaxReq[d] /\ rcvd[d] <= sent[d]
      BY EpollAssumption DEF TypeOK
    <3>3. sent' \in [Conns -> Nat]
      BY <3>1, <3>2 DEF TypeOK
    <3>4. ASSUME NEW d \in Conns PROVE sent'[d] <= 2 * MaxReq[d] /\ rcvd[d] <= sent'[d]
      <4>1. CASE d = c
        <5>1. sent'[d] = sent[d] + 1
          BY <3>1, <4>1 DEF TypeOK
        <5> QED BY <3>1, <3>2, <4>1, <5>1
      <4>2. CASE d # c
        <5>1. sent'[d] = sent[d]
          BY <3>1, <4>2 DEF TypeOK
        <5> QED BY <3>2, <5>1
      <4> QED BY <4>1, <4>2
    <3> QED BY <2>2, <3>3, <3>4 DEF Send, Edge, TypeOK, tables, pool
  <2>3. ASSUME NEW c \in Conns, HangUp(c) PROVE TypeOK'
    <3>1. PICK n \in {sent[c], rcvd[c]} : sent' = [sent EXCEPT ![c] = n]
      BY <2>3 DEF HangUp
    <3>2. \A d \in Conns : MaxReq[d] \in Nat /\ sent[d] \in Nat /\ rcvd[d] \in Nat
                           /\ sent[d] <= 2 * MaxReq[d] /\ rcvd[d] <= sent[d]
      BY EpollAssumption DEF TypeOK
    <3>3. sent' \in [Conns -> Nat]
      BY <3>1, <3>2 DEF TypeOK
    <3>4. ASSUME NEW d \in Conns PROVE sent'[d] <= 2 * MaxReq[d] /\ rcvd[d] <= sent'[d]
      <4>1. sent'[d] \in {sent[d], rcvd[d]}
        BY <3>1 DEF TypeOK
      <4> QED BY <3>2, <4>1
    <3> QED BY <2>3, <3>3, <3>4 DEF HangUp, Edge, TypeOK, tables, pool
  <2>4. CASE Tick
    <3>1. \A n \in 0 .. AgeCap : Older(n) \in 0 .. AgeCap
      BY EpollAssumption DEF Older
    <3>2. waited' \in 0 .. Interval
      BY <2>4, EpollAssumption DEF Tick, TypeOK
    <3> QED BY <2>4, <3>1, <3>2 DEF Tick, TypeOK, client, pool
  <2>5. CASE EpollWait
    <3>1. Hits \subseteq Events
      BY DEF Hits, Events, TypeOK
    <3>2. ready' \subseteq Fds
      BY <2>5, <3>1 DEF EpollWait, Events
    <3> QED BY <2>5, <3>1, <3>2 DEF EpollWait, TypeOK, client, tables, pool
  <2>6. ASSUME NEW e \in batch, EventStep(e) PROVE TypeOK'
    <3>0. 0 \in 0 .. Interval /\ 0 \in 0 .. AgeCap
      BY EpollAssumption
    <3>1. CASE AcceptFails(e)
      BY <3>0, <3>1 DEF AcceptFails, EventDone, TypeOK, client, tables, pool
    <3>2. CASE Accept(e)
      <4>1. LowestFree \in Fds
        BY <3>2, LowestIsFree DEF Accept
      <4>2. Backlog \subseteq Conns
        BY DEF Backlog
      <4> QED BY <3>0, <3>2, <4>1, <4>2 DEF Accept, EventDone, Put, TypeOK, client, pool
    <3>3. CASE ReadEvent(e)
      <4> DEFINE f == e.fd
                 c == owner[f]
                 data == Buffered(f) \o Stream(c, rcvd[c] + 1, sent[c])
      <4>0. f \in Open
        BY <3>3 DEF ReadEvent
      <4>1. c \in Conns /\ f \in Fds
        BY <4>0, ReadType DEF Open
      <4>2. data \in Seq(Tokens) /\ Complete(data) \in Nat /\ Rest(data) \in Seq(Tokens)
        BY <4>0, ReadType
      <4>3. Requests(f, data) \in Seq(Tasks)
        BY <4>0, ReadType
      <4>4. /\ rcvd' = [rcvd EXCEPT ![c] = sent[c]]
            /\ queue' = queue \o Requests(f, data)
            /\ taken' = [taken EXCEPT ![c] = @ + Complete(data)]
            /\ buffers' = Put(buffers, f, Rest(data))
            /\ connections' = Refreshed(f)
            /\ quiet' = [quiet EXCEPT ![c] = 0]
            /\ batch' = batch \ {e} /\ loop' \in {"wait", "batch"} /\ waited' = 0
            /\ UNCHANGED <<peer, client, owner, ready, job, stage, full, inbox>>
        BY <3>3 DEF ReadEvent, EventDone, Drained
      <4> HIDE DEF c, data, f
      <4>5. queue' \in Seq(Tasks)
        BY <4>3, <4>4, ConcatProperties DEF TypeOK
      <4>6. rcvd' \in [Conns -> Nat] /\ \A d \in Conns : rcvd'[d] <= sent[d]
        BY <4>1, <4>4 DEF TypeOK
      <4>7. taken' \in [Conns -> Nat]
        BY <4>1, <4>2, <4>4 DEF TypeOK
      <4>8. buffers' \in [DOMAIN buffers' -> Seq(Conns \X Nat)] /\ DOMAIN buffers' \subseteq Fds
        BY <4>1, <4>2, <4>4 DEF TypeOK, Put, Tokens
      <4>9. connections' \in [DOMAIN connections' -> 0 .. AgeCap] /\ DOMAIN connections' \subseteq Fds
        BY <3>0, <4>1, <4>4 DEF TypeOK, Refreshed
      <4>10. quiet' \in [Conns -> 0 .. AgeCap]
        BY <3>0, <4>1, <4>4 DEF TypeOK
      <4> QED BY <3>0, <4>4, <4>5, <4>6, <4>7, <4>8, <4>9, <4>10 DEF TypeOK, client
    <3>4. CASE HangUpEvent(e)
      <4> DEFINE F == {e.fd} \cap DOMAIN connections
      <4>1. F \subseteq Fds /\ CloseAll(F)
        BY <3>4 DEF HangUpEvent, TypeOK
      <4>2. rcvd' \in [Conns -> Nat] /\ \A d \in Conns : rcvd'[d] <= sent[d]
        BY <3>4 DEF HangUpEvent, TypeOK
      <4> HIDE DEF F
      <4> QED BY <3>0, <3>4, <4>1, <4>2, CloseAllType DEF HangUpEvent, EventDone, TypeOK, client, pool
    <3> QED BY <2>6, <3>1, <3>2, <3>3, <3>4 DEF EventStep
  <2>7. CASE EpollTimeout
    BY <2>7 DEF EpollTimeout, TypeOK, client, tables, pool
  <2>8. CASE CheckIdleConnections
    <3> DEFINE F == {f \in DOMAIN connections : connections[f] > MaxIdle}
    <3>1. F \subseteq Fds /\ CloseAll(F) /\ 0 \in 0 .. Interval
      BY <2>8, EpollAssumption DEF CheckIdleConnections, TypeOK
    <3> HIDE DEF F
    <3> QED BY <2>8, <3>1, CloseAllType DEF CheckIdleConnections, TypeOK, client, pool
  <2>9. CASE EpollFails
    <3>1. DOMAIN connections \subseteq Fds /\ CloseAll(DOMAIN connections)
      BY <2>9 DEF EpollFails, TypeOK
    <3> QED BY <2>9, <3>1, CloseAllType DEF EpollFails, TypeOK, client, pool
  <2>10. ASSUME NEW w \in Workers, StartTask(w) PROVE TypeOK'
    <3>1. Head(queue) \in Tasks /\ Tail(queue) \in Seq(Tasks)
      BY <2>10, TailElements DEF StartTask, TypeOK
    <3> QED BY <2>10, <3>1 DEF StartTask, TypeOK, client, tables
  <2>11. ASSUME NEW w \in Workers, Sends(w) PROVE TypeOK'
    <3>1. /\ UNCHANGED <<peer, client, rcvd, tables, ready, loop, batch, waited, queue, taken, quiet>>
          /\ full' \in [Conns -> BOOLEAN] /\ job[w] # NoTask
      BY <2>11, SendCases
    <3>2. CASE UNCHANGED <<job, inbox>> /\ stage' \in [Workers -> Stages]
      BY <3>1, <3>2 DEF TypeOK, client, tables
    <3>3. ASSUME NEW whole \in BOOLEAN, Finish(w, whole) PROVE TypeOK'
      <4> DEFINE r == [req |-> job[w].req[1], whole |-> whole]
      <4>1. r \in Responses
        BY <3>1 DEF TypeOK, Tasks, Responses
      <4>2. \A c \in Conns : Append(inbox[c], r) \in Seq(Responses)
        BY <4>1, AppendElements DEF TypeOK
      <4>3. inbox' \in [Conns -> Seq(Responses)]
        BY <3>3, <4>2 DEF Finish, TypeOK
      <4>4. stage' \in [Workers -> Stages] /\ job' \in [Workers -> Tasks \cup {NoTask}]
        BY <3>3 DEF Finish, TypeOK, Stages, NotBegun
      <4> QED BY <3>1, <4>3, <4>4 DEF TypeOK, client, tables
    <3> QED BY <2>11, <3>2, <3>3, SendCases
  <2>12. CASE UNCHANGED vars
    BY <2>12 DEF vars, TypeOK
  <2>13. ASSUME NEW c \in Conns, Reads(c) PROVE TypeOK'
    BY <2>13 DEF Reads, TypeOK, client, tables
  <2>14. ASSUME NEW w \in Workers, Killed(w) PROVE TypeOK'
    <3>1. Open \subseteq Fds /\ CloseAll(Open)
      BY <2>14, KilledFacts DEF Open
    <3>2. queue' \in Seq(Tasks) /\ stage' \in [Workers -> Stages] /\ job' \in [Workers -> Tasks \cup {NoTask}]
      <4>1. queue' = <<>> /\ job' = [v \in Workers |-> NoTask] /\ stage' = [v \in Workers |-> NotBegun]
        BY <2>14, KilledFacts
      <4>2. NotBegun \in Stages
        BY DEF Stages, NotBegun
      <4>3. queue' \in Seq(Tasks)
        BY <4>1, EmptySeq
      <4> QED BY <4>1, <4>2, <4>3
    <3> QED BY <2>14, <3>1, <3>2, KilledFacts, CloseAllType DEF TypeOK
  <2> QED BY <2>1, <2>2, <2>3, <2>4, <2>5, <2>6, <2>7, <2>8, <2>9, <2>10, <2>11, <2>12, <2>13, <2>14
          DEF Next, LoopStep, WorkerStep, Sends
<1> QED BY <1>1, <1>2, PTL DEF Spec

-----------------------------------------------------------------------------
(* The tables.                                                             *)

\* What makes TablesAgree inductive: descriptors in place of numbers of descriptors, no
\* two events of a batch about one descriptor, and no events but in a batch.
Tracked ==
    /\ DOMAIN connections = Open
    /\ DOMAIN buffers \subseteq Open
    /\ ready \subseteq Open
    /\ \A f, g \in Open : owner[f] = owner[g] => f = g
    /\ \A c \in Conns : peer[c] = "open" <=> \E f \in Fds : owner[f] = c
    /\ \A e \in batch : e.fd # Listener => e.fd \in Open /\ owner[e.fd] = e.of
    /\ \A e, g \in batch : e.fd = g.fd => e = g
    /\ loop # "batch" => batch = {}

\* The requests that are queued or being answered.
Pending == {queue[n] : n \in DOMAIN queue} \cup ({job[w] : w \in Workers} \ {NoTask})

LEMMA PendingTasks == TypeOK => Pending \subseteq Tasks
<1>1. TypeOK => \A n \in DOMAIN queue : queue[n] \in Tasks
  BY ElementOfSeq DEF TypeOK
<1> QED BY <1>1 DEF Pending, TypeOK

\* What makes FramingExact inductive: a descriptor with no buffer has nothing left over,
\* and a connection not accepted yet has given nothing.
Framed ==
    /\ \A f \in Open : Buffered(f) = Stream(owner[f], 2 * taken[owner[f]] + 1, rcvd[owner[f]])
    /\ \A c \in Conns : peer[c] \in {"new", "backlog"} => rcvd[c] = 0 /\ taken[c] = 0
    /\ \A c \in Conns : 2 * taken[c] <= rcvd[c]
    /\ \A t \in Pending : \E k \in 1 .. taken[t.of] : t.req = Stream(t.of, 2 * k - 1, 2 * k)
    /\ \A c \in Conns : rcvd[c] >= 2 * taken[c] + 2 => fin[c] /\ peer[c] = "closed"

\* A descriptor's entry is as old as the connection's silence.
AgesAgree == \A f \in Open : connections[f] = quiet[owner[f]]

\* Closing a set of descriptors takes them, and nothing else, out of every table.
LEMMA CloseAllTracks ==
    ASSUME TypeOK, Tracked, NEW F, F \subseteq Open, CloseAll(F)
    PROVE  /\ Open' = Open \ F
           /\ \A f \in Open' : owner'[f] = owner[f]
           /\ DOMAIN connections' = Open'
           /\ DOMAIN buffers' \subseteq Open'
           /\ ready' \subseteq Open'
           /\ \A f, g \in Open' : owner'[f] = owner'[g] => f = g
           /\ \A c \in Conns : peer'[c] = "open" <=> \E f \in Fds : owner'[f] = c
<1>1. Open' = Open \ F
  BY DEF CloseAll, Open
<1>2. \A f \in Open' : owner'[f] = owner[f]
  BY <1>1 DEF CloseAll, Open
<1>3. DOMAIN connections' = Open' /\ DOMAIN buffers' \subseteq Open' /\ ready' \subseteq Open'
  BY <1>1 DEF CloseAll, Without, Tracked
<1>4. \A f, g \in Open' : owner'[f] = owner'[g] => f = g
  BY <1>1, <1>2 DEF Tracked
<1>5. ASSUME NEW c \in Conns PROVE peer'[c] = "open" <=> \E f \in Fds : owner'[f] = c
  <2>1. c # Nobody
    BY EpollAssumption
  <2>2. peer'[c] = IF \E f \in F : owner[f] = c THEN "closed" ELSE peer[c]
    BY DEF CloseAll
  <2>3. \A f \in Fds : owner'[f] = IF f \in F THEN Nobody ELSE owner[f]
    BY DEF CloseAll
  <2>4. CASE \E f \in F : owner[f] = c
    <3>1. PICK f \in F : owner[f] = c
      BY <2>4
    <3>2. \A g \in Fds : owner[g] = c => g = f
      BY <2>1, <3>1 DEF Tracked, Open
    <3> QED BY <2>1, <2>2, <2>3, <3>1, <3>2
  <2>5. CASE ~ \E f \in F : owner[f] = c
    BY <2>1, <2>2, <2>3, <2>5 DEF Tracked, Open
  <2> QED BY <2>4, <2>5
<1> QED BY <1>1, <1>2, <1>3, <1>4, <1>5

LEMMA TrackedInit == Init => Tracked
BY EpollAssumption DEF Init, Tracked, Open

LEMMA TrackedStep == TypeOK /\ Tracked /\ [Next]_vars => Tracked'
<1> SUFFICES ASSUME TypeOK, Tracked, [Next]_vars PROVE Tracked'
  OBVIOUS
<1>1. ASSUME NEW c \in Conns, Connect(c) PROVE Tracked'
  BY <1>1 DEF Connect, Tracked, TypeOK, Open, tables
<1>2. ASSUME NEW c \in Conns, Send(c) \/ HangUp(c) PROVE Tracked'
  <2>1. UNCHANGED <<peer, tables, loop, batch>> /\ Edge(c)
    BY <1>2 DEF Send, HangUp
  <2>2. ready' \subseteq Open
    BY <2>1, EpollAssumption DEF Edge, Tracked, Open
  <2> QED BY <2>1, <2>2 DEF Tracked, Open, tables
<1>3. CASE Tick
  BY <1>3 DEF Tick, Tracked, Open
<1>4. CASE EpollWait
  <2>1. \A h \in Hits : h.fd # Listener => h.fd \in ready /\ h.fd \in Open /\ owner[h.fd] = h.of
    BY DEF Hits, Tracked
  <2>2. \A g, h \in Hits : g.fd = h.fd => g = h
    BY EpollAssumption DEF Hits, TypeOK
  <2>3. batch' \subseteq Hits /\ ready' \subseteq Open /\ loop' = "batch"
    BY <1>4, <2>1 DEF EpollWait
  <2>4. UNCHANGED <<peer, tables>>
    BY <1>4 DEF EpollWait
  <2> QED BY <2>1, <2>2, <2>3, <2>4 DEF Tracked, Open, tables
<1>5. ASSUME NEW e \in batch, EventStep(e) PROVE Tracked'
  <2>0. ASSUME EventDone(e)
        PROVE  batch' = batch \ {e} /\ (loop' # "batch" => batch' = {})
    BY <2>0 DEF EventDone
  <2>1. CASE AcceptFails(e)
    <3>1. UNCHANGED <<peer, tables, ready>> /\ EventDone(e)
      BY <2>1 DEF AcceptFails
    <3> QED BY <2>0, <3>1 DEF Tracked, Open, tables
  <2>2. CASE Accept(e)
    <3> DEFINE f == LowestFree
    <3>1. f \in Fds /\ f \notin Open
      BY <2>2, LowestIsFree DEF Accept
    <3>2. PICK c \in Backlog : /\ peer' = [peer EXCEPT ![c] = "open"]
                               /\ owner' = [owner EXCEPT ![f] = c]
                               /\ ready' = IF Readable(c) THEN ready \cup {f} ELSE ready
      BY <2>2 DEF Accept
    <3>3. connections' = Put(connections, f, 0) /\ UNCHANGED buffers /\ EventDone(e)
      BY <2>2 DEF Accept
    <3> HIDE DEF f
    <3>4. c \in Conns /\ peer[c] = "backlog" /\ c # Nobody
      BY EpollAssumption DEF Backlog
    <3>5. Open' = Open \cup {f} /\ owner'[f] = c /\ \A g \in Open : owner'[g] = owner[g]
      BY <3>1, <3>2, <3>4 DEF Open, TypeOK
    <3>6. \A g \in Fds : owner[g] # c
      BY <3>4 DEF Tracked
    <3>7. DOMAIN connections' = Open' /\ DOMAIN buffers' \subseteq Open' /\ ready' \subseteq Open'
      BY <3>2, <3>3, <3>5 DEF Tracked, Put
    <3>8. \A g, h \in Open' : owner'[g] = owner'[h] => g = h
      BY <3>5, <3>6 DEF Tracked, Open
    <3>9. \A d \in Conns : peer'[d] = "open" <=> \E g \in Fds : owner'[g] = d
      <4>1. ASSUME NEW d \in Conns, d # c PROVE peer'[d] = "open" <=> \E g \in Fds : owner'[g] = d
        <5>1. peer'[d] = peer[d] /\ d # Nobody
          BY <3>2, <4>1, EpollAssumption DEF TypeOK
        <5>2. \A g \in Fds : owner'[g] = d <=> owner[g] = d
          BY <3>1, <3>2, <3>5, <4>1, <5>1 DEF Open, TypeOK
        <5> QED BY <5>1, <5>2 DEF Tracked
      <4>2. peer'[c] = "open" /\ \E g \in Fds : owner'[g] = c
        BY <3>1, <3>2, <3>4, <3>5 DEF TypeOK
      <4> QED BY <4>1, <4>2
    <3> QED BY <2>0, <3>3, <3>5, <3>7, <3>8, <3>9 DEF Tracked
  <2>3. CASE ReadEvent(e)
    <3>1. UNCHANGED <<peer, owner, ready>> /\ EventDone(e) /\ e.fd \in Open
      BY <2>3 DEF ReadEvent
    <3>2. DOMAIN connections' = DOMAIN connections
      BY <2>3 DEF ReadEvent, Refreshed
    <3>3. DOMAIN buffers' = DOMAIN buffers \cup {e.fd}
      BY <2>3 DEF ReadEvent, Put
    <3> QED BY <2>0, <3>1, <3>2, <3>3 DEF Tracked, Open
  <2>4. CASE HangUpEvent(e)
    <3>1. CloseAll({e.fd} \cap DOMAIN connections) /\ EventDone(e)
      BY <2>4 DEF HangUpEvent
    <3>2. {e.fd} \cap DOMAIN connections \subseteq Open /\ {e.fd} \cap DOMAIN connections \subseteq {e.fd}
      BY DEF Tracked
    <3>3. \A g \in batch' : g.fd # e.fd
      BY <2>0, <3>1 DEF Tracked
    <3> QED BY <2>0, <3>1, <3>2, <3>3, CloseAllTracks DEF Tracked
  <2> QED BY <1>5, <2>1, <2>2, <2>3, <2>4 DEF EventStep
<1>6. CASE EpollTimeout
  BY <1>6 DEF EpollTimeout, Tracked, Open, tables
<1>7. CASE CheckIdleConnections \/ EpollFails
  <2>1. PICK F \in SUBSET Open : CloseAll(F)
    BY <1>7 DEF CheckIdleConnections, EpollFails, Tracked
  <2>2. batch' = {}
    BY <1>7 DEF CheckIdleConnections, EpollFails, Tracked
  <2> QED BY <2>1, <2>2, CloseAllTracks DEF Tracked
<1>8. ASSUME NEW w \in Workers, WorkerStep(w) PROVE Tracked'
  <2>1. UNCHANGED <<peer, connections, buffers, owner, ready, loop, batch>>
    <3>1. CASE StartTask(w)
      BY <3>1 DEF StartTask, tables
    <3>2. CASE Sends(w)
      BY <3>2, SendCases DEF tables
    <3> QED BY <1>8, <3>1, <3>2 DEF WorkerStep, Sends
  <2> QED BY <2>1 DEF Tracked, Open
<1>9. CASE UNCHANGED vars
  BY <1>9 DEF vars, Tracked, Open
<1>10. ASSUME NEW c \in Conns, Reads(c) PROVE Tracked'
  BY <1>10 DEF Reads, Tracked, Open, tables
<1>11. ASSUME NEW w \in Workers, Killed(w) PROVE Tracked'
  <2>1. Open \subseteq Open /\ CloseAll(Open) /\ batch' = {}
    BY <1>11, KilledFacts
  <2> QED BY <2>1, CloseAllTracks DEF Tracked
<1> QED BY <1>1, <1>2, <1>3, <1>4, <1>5, <1>6, <1>7, <1>8, <1>9, <1>10, <1>11 DEF Next, LoopStep

\* A connection has one descriptor if it has any.
LEMMA OneDescriptor ==
    ASSUME TypeOK, Tracked, NEW c \in Conns
    PROVE  /\ Cardinality({f \in Fds : owner[f] = c}) <= 1
           /\ peer[c] = "open" <=> Cardinality({f \in Fds : owner[f] = c}) = 1
<1> DEFINE S == {f \in Fds : owner[f] = c}
<1>1. CASE \E f \in Fds : owner[f] = c
  <2>1. PICK f \in Fds : owner[f] = c
    BY <1>1
  <2>2. S = {f}
    <3>1. c # Nobody
      BY EpollAssumption
    <3> QED BY <2>1, <3>1 DEF Tracked, Open
  <2>3. Cardinality(S) = 1 /\ peer[c] = "open"
    BY <2>1, <2>2, FS_Singleton DEF Tracked
  <2> QED BY <2>3
<1>2. CASE ~ \E f \in Fds : owner[f] = c
  <2>1. S = {}
    BY <1>2
  <2>2. Cardinality(S) = 0 /\ peer[c] # "open"
    BY <1>2, <2>1, FS_EmptySet DEF Tracked
  <2> QED BY <2>2
<1> QED BY <1>1, <1>2

\* connections_, client_buffers_, epoll's list, the events of the batch and the file
\* table agree about every descriptor, and a connection has one while it is open.
THEOREM EpollTablesAgree == Spec => []TablesAgree
<1>1. TypeOK /\ Tracked => TablesAgree
  BY OneDescriptor DEF TablesAgree, Tracked
<1> QED BY <1>1, TrackedInit, TrackedStep, EpollTypeCorrect, PTL DEF Spec

-----------------------------------------------------------------------------
(* The framing of requests.                                                *)

\* What is left of c's stream after t whole requests, up to token s, splits into n more
\* requests and a rest that is too short to be one.
Splits(c, t, s, data, n) ==
    /\ n \in Nat
    /\ 2 * (t + n) <= s /\ s <= 2 * (t + n) + 1
    /\ Rest(data) = Stream(c, 2 * (t + n) + 1, s)
    /\ \A k \in 1 .. n : SubSeq(data, 2 * k - 1, 2 * k) = Stream(c, 2 * (t + k) - 1, 2 * (t + k))

\* The split loop splits it so.
LEMMA SplitExact ==
    ASSUME NEW c \in Conns, NEW t \in Nat, NEW s \in Nat, 2 * t <= s,
           NEW data, data = Stream(c, 2 * t + 1, s)
    PROVE  Splits(c, t, s, data, Complete(data))
<1> DEFINE i == 2 * t + 1
           n == Complete(data)
<1>1. i \in Nat \ {0} /\ i <= s + 1 /\ s + 1 - i = s - 2 * t /\ data = Stream(c, i, s)
  OBVIOUS
<1>0. ASSUME NEW m \in Nat \ {0}, NEW l \in Nat, m <= l + 1, l <= s + 1 - i
      PROVE  SubSeq(data, m, l) = Stream(c, i + m - 1, i + l - 1)
  <2> HIDE DEF i
  <2>1. Part(data, m, l) = Stream(c, i + m - 1, i + l - 1)
    BY <1>0, <1>1, StreamPart
  <2> QED BY <2>1 DEF Part
<1> HIDE DEF i
<1>2. Len(data) = s - 2 * t
  BY <1>1, StreamType DEF i
<1>3. n \in Nat /\ 2 * n <= s - 2 * t /\ s - 2 * t <= 2 * n + 1
  BY <1>2 DEF Complete
<1> HIDE DEF n
<1>4. 2 * (t + n) <= s /\ s <= 2 * (t + n) + 1
  BY <1>3
<1>5. SubSeq(data, 2 * n + 1, s - 2 * t) = Stream(c, 2 * (t + n) + 1, s)
  <2>1. 2 * n + 1 \in Nat \ {0} /\ s - 2 * t \in Nat /\ 2 * n + 1 <= s - 2 * t + 1
    BY <1>3
  <2> DEFINE m == 2 * n + 1
             l == s - 2 * t
  <2>2. SubSeq(data, m, l) = Stream(c, i + m - 1, i + l - 1)
    <3>1. m \in Nat \ {0} /\ l \in Nat /\ m <= l + 1 /\ l <= s + 1 - i
      BY <1>1, <2>1
    <3> HIDE DEF m, l
    <3> QED BY <1>0, <3>1
  <2>3. i + m - 1 = 2 * (t + n) + 1 /\ i + l - 1 = s
    BY <1>3 DEF i
  <2> QED BY <2>2, <2>3
<1>6. ASSUME NEW k \in 1 .. n
      PROVE  SubSeq(data, 2 * k - 1, 2 * k) = Stream(c, 2 * (t + k) - 1, 2 * (t + k))
  <2>1. 2 * k - 1 \in Nat \ {0} /\ 2 * k \in Nat /\ 2 * k - 1 <= 2 * k + 1 /\ 2 * k <= s + 1 - i
    BY <1>1, <1>3
  <2> DEFINE m == 2 * k - 1
             l == 2 * k
  <2>2. SubSeq(data, m, l) = Stream(c, i + m - 1, i + l - 1)
    <3>1. m \in Nat \ {0} /\ l \in Nat /\ m <= l + 1 /\ l <= s + 1 - i
      BY <2>1
    <3> HIDE DEF m, l
    <3> QED BY <1>0, <3>1
  <2>3. i + m - 1 = 2 * (t + k) - 1 /\ i + l - 1 = 2 * (t + k)
    BY <1>3 DEF i
  <2> QED BY <2>2, <2>3
<1> QED BY <1>2, <1>3, <1>4, <1>5, <1>6 DEF n, Rest, Splits

\* A read event: the tokens the connection has sent go to the requests handed over and
\* the rest that stays in the buffer, in order and each of them once.
LEMMA ReadFrames ==
    ASSUME TypeOK, Tracked, Framed, NEW e \in batch, ReadEvent(e)
    PROVE  \E n \in Nat :
             LET f == e.fd
                 c == owner[f]
             IN  /\ f \in Open /\ c \in Conns /\ peer[c] = "open"
                 /\ rcvd' = [rcvd EXCEPT ![c] = sent[c]]
                 /\ taken' = [taken EXCEPT ![c] = @ + n]
                 /\ 2 * (taken[c] + n) <= sent[c] /\ sent[c] <= 2 * (taken[c] + n) + 1
                 /\ buffers' = Put(buffers, f, Stream(c, 2 * (taken[c] + n) + 1, sent[c]))
                 /\ \E more \in Seq(Tasks) :
                        /\ queue' = queue \o more
                        /\ Len(more) = n
                        /\ \A k \in 1 .. n :
                               more[k] = [fd |-> f, of |-> c,
                                          req |-> Stream(c, 2 * (taken[c] + k) - 1, 2 * (taken[c] + k))]
<1> DEFINE f == e.fd
           c == owner[f]
           data == Buffered(f) \o Stream(c, rcvd[c] + 1, sent[c])
           n == Complete(data)
<1>1. f \in Open
  BY DEF ReadEvent
<1>2. c \in Conns /\ f \in Fds /\ peer[c] = "open"
  BY <1>1, ReadType DEF Open, Tracked
<1>3. taken[c] \in Nat /\ rcvd[c] \in Nat /\ sent[c] \in Nat /\ 2 * taken[c] <= rcvd[c] /\ rcvd[c] <= sent[c]
  BY <1>2 DEF TypeOK, Framed
<1>4. data = Stream(c, 2 * taken[c] + 1, sent[c])
  <2>1. Buffered(f) = Stream(c, 2 * taken[c] + 1, rcvd[c])
    BY <1>1 DEF Framed
  <2> DEFINE first == 2 * taken[c] + 1
             mid == rcvd[c]
             last == sent[c]
  <2>2. first \in Nat /\ first <= mid + 1 /\ mid \in Nat /\ last \in Nat /\ mid <= last
    BY <1>3
  <2>3. Stream(c, first, mid) \o Stream(c, mid + 1, last) = Stream(c, first, last)
    <3> HIDE DEF first, mid, last, c
    <3> QED BY <1>2, <2>2, StreamJoin
  <2> QED BY <2>1, <2>3
<1>5. Requests(f, data) \in Seq(Tasks) /\ Len(Requests(f, data)) = n
  BY <1>1, ReadType
<1>6. /\ rcvd' = [rcvd EXCEPT ![c] = sent[c]]
      /\ queue' = queue \o Requests(f, data)
      /\ taken' = [taken EXCEPT ![c] = @ + n]
      /\ buffers' = Put(buffers, f, Rest(data))
  BY DEF ReadEvent, Drained
<1> HIDE DEF data
<1>7. /\ n \in Nat
      /\ 2 * (taken[c] + n) <= sent[c] /\ sent[c] <= 2 * (taken[c] + n) + 1
      /\ Rest(data) = Stream(c, 2 * (taken[c] + n) + 1, sent[c])
      /\ \A k \in 1 .. n : SubSeq(data, 2 * k - 1, 2 * k)
                              = Stream(c, 2 * (taken[c] + k) - 1, 2 * (taken[c] + k))
  <2> DEFINE t == taken[c]
             s == sent[c]
  <2>1. 2 * t <= s /\ t \in Nat /\ s \in Nat /\ data = Stream(c, 2 * t + 1, s)
    BY <1>3, <1>4
  <2> HIDE DEF t, s, c
  <2>2. c \in Conns
    BY <1>2
  <2>3. Splits(c, t, s, data, Complete(data))
    BY <2>1, <2>2, SplitExact
  <2> QED BY <2>3 DEF t, s, Splits
<1>8. \A k \in 1 .. n :
         Requests(f, data)[k] = [fd |-> f, of |-> c,
                                 req |-> Stream(c, 2 * (taken[c] + k) - 1, 2 * (taken[c] + k))]
  BY <1>7 DEF Requests
<1> HIDE DEF n
<1> QED BY <1>1, <1>2, <1>5, <1>6, <1>7, <1>8

LEMMA FramedInit == Init => Framed
<1> SUFFICES ASSUME Init PROVE Framed
  OBVIOUS
<1>1. Open = {}
  BY DEF Init, Open
<1>2. Pending = {}
  BY DEF Init, Pending
<1> QED BY <1>1, <1>2 DEF Init, Framed

\* Steps that read nothing and close nothing.
LEMMA FramedKept ==
    ASSUME TypeOK, Framed, UNCHANGED <<rcvd, taken, buffers, owner>>, Pending' \subseteq Pending,
           \A c \in Conns : /\ fin[c] => fin'[c]
                            /\ peer[c] = "closed" => peer'[c] = "closed"
                            /\ peer'[c] \in {"new", "backlog"} => peer[c] \in {"new", "backlog"}
    PROVE  Framed'
<1>1. \A f \in Open' : f \in Open /\ Buffered(f)' = Buffered(f)
  BY DEF Open, Buffered
<1>2. \A t \in Pending' : \E k \in 1 .. taken'[t.of] : t.req = Stream(t.of, 2 * k - 1, 2 * k)
  BY DEF Framed
<1> QED BY <1>1, <1>2 DEF Framed

LEMMA FramedStep == TypeOK /\ Tracked /\ Framed /\ [Next]_vars => Framed'
<1> SUFFICES ASSUME TypeOK, Tracked, Framed, [Next]_vars PROVE Framed'
  OBVIOUS
<1>0. UNCHANGED <<queue, job>> => Pending' = Pending
  BY DEF Pending
<1>1. ASSUME NEW c \in Conns, Connect(c) \/ Send(c) \/ HangUp(c) PROVE Framed'
  <2>1. UNCHANGED <<rcvd, taken, buffers, owner, queue, job>>
    BY <1>1 DEF Connect, Send, HangUp, tables, pool
  <2>2. \A d \in Conns : /\ fin[d] => fin'[d]
                         /\ peer[d] = "closed" => peer'[d] = "closed"
                         /\ peer'[d] \in {"new", "backlog"} => peer[d] \in {"new", "backlog"}
    BY <1>1 DEF Connect, Send, HangUp, TypeOK, client
  <2> QED BY <1>0, <2>1, <2>2, FramedKept
<1>2. CASE Tick \/ EpollWait \/ EpollTimeout
  BY <1>0, <1>2, FramedKept DEF Tick, EpollWait, EpollTimeout, client, tables, pool
<1>3. ASSUME NEW e \in batch, AcceptFails(e) PROVE Framed'
  BY <1>0, <1>3, FramedKept DEF AcceptFails, client, tables, pool
<1>4. ASSUME NEW e \in batch, Accept(e) PROVE Framed'
  <2>1. PICK f \in Fds : f = LowestFree /\ f \notin Open
    BY <1>4, LowestIsFree DEF Accept
  <2>2. PICK c \in Backlog : peer' = [peer EXCEPT ![c] = "open"] /\ owner' = [owner EXCEPT ![f] = c]
    BY <1>4, <2>1 DEF Accept
  <2>3. UNCHANGED <<fin, rcvd, taken, buffers, queue, job>>
    BY <1>4 DEF Accept, client, pool
  <2>4. c \in Conns /\ peer[c] = "backlog" /\ rcvd[c] = 0 /\ taken[c] = 0
    BY DEF Backlog, Framed
  <2>5. Open' = Open \cup {f} /\ owner'[f] = c /\ \A g \in Open : owner'[g] = owner[g]
    BY <2>1, <2>2, <2>4, EpollAssumption DEF Open, TypeOK
  <2>6. Buffered(f)' = <<>> /\ \A g \in Open : Buffered(g)' = Buffered(g)
    BY <2>1, <2>3 DEF Buffered, Tracked
  <2>7. Stream(c, 2 * 0 + 1, 0) = <<>>
    <3>1. Stream(c, 1, 0) \in Seq(Tokens) /\ Len(Stream(c, 1, 0)) = 0
      BY <2>4, StreamType
    <3> QED BY <3>1, EmptySeq
  <2>8. ASSUME NEW g \in Open'
        PROVE  (Buffered(g))' = Stream(owner'[g], 2 * taken'[owner'[g]] + 1, rcvd'[owner'[g]])
    <3>1. CASE g = f
      BY <2>3, <2>4, <2>5, <2>6, <2>7, <3>1
    <3>2. CASE g # f
      <4>1. g \in Open /\ owner'[g] = owner[g] /\ (Buffered(g))' = Buffered(g)
        BY <2>5, <2>6, <3>2
      <4> QED BY <2>3, <4>1 DEF Framed
    <3> QED BY <3>1, <3>2
  <2>9. \A d \in Conns : /\ peer'[d] \in {"new", "backlog"} => peer[d] \in {"new", "backlog"}
                         /\ peer[d] = "closed" => peer'[d] = "closed"
    BY <2>2, <2>4 DEF TypeOK
  <2> QED BY <1>0, <2>3, <2>8, <2>9 DEF Framed
<1>5. ASSUME NEW e \in batch, ReadEvent(e) PROVE Framed'
  <2> DEFINE f == e.fd
             c == owner[f]
  <2>1. PICK n \in Nat :
             /\ f \in Open /\ c \in Conns /\ peer[c] = "open"
             /\ rcvd' = [rcvd EXCEPT ![c] = sent[c]]
             /\ taken' = [taken EXCEPT ![c] = @ + n]
             /\ 2 * (taken[c] + n) <= sent[c] /\ sent[c] <= 2 * (taken[c] + n) + 1
             /\ buffers' = Put(buffers, f, Stream(c, 2 * (taken[c] + n) + 1, sent[c]))
             /\ \E more \in Seq(Tasks) :
                    /\ queue' = queue \o more
                    /\ Len(more) = n
                    /\ \A k \in 1 .. n :
                           more[k] = [fd |-> f, of |-> c,
                                      req |-> Stream(c, 2 * (taken[c] + k) - 1, 2 * (taken[c] + k))]
    BY <1>5, ReadFrames
  <2>2. UNCHANGED <<peer, fin, owner, job>>
    BY <1>5 DEF ReadEvent, client
  <2> HIDE DEF f, c
  <2>3. /\ rcvd'[c] = sent[c] /\ taken'[c] = taken[c] + n
        /\ \A d \in Conns : d # c => rcvd'[d] = rcvd[d] /\ taken'[d] = taken[d]
    BY <2>1 DEF TypeOK
  <2>4. \A d \in Conns : taken[d] \in Nat /\ taken'[d] \in Nat /\ taken[d] <= taken'[d] /\ sent[d] \in Nat
    <3>1. \A d \in Conns : taken[d] \in Nat /\ sent[d] \in Nat
      BY DEF TypeOK
    <3> QED BY <2>1, <2>3, <3>1
  <2>5. ASSUME NEW g \in Open'
        PROVE  (Buffered(g))' = Stream(owner'[g], 2 * taken'[owner'[g]] + 1, rcvd'[owner'[g]])
    <3>1. g \in Open /\ owner'[g] = owner[g]
      BY <2>2 DEF Open
    <3>2. CASE g = f
      <4>1. (Buffered(g))' = Stream(c, 2 * (taken[c] + n) + 1, sent[c])
        BY <2>1, <3>2 DEF Buffered, Put
      <4> QED BY <2>3, <3>1, <3>2, <4>1 DEF c
    <3>3. CASE g # f
      <4>1. owner[g] # c /\ owner[g] \in Conns
        BY <2>1, <3>1, <3>3 DEF Tracked, TypeOK, Open, c
      <4>2. (Buffered(g))' = Buffered(g)
        BY <2>1, <3>3 DEF Buffered, Put
      <4> QED BY <2>3, <3>1, <4>1, <4>2 DEF Framed
    <3> QED BY <3>2, <3>3
  <2>6. ASSUME NEW d \in Conns
        PROVE  /\ peer'[d] \in {"new", "backlog"} => rcvd'[d] = 0 /\ taken'[d] = 0
               /\ 2 * taken'[d] <= rcvd'[d]
               /\ rcvd'[d] >= 2 * taken'[d] + 2 => fin'[d] /\ peer'[d] = "closed"
    <3>1. CASE d = c
      <4>1. peer'[d] = "open" /\ rcvd'[d] = sent[c] /\ taken'[d] = taken[c] + n
        BY <2>1, <2>2, <2>3, <3>1
      <4>2. 2 * taken'[d] <= rcvd'[d] /\ rcvd'[d] <= 2 * taken'[d] + 1
        BY <2>1, <4>1
      <4>3. taken'[d] \in Nat /\ rcvd'[d] \in Nat
        BY <2>1, <2>4, <3>1, <4>1
      <4> QED BY <4>1, <4>2, <4>3
    <3>2. CASE d # c
      BY <2>2, <2>3, <3>2 DEF Framed
    <3> QED BY <3>1, <3>2
  <2>7. ASSUME NEW t \in Pending'
        PROVE  \E k \in 1 .. taken'[t.of] : t.req = Stream(t.of, 2 * k - 1, 2 * k)
    <3>1. PICK more \in Seq(Tasks) :
             /\ queue' = queue \o more
             /\ Len(more) = n
             /\ \A k \in 1 .. n :
                    more[k] = [fd |-> f, of |-> c,
                               req |-> Stream(c, 2 * (taken[c] + k) - 1, 2 * (taken[c] + k))]
      BY <2>1
    <3>2. t \in Pending \/ \E k \in 1 .. n : t = more[k]
      <4>1. CASE t \in {job'[w] : w \in Workers} \ {NoTask}
        BY <2>2, <4>1 DEF Pending
      <4>2. ASSUME NEW i \in DOMAIN queue', t = queue'[i] PROVE t \in Pending \/ \E k \in 1 .. n : t = more[k]
        <5>1. queue \in Seq(Tasks) /\ Len(queue) \in Nat
          BY LenProperties DEF TypeOK
        <5>2. i \in 1 .. (Len(queue) + n)
          BY <3>1, <4>2, <5>1
        <5>3. queue'[i] = IF i <= Len(queue) THEN queue[i] ELSE more[i - Len(queue)]
          BY <3>1, <5>1, <5>2
        <5>4. CASE i <= Len(queue)
          <6>1. i \in DOMAIN queue
            BY <5>1, <5>2, <5>4
          <6> QED BY <4>2, <5>3, <5>4, <6>1 DEF Pending
        <5>5. CASE i > Len(queue)
          <6>1. i - Len(queue) \in 1 .. n
            BY <5>1, <5>2, <5>5
          <6>2. t = more[i - Len(queue)]
            BY <4>2, <5>1, <5>2, <5>3, <5>5
          <6> QED BY <6>1, <6>2
        <5> QED BY <5>1, <5>2, <5>4, <5>5
      <4> QED BY <4>1, <4>2 DEF Pending
    <3>3. CASE t \in Pending
      <4>1. PICK k \in 1 .. taken[t.of] : t.req = Stream(t.of, 2 * k - 1, 2 * k)
        BY <3>3 DEF Framed
      <4>2. t.of \in Conns
        BY <3>3, PendingTasks DEF Tasks
      <4>3. k \in 1 .. taken'[t.of]
        BY <2>4, <4>1, <4>2
      <4> QED BY <4>1, <4>3
    <3>4. ASSUME NEW k \in 1 .. n, t = more[k] PROVE \E j \in 1 .. taken'[t.of] : t.req = Stream(t.of, 2 * j - 1, 2 * j)
      <4>1. t.of = c /\ t.req = Stream(c, 2 * (taken[c] + k) - 1, 2 * (taken[c] + k))
        BY <3>1, <3>4
      <4>2. taken[c] + k \in 1 .. taken'[c]
        BY <2>1, <2>3, <2>4
      <4> QED BY <4>1, <4>2
    <3> QED BY <3>2, <3>3, <3>4
  <2> QED BY <2>5, <2>6, <2>7 DEF Framed
<1>6. ASSUME NEW F \in SUBSET Open, CloseAll(F), UNCHANGED <<fin, taken, queue, job>>,
             \A c \in Conns : \/ rcvd'[c] = rcvd[c]
                              \/ rcvd'[c] = sent[c] /\ fin[c] /\ \E f \in F : owner[f] = c
      PROVE  Framed'
  <2>1. Open' = Open \ F /\ \A f \in Open' : owner'[f] = owner[f]
    BY <1>6, CloseAllTracks
  <2>2. \A f \in Open' : Buffered(f)' = Buffered(f)
    BY <1>6, <2>1 DEF Buffered, CloseAll, Without
  <2>3. \A f \in Open' : rcvd'[owner[f]] = rcvd[owner[f]]
    BY <1>6, <2>1 DEF Tracked, Open, TypeOK
  <2>4. \A f \in Open' : Buffered(f)' = Stream(owner'[f], 2 * taken'[owner'[f]] + 1, rcvd'[owner'[f]])
    BY <1>6, <2>1, <2>2, <2>3 DEF Framed
  <2>5. \A c \in Conns : peer'[c] = IF \E f \in F : owner[f] = c THEN "closed" ELSE peer[c]
    BY <1>6 DEF CloseAll
  <2>6. ASSUME NEW c \in Conns
        PROVE  /\ peer'[c] \in {"new", "backlog"} => rcvd'[c] = 0 /\ taken'[c] = 0
               /\ 2 * taken'[c] <= rcvd'[c]
               /\ rcvd'[c] >= 2 * taken'[c] + 2 => fin'[c] /\ peer'[c] = "closed"
    <3>1. /\ taken[c] \in Nat /\ rcvd[c] \in Nat /\ sent[c] \in Nat /\ rcvd[c] <= sent[c]
          /\ 2 * taken[c] <= rcvd[c]
      BY DEF TypeOK, Framed
    <3>2. CASE rcvd'[c] = rcvd[c]
      BY <1>6, <2>5, <3>2 DEF Framed
    <3>3. CASE rcvd'[c] = sent[c] /\ fin[c] /\ \E f \in F : owner[f] = c
      <4>1. peer'[c] = "closed" /\ fin'[c] /\ taken'[c] = taken[c]
        BY <1>6, <2>5, <3>3
      <4> QED BY <3>1, <3>3, <4>1
    <3> QED BY <1>6, <3>2, <3>3
  <2> QED BY <1>0, <1>6, <2>4, <2>6 DEF Framed
<1>7. ASSUME NEW e \in batch, HangUpEvent(e) PROVE Framed'
  <2> DEFINE F == {e.fd} \cap DOMAIN connections
  <2>1. F \in SUBSET Open /\ CloseAll(F) /\ UNCHANGED <<fin, taken, queue, job>>
    BY <1>7 DEF HangUpEvent, Tracked, client, pool
  <2>2. \A c \in Conns : rcvd'[c] = IF owner[e.fd] = c THEN sent[c] ELSE rcvd[c]
    BY <1>7 DEF HangUpEvent
  <2>3. e.fd \in Open /\ fin[owner[e.fd]] /\ e.fd \in F
    BY <1>7, EpollAssumption DEF HangUpEvent, Tracked
  <2> HIDE DEF F
  <2> QED BY <1>6, <2>1, <2>2, <2>3
<1>8. CASE CheckIdleConnections \/ EpollFails
  <2>1. UNCHANGED <<fin, rcvd, taken, queue, job>> /\ \E F \in SUBSET Open : CloseAll(F)
    BY <1>8 DEF CheckIdleConnections, EpollFails, Tracked, client, pool
  <2> QED BY <1>6, <2>1
<1>9. ASSUME NEW w \in Workers, StartTask(w) PROVE Framed'
  <2>1. UNCHANGED <<rcvd, taken, buffers, owner, fin, peer>>
    BY <1>9 DEF StartTask, client, tables
  <2>2. Head(queue) \in {queue[n] : n \in DOMAIN queue}
        /\ {Tail(queue)[n] : n \in DOMAIN Tail(queue)} \subseteq {queue[n] : n \in DOMAIN queue}
    BY <1>9, TailElements DEF StartTask, TypeOK
  <2>3. Pending' \subseteq Pending
    BY <1>9, <2>2 DEF StartTask, Pending, TypeOK
  <2> QED BY <2>1, <2>3, FramedKept
<1>10. ASSUME NEW w \in Workers, Sends(w) PROVE Framed'
  <2>1. UNCHANGED <<rcvd, taken, buffers, owner, fin, peer, queue>>
    BY <1>10, SendCases DEF client, tables
  <2>2. UNCHANGED job \/ job' = [job EXCEPT ![w] = NoTask]
    BY <1>10, SendCases DEF Finish
  <2>3. Pending' \subseteq Pending
    BY <2>1, <2>2 DEF Pending, TypeOK
  <2> QED BY <2>1, <2>3, FramedKept
<1>11. CASE UNCHANGED vars
  BY <1>0, <1>11, FramedKept DEF vars
<1>12. ASSUME NEW c \in Conns, Reads(c) PROVE Framed'
  BY <1>0, <1>12, FramedKept DEF Reads, client, tables
<1>13. ASSUME NEW w \in Workers, Killed(w) PROVE Framed'
  <2>1. CloseAll(Open) /\ UNCHANGED <<fin, taken, rcvd>>
    BY <1>13, KilledFacts
  <2>2. Open' = {}
    BY <2>1, CloseAllTracks
  <2>3. Pending' = {}
    BY <1>13, KilledFacts DEF Pending
  <2>4. \A c \in Conns : peer'[c] = "closed" \/ peer'[c] = peer[c]
    BY <2>1 DEF CloseAll
  <2> QED BY <2>1, <2>2, <2>3, <2>4 DEF Framed
<1> QED BY <1>1, <1>2, <1>3, <1>4, <1>5, <1>7, <1>8, <1>9, <1>10, <1>11, <1>12, <1>13
        DEF Next, LoopStep, EventStep, WorkerStep, Sends

\* The stream of every connection is split exactly into the requests handed to the pool
\* and what its buffer holds, whatever the sizes in which it arrives and whichever
\* descriptors are given again.
THEOREM EpollFramingExact == Spec => []FramingExact
<1>1. TypeOK /\ Framed => FramingExact
  BY DEF FramingExact, Framed, Pending, Buffered
<1> QED BY <1>1, TrackedInit, TrackedStep, FramedInit, FramedStep, EpollTypeCorrect, PTL DEF Spec

-----------------------------------------------------------------------------
(* Events and ages.                                                        *)

LEMMA EdgeInit == Init => EdgeNotLost
BY DEF Init, EdgeNotLost, Open

LEMMA EdgeStep == TypeOK /\ Tracked /\ EdgeNotLost /\ [Next]_vars => EdgeNotLost'
<1> SUFFICES ASSUME TypeOK, Tracked, EdgeNotLost, [Next]_vars, NEW f \in Open', Readable(owner[f])'
             PROVE  f \in ready' \/ \E e \in batch' : e.fd = f
  BY DEF EdgeNotLost
<1>0. f \in Fds /\ f # Listener
  BY EpollAssumption DEF Open
<1>1. ASSUME NEW c \in Conns, Connect(c) PROVE f \in ready' \/ \E e \in batch' : e.fd = f
  BY <1>1 DEF Connect, EdgeNotLost, Open, Readable, client, tables
<1>2. ASSUME NEW c \in Conns, Send(c) \/ HangUp(c) PROVE f \in ready' \/ \E e \in batch' : e.fd = f
  <2>1. UNCHANGED <<owner, rcvd, batch>> /\ Edge(c)
    BY <1>2 DEF Send, HangUp, tables
  <2>2. CASE owner[f] = c
    BY <1>0, <2>1, <2>2 DEF Edge
  <2>3. CASE owner[f] # c
    <3>1. f \in Open /\ owner[f] \in Conns
      BY <2>1 DEF Open, TypeOK
    <3>2. sent'[owner[f]] = sent[owner[f]] /\ fin'[owner[f]] = fin[owner[f]]
      BY <1>2, <2>3, <3>1 DEF Send, HangUp, TypeOK
    <3>3. Readable(owner[f])
      BY <2>1, <3>2 DEF Readable
    <3> QED BY <2>1, <3>1, <3>3 DEF EdgeNotLost, Edge
  <2> QED BY <2>2, <2>3
<1>3. CASE Tick \/ EpollTimeout
  BY <1>3 DEF Tick, EpollTimeout, EdgeNotLost, Open, Readable, client, tables
<1>4. CASE EpollWait
  <2>1. UNCHANGED <<owner, sent, fin, rcvd>> /\ batch = {}
    BY <1>4 DEF EpollWait, client, tables, Tracked
  <2>2. f \in ready /\ Readable(owner[f])
    BY <2>1 DEF EdgeNotLost, Open, Readable
  <2>3. [fd |-> f, of |-> owner[f]] \in Hits
    BY <2>2 DEF Hits
  <2>4. PICK B \in SUBSET Hits : batch' = B /\ ready' = {h.fd : h \in Hits \ B} \ {Listener}
    BY <1>4 DEF EpollWait
  <2> QED BY <1>0, <2>3, <2>4
<1>5. ASSUME NEW e \in batch, EventStep(e) PROVE f \in ready' \/ \E g \in batch' : g.fd = f
  <2>1. batch' = batch \ {e} /\ UNCHANGED <<sent, fin>>
    BY <1>5 DEF EventStep, AcceptFails, Accept, ReadEvent, HangUpEvent, EventDone, client
  <2>2. CASE AcceptFails(e)
    <3>1. UNCHANGED <<owner, rcvd, ready>> /\ e.fd = Listener
      BY <2>2 DEF AcceptFails, tables
    <3> QED BY <1>0, <2>1, <3>1 DEF EdgeNotLost, Open, Readable
  <2>3. CASE Accept(e)
    <3>1. PICK c \in Backlog : /\ owner' = [owner EXCEPT ![LowestFree] = c]
                               /\ ready' = IF Readable(c) THEN ready \cup {LowestFree} ELSE ready
      BY <2>3 DEF Accept
    <3>2. UNCHANGED rcvd /\ e.fd = Listener
      BY <2>3 DEF Accept
    <3>3. CASE f = LowestFree
      <4>1. Readable(c)
        BY <1>0, <2>1, <3>1, <3>2, <3>3 DEF Readable, TypeOK
      <4> QED BY <3>1, <3>3, <4>1
    <3>4. CASE f # LowestFree
      <4>1. f \in Open /\ Readable(owner[f])
        BY <1>0, <2>1, <3>1, <3>2, <3>4 DEF Readable, TypeOK, Open
      <4> QED BY <1>0, <2>1, <3>1, <3>2, <4>1 DEF EdgeNotLost
    <3> QED BY <3>3, <3>4
  <2>4. CASE ReadEvent(e)
    <3>1. /\ rcvd' = [rcvd EXCEPT ![owner[e.fd]] = sent[owner[e.fd]]]
          /\ UNCHANGED <<owner, ready>> /\ e.fd \in Open /\ ~fin[owner[e.fd]]
      BY <2>4 DEF ReadEvent, Drained
    <3>2. f \in Open /\ owner[f] \in Conns /\ sent[owner[f]] \in Nat
      BY <3>1 DEF Open, TypeOK
    <3>3. f # e.fd
      BY <2>1, <3>1, <3>2 DEF Readable, TypeOK
    <3>4. Readable(owner[f])
      BY <2>1, <3>1, <3>2, <3>3 DEF Readable, Tracked, TypeOK
    <3> QED BY <2>1, <3>1, <3>2, <3>3, <3>4 DEF EdgeNotLost
  <2>5. CASE HangUpEvent(e)
    <3> DEFINE F == {e.fd} \cap DOMAIN connections
    <3>1. F \subseteq Open /\ CloseAll(F) /\ F = {e.fd}
      BY <2>5, EpollAssumption DEF HangUpEvent, Tracked
    <3>2. rcvd' = [c \in Conns |-> IF owner[e.fd] = c THEN sent[c] ELSE rcvd[c]]
      BY <2>5 DEF HangUpEvent
    <3> HIDE DEF F
    <3>3. f \in Open /\ f # e.fd /\ owner'[f] = owner[f]
      BY <3>1, CloseAllTracks
    <3>4. owner[f] \in Conns /\ owner[f] # owner[e.fd]
      BY <3>1, <3>3 DEF Tracked, Open, TypeOK
    <3>5. Readable(owner[f])
      BY <2>1, <3>2, <3>3, <3>4 DEF Readable
    <3>6. ready' = ready \ F
      BY <3>1 DEF CloseAll
    <3> QED BY <2>1, <3>1, <3>3, <3>5, <3>6 DEF EdgeNotLost
  <2> QED BY <1>5, <2>2, <2>3, <2>4, <2>5 DEF EventStep
<1>6. CASE CheckIdleConnections \/ EpollFails
  <2>1. UNCHANGED <<sent, fin, rcvd, batch>>
    BY <1>6 DEF CheckIdleConnections, EpollFails, client
  <2>2. PICK F \in SUBSET Open : CloseAll(F)
    BY <1>6 DEF CheckIdleConnections, EpollFails, Tracked
  <2>3. f \in Open \ F /\ owner'[f] = owner[f] /\ ready' = ready \ F
    BY <2>2, CloseAllTracks DEF CloseAll
  <2>4. Readable(owner[f])
    BY <2>1, <2>3 DEF Readable
  <2> QED BY <2>1, <2>3, <2>4 DEF EdgeNotLost
<1>7. ASSUME NEW w \in Workers, WorkerStep(w) PROVE f \in ready' \/ \E e \in batch' : e.fd = f
  <2>1. UNCHANGED <<owner, sent, fin, rcvd, ready, batch>>
    <3>1. CASE StartTask(w)
      BY <3>1 DEF StartTask, client, tables
    <3>2. CASE Sends(w)
      BY <3>2, SendCases DEF client, tables
    <3> QED BY <1>7, <3>1, <3>2 DEF WorkerStep, Sends
  <2> QED BY <2>1 DEF EdgeNotLost, Open, Readable
<1>8. CASE UNCHANGED vars
  BY <1>8 DEF vars, EdgeNotLost, Open, Readable
<1>9. ASSUME NEW c \in Conns, Reads(c) PROVE f \in ready' \/ \E e \in batch' : e.fd = f
  BY <1>9 DEF Reads, EdgeNotLost, Open, Readable, client, tables
<1>10. ASSUME NEW w \in Workers, Killed(w) PROVE FALSE
  <2>1. Open \subseteq Open /\ CloseAll(Open)
    BY <1>10, KilledFacts
  <2> QED BY <2>1, CloseAllTracks
<1> QED BY <1>1, <1>2, <1>3, <1>4, <1>5, <1>6, <1>7, <1>8, <1>9, <1>10 DEF Next, LoopStep

\* Edge-triggered reading strands nothing: every open connection with something to read
\* has an event that is waiting or being handled.
THEOREM EpollEdgeNotLost == Spec => []EdgeNotLost
BY TrackedInit, TrackedStep, EdgeInit, EdgeStep, EpollTypeCorrect, PTL DEF Spec

LEMMA AgesInit == Init => AgesAgree
BY DEF Init, AgesAgree, Open

LEMMA AgesStep == TypeOK /\ Tracked /\ AgesAgree /\ [Next]_vars => AgesAgree'
<1> SUFFICES ASSUME TypeOK, Tracked, AgesAgree, [Next]_vars PROVE AgesAgree'
  OBVIOUS
<1>1. ASSUME UNCHANGED <<connections, quiet, owner>> PROVE AgesAgree'
  BY <1>1 DEF AgesAgree, Open
<1>2. CASE Tick
  <2>1. UNCHANGED owner /\ connections' = [f \in DOMAIN connections |-> Older(connections[f])]
        /\ quiet' = [c \in Conns |-> IF peer[c] = "open" THEN Older(quiet[c]) ELSE quiet[c]]
    BY <1>2 DEF Tick
  <2>2. \A f \in Open : owner[f] \in Conns /\ peer[owner[f]] = "open" /\ f \in DOMAIN connections
    BY DEF Tracked, Open, TypeOK
  <2>3. Open' = Open
    BY <2>1 DEF Open
  <2> QED BY <2>1, <2>2, <2>3 DEF AgesAgree
<1>3. ASSUME NEW e \in batch, Accept(e) PROVE AgesAgree'
  <2>1. PICK f \in Fds : f = LowestFree /\ f \notin Open
    BY <1>3, LowestIsFree DEF Accept
  <2>2. PICK c \in Backlog : owner' = [owner EXCEPT ![f] = c] /\ quiet' = [quiet EXCEPT ![c] = 0]
    BY <1>3, <2>1 DEF Accept
  <2>3. connections' = Put(connections, f, 0)
    BY <1>3, <2>1 DEF Accept
  <2>4. c \in Conns /\ \A g \in Open : owner[g] # c
    BY DEF Backlog, Tracked, Open
  <2>5. owner'[f] = c /\ quiet'[c] = 0 /\ connections'[f] = 0
    BY <2>2, <2>3, <2>4 DEF TypeOK, Put
  <2>6. ASSUME NEW g \in Open', g # f PROVE connections'[g] = quiet'[owner'[g]]
    <3>1. g \in Open /\ owner'[g] = owner[g] /\ owner[g] # c /\ owner[g] \in Conns
      BY <2>2, <2>4, <2>6 DEF Open, TypeOK
    <3>2. connections'[g] = connections[g]
      BY <2>3, <2>6, <3>1 DEF Put, Tracked
    <3>3. quiet'[owner[g]] = quiet[owner[g]]
      BY <2>2, <3>1 DEF TypeOK
    <3> QED BY <3>1, <3>2, <3>3 DEF AgesAgree
  <2> QED BY <2>5, <2>6 DEF AgesAgree
<1>4. ASSUME NEW e \in batch, ReadEvent(e) PROVE AgesAgree'
  <2>1. e.fd \in Open /\ UNCHANGED owner /\ connections' = Refreshed(e.fd)
        /\ quiet' = [quiet EXCEPT ![owner[e.fd]] = 0]
    BY <1>4 DEF ReadEvent
  <2>2. connections' = [connections EXCEPT ![e.fd] = 0] /\ owner[e.fd] \in Conns
    BY <2>1 DEF Refreshed, Tracked, Open, TypeOK
  <2>3. ASSUME NEW g \in Open' PROVE connections'[g] = quiet'[owner'[g]]
    <3>1. g \in Open /\ owner'[g] = owner[g] /\ owner[g] \in Conns /\ g \in DOMAIN connections
      BY <2>1 DEF Open, TypeOK, Tracked
    <3>2. CASE g = e.fd
      BY <2>1, <2>2, <3>1, <3>2 DEF TypeOK
    <3>3. CASE g # e.fd
      <4>1. owner[g] # owner[e.fd]
        BY <2>1, <3>1, <3>3 DEF Tracked
      <4> QED BY <2>1, <2>2, <3>1, <3>3, <4>1 DEF AgesAgree, TypeOK
    <3> QED BY <3>2, <3>3
  <2> QED BY <2>3 DEF AgesAgree
<1>5. ASSUME NEW F \in SUBSET Open, CloseAll(F), UNCHANGED quiet PROVE AgesAgree'
  <2>1. Open' = Open \ F /\ \A f \in Open' : owner'[f] = owner[f]
    BY <1>5, CloseAllTracks
  <2>2. \A f \in Open' : connections'[f] = connections[f]
    BY <1>5, <2>1 DEF CloseAll, Without, Tracked
  <2> QED BY <1>5, <2>1, <2>2 DEF AgesAgree
<1>6. ASSUME NEW e \in batch, HangUpEvent(e) PROVE AgesAgree'
  <2>1. {e.fd} \cap DOMAIN connections \in SUBSET Open /\ UNCHANGED quiet
        /\ CloseAll({e.fd} \cap DOMAIN connections)
    BY <1>6 DEF HangUpEvent, Tracked
  <2> QED BY <1>5, <2>1
<1>7. CASE CheckIdleConnections \/ EpollFails
  <2>1. UNCHANGED quiet /\ \E F \in SUBSET Open : CloseAll(F)
    BY <1>7 DEF CheckIdleConnections, EpollFails, Tracked
  <2> QED BY <1>5, <2>1
<1>8. ASSUME NEW c \in Conns, Connect(c) \/ Send(c) \/ HangUp(c) PROVE AgesAgree'
  BY <1>1, <1>8 DEF Connect, Send, HangUp, tables
<1>9. CASE EpollWait \/ EpollTimeout
  BY <1>1, <1>9 DEF EpollWait, EpollTimeout, tables
<1>10. ASSUME NEW e \in batch, AcceptFails(e) PROVE AgesAgree'
  BY <1>1, <1>10 DEF AcceptFails, tables
<1>11. ASSUME NEW w \in Workers, WorkerStep(w) PROVE AgesAgree'
  <2>1. CASE StartTask(w)
    BY <1>1, <2>1 DEF StartTask, tables
  <2>2. CASE Sends(w)
    BY <1>1, <2>2, SendCases DEF tables
  <2> QED BY <1>11, <2>1, <2>2 DEF WorkerStep, Sends
<1>12. CASE UNCHANGED vars
  BY <1>1, <1>12 DEF vars
<1>13. ASSUME NEW c \in Conns, Reads(c) PROVE AgesAgree'
  BY <1>1, <1>13 DEF Reads, tables
<1>14. ASSUME NEW w \in Workers, Killed(w) PROVE AgesAgree'
  <2>1. Open \in SUBSET Open /\ CloseAll(Open) /\ UNCHANGED quiet
    BY <1>14, KilledFacts
  <2> QED BY <1>5, <2>1
<1> QED BY <1>2, <1>3, <1>4, <1>6, <1>7, <1>8, <1>9, <1>10, <1>11, <1>12, <1>13, <1>14
        DEF Next, LoopStep, EventStep

\* A step that closes a connection is its hang-up, its timeout or the end of the server.
LEMMA ClosingStep ==
    ASSUME TypeOK, Tracked, AgesAgree, [Next]_vars,
           NEW c \in Conns, peer[c] = "open", peer'[c] = "closed"
    PROVE  \/ fin[c] \/ quiet[c] > MaxIdle
           \/ loop' = "stopped"
           \/ loop' = "killed" /\ \E d \in Conns : fin[d]
<1>1. ASSUME NEW d \in Conns, Connect(d) \/ Send(d) \/ HangUp(d) PROVE FALSE
  BY <1>1 DEF Connect, Send, HangUp, TypeOK
<1>2. CASE Tick \/ EpollWait \/ EpollTimeout
  BY <1>2 DEF Tick, EpollWait, EpollTimeout
<1>3. ASSUME NEW e \in batch, AcceptFails(e) \/ Accept(e) \/ ReadEvent(e) PROVE FALSE
  BY <1>3 DEF AcceptFails, Accept, ReadEvent, Backlog, TypeOK
<1>4. ASSUME NEW e \in batch, HangUpEvent(e) PROVE fin[c]
  <2>1. e.fd \in Open /\ fin[owner[e.fd]]
    BY <1>4, EpollAssumption DEF HangUpEvent, Tracked
  <2>2. owner[e.fd] = c
    BY <1>4 DEF HangUpEvent, CloseAll
  <2> QED BY <2>1, <2>2
<1>5. CASE CheckIdleConnections
  <2>1. PICK f \in DOMAIN connections : connections[f] > MaxIdle /\ owner[f] = c
    BY <1>5 DEF CheckIdleConnections, CloseAll
  <2> QED BY <2>1 DEF AgesAgree, Tracked
<1>6. CASE EpollFails
  BY <1>6 DEF EpollFails
<1>7. ASSUME NEW w \in Workers, WorkerStep(w) PROVE FALSE
  <2>1. CASE StartTask(w)
    BY <2>1 DEF StartTask
  <2>2. CASE Sends(w)
    BY <2>2, SendCases
  <2> QED BY <1>7, <2>1, <2>2 DEF WorkerStep, Sends
<1>8. CASE UNCHANGED vars
  BY <1>8 DEF vars
<1>9. ASSUME NEW d \in Conns, Reads(d) PROVE FALSE
  BY <1>9 DEF Reads
<1>10. ASSUME NEW w \in Workers, Killed(w) PROVE loop' = "killed" /\ \E d \in Conns : fin[d]
  BY <1>10, KilledFacts
<1> QED BY <1>1, <1>2, <1>3, <1>4, <1>5, <1>6, <1>7, <1>8, <1>9, <1>10 DEF Next, LoopStep, EventStep

\* A client that goes on talking is not cut off: a connection is closed only when its
\* client hung up, was silent for more than MAX_IDLE_TIME, or the server ends, by a
\* signal only if some client has left.
THEOREM EpollClosesForAReason == Spec => ClosesForAReason
<1>1. TypeOK /\ Tracked /\ AgesAgree /\ [Next]_vars
      => [\A c \in Conns : peer[c] = "open" /\ peer'[c] = "closed" =>
             \/ fin[c] \/ quiet[c] > MaxIdle
             \/ loop' = "stopped"
             \/ loop' = "killed" /\ \E d \in Conns : fin[d]]_vars
  BY ClosingStep
<1> QED BY <1>1, TrackedInit, TrackedStep, AgesInit, AgesStep, EpollTypeCorrect, PTL
        DEF Spec, ClosesForAReason

-----------------------------------------------------------------------------
(* The order of the answers.                                               *)

\* The position on the wire of the request a task carries.
Number(t) == t.req[1][2]

\* c's own k-th request has been answered or given up.
Ended(c, k) == \E n \in DOMAIN inbox[c] : inbox[c][n].req = Token(c, 2 * k - 1)

\* Of one connection's requests, those in the queue come in order, after those that the
\* workers hold; a request of an open connection goes to the descriptor the connection
\* still has; and of those handed over none is lost.
InOrder ==
    /\ \A i, j \in DOMAIN queue :
           i < j /\ queue[i].of = queue[j].of => Number(queue[i]) < Number(queue[j])
    /\ \A w \in Workers : \A j \in DOMAIN queue :
           job[w] # NoTask /\ job[w].of = queue[j].of => Number(job[w]) < Number(queue[j])
    /\ \A t \in Pending : peer[t.of] = "open" => owner[t.fd] = t.of
    /\ \A c \in Conns : peer[c] = "open" => \A k \in 1 .. taken[c] :
           \/ Ended(c, k)
           \/ \E t \in Pending : t.req[1] = Token(c, 2 * k - 1)

\* A pending task is a request that was handed over.
LEMMA TaskFacts ==
    ASSUME TypeOK, Framed, NEW t \in Pending
    PROVE  /\ t \in Tasks /\ t # NoTask /\ t.of \in Conns /\ t.fd \in Fds
           /\ taken[t.of] \in Nat
           /\ \E k \in 1 .. taken[t.of] : t.req[1] = <<t.of, 2 * k - 1>> /\ Number(t) = 2 * k - 1
<1>1. t \in Tasks /\ t.of \in Conns /\ t.fd \in Fds
  BY PendingTasks DEF Tasks
<1>2. t # NoTask /\ taken[t.of] \in Nat
  BY <1>1, EpollAssumption DEF TypeOK
<1>3. PICK k \in 1 .. taken[t.of] : t.req = Stream(t.of, 2 * k - 1, 2 * k)
  BY DEF Framed
<1>4. t.req[1] = <<t.of, 2 * k - 1>>
  <2> DEFINE i == 2 * k - 1
             j == 2 * k
  <2>1. i \in Nat /\ j \in Nat /\ i <= j + 1 /\ j + 1 - i = 2
    BY <1>2, <1>3
  <2>2. /\ Len(Stream(t.of, i, j)) = j + 1 - i
        /\ \A n \in 1 .. Len(Stream(t.of, i, j)) : Stream(t.of, i, j)[n] = <<t.of, i + n - 1>>
    <3> HIDE DEF i, j
    <3> QED BY <1>1, <2>1, StreamType
  <2>3. 1 \in 1 .. Len(Stream(t.of, i, j)) /\ i + 1 - 1 = i
    <3> HIDE DEF i, j
    <3> QED BY <2>1, <2>2
  <2>4. Stream(t.of, i, j)[1] = <<t.of, i + 1 - 1>>
    <3> HIDE DEF i, j
    <3> QED BY <2>2, <2>3
  <2> QED BY <1>3, <2>3, <2>4
<1>5. Number(t) = 2 * k - 1
  BY <1>4 DEF Number
<1> QED BY <1>1, <1>2, <1>4, <1>5

LEMMA OrderInit == Init => InOrder
<1> SUFFICES ASSUME Init PROVE InOrder
  OBVIOUS
<1>1. DOMAIN queue = {} /\ Pending = {}
  BY DEF Init, Pending
<1> QED BY <1>1 DEF Init, InOrder

\* Steps that hand nothing over and answer nothing.
LEMMA OrderKept ==
    ASSUME TypeOK, Framed, InOrder, UNCHANGED <<queue, job, inbox, taken>>,
           \A c \in Conns : peer'[c] = "open" =>
               \/ peer[c] = "open" /\ \A f \in Fds : owner[f] = c => owner'[f] = c
               \/ taken[c] = 0
    PROVE  InOrder'
<1>1. Pending' = Pending
  BY DEF Pending
<1>2. ASSUME NEW t \in Pending', peer'[t.of] = "open" PROVE owner'[t.fd] = t.of
  <2>1. t \in Pending /\ t.of \in Conns /\ t.fd \in Fds /\ taken[t.of] # 0
    BY <1>1, TaskFacts
  <2> QED BY <1>2, <2>1 DEF InOrder
<1>3. ASSUME NEW c \in Conns, peer'[c] = "open", NEW k \in 1 .. taken'[c]
      PROVE  \/ Ended(c, k)'
             \/ \E t \in Pending' : t.req[1] = Token(c, 2 * k - 1)
  <2>1. peer[c] = "open"
    BY <1>3
  <2> QED BY <1>1, <1>3, <2>1 DEF InOrder, Ended
<1> QED BY <1>1, <1>2, <1>3 DEF InOrder

\* What is appended to the queue comes after what is there.
LEMMA ReadOrders ==
    ASSUME TypeOK, Tracked, Framed, InOrder, NEW e \in batch, ReadEvent(e)
    PROVE  InOrder'
<1> DEFINE f == e.fd
           c == owner[f]
<1>1. PICK n \in Nat :
         /\ f \in Open /\ c \in Conns /\ peer[c] = "open"
         /\ taken' = [taken EXCEPT ![c] = @ + n]
         /\ \E more \in Seq(Tasks) :
                /\ queue' = queue \o more
                /\ Len(more) = n
                /\ \A k \in 1 .. n :
                       more[k] = [fd |-> f, of |-> c,
                                  req |-> Stream(c, 2 * (taken[c] + k) - 1, 2 * (taken[c] + k))]
  BY ReadFrames
<1>2. PICK more \in Seq(Tasks) :
         /\ queue' = queue \o more
         /\ Len(more) = n
         /\ \A k \in 1 .. n :
                more[k] = [fd |-> f, of |-> c,
                           req |-> Stream(c, 2 * (taken[c] + k) - 1, 2 * (taken[c] + k))]
  BY <1>1
<1>3. UNCHANGED <<peer, owner, job, inbox>>
  BY DEF ReadEvent
<1>4. f \in Fds /\ taken[c] \in Nat /\ taken'[c] = taken[c] + n
      /\ \A d \in Conns : d # c => taken'[d] = taken[d]
  BY <1>1 DEF TypeOK, Open
<1> HIDE DEF f, c
<1> DEFINE L == Len(queue)
<1>5. L \in Nat /\ queue \in Seq(Tasks) /\ DOMAIN queue = 1 .. L /\ DOMAIN queue' = 1 .. (L + n)
  BY <1>2, ConcatProperties, LenProperties DEF TypeOK
<1>6. \A i \in 1 .. (L + n) : queue'[i] = IF i <= L THEN queue[i] ELSE more[i - L]
  BY <1>2, <1>5, ConcatProperties
<1> HIDE DEF L
<1>7. ASSUME NEW i \in 1 .. L PROVE queue'[i] = queue[i] /\ queue[i] \in Pending
  <2>1. i \in 1 .. (L + n) /\ i <= L /\ i \in DOMAIN queue
    BY <1>5
  <2> QED BY <1>6, <2>1 DEF Pending
<1>8. ASSUME NEW k \in 1 .. n PROVE queue'[L + k] = more[k] /\ L + k \in DOMAIN queue'
  <2>1. L + k \in 1 .. (L + n) /\ ~ (L + k <= L) /\ L + k - L = k
    BY <1>5
  <2> QED BY <1>5, <1>6, <2>1
<1>9. ASSUME NEW k \in 1 .. n
      PROVE  /\ more[k].of = c /\ more[k].fd = f
             /\ more[k].req[1] = Token(c, 2 * (taken[c] + k) - 1)
             /\ Number(more[k]) = 2 * (taken[c] + k) - 1
  <2> DEFINE i == 2 * (taken[c] + k) - 1
             j == 2 * (taken[c] + k)
  <2>0. taken[c] \in Nat /\ k \in Nat \ {0}
    BY <1>4
  <2>1. i \in Nat /\ j \in Nat /\ i <= j + 1 /\ j + 1 - i = 2
    BY <2>0
  <2>2. /\ Len(Stream(c, i, j)) = j + 1 - i
        /\ \A m \in 1 .. Len(Stream(c, i, j)) : Stream(c, i, j)[m] = <<c, i + m - 1>>
    <3> HIDE DEF i, j
    <3> QED BY <1>1, <2>1, StreamType
  <2>3. Stream(c, i, j)[1] = <<c, i + 1 - 1>> /\ i + 1 - 1 = i
    BY <2>1, <2>2
  <2>4. more[k] = [fd |-> f, of |-> c, req |-> Stream(c, i, j)]
    BY <1>2
  <2> HIDE DEF i, j
  <2>5. more[k].req[1] = <<c, i>>
    BY <2>3, <2>4
  <2>6. more[k].of = c /\ more[k].fd = f /\ Number(more[k]) = i
    BY <2>4, <2>5 DEF Number
  <2> QED BY <2>5, <2>6 DEF i, Token
<1>10. ASSUME NEW t \in Pending, t.of = c PROVE Number(t) \in Nat /\ Number(t) <= 2 * taken[c] - 1
  <2>1. PICK k \in 1 .. taken[c] : Number(t) = 2 * k - 1
    BY <1>10, TaskFacts
  <2> QED BY <1>4, <2>1
<1>11. ASSUME NEW t \in Pending, t.of = c, NEW k \in 1 .. n PROVE Number(t) < Number(more[k])
  <2>1. Number(t) \in Nat /\ Number(t) <= 2 * taken[c] - 1 /\ Number(more[k]) = 2 * (taken[c] + k) - 1
    BY <1>9, <1>10, <1>11
  <2> QED BY <1>4, <2>1
<1>12. ASSUME NEW j \in DOMAIN queue' PROVE j \in 1 .. L \/ \E k \in 1 .. n : j = L + k
  <2>1. j \in Nat /\ j <= L + n /\ j >= 1
    BY <1>5
  <2>2. CASE j > L
    <3>1. j - L \in 1 .. n /\ j = L + (j - L)
      BY <1>5, <2>1, <2>2
    <3> QED BY <3>1
  <2> QED BY <1>5, <2>1, <2>2
<1>13. ASSUME NEW i \in DOMAIN queue', NEW j \in DOMAIN queue', i < j, queue'[i].of = queue'[j].of
       PROVE  Number(queue'[i]) < Number(queue'[j])
  <2>1. CASE j \in 1 .. L
    <3>1. i \in 1 .. L
      BY <1>5, <1>13, <2>1
    <3>2. queue'[i] = queue[i] /\ queue'[j] = queue[j] /\ i \in DOMAIN queue /\ j \in DOMAIN queue
      BY <1>5, <1>7, <2>1, <3>1
    <3> QED BY <1>13, <3>2 DEF InOrder
  <2>2. ASSUME NEW k \in 1 .. n, j = L + k PROVE Number(queue'[i]) < Number(queue'[j])
    <3>1. queue'[j] = more[k] /\ queue'[j].of = c
      BY <1>8, <1>9, <2>2
    <3>2. CASE i \in 1 .. L
      <4>1. queue'[i] \in Pending /\ queue'[i].of = c
        BY <1>7, <1>13, <3>1, <3>2
      <4> QED BY <1>11, <3>1, <4>1
    <3>3. ASSUME NEW m \in 1 .. n, i = L + m PROVE Number(queue'[i]) < Number(queue'[j])
      <4>1. queue'[i] = more[m]
        BY <1>8, <3>3
      <4>2. Number(more[m]) = 2 * (taken[c] + m) - 1 /\ Number(more[k]) = 2 * (taken[c] + k) - 1
        BY <1>9
      <4>3. m < k
        BY <1>5, <1>13, <2>2, <3>3
      <4>4. 2 * (taken[c] + m) - 1 < 2 * (taken[c] + k) - 1
        BY <1>4, <4>3
      <4> QED BY <3>1, <4>1, <4>2, <4>4
    <3> QED BY <1>12, <3>2, <3>3
  <2> QED BY <1>12, <2>1, <2>2
<1>14. ASSUME NEW w \in Workers, NEW j \in DOMAIN queue', job[w] # NoTask, job[w].of = queue'[j].of
       PROVE  Number(job[w]) < Number(queue'[j])
  <2>0. job[w] \in Pending
    BY <1>14 DEF Pending
  <2>1. CASE j \in 1 .. L
    <3>1. queue'[j] = queue[j] /\ j \in DOMAIN queue
      BY <1>5, <1>7, <2>1
    <3> QED BY <1>14, <3>1 DEF InOrder
  <2>2. ASSUME NEW k \in 1 .. n, j = L + k PROVE Number(job[w]) < Number(queue'[j])
    <3>1. queue'[j] = more[k] /\ queue'[j].of = c
      BY <1>8, <1>9, <2>2
    <3> QED BY <1>11, <1>14, <2>0, <3>1
  <2> QED BY <1>12, <2>1, <2>2
<1>15. Pending \subseteq Pending' /\ \A k \in 1 .. n : more[k] \in Pending'
  <2>1. \A i \in DOMAIN queue : \E j \in DOMAIN queue' : queue'[j] = queue[i]
    <3>1. \A i \in 1 .. L : i \in 1 .. (L + n)
      BY <1>5
    <3> QED BY <1>5, <1>7, <3>1
  <2>2. \A k \in 1 .. n : \E j \in DOMAIN queue' : queue'[j] = more[k]
    BY <1>8
  <2> QED BY <1>3, <2>1, <2>2 DEF Pending
<1>16. \A t \in Pending' : t \in Pending \/ \E k \in 1 .. n : t = more[k]
  <2>1. \A j \in DOMAIN queue' : queue'[j] \in Pending \/ \E k \in 1 .. n : queue'[j] = more[k]
    BY <1>7, <1>8, <1>12
  <2> QED BY <1>3, <2>1 DEF Pending
<1>17. ASSUME NEW t \in Pending', peer'[t.of] = "open" PROVE owner'[t.fd] = t.of
  <2>1. CASE t \in Pending
    BY <1>3, <1>17, <2>1 DEF InOrder
  <2>2. ASSUME NEW k \in 1 .. n, t = more[k] PROVE owner'[t.fd] = t.of
    BY <1>3, <1>9, <2>2 DEF c
  <2> QED BY <1>16, <2>1, <2>2
<1>18. ASSUME NEW d \in Conns, peer'[d] = "open", NEW k \in 1 .. taken'[d]
       PROVE  \/ Ended(d, k)'
              \/ \E t \in Pending' : t.req[1] = Token(d, 2 * k - 1)
  <2>1. CASE d # c \/ k <= taken[c]
    <3>1. k \in 1 .. taken[d] /\ peer[d] = "open"
      BY <1>3, <1>4, <1>18, <2>1
    <3> QED BY <1>3, <1>15, <3>1 DEF InOrder, Ended
  <2>2. CASE d = c /\ k > taken[c]
    <3>1. k - taken[c] \in 1 .. n /\ taken[c] + (k - taken[c]) = k
      BY <1>4, <2>2
    <3>2. more[k - taken[c]].req[1] = Token(c, 2 * (taken[c] + (k - taken[c])) - 1)
      BY <1>9, <3>1
    <3> QED BY <1>15, <2>2, <3>1, <3>2
  <2>3. k \in Nat
    OBVIOUS
  <2> QED BY <1>4, <2>1, <2>2, <2>3
<1> QED BY <1>3, <1>13, <1>14, <1>17, <1>18 DEF InOrder

\* A response that ends takes its request, and no other, out of what is pending.
LEMMA FinishOrders ==
    ASSUME TypeOK, Tracked, Framed, InOrder,
           NEW w \in Workers, Sends(w), NEW whole \in BOOLEAN, Finish(w, whole)
    PROVE  InOrder'
<1> DEFINE x == [req |-> job[w].req[1], whole |-> whole]
<1>1. /\ UNCHANGED <<peer, owner, taken, queue>> /\ job[w] # NoTask /\ job' = [job EXCEPT ![w] = NoTask]
      /\ inbox' = [c \in Conns |-> IF owner[job[w].fd] = c THEN Append(inbox[c], x) ELSE inbox[c]]
  BY SendCases DEF Finish, tables
<1>2. job[w] \in Pending
  BY <1>1 DEF Pending
<1>3. x \in Responses /\ x.req = job[w].req[1]
  BY <1>1 DEF TypeOK, Tasks, Responses
<1> HIDE DEF x
<1>4. \A v \in Workers : job'[v] = IF v = w THEN NoTask ELSE job[v]
  BY <1>1 DEF TypeOK
<1>5. Pending' \subseteq Pending /\ Pending \subseteq Pending' \cup {job[w]}
  BY <1>1, <1>4 DEF Pending
<1>6. ASSUME NEW c \in Conns
      PROVE  /\ \A n \in DOMAIN inbox[c] : n \in DOMAIN inbox'[c] /\ inbox'[c][n] = inbox[c][n]
             /\ owner[job[w].fd] = c => \E n \in DOMAIN inbox'[c] : inbox'[c][n] = x
  <2>1. inbox[c] \in Seq(Responses)
    BY DEF TypeOK
  <2>2. /\ DOMAIN Append(inbox[c], x) = DOMAIN inbox[c] \cup {Len(inbox[c]) + 1}
        /\ \A i \in DOMAIN inbox[c] : Append(inbox[c], x)[i] = inbox[c][i]
        /\ Append(inbox[c], x)[Len(inbox[c]) + 1] = x
    BY <1>3, <2>1, AppendElements
  <2> QED BY <1>1, <2>2
<1>7. ASSUME NEW c \in Conns, peer'[c] = "open", NEW k \in 1 .. taken'[c]
      PROVE  \/ Ended(c, k)'
             \/ \E t \in Pending' : t.req[1] = Token(c, 2 * k - 1)
  <2>1. k \in 1 .. taken[c] /\ peer[c] = "open"
    BY <1>1, <1>7
  <2>2. CASE Ended(c, k)
    BY <1>6, <2>2 DEF Ended
  <2>3. ASSUME NEW t \in Pending, t.req[1] = Token(c, 2 * k - 1), t = job[w]
        PROVE  Ended(c, k)'
    <3>1. t.of = c
      BY <2>3, TaskFacts DEF Token
    <3>2. owner[job[w].fd] = c
      BY <2>1, <2>3, <3>1 DEF InOrder
    <3>3. PICK n \in DOMAIN inbox'[c] : inbox'[c][n] = x
      BY <1>6, <3>2
    <3> QED BY <1>3, <2>3, <3>3 DEF Ended
  <2>4. ASSUME NEW t \in Pending, t.req[1] = Token(c, 2 * k - 1), t # job[w]
        PROVE  \E u \in Pending' : u.req[1] = Token(c, 2 * k - 1)
    BY <1>5, <2>4
  <2> QED BY <2>1, <2>2, <2>3, <2>4 DEF InOrder
<1>8. \A t \in Pending' : peer'[t.of] = "open" => owner'[t.fd] = t.of
  BY <1>1, <1>5 DEF InOrder
<1>9. \A v \in Workers : \A j \in DOMAIN queue' :
         job'[v] # NoTask /\ job'[v].of = queue'[j].of => Number(job'[v]) < Number(queue'[j])
  BY <1>1, <1>4 DEF InOrder
<1>10. \A i, j \in DOMAIN queue' :
         i < j /\ queue'[i].of = queue'[j].of => Number(queue'[i]) < Number(queue'[j])
  BY <1>1 DEF InOrder
<1> QED BY <1>7, <1>8, <1>9, <1>10 DEF InOrder

LEMMA OrderStep == TypeOK /\ Tracked /\ Framed /\ InOrder /\ [Next]_vars => InOrder'
<1> SUFFICES ASSUME TypeOK, Tracked, Framed, InOrder, [Next]_vars PROVE InOrder'
  OBVIOUS
<1>1. ASSUME NEW c \in Conns, Connect(c) \/ Send(c) \/ HangUp(c) PROVE InOrder'
  <2>1. UNCHANGED <<queue, job, inbox, taken, owner>>
    BY <1>1 DEF Connect, Send, HangUp, tables, pool
  <2>2. \A d \in Conns : peer'[d] = "open" => peer[d] = "open"
    BY <1>1 DEF Connect, Send, HangUp, TypeOK
  <2> QED BY <2>1, <2>2, OrderKept
<1>2. CASE Tick \/ EpollWait \/ EpollTimeout \/ UNCHANGED vars
  <2>1. UNCHANGED <<queue, job, inbox, taken, owner, peer>>
    BY <1>2 DEF Tick, EpollWait, EpollTimeout, vars, tables, pool
  <2> QED BY <2>1, OrderKept
<1>3. ASSUME NEW e \in batch, AcceptFails(e) PROVE InOrder'
  <2>1. UNCHANGED <<queue, job, inbox, taken, owner, peer>>
    BY <1>3 DEF AcceptFails, tables, pool
  <2> QED BY <2>1, OrderKept
<1>4. ASSUME NEW e \in batch, Accept(e) PROVE InOrder'
  <2>1. PICK f \in Fds : f = LowestFree /\ f \notin Open
    BY <1>4, LowestIsFree DEF Accept
  <2>2. PICK c \in Backlog : peer' = [peer EXCEPT ![c] = "open"] /\ owner' = [owner EXCEPT ![f] = c]
    BY <1>4, <2>1 DEF Accept
  <2>3. UNCHANGED <<queue, job, inbox, taken>>
    BY <1>4 DEF Accept, pool
  <2>4. c \in Conns /\ taken[c] = 0
    BY DEF Backlog, Framed
  <2>5. ASSUME NEW d \in Conns, peer'[d] = "open", d # c
        PROVE  peer[d] = "open" /\ \A g \in Fds : owner[g] = d => owner'[g] = d
    <3>1. d # Nobody
      BY EpollAssumption
    <3> QED BY <2>1, <2>2, <2>5, <3>1 DEF TypeOK, Open
  <2> QED BY <2>3, <2>4, <2>5, OrderKept
<1>5. ASSUME NEW e \in batch, ReadEvent(e) PROVE InOrder'
  BY <1>5, ReadOrders
<1>6. ASSUME NEW F \in SUBSET Open, CloseAll(F), UNCHANGED <<queue, job, inbox, taken>> PROVE InOrder'
  <2>1. ASSUME NEW c \in Conns, peer'[c] = "open"
        PROVE  peer[c] = "open" /\ \A f \in Fds : owner[f] = c => owner'[f] = c
    BY <1>6, <2>1 DEF CloseAll
  <2> QED BY <1>6, <2>1, OrderKept
<1>7. ASSUME NEW e \in batch, HangUpEvent(e) PROVE InOrder'
  <2>1. {e.fd} \cap DOMAIN connections \in SUBSET Open /\ UNCHANGED <<queue, job, inbox, taken>>
        /\ CloseAll({e.fd} \cap DOMAIN connections)
    BY <1>7 DEF HangUpEvent, Tracked, pool
  <2> QED BY <1>6, <2>1
<1>8. CASE CheckIdleConnections \/ EpollFails
  <2>1. UNCHANGED <<queue, job, inbox, taken>> /\ \E F \in SUBSET Open : CloseAll(F)
    BY <1>8 DEF CheckIdleConnections, EpollFails, Tracked, pool
  <2> QED BY <1>6, <2>1
<1>9. ASSUME NEW w \in Workers, StartTask(w) PROVE InOrder'
  <2>1. UNCHANGED <<peer, owner, taken, inbox>> /\ job[w] = NoTask /\ queue # <<>>
        /\ job' = [job EXCEPT ![w] = Head(queue)] /\ queue' = Tail(queue)
    BY <1>9 DEF StartTask, tables
  <2>2. /\ Head(queue) \in Tasks /\ Head(queue) = queue[1] /\ 1 \in DOMAIN queue
        /\ DOMAIN queue = 1 .. Len(queue) /\ Len(queue) \in Nat
        /\ DOMAIN queue' = 1 .. (Len(queue) - 1)
        /\ \A i \in DOMAIN queue' : queue'[i] = queue[i + 1]
    BY <2>1, TailElements DEF TypeOK
  <2>3. \A i \in DOMAIN queue' : i \in Nat /\ i + 1 \in DOMAIN queue /\ 1 < i + 1
    BY <2>2
  <2>4. job'[w] = queue[1] /\ \A v \in Workers : v # w => job'[v] = job[v]
    BY <2>1, <2>2 DEF TypeOK
  <2>5. queue[1] # NoTask
    BY <2>2, EpollAssumption
  <2>6. Pending' = Pending
    <3>1. \A i \in DOMAIN queue : i = 1 \/ (i - 1 \in DOMAIN queue' /\ queue'[i - 1] = queue[i])
      BY <2>2
    <3>2. {queue[i] : i \in DOMAIN queue} = {queue'[i] : i \in DOMAIN queue'} \cup {queue[1]}
      BY <2>2, <2>3, <3>1
    <3>3. {job'[v] : v \in Workers} \ {NoTask} = ({job[v] : v \in Workers} \ {NoTask}) \cup {queue[1]}
      BY <2>1, <2>4, <2>5
    <3> QED BY <3>2, <3>3 DEF Pending
  <2>7. ASSUME NEW i \in DOMAIN queue', NEW j \in DOMAIN queue', i < j, queue'[i].of = queue'[j].of
        PROVE  Number(queue'[i]) < Number(queue'[j])
    <3>1. i + 1 < j + 1
      BY <2>3, <2>7
    <3> QED BY <2>2, <2>3, <2>7, <3>1 DEF InOrder
  <2>8. ASSUME NEW v \in Workers, NEW j \in DOMAIN queue', job'[v] # NoTask, job'[v].of = queue'[j].of
        PROVE  Number(job'[v]) < Number(queue'[j])
    <3>1. CASE v = w
      BY <2>2, <2>3, <2>4, <2>8, <3>1 DEF InOrder
    <3>2. CASE v # w
      BY <2>2, <2>3, <2>4, <2>8, <3>2 DEF InOrder
    <3> QED BY <3>1, <3>2
  <2>9. \A t \in Pending' : peer'[t.of] = "open" => owner'[t.fd] = t.of
    BY <2>1, <2>6 DEF InOrder
  <2>10. \A c \in Conns : peer'[c] = "open" => \A k \in 1 .. taken'[c] :
            \/ Ended(c, k)'
            \/ \E t \in Pending' : t.req[1] = Token(c, 2 * k - 1)
    BY <2>1, <2>6 DEF InOrder, Ended
  <2> QED BY <2>7, <2>8, <2>9, <2>10 DEF InOrder
<1>10. ASSUME NEW w \in Workers, Sends(w), UNCHANGED <<job, inbox>> PROVE InOrder'
  <2>1. UNCHANGED <<queue, job, inbox, taken, owner, peer>>
    BY <1>10, SendCases DEF tables
  <2> QED BY <2>1, OrderKept
<1>11. ASSUME NEW w \in Workers, Sends(w), NEW whole \in BOOLEAN, Finish(w, whole) PROVE InOrder'
  BY <1>11, FinishOrders
<1>12. ASSUME NEW c \in Conns, Reads(c) PROVE InOrder'
  <2>1. UNCHANGED <<queue, job, inbox, taken, owner, peer>>
    BY <1>12 DEF Reads, tables
  <2> QED BY <2>1, OrderKept
<1>13. ASSUME NEW w \in Workers, Killed(w) PROVE InOrder'
  <2>1. CloseAll(Open) /\ queue' = <<>> /\ job' = [v \in Workers |-> NoTask]
    BY <1>13, KilledFacts
  <2>2. Open' = {} /\ Pending' = {} /\ DOMAIN queue' = {}
    BY <2>1, CloseAllTracks DEF Pending
  <2>3. \A c \in Conns : peer'[c] # "open"
    <3>1. \A c \in Conns : c # Nobody
      BY EpollAssumption
    <3>2. \A c \in Conns : peer'[c] = "open" <=> \E f \in Fds : owner'[f] = c
      BY <2>1, CloseAllTracks
    <3> QED BY <2>2, <3>1, <3>2 DEF Open
  <2> QED BY <2>1, <2>2, <2>3 DEF InOrder
<1>14. ASSUME NEW w \in Workers, Sends(w) PROVE InOrder'
  BY <1>10, <1>11, <1>14, SendCases
<1> QED BY <1>1, <1>2, <1>3, <1>4, <1>5, <1>7, <1>8, <1>9, <1>12, <1>13, <1>14
        DEF Next, LoopStep, EventStep, WorkerStep, Sends

\* A response that ends now is preceded by all but what other workers hold.
LEMMA LateAreHeld ==
    ASSUME TypeOK, Tracked, Framed, InOrder,
           NEW w \in Workers, job[w] # NoTask,
           NEW c \in Conns, owner[job[w].fd] = c, job[w].req[1][1] = c,
           NEW L, L = {k \in 1 .. MaxReq[c] : /\ 2 * k - 1 < Number(job[w])
                                             /\ ~Ended(c, k)
                                             /\ Token(c, 2 * k - 1) # job[w].req[1]}
    PROVE  Cardinality(L) < Cardinality(Workers)
<1> DEFINE H(k, v) == job[v] # NoTask /\ job[v].req[1] = Token(c, 2 * k - 1)
           h == [k \in L |-> CHOOSE v \in Workers \ {w} : H(k, v)]
<1>1. job[w] \in Pending
  BY DEF Pending
<1>2. job[w].of = c /\ \E m \in 1 .. taken[c] : Number(job[w]) = 2 * m - 1
  <2>1. \E k \in 1 .. taken[job[w].of] :
            job[w].req[1] = <<job[w].of, 2 * k - 1>> /\ Number(job[w]) = 2 * k - 1
    BY <1>1, TaskFacts
  <2> QED BY <2>1
<1>3. peer[c] = "open"
  <2>1. job[w].fd \in Fds
    BY <1>1, TaskFacts
  <2> QED BY <2>1 DEF Tracked
<1>4. ASSUME NEW k \in L PROVE \E v \in Workers \ {w} : H(k, v)
  <2>1. k \in 1 .. taken[c]
    <3>1. PICK m \in 1 .. taken[c] : Number(job[w]) = 2 * m - 1
      BY <1>2
    <3>2. taken[c] \in Nat /\ k \in Nat \ {0} /\ 2 * k - 1 < 2 * m - 1
      BY <1>4, <3>1 DEF TypeOK
    <3> QED BY <3>1, <3>2
  <2>2. PICK t \in Pending : t.req[1] = Token(c, 2 * k - 1)
    BY <1>3, <1>4, <2>1 DEF InOrder
  <2>3. t.of = c /\ Number(t) = 2 * k - 1
    BY <2>2, TaskFacts DEF Token, Number
  <2>4. t \notin {queue[j] : j \in DOMAIN queue}
    <3>1. ASSUME NEW j \in DOMAIN queue, t = queue[j] PROVE FALSE
      <4>1. Number(job[w]) < Number(t)
        BY <1>2, <2>3, <3>1 DEF InOrder
      <4>2. Number(job[w]) \in Int /\ Number(t) \in Int /\ Number(t) < Number(job[w])
        BY <1>2, <1>4, <2>3
      <4> QED BY <4>1, <4>2
    <3> QED BY <3>1
  <2>5. PICK v \in Workers : t = job[v] /\ job[v] # NoTask
    BY <2>4 DEF Pending
  <2>6. v # w
    BY <1>4, <2>2, <2>5
  <2> QED BY <2>2, <2>5, <2>6
<1>5. h \in Injection(L, Workers \ {w})
  <2>1. \A k \in L : h[k] \in Workers \ {w} /\ H(k, h[k])
    BY <1>4
  <2>2. ASSUME NEW k \in L, NEW l \in L, h[k] = h[l] PROVE k = l
    <3>0. Token(c, 2 * k - 1) = Token(c, 2 * l - 1)
      BY <2>1, <2>2
    <3>1. 2 * k - 1 = 2 * l - 1
      BY <3>0 DEF Token
    <3>2. k \in Int /\ l \in Int
      OBVIOUS
    <3> QED BY <3>1, <3>2
  <2> QED BY <2>1, <2>2 DEF Injection, IsInjective
<1>6. IsFiniteSet(Workers \ {w}) /\ Cardinality(Workers \ {w}) = Cardinality(Workers) - 1
      /\ Cardinality(Workers) \in Nat
  BY EpollAssumption, FS_RemoveElement, FS_CardinalityType
<1>7. IsFiniteSet(L) /\ Cardinality(L) <= Cardinality(Workers \ {w})
  BY <1>5, <1>6, FS_Injection
<1>8. Cardinality(L) \in Nat
  BY <1>7, FS_CardinalityType
<1> QED BY <1>6, <1>7, <1>8

LEMMA NearlyInit == Init => AnswersNearlyInOrder
BY DEF Init, AnswersNearlyInOrder

LEMMA NearlyStep ==
    TypeOK /\ Tracked /\ Framed /\ InOrder /\ AnswersNearlyInOrder /\ [Next]_vars => AnswersNearlyInOrder'
<1> SUFFICES ASSUME TypeOK, Tracked, Framed, InOrder, AnswersNearlyInOrder, [Next]_vars
             PROVE  AnswersNearlyInOrder'
  OBVIOUS
<1>1. CASE UNCHANGED inbox
  BY <1>1 DEF AnswersNearlyInOrder, Late
<1>2. ASSUME NEW w \in Workers, Sends(w), NEW whole \in BOOLEAN, Finish(w, whole) PROVE AnswersNearlyInOrder'
  <2> DEFINE x == [req |-> job[w].req[1], whole |-> whole]
  <2>1. /\ job[w] # NoTask
        /\ inbox' = [c \in Conns |-> IF owner[job[w].fd] = c THEN Append(inbox[c], x) ELSE inbox[c]]
    BY <1>2, SendCases DEF Finish
  <2>2. x \in Responses /\ x.req = job[w].req[1]
    BY <2>1 DEF TypeOK, Tasks, Responses
  <2> HIDE DEF x
  <2> SUFFICES ASSUME NEW c \in Conns, NEW n \in DOMAIN inbox'[c], inbox'[c][n].req[1] = c
               PROVE  Cardinality(Late(c, inbox'[c], n)) < Cardinality(Workers)
    BY DEF AnswersNearlyInOrder
  <2>3. inbox[c] \in Seq(Responses)
    BY DEF TypeOK
  <2>4. /\ DOMAIN inbox[c] = 1 .. Len(inbox[c]) /\ Len(inbox[c]) \in Nat
        /\ DOMAIN Append(inbox[c], x) = DOMAIN inbox[c] \cup {Len(inbox[c]) + 1}
        /\ \A i \in DOMAIN inbox[c] : Append(inbox[c], x)[i] = inbox[c][i]
        /\ Append(inbox[c], x)[Len(inbox[c]) + 1] = x
    BY <2>2, <2>3, AppendElements
  <2>5. \A i \in DOMAIN inbox[c] : inbox'[c][i] = inbox[c][i]
    BY <2>1, <2>4
  <2>6. CASE n \in DOMAIN inbox[c]
    <3>1. \A i \in 1 .. n : i \in DOMAIN inbox[c]
      BY <2>4, <2>6
    <3>2. Late(c, inbox'[c], n) = Late(c, inbox[c], n)
      BY <2>5, <2>6, <3>1 DEF Late
    <3> QED BY <2>5, <2>6, <3>2 DEF AnswersNearlyInOrder
  <2>7. CASE n \notin DOMAIN inbox[c]
    <3>1. owner[job[w].fd] = c /\ n = Len(inbox[c]) + 1 /\ inbox'[c][n] = x
      BY <2>1, <2>4, <2>7
    <3>2. {inbox'[c][i].req : i \in 1 .. n} = {inbox[c][i].req : i \in DOMAIN inbox[c]} \cup {x.req}
      <4>1. 1 .. n = DOMAIN inbox[c] \cup {n}
        BY <2>4, <3>1
      <4> QED BY <2>5, <3>1, <4>1
    <3> DEFINE L == Late(c, inbox'[c], n)
    <3>3. L = {k \in 1 .. MaxReq[c] : /\ 2 * k - 1 < Number(job[w])
                                      /\ ~Ended(c, k)
                                      /\ Token(c, 2 * k - 1) # job[w].req[1]}
      BY <2>2, <3>1, <3>2 DEF Late, Number, Ended
    <3>4. job[w].req[1][1] = c
      BY <2>2, <3>1
    <3> HIDE DEF L
    <3> QED BY <2>1, <3>1, <3>3, <3>4, LateAreHeld DEF L
  <2> QED BY <2>6, <2>7
<1>3. ASSUME NEW w \in Workers, WorkerStep(w) \/ Killed(w)
      PROVE  UNCHANGED inbox \/ \E whole \in BOOLEAN : Sends(w) /\ Finish(w, whole)
  <2>1. CASE StartTask(w)
    BY <2>1 DEF StartTask
  <2>2. CASE Sends(w)
    BY <2>2, SendCases
  <2>3. CASE Killed(w)
    BY <2>3, KilledFacts
  <2> QED BY <1>3, <2>1, <2>2, <2>3 DEF WorkerStep, Sends
<1>4. (\A w \in Workers : ~WorkerStep(w) /\ ~Killed(w)) => UNCHANGED inbox
  BY DEF Next, Connect, Send, HangUp, Reads, Tick, LoopStep, EventStep, EpollWait, AcceptFails, Accept,
         ReadEvent, HangUpEvent, EpollTimeout, CheckIdleConnections, EpollFails, vars, pool
<1> QED BY <1>1, <1>2, <1>3, <1>4

\* Responses end almost in the order in which their requests came: the earlier ones
\* neither answered nor given up are fewer than the workers, also while workers wait
\* for room and others give up.
THEOREM EpollAnswersNearlyInOrder == Spec => []AnswersNearlyInOrder
BY TrackedInit, TrackedStep, FramedInit, FramedStep, OrderInit, OrderStep, NearlyInit, NearlyStep,
   EpollTypeCorrect, PTL DEF Spec
=============================================================================
