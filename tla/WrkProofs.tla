----------------------------- MODULE WrkProofs -----------------------------
(***************************************************************************)
(* Proofs, for any number of connections and descriptors, any pipeline and *)
(* length of a request, that the loop of wrk keeps its connections.        *)
(***************************************************************************)
EXTENDS Wrk, QueueLemmas

-----------------------------------------------------------------------------
(* The invariant, of a thread as one value.                                *)

Procs == {"none", "socket_connected", "socket_readable", "socket_writeable"}
Answer == {"keep", "close", "body"}

Event == [mask : SUBSET {"r", "w"}, rproc : Procs, wproc : Procs, data : Conns \cup {Nobody}]
Socket == [owner : Conns \cup {Nobody}, up : BOOLEAN, err : BOOLEAN, fin : BOOLEAN, owed : Nat,
           inbox : Seq(Answer)]

Threads ==
    [fd : [Conns -> Nat], delayed : [Conns -> BOOLEAN], written : [Conns -> Nat],
     pending : [Conns -> Int], parser : [Conns -> {"fresh", "eof", "dead"}],
     events : [Fds -> Event], timers : [Conns -> Nat], socket : [Fds -> Socket],
     troubles : Nat, lost : SUBSET Conns, disturbed : SUBSET Conns]

\* Events are registered for open descriptors, and for the connection that has the
\* descriptor, unless a stray timer has registered them.
Registered(w, fd) ==
    LET has == w.events[fd]
        owner == w.socket[fd].owner
    IN  has.mask # {} =>
            /\ has.data \in Conns /\ w.fd[has.data] = fd
            /\ owner # Nobody
            /\ owner = has.data \/ {owner, has.data} \subseteq w.disturbed

\* An open descriptor is the one its owner knows.
Held(w, fd) ==
    LET c == w.socket[fd].owner
    IN  c # Nobody => w.fd[c] = fd /\ c \notin w.lost

Quiet(sock, left) == sock.owed = 0 /\ sock.inbox = <<>> /\ left = <<>>
Ending(sock, left) == sock.fin \/ sock.err \/ "close" \in Range(sock.inbox) \cup Range(left)

\* What a connection can be at, when it has read the answers left but not yet parsed them.
Connecting(w, c, left) ==
    LET has == w.events[w.fd[c]]
    IN  /\ "w" \in has.mask /\ has.rproc = "socket_connected" /\ has.wproc = "socket_connected"
        /\ w.timers[c] = 0 /\ Quiet(w.socket[w.fd[c]], left)

Begun(w, c) == w.written[c] > 0 => w.pending[c] = Pipeline

Writing(w, c, left) ==
    LET has == w.events[w.fd[c]]
    IN  /\ "w" \in has.mask /\ has.rproc = "socket_readable" /\ has.wproc = "socket_writeable"
        /\ w.timers[c] = 0 /\ Quiet(w.socket[w.fd[c]], left) /\ Begun(w, c)

Delaying(w, c, left) ==
    LET has == w.events[w.fd[c]]
    IN  /\ "w" \notin has.mask /\ has.rproc = "socket_readable"
        /\ w.timers[c] = 1 /\ w.delayed[c] /\ Quiet(w.socket[w.fd[c]], left) /\ Begun(w, c)

Awaiting(w, c, left) ==
    LET has == w.events[w.fd[c]]
        sock == w.socket[w.fd[c]]
        known == sock.owed + Len(sock.inbox) + Len(left)
    IN  /\ "w" \notin has.mask /\ has.rproc = "socket_readable"
        /\ w.timers[c] = 0 /\ w.written[c] = 0 /\ w.pending[c] > 0
        /\ known <= w.pending[c]
        /\ Ending(sock, left) \/ known = w.pending[c]
        /\ "body" \in Range(sock.inbox) \cup Range(left) => sock.fin

Served(w, c, left) ==
    /\ w.fd[c] \in Fds
    /\ w.socket[w.fd[c]].owner = c
    /\ w.events[w.fd[c]].data = c /\ "r" \in w.events[w.fd[c]].mask
    /\ \/ Connecting(w, c, left) \/ Writing(w, c, left)
       \/ Delaying(w, c, left) \/ Awaiting(w, c, left)

Each(w, c, left) ==
    c \notin w.disturbed => IF c \in w.lost THEN w.timers[c] = 0 ELSE Served(w, c, left)

\* The thread is sound as far as the connections of D are concerned.
Sound(w, D) ==
    /\ w \in Threads
    /\ \A fd \in Fds : Registered(w, fd) /\ Held(w, fd)
    /\ \A c \in Conns : w.timers[c] > 0 => w.fd[c] \in Fds
    /\ \A c \in D : Each(w, c, <<>>)

Inv == delay \in BOOLEAN /\ Sound(Thread, Conns)

-----------------------------------------------------------------------------
(* The steps a callback is made of.                                        *)

LEMMA Numbers == Conns \subseteq Nat /\ Nobody \notin Conns /\ Fds \subseteq Nat
  BY WrkAssumption DEF WrkAssumption, Conns, Nobody

\* A connection stays sound when nothing of what is said of it changes.
LEMMA Frame ==
    ASSUME NEW w, NEW v, NEW d, NEW left, Each(w, d, left),
           w.disturbed \subseteq v.disturbed, d \in v.lost <=> d \in w.lost,
           v.fd[d] = w.fd[d], v.delayed[d] = w.delayed[d], v.written[d] = w.written[d],
           v.pending[d] = w.pending[d], v.timers[d] = w.timers[d],
           d \notin v.disturbed /\ w.fd[d] \in Fds /\ w.socket[w.fd[d]].owner = d =>
               /\ v.socket[w.fd[d]] = w.socket[w.fd[d]]
               /\ v.events[w.fd[d]] = w.events[w.fd[d]]
    PROVE  Each(v, d, left)
BY DEF Each, Served, Connecting, Writing, Delaying, Awaiting, Begun

\* The relation of a thread to what aeCreateFileEvent makes of it.
Created(w, v, fd, mask, proc, c) ==
    /\ v \in Threads
    /\ v.fd = w.fd /\ v.delayed = w.delayed /\ v.written = w.written
    /\ v.pending = w.pending /\ v.parser = w.parser /\ v.timers = w.timers
    /\ v.socket = w.socket /\ v.troubles = w.troubles /\ v.lost = w.lost
    /\ w.socket[fd].owner = Nobody => v = w
    /\ w.socket[fd].owner # Nobody =>
          /\ v.events[fd].mask = w.events[fd].mask \cup mask
          /\ v.events[fd].rproc = IF "r" \in mask THEN proc ELSE w.events[fd].rproc
          /\ v.events[fd].wproc = IF "w" \in mask THEN proc ELSE w.events[fd].wproc
          /\ v.events[fd].data = c
          /\ v.disturbed = IF w.socket[fd].owner = c THEN w.disturbed
                           ELSE w.disturbed \cup {c, w.socket[fd].owner}
    /\ \A g \in Fds \ {fd} : v.events[g] = w.events[g]

LEMMA Creates ==
    ASSUME NEW w \in Threads, NEW fd \in Fds, NEW mask \in SUBSET {"r", "w"},
           NEW proc \in Procs, NEW c \in Conns
    PROVE  Created(w, CreateFileEvent(w, fd, mask, proc, c), fd, mask, proc, c)
<1> DEFINE v == CreateFileEvent(w, fd, mask, proc, c)
<1>1. CASE w.socket[fd].owner = Nobody
  BY <1>1 DEF CreateFileEvent, Created
<1>2. CASE w.socket[fd].owner # Nobody
  <2> DEFINE has == w.events[fd]
             with == [mask |-> has.mask \cup mask,
                      rproc |-> IF "r" \in mask THEN proc ELSE has.rproc,
                      wproc |-> IF "w" \in mask THEN proc ELSE has.wproc, data |-> c]
             shared == IF w.socket[fd].owner = c THEN w.disturbed
                       ELSE w.disturbed \cup {c, w.socket[fd].owner}
  <2>1. v = [w EXCEPT !.events = [w.events EXCEPT ![fd] = with], !.disturbed = shared]
    BY <1>2 DEF CreateFileEvent, Threads
  <2>2. has \in Event /\ w.socket[fd] \in Socket
    BY DEF Threads
  <2>3. with \in Event
    BY <2>2 DEF Event
  <2>4. shared \in SUBSET Conns
    BY <1>2, <2>2 DEF Socket, Threads
  <2> HIDE DEF with, shared
  <2>5. v \in Threads
    <3> DEFINE table == [w.events EXCEPT ![fd] = with]
    <3>1. table \in [Fds -> Event]
      BY <2>3 DEF Threads
    <3>2. v = [w EXCEPT !.events = table, !.disturbed = shared]
      BY <2>1
    <3> HIDE DEF table
    <3> QED BY <2>4, <3>1, <3>2 DEF Threads
  <2>6. v.events[fd] = with /\ v.disturbed = shared
    BY <2>1 DEF Threads
  <2>7. \A g \in Fds \ {fd} : v.events[g] = w.events[g]
    BY <2>1 DEF Threads
  <2>8. /\ v.fd = w.fd /\ v.delayed = w.delayed /\ v.written = w.written
        /\ v.pending = w.pending /\ v.parser = w.parser /\ v.timers = w.timers
        /\ v.socket = w.socket /\ v.troubles = w.troubles /\ v.lost = w.lost
    BY <2>1 DEF Threads
  <2> HIDE DEF v
  <2>9. Created(w, v, fd, mask, proc, c)
    BY <1>2, <2>5, <2>6, <2>7, <2>8 DEF Created, with, shared
  <2> QED BY <2>9 DEF v
<1> QED BY <1>1, <1>2

\* Events that a connection registers for its descriptor disturb no other connection that
\* has not been disturbed.
LEMMA CreatesSound ==
    ASSUME NEW w, NEW D \in SUBSET Conns, Sound(w, D), NEW mask \in SUBSET {"r", "w"},
           NEW proc \in Procs, NEW c \in Conns, NEW fd \in Fds, w.fd[c] = fd,
           NEW v, Created(w, v, fd, mask, proc, c)
    PROVE  Sound(v, D \ {c})
<1>1. w \in Threads
  BY DEF Sound
<1>2. /\ v \in Threads
      /\ v.fd = w.fd /\ v.delayed = w.delayed /\ v.written = w.written
      /\ v.pending = w.pending /\ v.timers = w.timers
      /\ v.socket = w.socket /\ v.lost = w.lost
      /\ w.socket[fd].owner = Nobody => v = w
      /\ w.socket[fd].owner # Nobody =>
            /\ v.events[fd].data = c
            /\ v.disturbed = IF w.socket[fd].owner = c THEN w.disturbed
                             ELSE w.disturbed \cup {c, w.socket[fd].owner}
      /\ \A g \in Fds \ {fd} : v.events[g] = w.events[g]
  BY <1>1 DEF Created
<1>3. CASE w.socket[fd].owner = Nobody
  BY <1>2, <1>3 DEF Sound
<1>4. CASE w.socket[fd].owner # Nobody
  <2>1. w.disturbed \subseteq v.disturbed
    BY <1>2, <1>4
  <2>2. ASSUME NEW g \in Fds PROVE Registered(v, g) /\ Held(v, g)
    <3>1. Registered(w, g) /\ Held(w, g) /\ v.fd = w.fd /\ v.socket = w.socket /\ v.lost = w.lost
      BY <1>2 DEF Sound
    <3>2. Held(v, g)
      BY <3>1 DEF Held
    <3>3. CASE g = fd
      <4>1. /\ w.fd[c] = g /\ w.socket[g].owner # Nobody
            /\ v.events[g].data = c /\ w.disturbed \subseteq v.disturbed
            /\ w.socket[g].owner # c => {c, w.socket[g].owner} \subseteq v.disturbed
        BY <1>2, <1>4, <2>1, <3>3
      <4> QED BY <3>1, <3>2, <4>1 DEF Registered
    <3>4. CASE g # fd
      <4>1. v.events[g] = w.events[g]
        BY <1>2, <3>4
      <4> QED BY <2>1, <3>1, <3>2, <4>1 DEF Registered
    <3> QED BY <3>2, <3>3, <3>4
  <2>3. ASSUME NEW d \in D \ {c} PROVE Each(v, d, <<>>)
    <3>1. Each(w, d, <<>>)
      BY DEF Sound
    <3>2. CASE w.fd[d] = fd /\ w.socket[fd].owner = d
      <4>1. d \in v.disturbed
        BY <1>2, <1>4, <3>2
      <4> QED BY <4>1 DEF Each
    <3>3. CASE ~(w.fd[d] = fd /\ w.socket[fd].owner = d)
      <4>1. w.fd[d] \in Fds /\ w.socket[w.fd[d]].owner = d => v.events[w.fd[d]] = w.events[w.fd[d]]
        BY <1>2, <3>3
      <4> QED BY <1>2, <2>1, <3>1, <4>1, Frame
    <3> QED BY <3>2, <3>3
  <2>4. \A d \in Conns : v.timers[d] > 0 => v.fd[d] \in Fds
    BY <1>2 DEF Sound
  <2> QED BY <1>2, <2>2, <2>3, <2>4 DEF Sound
<1> QED BY <1>3, <1>4

\* The relation of a thread to what aeDeleteFileEvent makes of it.
Deleted(w, v, fd, mask) ==
    /\ v \in Threads
    /\ v.fd = w.fd /\ v.delayed = w.delayed /\ v.written = w.written
    /\ v.pending = w.pending /\ v.parser = w.parser /\ v.timers = w.timers
    /\ v.socket = w.socket /\ v.troubles = w.troubles /\ v.lost = w.lost
    /\ v.disturbed = w.disturbed
    /\ v.events[fd].mask = w.events[fd].mask \ mask
    /\ v.events[fd].rproc = w.events[fd].rproc /\ v.events[fd].wproc = w.events[fd].wproc
    /\ v.events[fd].data = w.events[fd].data
    /\ \A g \in Fds \ {fd} : v.events[g] = w.events[g]

LEMMA Deletes ==
    ASSUME NEW w \in Threads, NEW fd \in Fds, NEW mask \in SUBSET {"r", "w"}
    PROVE  Deleted(w, DeleteFileEvent(w, fd, mask), fd, mask)
<1> DEFINE v == DeleteFileEvent(w, fd, mask)
           less == [w.events[fd] EXCEPT !.mask = @ \ mask]
           table == [w.events EXCEPT ![fd] = less]
<1>1. w.events[fd] \in Event
  BY DEF Threads
<1>2. /\ less \in Event /\ less.mask = w.events[fd].mask \ mask
      /\ less.rproc = w.events[fd].rproc /\ less.wproc = w.events[fd].wproc
      /\ less.data = w.events[fd].data
  BY <1>1 DEF Event
<1>3. v = [w EXCEPT !.events = table]
  BY DEF DeleteFileEvent, Threads
<1> HIDE DEF v, less
<1>4. table \in [Fds -> Event] /\ table[fd] = less /\ \A g \in Fds \ {fd} : table[g] = w.events[g]
  BY <1>2 DEF Threads
<1> HIDE DEF table
<1>5. v \in Threads /\ v.events = table
  BY <1>3, <1>4 DEF Threads
<1>6. /\ v.fd = w.fd /\ v.delayed = w.delayed /\ v.written = w.written
      /\ v.pending = w.pending /\ v.parser = w.parser /\ v.timers = w.timers
      /\ v.socket = w.socket /\ v.troubles = w.troubles /\ v.lost = w.lost
      /\ v.disturbed = w.disturbed
  BY <1>3 DEF Threads
<1>7. Deleted(w, v, fd, mask)
  BY <1>2, <1>4, <1>5, <1>6 DEF Deleted
<1> QED BY <1>7 DEF v

\* What connect_socket does: the connection is lost, or it has a descriptor of its own.
LostBy(w, v, c) ==
    /\ v \in Threads
    /\ v.fd = w.fd /\ v.delayed = w.delayed /\ v.written = w.written
    /\ v.pending = w.pending /\ v.parser = w.parser /\ v.timers = w.timers
    /\ v.socket = w.socket /\ v.events = w.events /\ v.disturbed = w.disturbed
    /\ v.lost = w.lost \cup {c}

OpenedBy(w, v, c, fd) ==
    /\ v \in Threads
    /\ w.socket[fd].owner = Nobody
    /\ v.fd[c] = fd /\ \A d \in Conns \ {c} : v.fd[d] = w.fd[d]
    /\ v.delayed = w.delayed /\ v.written = w.written
    /\ v.pending = w.pending /\ v.parser = w.parser /\ v.timers = w.timers
    /\ v.disturbed = w.disturbed /\ v.lost = w.lost \ {c}
    /\ v.socket[fd].owner = c /\ Quiet(v.socket[fd], <<>>)
    /\ v.events[fd].mask = {"r", "w"} /\ v.events[fd].data = c
    /\ v.events[fd].rproc = "socket_connected" /\ v.events[fd].wproc = "socket_connected"
    /\ \A g \in Fds \ {fd} : v.socket[g] = w.socket[g] /\ v.events[g] = w.events[g]

LEMMA Connects ==
    ASSUME NEW w \in Threads, NEW c \in Conns, NEW failing
    PROVE  LET v == connect_socket(w, c, failing)
           IN  LostBy(w, v, c) \/ \E fd \in Fds : OpenedBy(w, v, c, fd)
<1> DEFINE v == connect_socket(w, c, failing)
           free == {fd \in Fds : w.socket[fd].owner = Nobody}
           low == CHOOSE low \in free : \A other \in free : low <= other
           opened == [w EXCEPT !.socket[low] = [Closed EXCEPT !.owner = c], !.fd[c] = low,
                               !.lost = @ \ {c}]
           refused == failing \/ free = {} \/ w.events[low].mask # {}
           away == [w EXCEPT !.lost = @ \cup {c}, !.troubles = IF failing THEN @ + 1 ELSE @]
<1>1. v = IF refused THEN away ELSE CreateFileEvent(opened, low, {"r", "w"}, "socket_connected", c)
  BY DEF connect_socket
<1>2. CASE refused
  <2> HIDE DEF refused, low
  <2>1. v = away
    BY <1>1, <1>2
  <2> DEFINE more == IF failing THEN w.troubles + 1 ELSE w.troubles
  <2>2. LostBy(w, away, c)
    <3>1. away = [w EXCEPT !.lost = w.lost \cup {c}, !.troubles = more]
      BY DEF Threads
    <3>2. more \in Nat
      BY DEF Threads
    <3> DEFINE gone == w.lost \cup {c}
    <3>3. gone \in SUBSET Conns
      BY DEF Threads
    <3> HIDE DEF more, away, gone
    <3>4. away = [w EXCEPT !.lost = gone, !.troubles = more]
      BY <3>1 DEF gone
    <3>5. away \in Threads
      BY <3>2, <3>3, <3>4 DEF Threads
    <3>6. away.lost = gone
      BY <3>4 DEF Threads
    <3> QED BY <3>4, <3>5, <3>6 DEF LostBy, Threads, gone
  <2> QED BY <2>1, <2>2
<1>3. CASE ~refused
  <2>1. free # {} /\ w.events[low].mask = {}
    BY <1>3
  <2>2. low \in Fds /\ low \in Nat /\ w.socket[low].owner = Nobody
    <3>1. free \subseteq Nat
      BY Numbers
    <3>2. \E x \in free : \A y \in free : x <= y
      BY <2>1, <3>1, Least
    <3>3. low \in free
      BY <3>2
    <3> QED BY <3>1, <3>3
  <2> DEFINE mine == [Closed EXCEPT !.owner = c]
             sockets == [w.socket EXCEPT ![low] = mine]
             fds == [w.fd EXCEPT ![c] = low]
  <2>3. opened = [w EXCEPT !.socket = sockets, !.fd = fds, !.lost = w.lost \ {c}]
    BY DEF Threads
  <2>4. v = CreateFileEvent(opened, low, {"r", "w"}, "socket_connected", c)
    BY <1>1, <1>3
  <2> HIDE DEF free, refused, away, opened, v, low
  <2>5. mine \in Socket /\ mine.owner = c /\ Quiet(mine, <<>>)
    <3>1. <<>> \in Seq(Answer)
      BY EmptySeq
    <3> QED BY <3>1 DEF Closed, Socket, Quiet
  <2> HIDE DEF mine
  <2>6. /\ sockets \in [Fds -> Socket] /\ sockets[low] = mine
        /\ \A g \in Fds \ {low} : sockets[g] = w.socket[g]
        /\ fds \in [Conns -> Nat] /\ fds[c] = low /\ \A d \in Conns \ {c} : fds[d] = w.fd[d]
    BY <2>2, <2>5 DEF Threads
  <2> HIDE DEF sockets, fds
  <2>7. opened \in Threads
    BY <2>3, <2>6 DEF Threads
  <2>8. /\ opened.socket = sockets /\ opened.fd = fds /\ opened.lost = w.lost \ {c}
        /\ opened.delayed = w.delayed /\ opened.written = w.written
        /\ opened.pending = w.pending /\ opened.parser = w.parser /\ opened.timers = w.timers
        /\ opened.events = w.events /\ opened.disturbed = w.disturbed
    BY <2>3 DEF Threads
  <2>9. {"r", "w"} \in SUBSET {"r", "w"} /\ "socket_connected" \in Procs
    BY DEF Procs
  <2>10. Created(opened, v, low, {"r", "w"}, "socket_connected", c)
    BY <2>2, <2>4, <2>7, <2>9, Creates
  <2>11. opened.socket[low].owner = c /\ c # Nobody
    BY <2>5, <2>6, <2>8, Numbers
  <2>12. /\ v.events[low].mask = w.events[low].mask \cup {"r", "w"}
         /\ v.events[low].rproc = "socket_connected" /\ v.events[low].wproc = "socket_connected"
         /\ v.events[low].data = c /\ v.disturbed = w.disturbed
    BY <2>8, <2>10, <2>11 DEF Created
  <2>13. v.events[low].mask = {"r", "w"}
    BY <2>1, <2>12
  <2>14. OpenedBy(w, v, c, low)
    BY <2>2, <2>5, <2>6, <2>8, <2>10, <2>12, <2>13 DEF OpenedBy, Created
  <2> QED BY <2>2, <2>14 DEF v
<1> QED BY <1>2, <1>3

\* Nothing is registered for the connection, and it has no descriptor of its own.
Unattached(w, c) ==
    /\ \A fd \in Fds : /\ w.socket[fd].owner # c
                       /\ w.events[fd].mask # {} => w.events[fd].data # c
    /\ w.timers[c] > 0 => c \in w.disturbed

\* The number a connection knows is open to no other, unless that one is disturbed.
Own(w, c) ==
    /\ w.fd[c] \in Fds
    /\ w.socket[w.fd[c]].owner \in {c, Nobody} \cup w.disturbed

LEMMA LostSound ==
    ASSUME NEW w, NEW D \in SUBSET Conns, Sound(w, D), NEW c \in Conns \ D, Unattached(w, c),
           NEW v, LostBy(w, v, c)
    PROVE  /\ Sound(v, D \cup {c})
           /\ Own(w, c) => Own(v, c)
           /\ \A d \in Conns \ {c} : Unattached(w, d) => Unattached(v, d)
<1>1. /\ v \in Threads
      /\ v.fd = w.fd /\ v.delayed = w.delayed /\ v.written = w.written
      /\ v.pending = w.pending /\ v.timers = w.timers
      /\ v.socket = w.socket /\ v.events = w.events /\ v.disturbed = w.disturbed
      /\ v.lost = w.lost \cup {c} /\ w \in Threads
  BY DEF LostBy, Sound
<1>2. ASSUME NEW fd \in Fds PROVE Registered(v, fd) /\ Held(v, fd)
  <2>1. Registered(w, fd) /\ Held(w, fd) /\ w.socket[fd].owner # c
    BY DEF Sound, Unattached
  <2> QED BY <1>1, <2>1 DEF Registered, Held
<1>3. \A d \in Conns : v.timers[d] > 0 => v.fd[d] \in Fds
  BY <1>1 DEF Sound
<1>4. ASSUME NEW d \in D PROVE Each(v, d, <<>>)
  <2>1. Each(w, d, <<>>) /\ d # c
    BY DEF Sound
  <2> QED BY <1>1, <2>1, Frame
<1>5. Each(v, c, <<>>)
  <2>1. v.timers[c] \in Nat /\ c \in v.lost /\ (v.timers[c] > 0 => c \in v.disturbed)
    BY <1>1 DEF Unattached, Threads
  <2> QED BY <2>1 DEF Each
<1>6. Sound(v, D \cup {c})
  BY <1>1, <1>2, <1>3, <1>4, <1>5 DEF Sound
<1>7. Own(w, c) => Own(v, c)
  BY <1>1 DEF Own
<1>8. \A d \in Conns \ {c} : Unattached(w, d) => Unattached(v, d)
  BY <1>1 DEF Unattached
<1> QED BY <1>6, <1>7, <1>8

LEMMA OpenedSound ==
    ASSUME NEW w, NEW D \in SUBSET Conns, Sound(w, D), NEW c \in Conns \ D, Unattached(w, c),
           NEW v, NEW fd \in Fds, OpenedBy(w, v, c, fd)
    PROVE  /\ Sound(v, D \cup {c})
           /\ Own(v, c)
           /\ \A d \in Conns \ {c} : Unattached(w, d) => Unattached(v, d)
<1>1. /\ v \in Threads
      /\ w.socket[fd].owner = Nobody
      /\ v.fd[c] = fd /\ \A d \in Conns \ {c} : v.fd[d] = w.fd[d]
      /\ v.delayed = w.delayed /\ v.written = w.written
      /\ v.pending = w.pending /\ v.timers = w.timers
      /\ v.disturbed = w.disturbed /\ v.lost = w.lost \ {c} /\ w \in Threads
      /\ \A g \in Fds \ {fd} : v.socket[g] = w.socket[g] /\ v.events[g] = w.events[g]
  BY DEF OpenedBy, Sound
<1>2. /\ v.socket[fd].owner = c /\ Quiet(v.socket[fd], <<>>)
      /\ v.events[fd].mask = {"r", "w"} /\ v.events[fd].data = c
      /\ v.events[fd].rproc = "socket_connected" /\ v.events[fd].wproc = "socket_connected"
  BY DEF OpenedBy
<1>3. ASSUME NEW g \in Fds PROVE Registered(v, g) /\ Held(v, g)
  <2>1. CASE g = fd
    <3>1. Registered(v, g)
      BY <1>1, <1>2, <2>1, Numbers DEF Registered
    <3>2. Held(v, g)
      BY <1>1, <1>2, <2>1 DEF Held
    <3> QED BY <3>1, <3>2
  <2>2. CASE g # fd
    <3>1. /\ Registered(w, g) /\ Held(w, g) /\ w.socket[g].owner # c
          /\ w.events[g].mask # {} => w.events[g].data # c
          /\ v.socket[g] = w.socket[g] /\ v.events[g] = w.events[g]
      BY <1>1, <2>2 DEF Sound, Unattached
    <3>2. w.socket[g].owner \in Conns \cup {Nobody}
      BY <1>1 DEF Threads, Socket
    <3>3. Registered(v, g)
      <4> SUFFICES ASSUME v.events[g].mask # {} PROVE Registered(v, g)
        BY DEF Registered
      <4>1. w.events[g].data \in Conns \ {c} /\ v.fd[w.events[g].data] = g
        BY <1>1, <3>1 DEF Registered
      <4> QED BY <1>1, <3>1, <4>1 DEF Registered
    <3>4. Held(v, g)
      BY <1>1, <3>1, <3>2 DEF Held
    <3> QED BY <3>3, <3>4
  <2> QED BY <2>1, <2>2
<1>4. ASSUME NEW d \in Conns, v.timers[d] > 0 PROVE v.fd[d] \in Fds
  BY <1>1, <1>4 DEF Sound
<1>5. ASSUME NEW d \in D PROVE Each(v, d, <<>>)
  <2>1. Each(w, d, <<>>) /\ d \in Conns \ {c} /\ d # Nobody
    BY Numbers DEF Sound
  <2>2. w.fd[d] \in Fds /\ w.socket[w.fd[d]].owner = d =>
            v.socket[w.fd[d]] = w.socket[w.fd[d]] /\ v.events[w.fd[d]] = w.events[w.fd[d]]
    BY <1>1, <2>1
  <2>3. v.fd[d] = w.fd[d] /\ (d \in v.lost <=> d \in w.lost)
    BY <1>1, <2>1
  <2> QED BY <1>1, <2>1, <2>2, <2>3, Frame
<1>6. Each(v, c, <<>>)
  <2> SUFFICES ASSUME c \notin v.disturbed PROVE Served(v, c, <<>>) /\ c \notin v.lost
    BY DEF Each
  <2>1. v.timers[c] = 0
    BY <1>1 DEF Unattached, Threads
  <2>2. Connecting(v, c, <<>>)
    BY <1>1, <1>2, <2>1 DEF Connecting
  <2> QED BY <1>1, <1>2, <2>2 DEF Served
<1>7. Sound(v, D \cup {c})
  BY <1>1, <1>3, <1>4, <1>5, <1>6 DEF Sound
<1>8. Own(v, c)
  BY <1>1, <1>2 DEF Own
<1>9. ASSUME NEW d \in Conns \ {c}, Unattached(w, d) PROVE Unattached(v, d)
  BY <1>1, <1>2, <1>9 DEF Unattached
<1> QED BY <1>7, <1>8, <1>9

\* Connecting is sound for a connection with nothing left of an earlier one.
LEMMA ConnectSound ==
    ASSUME NEW w, NEW D \in SUBSET Conns, Sound(w, D), NEW c \in Conns \ D, Unattached(w, c),
           NEW failing
    PROVE  LET v == connect_socket(w, c, failing)
           IN  /\ Sound(v, D \cup {c})
               /\ Own(w, c) => Own(v, c)
               /\ \A d \in Conns \ {c} : Unattached(w, d) => Unattached(v, d)
               /\ v.parser = w.parser
<1> DEFINE v == connect_socket(w, c, failing)
<1>1. w \in Threads
  BY DEF Sound
<1>2. LostBy(w, v, c) \/ \E fd \in Fds : OpenedBy(w, v, c, fd)
  BY <1>1, Connects
<1> HIDE DEF v
<1>3. CASE LostBy(w, v, c)
  <2>1. v.parser = w.parser
    BY <1>3 DEF LostBy
  <2> QED BY <1>3, <2>1, LostSound DEF v
<1>4. ASSUME NEW fd \in Fds, OpenedBy(w, v, c, fd)
      PROVE  /\ Sound(v, D \cup {c})
             /\ Own(v, c)
             /\ \A d \in Conns \ {c} : Unattached(w, d) => Unattached(v, d)
             /\ v.parser = w.parser
  <2>1. v.parser = w.parser
    BY <1>4 DEF OpenedBy
  <2> QED BY <1>4, <2>1, OpenedSound
<1> QED BY <1>2, <1>3, <1>4 DEF v

\* What reconnect_socket does before it connects.
Disconnected(w, c) ==
    [Forget(w, w.fd[c]) EXCEPT
        !.socket[w.fd[c]] = IF @.owner = c THEN Closed ELSE @,
        !.disturbed = IF w.timers[c] > 0 THEN @ \cup {c} ELSE @]

LEMMA Disconnects ==
    ASSUME NEW w \in Threads, NEW c \in Conns, NEW fd \in Fds, w.fd[c] = fd
    PROVE  LET x == Disconnected(w, c)
           IN  /\ x \in Threads
               /\ x.fd = w.fd /\ x.delayed = w.delayed /\ x.written = w.written
               /\ x.pending = w.pending /\ x.parser = w.parser /\ x.timers = w.timers
               /\ x.lost = w.lost
               /\ x.disturbed = IF w.timers[c] > 0 THEN w.disturbed \cup {c} ELSE w.disturbed
               /\ x.events[fd].mask = {}
               /\ x.socket[fd] = IF w.socket[fd].owner = c THEN Closed ELSE w.socket[fd]
               /\ \A g \in Fds \ {fd} : x.socket[g] = w.socket[g] /\ x.events[g] = w.events[g]
<1> DEFINE x == Disconnected(w, c)
           u == DeleteFileEvent(w, fd, {"r", "w"})
           mine == IF w.socket[fd].owner = c THEN Closed ELSE w.socket[fd]
           sockets == [w.socket EXCEPT ![fd] = mine]
           touched == IF w.timers[c] > 0 THEN w.disturbed \cup {c} ELSE w.disturbed
<1>1. {"r", "w"} \in SUBSET {"r", "w"}
  OBVIOUS
<1>2. Deleted(w, u, fd, {"r", "w"})
  BY <1>1, Deletes
<1> HIDE DEF u
<1>3. u \in Threads /\ u.socket = w.socket /\ u.disturbed = w.disturbed
  BY <1>2 DEF Deleted
<1>4. x = [u EXCEPT !.socket = sockets, !.disturbed = touched]
  BY <1>3 DEF Disconnected, Forget, u, Threads
<1>5. Closed \in Socket
  <2>1. <<>> \in Seq(Answer)
    BY EmptySeq
  <2> QED BY <2>1 DEF Closed, Socket
<1>6. sockets \in [Fds -> Socket] /\ sockets[fd] = mine /\ \A g \in Fds \ {fd} : sockets[g] = w.socket[g]
  BY <1>5 DEF Threads
<1>7. touched \in SUBSET Conns
  BY DEF Threads
<1> HIDE DEF x, sockets, touched
<1>8. x \in Threads
  BY <1>3, <1>4, <1>6, <1>7 DEF Threads
<1>9. /\ x.fd = u.fd /\ x.delayed = u.delayed /\ x.written = u.written
      /\ x.pending = u.pending /\ x.parser = u.parser /\ x.timers = u.timers
      /\ x.lost = u.lost /\ x.disturbed = touched /\ x.events = u.events /\ x.socket = sockets
  BY <1>3, <1>4 DEF Threads
<1>10. u.events[fd].mask = {}
  <2>1. w.events[fd].mask \subseteq {"r", "w"}
    BY DEF Threads, Event
  <2> QED BY <1>2, <2>1 DEF Deleted
<1> QED BY <1>2, <1>6, <1>8, <1>9, <1>10 DEF Deleted, x, touched

\* The events of the old number are forgotten before it is closed and anything reuses it.
LEMMA DisconnectSound ==
    ASSUME NEW w, NEW c \in Conns, Sound(w, Conns \ {c}), Own(w, c)
    PROVE  LET x == Disconnected(w, c)
           IN  /\ Sound(x, Conns \ {c})
               /\ Unattached(x, c)
               /\ Own(x, c)
               /\ x.parser = w.parser
<1> DEFINE x == Disconnected(w, c)
<1>1. PICK fd \in Fds : w.fd[c] = fd
  BY DEF Own
<1>2. w \in Threads
  BY DEF Sound
<1>3. /\ x \in Threads
      /\ x.fd = w.fd /\ x.delayed = w.delayed /\ x.written = w.written
      /\ x.pending = w.pending /\ x.parser = w.parser /\ x.timers = w.timers
      /\ x.lost = w.lost
      /\ x.disturbed = IF w.timers[c] > 0 THEN w.disturbed \cup {c} ELSE w.disturbed
      /\ x.events[fd].mask = {}
      /\ x.socket[fd] = IF w.socket[fd].owner = c THEN Closed ELSE w.socket[fd]
      /\ \A g \in Fds \ {fd} : x.socket[g] = w.socket[g] /\ x.events[g] = w.events[g]
  BY <1>1, <1>2, Disconnects
<1> HIDE DEF x
<1>4. w.disturbed \subseteq x.disturbed
  BY <1>3
<1>5. Closed.owner = Nobody /\ c # Nobody
  BY Numbers DEF Closed
<1>6. ASSUME NEW g \in Fds PROVE Registered(x, g) /\ Held(x, g)
  <2>1. Registered(w, g) /\ Held(w, g)
    BY DEF Sound
  <2>2. CASE g = fd
    <3>1. x.events[g].mask = {} /\ x.socket[g].owner \in {Nobody, w.socket[g].owner}
      BY <1>3, <1>5, <2>2
    <3> QED BY <1>3, <2>1, <3>1 DEF Registered, Held
  <2>3. CASE g # fd
    <3>1. x.events[g] = w.events[g] /\ x.socket[g] = w.socket[g]
      BY <1>3, <2>3
    <3>2. Held(x, g)
      BY <1>3, <2>1, <3>1 DEF Held
    <3>3. Registered(x, g)
      BY <1>3, <1>4, <2>1, <3>1 DEF Registered
    <3> QED BY <3>2, <3>3
  <2> QED BY <2>2, <2>3
<1>7. ASSUME NEW d \in Conns \ {c} PROVE Each(x, d, <<>>)
  <2>1. Each(w, d, <<>>) /\ d # Nobody
    BY Numbers DEF Sound
  <2>2. d \notin x.disturbed /\ w.fd[d] \in Fds /\ w.socket[w.fd[d]].owner = d =>
            x.socket[w.fd[d]] = w.socket[w.fd[d]] /\ x.events[w.fd[d]] = w.events[w.fd[d]]
    BY <1>1, <1>3, <1>4, <2>1 DEF Own
  <2> QED BY <1>3, <1>4, <2>1, <2>2, Frame
<1>8. Sound(x, Conns \ {c})
  BY <1>3, <1>6, <1>7 DEF Sound
<1>9. Unattached(x, c)
  <2>1. ASSUME NEW g \in Fds
        PROVE  x.socket[g].owner # c /\ (x.events[g].mask # {} => x.events[g].data # c)
    <3>1. Registered(w, g) /\ Held(w, g)
      BY DEF Sound
    <3>2. CASE g = fd
      BY <1>3, <1>5, <3>2
    <3>3. CASE g # fd
      BY <1>1, <1>3, <1>5, <3>1, <3>3 DEF Registered, Held
    <3> QED BY <3>2, <3>3
  <2> QED BY <1>3, <2>1 DEF Unattached
<1>10. Own(x, c)
  <2>1. x.socket[fd].owner \in {Nobody, w.socket[fd].owner}
    BY <1>3, <1>5
  <2> QED BY <1>1, <1>3, <1>4, <2>1 DEF Own
<1> QED BY <1>3, <1>8, <1>9, <1>10 DEF x

\* Whatever a connection was at, it is sound again when it has connected anew.
LEMMA Reconnects ==
    ASSUME NEW w, NEW c \in Conns, Sound(w, Conns \ {c}), Own(w, c), NEW failing
    PROVE  LET v == reconnect_socket(w, c, failing)
           IN  Sound(v, Conns) /\ Own(v, c) /\ v.parser = w.parser
<1> DEFINE x == Disconnected(w, c)
<1>1. Sound(x, Conns \ {c}) /\ Unattached(x, c) /\ Own(x, c) /\ x.parser = w.parser
  BY DisconnectSound
<1>2. reconnect_socket(w, c, failing) = connect_socket(x, c, failing)
  BY DEF reconnect_socket, Disconnected
<1> HIDE DEF x
<1>3. (Conns \ {c}) \in SUBSET Conns /\ c \in Conns \ (Conns \ {c}) /\ (Conns \ {c}) \cup {c} = Conns
  OBVIOUS
<1> DEFINE v == connect_socket(x, c, failing)
<1>4. Sound(v, (Conns \ {c}) \cup {c}) /\ (Own(x, c) => Own(v, c)) /\ v.parser = x.parser
  BY <1>1, <1>3, ConnectSound
<1>5. Sound(v, Conns)
  BY <1>3, <1>4
<1> QED BY <1>1, <1>2, <1>4, <1>5

-----------------------------------------------------------------------------
(* Reading.                                                                *)

\* What a connection notes about itself alone, or about its socket.
Noted(w, v, c) ==
    /\ v \in Threads
    /\ v.fd = w.fd /\ v.events = w.events /\ v.lost = w.lost
    /\ w.disturbed \subseteq v.disturbed
    /\ \A fd \in Fds : \/ v.socket[fd] = w.socket[fd]
                       \/ v.socket[fd].owner = w.socket[fd].owner /\ fd = w.fd[c]
    /\ \A d \in Conns \ {c} : /\ v.delayed[d] = w.delayed[d] /\ v.written[d] = w.written[d]
                              /\ v.pending[d] = w.pending[d] /\ v.timers[d] = w.timers[d]

LEMMA NotedFrame ==
    ASSUME NEW w, NEW c \in Conns, Sound(w, Conns \ {c}), w.fd[c] \in Fds,
           NEW v, Noted(w, v, c), Own(w, c) \/ v.socket = w.socket
    PROVE  Sound(v, Conns \ {c}) /\ (Own(w, c) => Own(v, c))
<1>1. /\ w \in Threads /\ v \in Threads
      /\ v.fd = w.fd /\ v.events = w.events
      /\ v.lost = w.lost /\ w.disturbed \subseteq v.disturbed
      /\ \A fd \in Fds : v.socket[fd].owner = w.socket[fd].owner
  BY DEF Noted, Sound
<1>2. ASSUME NEW fd \in Fds PROVE Registered(v, fd) /\ Held(v, fd)
  <2>1. Registered(w, fd) /\ Held(w, fd)
    BY DEF Sound
  <2>2. v.events[fd] = w.events[fd] /\ v.socket[fd].owner = w.socket[fd].owner
    BY <1>1
  <2> QED BY <1>1, <2>1, <2>2 DEF Registered, Held
<1>3. ASSUME NEW d \in Conns, v.timers[d] > 0 PROVE v.fd[d] \in Fds
  <2>1. CASE d = c
    BY <1>1, <2>1
  <2>2. CASE d # c
    BY <1>1, <1>3, <2>2 DEF Noted, Sound
  <2> QED BY <2>1, <2>2
<1>4. ASSUME NEW d \in Conns \ {c} PROVE Each(v, d, <<>>)
  <2>1. Each(w, d, <<>>) /\ d # Nobody
    BY Numbers DEF Sound
  <2>2. d \notin v.disturbed /\ w.fd[d] \in Fds /\ w.socket[w.fd[d]].owner = d =>
            v.socket[w.fd[d]] = w.socket[w.fd[d]]
    BY <1>1, <2>1 DEF Noted, Own
  <2>3. /\ v.delayed[d] = w.delayed[d] /\ v.written[d] = w.written[d]
        /\ v.pending[d] = w.pending[d] /\ v.timers[d] = w.timers[d]
    BY DEF Noted
  <2> QED BY <1>1, <2>1, <2>2, <2>3, Frame
<1>5. Sound(v, Conns \ {c})
  BY <1>1, <1>2, <1>3, <1>4 DEF Sound
<1>6. Own(w, c) => Own(v, c)
  BY <1>1 DEF Own
<1> QED BY <1>5, <1>6

LEMMA NotedSound ==
    ASSUME NEW w, NEW c \in Conns, Sound(w, Conns \ {c}), Own(w, c), NEW v, Noted(w, v, c)
    PROVE  Sound(v, Conns \ {c}) /\ Own(v, c)
<1>1. w.fd[c] \in Fds
  BY DEF Own
<1> QED BY <1>1, NotedFrame

\* What response_complete does before it looks at whether the connection stays.
Answered(w, c) ==
    LET left == IF w.pending[c] > 0 THEN w.pending[c] - 1 ELSE -1
        counted == [w EXCEPT !.pending[c] = left]
    IN  IF left # 0 THEN counted
        ELSE CreateFileEvent([counted EXCEPT !.delayed[c] = delay], w.fd[c], {"w"},
                             "socket_writeable", c)

\* One answer less is awaited; at the last one the connection writes again.
AnsweredBy(w, u, c) ==
    LET left == IF w.pending[c] > 0 THEN w.pending[c] - 1 ELSE -1
        fd == w.fd[c]
    IN  /\ u \in Threads
        /\ u.fd = w.fd /\ u.written = w.written /\ u.timers = w.timers /\ u.parser = w.parser
        /\ u.socket = w.socket /\ u.lost = w.lost /\ u.pending[c] = left
        /\ w.disturbed \subseteq u.disturbed
        /\ left # 0 \/ w.socket[fd].owner = Nobody => u.events = w.events
        /\ left = 0 /\ w.socket[fd].owner # Nobody =>
              /\ u.events[fd].mask = w.events[fd].mask \cup {"w"}
              /\ u.events[fd].rproc = w.events[fd].rproc
              /\ u.events[fd].wproc = "socket_writeable" /\ u.events[fd].data = c

LEMMA AnswerCounted ==
    ASSUME NEW w, NEW c \in Conns, Sound(w, Conns \ {c}), Own(w, c), delay \in BOOLEAN
    PROVE  LET u == Answered(w, c)
           IN  AnsweredBy(w, u, c) /\ Sound(u, Conns \ {c}) /\ Own(u, c)
<1> DEFINE left == IF w.pending[c] > 0 THEN w.pending[c] - 1 ELSE -1
           counted == [w EXCEPT !.pending[c] = left]
           ready == [counted EXCEPT !.delayed[c] = delay]
           fd == w.fd[c]
           made == CreateFileEvent(ready, fd, {"w"}, "socket_writeable", c)
           u == Answered(w, c)
<1>1. u = IF left # 0 THEN counted ELSE made
  BY DEF Answered
<1>2. w \in Threads /\ fd \in Fds
  BY DEF Sound, Own
<1>3. left \in Int
  BY <1>2 DEF Threads
<1> DEFINE awaited == [w.pending EXCEPT ![c] = left]
           slow == [w.delayed EXCEPT ![c] = delay]
<1>4. counted = [w EXCEPT !.pending = awaited] /\ ready = [w EXCEPT !.pending = awaited, !.delayed = slow]
  BY <1>2 DEF Threads
<1> HIDE DEF left, counted, ready, fd, made, u
<1>5. /\ awaited \in [Conns -> Int] /\ awaited[c] = left
      /\ \A d \in Conns \ {c} : awaited[d] = w.pending[d]
      /\ slow \in [Conns -> BOOLEAN] /\ \A d \in Conns \ {c} : slow[d] = w.delayed[d]
  BY <1>2, <1>3 DEF Threads
<1> HIDE DEF awaited, slow
<1>6. /\ counted \in Threads /\ counted.pending[c] = left
      /\ counted.fd = w.fd /\ counted.written = w.written /\ counted.timers = w.timers
      /\ counted.parser = w.parser /\ counted.socket = w.socket /\ counted.lost = w.lost
      /\ counted.disturbed = w.disturbed /\ counted.events = w.events
      /\ counted.delayed = w.delayed /\ counted.pending = awaited
  BY <1>2, <1>4, <1>5 DEF Threads
<1>7. /\ ready \in Threads /\ ready.pending[c] = left
      /\ ready.fd = w.fd /\ ready.written = w.written /\ ready.timers = w.timers
      /\ ready.parser = w.parser /\ ready.socket = w.socket /\ ready.lost = w.lost
      /\ ready.disturbed = w.disturbed /\ ready.events = w.events
      /\ ready.delayed = slow /\ ready.pending = awaited
  BY <1>2, <1>4, <1>5 DEF Threads
<1>8. Noted(w, counted, c) /\ Noted(w, ready, c)
  BY <1>5, <1>6, <1>7 DEF Noted
<1>9. /\ Sound(counted, Conns \ {c}) /\ Own(counted, c)
      /\ Sound(ready, Conns \ {c}) /\ Own(ready, c)
  BY <1>8, NotedSound
<1>10. CASE left # 0
  <2>1. AnsweredBy(w, counted, c)
    BY <1>6, <1>10 DEF AnsweredBy, left, fd
  <2> QED BY <1>1, <1>9, <1>10, <2>1 DEF u
<1>11. CASE left = 0
  <2>1. {"w"} \in SUBSET {"r", "w"} /\ "socket_writeable" \in Procs
    BY DEF Procs
  <2>2. Created(ready, made, fd, {"w"}, "socket_writeable", c)
    BY <1>2, <1>7, <2>1, Creates DEF made
  <2>3. Sound(made, (Conns \ {c}) \ {c})
    <3>1. ready.fd[c] = fd /\ (Conns \ {c}) \in SUBSET Conns
      BY <1>7 DEF fd
    <3> QED BY <1>2, <1>9, <2>1, <2>2, <3>1, CreatesSound
  <2>4. (Conns \ {c}) \ {c} = Conns \ {c}
    OBVIOUS
  <2>5. AnsweredBy(w, made, c)
    <3>1. w.disturbed \subseteq made.disturbed
      BY <1>7, <2>2 DEF Created
    <3>2. /\ made \in Threads /\ made.fd = w.fd /\ made.written = w.written
          /\ made.timers = w.timers /\ made.parser = w.parser /\ made.socket = w.socket
          /\ made.lost = w.lost /\ made.pending[c] = left
      BY <1>7, <2>2 DEF Created
    <3>3. w.socket[fd].owner = Nobody => made.events = w.events
      BY <1>7, <2>2 DEF Created
    <3>4. w.socket[fd].owner # Nobody =>
              /\ made.events[fd].mask = w.events[fd].mask \cup {"w"}
              /\ made.events[fd].rproc = w.events[fd].rproc
              /\ made.events[fd].wproc = "socket_writeable" /\ made.events[fd].data = c
      BY <1>7, <2>2 DEF Created
    <3> QED BY <1>11, <3>1, <3>2, <3>3, <3>4 DEF AnsweredBy, left, fd
  <2>6. Own(made, c)
    BY <1>9, <2>5 DEF AnsweredBy, Own
  <2> QED BY <1>1, <1>11, <2>3, <2>4, <2>5, <2>6 DEF u
<1> QED BY <1>10, <1>11

\* A response that keeps the connection takes the answer it has read off those it awaits.
LEMMA KeepingServed ==
    ASSUME NEW w, NEW c \in Conns, w \in Threads, Own(w, c),
           NEW left \in Seq(Answer), left # <<>>, Head(left) = "keep",
           Each(w, c, left), NEW u, AnsweredBy(w, u, c)
    PROVE  Each(u, c, Tail(left))
<1> DEFINE fd == w.fd[c]
           sock == w.socket[fd]
           rest == Tail(left)
<1>1. SUFFICES ASSUME c \notin u.disturbed PROVE Each(u, c, rest)
  BY DEF Each
<1>2. /\ c \notin w.disturbed /\ u.timers = w.timers /\ u.lost = w.lost /\ u.fd = w.fd
      /\ u.socket = w.socket /\ u.written = w.written
  BY <1>1 DEF AnsweredBy
<1>3. CASE c \in w.lost
  BY <1>2, <1>3 DEF Each
<1>4. CASE c \notin w.lost
  <2>1. Served(w, c, left)
    BY <1>2, <1>4 DEF Each
  <2>2. Awaiting(w, c, left)
    BY <2>1 DEF Served, Connecting, Writing, Delaying, Quiet
  <2>3. sock \in Socket /\ fd \in Fds /\ w.pending[c] \in Int
    BY DEF Threads, Own
  <2>4. /\ Len(left) \in Nat /\ Len(left) > 0 /\ Len(rest) = Len(left) - 1 /\ rest \in Seq(Answer)
        /\ Range(left) = {"keep"} \cup Range(rest)
    <3>1. Len(left) \in Nat /\ Len(left) > 0 /\ Len(rest) = Len(left) - 1 /\ rest \in Seq(Answer)
      BY HeadTailProperties, EmptySeq, LenProperties
    <3>2. \A i \in 1 .. Len(rest) : rest[i] = left[i + 1]
      BY HeadTailProperties
    <3>3. left[1] = "keep" /\ DOMAIN left = 1 .. Len(left) /\ DOMAIN rest = 1 .. Len(rest)
      BY <3>1, HeadTailProperties, LenProperties
    <3>4. ASSUME NEW i \in 1 .. Len(left) PROVE left[i] = "keep" \/ \E j \in 1 .. Len(rest) : rest[j] = left[i]
      <4>1. CASE i = 1
        BY <3>3, <4>1
      <4>2. CASE i # 1
        <5>1. i - 1 \in 1 .. Len(rest) /\ (i - 1) + 1 = i
          BY <3>1, <4>2
        <5> QED BY <3>2, <5>1
      <4> QED BY <4>1, <4>2
    <3>5. ASSUME NEW j \in 1 .. Len(rest) PROVE \E i \in 1 .. Len(left) : left[i] = rest[j]
      <4>1. j + 1 \in 1 .. Len(left)
        BY <3>1
      <4> QED BY <3>2, <4>1
    <3>6. \E i \in 1 .. Len(left) : left[i] = "keep"
      BY <3>1, <3>3
    <3> HIDE DEF rest
    <3>7. /\ Range(left) = {left[i] : i \in 1 .. Len(left)}
          /\ Range(rest) = {rest[j] : j \in 1 .. Len(rest)}
      BY <3>3 DEF Range
    <3>8. Range(left) = {"keep"} \cup Range(rest)
      BY <3>4, <3>5, <3>6, <3>7
    <3> QED BY <3>1, <3>8
  <2>5. sock.owed \in Nat /\ Len(sock.inbox) \in Nat /\ sock.inbox \in Seq(Answer)
    BY <2>3, LenProperties DEF Socket
  <2> DEFINE known == sock.owed + Len(sock.inbox) + Len(left)
             less == sock.owed + Len(sock.inbox) + Len(rest)
  <2>6. /\ "w" \notin w.events[fd].mask /\ w.events[fd].rproc = "socket_readable"
        /\ w.timers[c] = 0 /\ w.written[c] = 0 /\ w.pending[c] > 0
        /\ known <= w.pending[c]
        /\ Ending(sock, left) \/ known = w.pending[c]
        /\ "body" \in Range(sock.inbox) \cup Range(left) => sock.fin
    BY <2>2 DEF Awaiting
  <2>7. u.pending[c] = w.pending[c] - 1 /\ sock.owner = c /\ c # Nobody /\ c \in Conns
    BY <2>1, <2>6, Numbers DEF AnsweredBy, Served
  <2> HIDE DEF rest, sock, fd
  <2>8. less = known - 1 /\ less \in Nat /\ known \in Nat /\ Len(rest) \in Nat
    <3> DEFINE a == sock.owed
               b == Len(sock.inbox)
               m == Len(left)
               n == Len(rest)
    <3>1. a \in Nat /\ b \in Nat /\ m \in Nat /\ m > 0 /\ n = m - 1
      BY <2>4, <2>5
    <3> HIDE DEF a, b, m, n
    <3>2. a + b + n = (a + b + m) - 1 /\ a + b + n \in Nat /\ a + b + m \in Nat /\ n \in Nat
      BY <3>1
    <3> QED BY <3>2 DEF a, b, m, n
  <2> HIDE DEF known, less
  <2>9. Ending(sock, left) <=> Ending(sock, rest)
    BY <2>4 DEF Ending
  <2>10. "body" \in Range(sock.inbox) \cup Range(rest) => sock.fin
    BY <2>4, <2>6
  <2>11. less <= u.pending[c] /\ (Ending(sock, rest) \/ less = u.pending[c])
    BY <2>3, <2>6, <2>7, <2>8, <2>9
  <2>12. u.fd[c] = fd /\ u.socket[fd] = sock
    BY <1>2 DEF fd, sock
  <2>13. CASE w.pending[c] = 1
    <3>1. less = 0
      BY <2>7, <2>8, <2>11, <2>13
    <3>2. Len(rest) = 0 /\ Len(sock.inbox) = 0 /\ sock.owed = 0
      <4> DEFINE a == sock.owed
                 b == Len(sock.inbox)
                 n == Len(rest)
      <4>1. a \in Nat /\ b \in Nat /\ n \in Nat /\ a + b + n = 0
        BY <2>5, <2>8, <3>1 DEF less
      <4> HIDE DEF a, b, n
      <4>2. n = 0 /\ b = 0 /\ a = 0
        BY <4>1
      <4> QED BY <4>2 DEF a, b, n
    <3>3. rest = <<>> /\ sock.inbox = <<>>
      BY <2>4, <2>5, <3>2, EmptySeq
    <3>4. Quiet(sock, rest)
      BY <3>2, <3>3 DEF Quiet
    <3>5. /\ u.events[fd].mask = w.events[fd].mask \cup {"w"}
          /\ u.events[fd].rproc = w.events[fd].rproc
          /\ u.events[fd].wproc = "socket_writeable" /\ u.events[fd].data = c
      BY <2>7, <2>13 DEF AnsweredBy, fd, sock
    <3>6. Writing(u, c, rest)
      BY <1>2, <2>6, <2>12, <3>4, <3>5 DEF Writing, Begun
    <3>7. Served(u, c, rest)
      BY <2>1, <2>3, <2>7, <2>12, <3>5, <3>6 DEF Served, fd
    <3> QED BY <1>2, <1>4, <3>7 DEF Each
  <2>14. CASE w.pending[c] # 1
    <3>1. u.events = w.events
      BY <2>3, <2>6, <2>14 DEF AnsweredBy, fd
    <3>2. u.pending[c] > 0
      BY <2>3, <2>6, <2>7, <2>14
    <3>3. Awaiting(u, c, rest)
      BY <1>2, <2>6, <2>10, <2>11, <2>12, <3>1, <3>2 DEF Awaiting, less
    <3>4. Served(u, c, rest)
      BY <2>1, <2>3, <2>7, <2>12, <3>1, <3>3 DEF Served, fd
    <3> QED BY <1>2, <1>4, <3>4 DEF Each
  <2> QED BY <2>13, <2>14
<1> QED BY <1>3, <1>4

\* The parser's state is nothing the invariant speaks of.
LEMMA NewParser ==
    ASSUME NEW w \in Threads, NEW c \in Conns, NEW state \in {"fresh", "eof", "dead"}
    PROVE  LET v == [w EXCEPT !.parser[c] = state]
           IN  /\ v \in Threads /\ v.parser[c] = state
               /\ \A left : Each(v, c, left) <=> Each(w, c, left)
               /\ Sound(w, Conns \ {c}) /\ Own(w, c) => Sound(v, Conns \ {c}) /\ Own(v, c)
<1> DEFINE v == [w EXCEPT !.parser[c] = state]
           states == [w.parser EXCEPT ![c] = state]
<1>1. states \in [Conns -> {"fresh", "eof", "dead"}] /\ states[c] = state
  BY DEF Threads
<1>2. v = [w EXCEPT !.parser = states]
  BY DEF Threads
<1> HIDE DEF v, states
<1>3. /\ v \in Threads /\ v.parser = states
      /\ v.fd = w.fd /\ v.delayed = w.delayed /\ v.written = w.written /\ v.pending = w.pending
      /\ v.timers = w.timers /\ v.events = w.events /\ v.socket = w.socket
      /\ v.lost = w.lost /\ v.disturbed = w.disturbed
  BY <1>1, <1>2 DEF Threads
<1>4. ASSUME NEW left PROVE Each(v, c, left) <=> Each(w, c, left)
  <2>1. Each(v, c, left) => Each(w, c, left)
    BY <1>3, Frame
  <2>2. Each(w, c, left) => Each(v, c, left)
    BY <1>3, Frame
  <2> QED BY <2>1, <2>2
<1>5. Noted(w, v, c)
  BY <1>3 DEF Noted
<1>6. Sound(w, Conns \ {c}) /\ Own(w, c) => Sound(v, Conns \ {c}) /\ Own(v, c)
  BY <1>5, NotedSound
<1> QED BY <1>1, <1>3, <1>4, <1>6 DEF v

\* What is left of a sequence, one further.
LEMMA RestOfSequence ==
    ASSUME NEW S, NEW s \in Seq(S), NEW n \in Nat, n < Len(s)
    PROVE  LET left == SubSeq(s, n + 1, Len(s))
           IN  /\ left \in Seq(S) /\ left # <<>>
               /\ Head(left) = s[n + 1]
               /\ Tail(left) = SubSeq(s, n + 1 + 1, Len(s))
<1>1. Len(s) \in Nat /\ n + 1 \in 1 .. Len(s) /\ Len(s) \in n + 1 .. Len(s)
  BY LenProperties
<1>2. \A i \in n + 1 .. Len(s) : s[i] \in S
  BY <1>1, ElementOfSeq
<1> DEFINE left == SubSeq(s, n + 1, Len(s))
<1>3. left \in Seq(S) /\ Len(left) # 0
  BY <1>1, <1>2, SubSeqProperties
<1>4. left # <<>>
  BY <1>3, EmptySeq
<1>5. Head(left) = s[n + 1] /\ Tail(left) = SubSeq(s, n + 1 + 1, Len(s))
  BY <1>1, HeadTailOfSubSeq
<1> QED BY <1>3, <1>4, <1>5

\* An answer whose body the end of the connection ends is not yet over: by then that end
\* is known.
LEMMA BodyServed ==
    ASSUME NEW w, NEW c \in Conns, w \in Threads, Own(w, c),
           NEW left \in Seq(Answer), left # <<>>, Head(left) = "body", Each(w, c, left)
    PROVE  Each(w, c, Tail(left))
<1> DEFINE fd == w.fd[c]
           sock == w.socket[fd]
           rest == Tail(left)
<1> SUFFICES ASSUME c \notin w.disturbed, c \notin w.lost, Served(w, c, left)
             PROVE  Served(w, c, rest)
  BY DEF Each
<1>1. Awaiting(w, c, left)
  BY DEF Served, Connecting, Writing, Delaying, Quiet
<1>2. sock \in Socket /\ fd \in Fds /\ w.pending[c] \in Int
  BY DEF Threads, Own
<1>3. /\ Len(left) \in Nat /\ Len(left) > 0 /\ Len(rest) = Len(left) - 1 /\ rest \in Seq(Answer)
      /\ left[1] = "body" /\ \A i \in 1 .. Len(rest) : rest[i] = left[i + 1]
      /\ DOMAIN left = 1 .. Len(left) /\ DOMAIN rest = 1 .. Len(rest)
  BY HeadTailProperties, EmptySeq, LenProperties
<1>4. "body" \in Range(left)
  <2>1. 1 \in DOMAIN left
    BY <1>3
  <2> QED BY <1>3, <2>1 DEF Range
<1>5. sock.fin
  BY <1>1, <1>4 DEF Awaiting
<1>6. sock.owed + Len(sock.inbox) + Len(left) <= w.pending[c]
  BY <1>1 DEF Awaiting
<1>7. sock.owed + Len(sock.inbox) + Len(rest) <= w.pending[c]
  <2> DEFINE a == sock.owed
             b == Len(sock.inbox)
             m == Len(left)
             n == Len(rest)
             p == w.pending[c]
  <2>1. a \in Nat /\ b \in Nat /\ m \in Nat /\ m > 0 /\ n = m - 1 /\ p \in Int /\ a + b + m <= p
    BY <1>2, <1>3, <1>6, LenProperties DEF Socket
  <2> HIDE DEF a, b, m, n, p
  <2>2. a + b + n <= p
    BY <2>1
  <2> QED BY <2>2 DEF a, b, n, p
<1>8. Awaiting(w, c, rest)
  BY <1>1, <1>5, <1>7 DEF Awaiting, Ending
<1> QED BY <1>8 DEF Served

\* A response that ends the connection makes it connect anew.
LEMMA EndingSound ==
    ASSUME NEW w, NEW c \in Conns, Sound(w, Conns \ {c}), Own(w, c), delay \in BOOLEAN, NEW failing
    PROVE  LET v == response_complete([w EXCEPT !.parser[c] = "dead"], c, FALSE, failing)
           IN  Sound(v, Conns) /\ Own(v, c) /\ v.parser[c] = "dead"
<1> DEFINE dead == [w EXCEPT !.parser[c] = "dead"]
           u == Answered(dead, c)
           v == reconnect_socket(u, c, failing)
<1>1. response_complete(dead, c, FALSE, failing) = v
  BY DEF response_complete, Answered
<1>2. w \in Threads
  BY DEF Sound
<1>3. dead.parser[c] = "dead" /\ Sound(dead, Conns \ {c}) /\ Own(dead, c)
  BY <1>2, NewParser
<1> HIDE DEF dead
<1>4. AnsweredBy(dead, u, c) /\ Sound(u, Conns \ {c}) /\ Own(u, c)
  BY <1>3, AnswerCounted
<1>5. u.parser[c] = "dead"
  BY <1>3, <1>4 DEF AnsweredBy
<1> HIDE DEF u
<1>6. Sound(v, Conns) /\ Own(v, c) /\ v.parser = u.parser
  BY <1>4, Reconnects
<1> HIDE DEF v
<1> QED BY <1>1, <1>5, <1>6 DEF dead

\* The thread while it parses: the answers left have been read and not yet parsed, unless
\* the connection they came by has been given up.
Reading(acc, c, left) ==
    /\ acc \in [w : Threads, ok : BOOLEAN]
    /\ Sound(acc.w, Conns \ {c}) /\ Own(acc.w, c)
    /\ acc.ok => Each(acc.w, c, left) \/ (acc.w.parser[c] = "dead" /\ Each(acc.w, c, <<>>))

LEMMA ParsedReading ==
    ASSUME NEW acc, NEW c \in Conns, NEW left \in Seq(Answer), left # <<>>,
           Reading(acc, c, left), delay \in BOOLEAN, NEW F
    PROVE  Reading(Parsed(acc, Head(left), c, F), c, Tail(left))
<1> DEFINE w == acc.w
           piece == Head(left)
           new == Parsed(acc, piece, c, F)
<1>1. acc \in [w : Threads, ok : BOOLEAN] /\ Sound(w, Conns \ {c}) /\ Own(w, c) /\ w \in Threads
  BY DEF Reading
<1>2. piece \in Answer
  BY HeadTailProperties
<1>3. CASE w.parser[c] = "dead" \/ ~acc.ok
  <2>1. new = [acc EXCEPT !.ok = FALSE]
    BY <1>3 DEF Parsed
  <2> HIDE DEF new
  <2>2. new \in [w : Threads, ok : BOOLEAN] /\ new.w = w /\ new.ok = FALSE
    BY <1>1, <2>1
  <2>3. Reading(new, c, Tail(left))
    BY <1>1, <2>2 DEF Reading
  <2> QED BY <2>3 DEF new
<1>4. CASE w.parser[c] # "dead" /\ acc.ok
  <2>1. Each(w, c, left)
    BY <1>4 DEF Reading
  <2>2. CASE piece = "body"
    <3> DEFINE v == [w EXCEPT !.parser[c] = "eof"]
    <3>1. new = [acc EXCEPT !.w = v]
      BY <1>1, <1>4, <2>2 DEF Parsed
    <3>2. /\ v \in Threads /\ Sound(v, Conns \ {c}) /\ Own(v, c)
          /\ \A any : Each(v, c, any) <=> Each(w, c, any)
      BY <1>1, NewParser
    <3> HIDE DEF v, new, piece
    <3>3. Each(w, c, Tail(left))
      BY <1>1, <2>1, <2>2, BodyServed DEF piece
    <3>4. Each(v, c, Tail(left))
      BY <3>2, <3>3
    <3>5. new \in [w : Threads, ok : BOOLEAN] /\ new.w = v
      BY <1>1, <3>1, <3>2
    <3>6. Reading(new, c, Tail(left))
      BY <3>2, <3>4, <3>5 DEF Reading
    <3> QED BY <3>6 DEF new, piece
  <2>3. CASE piece = "keep"
    <3> DEFINE u == Answered(w, c)
               v == [u EXCEPT !.parser[c] = "fresh"]
    <3>1. new = [acc EXCEPT !.w = v]
      <4>1. new = [acc EXCEPT !.w = response_complete(w, c, TRUE, FALSE)]
        BY <1>4, <2>3 DEF Parsed
      <4>2. response_complete(w, c, TRUE, FALSE) = v
        BY DEF response_complete, Answered
      <4> QED BY <4>1, <4>2
    <3>2. AnsweredBy(w, u, c) /\ Sound(u, Conns \ {c}) /\ Own(u, c)
      BY <1>1, AnswerCounted
    <3> HIDE DEF u, new, piece
    <3>3. Each(u, c, Tail(left))
      BY <1>1, <2>1, <2>3, <3>2, KeepingServed DEF piece
    <3>4. u \in Threads
      BY <3>2 DEF Sound
    <3>5. /\ v \in Threads /\ Sound(v, Conns \ {c}) /\ Own(v, c)
          /\ \A any : Each(v, c, any) <=> Each(u, c, any)
      BY <3>2, <3>4, NewParser
    <3> HIDE DEF v
    <3>6. new \in [w : Threads, ok : BOOLEAN] /\ new.w = v
      BY <1>1, <3>1, <3>5
    <3>7. Reading(new, c, Tail(left))
      BY <3>3, <3>5, <3>6 DEF Reading
    <3> QED BY <3>7 DEF new, piece
  <2>4. CASE piece = "close"
    <3> DEFINE v == response_complete([w EXCEPT !.parser[c] = "dead"], c, FALSE, 1 \in F)
    <3>1. new = [acc EXCEPT !.w = v]
      BY <1>4, <2>4 DEF Parsed
    <3>2. Sound(v, Conns) /\ Own(v, c) /\ v.parser[c] = "dead"
      BY <1>1, EndingSound
    <3> HIDE DEF v, new, piece
    <3>3. v \in Threads /\ Each(v, c, <<>>) /\ Sound(v, Conns \ {c})
      BY <3>2 DEF Sound
    <3>4. new \in [w : Threads, ok : BOOLEAN] /\ new.w = v
      BY <1>1, <3>1, <3>3
    <3>5. Reading(new, c, Tail(left))
      BY <3>2, <3>3, <3>4 DEF Reading
    <3> QED BY <3>5 DEF new, piece
  <2> QED BY <1>2, <2>2, <2>3, <2>4 DEF Answer
<1> QED BY <1>3, <1>4

\* The parser's run over the pieces of a read.
ParsedUpTo(acc, m, w, pieces, c, F) ==
    acc = [n \in 0 .. m |-> IF n = 0 THEN [w |-> w, ok |-> TRUE]
                            ELSE Parsed(acc[n - 1], pieces[n], c, F)]

LEMMA ParsedExists ==
    ASSUME NEW w, NEW pieces, NEW c, NEW F, NEW len \in Nat
    PROVE  \E acc : ParsedUpTo(acc, len, w, pieces, c, F)
<1> DEFINE T == {m \in Nat : ~\E acc : ParsedUpTo(acc, m, w, pieces, c, F)}
<1>1. SUFFICES ASSUME T # {} PROVE FALSE
  OBVIOUS
<1>2. PICK m \in T : \A k \in T : m <= k
  <2> HIDE DEF T
  <2>1. T \subseteq Nat
    BY DEF T
  <2> QED BY <1>1, <2>1, Least
<1>3. CASE m = 0
  <2> DEFINE acc == [n \in 0 .. 0 |-> [w |-> w, ok |-> TRUE]]
  <2>1. ParsedUpTo(acc, 0, w, pieces, c, F)
    BY DEF ParsedUpTo
  <2> QED BY <1>2, <1>3, <2>1
<1>4. CASE m # 0
  <2>1. m \in Nat /\ m - 1 \in Nat /\ m - 1 \notin T
    BY <1>2, <1>4
  <2>2. PICK acc : ParsedUpTo(acc, m - 1, w, pieces, c, F)
    BY <2>1
  <2> DEFINE more == [n \in 0 .. m |-> IF n = m THEN Parsed(acc[m - 1], pieces[m], c, F)
                                       ELSE acc[n]]
             UpTo(n) == IF n = 0 THEN [w |-> w, ok |-> TRUE]
                        ELSE Parsed(more[n - 1], pieces[n], c, F)
  <2>3. ASSUME NEW n \in 0 .. m PROVE more[n] = UpTo(n)
    <3>1. CASE n = m
      <4>1. m - 1 \in 0 .. m /\ m - 1 # m
        BY <2>1
      <4>2. more[m - 1] = acc[m - 1]
        BY <4>1
      <4> QED BY <1>4, <3>1, <4>2
    <3>2. CASE n # m
      <4>1. n \in 0 .. m - 1 /\ more[n] = acc[n]
        BY <2>1, <3>2
      <4>2. acc[n] = IF n = 0 THEN [w |-> w, ok |-> TRUE] ELSE Parsed(acc[n - 1], pieces[n], c, F)
        BY <2>2, <4>1 DEF ParsedUpTo
      <4>3. n # 0 => more[n - 1] = acc[n - 1]
        <5> SUFFICES ASSUME n # 0 PROVE more[n - 1] = acc[n - 1]
          OBVIOUS
        <5>1. n - 1 \in 0 .. m /\ n - 1 # m
          BY <2>1, <3>2, <4>1
        <5> QED BY <5>1
      <4> QED BY <4>1, <4>2, <4>3
    <3> QED BY <3>1, <3>2
  <2>4. more = [n \in 0 .. m |-> more[n]]
    OBVIOUS
  <2>5. ParsedUpTo(more, m, w, pieces, c, F)
    <3> HIDE DEF more
    <3> QED BY <2>3, <2>4 DEF ParsedUpTo
  <2> QED BY <1>2, <2>5
<1> QED BY <1>3, <1>4

LEMMA ExecutedReading ==
    ASSUME NEW w, NEW c \in Conns, NEW pieces \in Seq(Answer), NEW F, delay \in BOOLEAN,
           Sound(w, Conns \ {c}), Own(w, c), Each(w, c, pieces)
    PROVE  Reading(Executed(w, pieces, c, F), c, <<>>)
<1> DEFINE len == Len(pieces)
           left == [n \in 0 .. len |-> SubSeq(pieces, n + 1, len)]
           acc == CHOOSE acc : ParsedUpTo(acc, len, w, pieces, c, F)
<1>1. len \in Nat
  BY LenProperties
<1>2. ParsedUpTo(acc, len, w, pieces, c, F)
  <2>1. \E any : ParsedUpTo(any, len, w, pieces, c, F)
    BY <1>1, ParsedExists
  <2> QED BY <2>1
<1>3. Executed(w, pieces, c, F) = acc[len]
  BY DEF Executed, ParsedUpTo
<1> HIDE DEF acc
<1>4. acc[0] = [w |-> w, ok |-> TRUE] /\ \A n \in 1 .. len : acc[n] = Parsed(acc[n - 1], pieces[n], c, F)
  <2>1. ASSUME NEW n \in 0 .. len
        PROVE  acc[n] = IF n = 0 THEN [w |-> w, ok |-> TRUE]
                        ELSE Parsed(acc[n - 1], pieces[n], c, F)
    BY <1>2 DEF ParsedUpTo
  <2>2. 0 \in 0 .. len /\ \A n \in 1 .. len : n \in 0 .. len /\ n # 0
    BY <1>1
  <2> HIDE DEF len
  <2> QED BY <2>1, <2>2
<1>5. left[0] = pieces /\ left[len] = <<>>
  <2>1. SubSeq(pieces, 1, len) = pieces
    BY SubSeqFull
  <2>2. SubSeq(pieces, len + 1, len) = <<>>
    BY <1>1, SubSeqEmpty
  <2> QED BY <1>1, <2>1, <2>2
<1>6. ASSUME NEW n \in 0 .. len - 1
      PROVE  /\ left[n] \in Seq(Answer) /\ left[n] # <<>>
             /\ Head(left[n]) = pieces[n + 1] /\ Tail(left[n]) = left[n + 1]
  <2>1. /\ n \in 0 .. len /\ n + 1 \in 0 .. len
        /\ left[n] = SubSeq(pieces, n + 1, len) /\ left[n + 1] = SubSeq(pieces, n + 1 + 1, len)
        /\ n \in Nat /\ n < Len(pieces)
    BY <1>1
  <2> HIDE DEF left
  <2> QED BY <1>1, <2>1, RestOfSequence
<1> HIDE DEF left
<1> DEFINE T == {n \in 0 .. len : ~Reading(acc[n], c, left[n])}
<1>7. T = {}
  <2> SUFFICES ASSUME T # {} PROVE FALSE
    OBVIOUS
  <2>1. PICK n \in T : \A k \in T : n <= k
    <3> HIDE DEF T
    <3>1. T \subseteq Nat
      BY <1>1 DEF T
    <3> QED BY <3>1, Least
  <2>2. CASE n = 0
    <3>1. w \in Threads
      BY DEF Sound
    <3>2. acc[0] \in [w : Threads, ok : BOOLEAN] /\ acc[0].w = w
      BY <1>4, <3>1
    <3>3. Reading(acc[0], c, left[0])
      BY <1>5, <3>2 DEF Reading
    <3> QED BY <2>1, <2>2, <3>3
  <2>3. CASE n # 0
    <3> DEFINE k == n - 1
    <3>1. k \in 0 .. len - 1 /\ n = k + 1 /\ n \in 1 .. len /\ k \in 0 .. len /\ k \notin T
      BY <1>1, <2>1, <2>3
    <3>2. Reading(acc[k], c, left[k])
      BY <3>1
    <3> HIDE DEF T
    <3>3. acc[n] = Parsed(acc[k], pieces[n], c, F)
      BY <1>4, <3>1
    <3> HIDE DEF k
    <3>4. /\ left[k] \in Seq(Answer) /\ left[k] # <<>>
          /\ Head(left[k]) = pieces[n] /\ Tail(left[k]) = left[n]
      BY <1>6, <3>1
    <3>5. Reading(Parsed(acc[k], Head(left[k]), c, F), c, Tail(left[k]))
      BY <3>2, <3>4, ParsedReading
    <3>6. Reading(acc[n], c, left[n])
      BY <3>3, <3>4, <3>5
    <3> QED BY <2>1, <3>6 DEF T
  <2> QED BY <2>2, <2>3
<1>8. Reading(acc[len], c, left[len])
  BY <1>1, <1>7
<1> QED BY <1>3, <1>5, <1>8

-----------------------------------------------------------------------------
(* The callbacks.                                                          *)

\* The loop calls what is registered, for the connection it is registered for.
Called(w, c, fd, proc) ==
    /\ w.events[fd].data = c
    /\ \/ "r" \in w.events[fd].mask /\ proc = w.events[fd].rproc
       \/ "w" \in w.events[fd].mask /\ proc = w.events[fd].wproc

LEMMA CalledOwn ==
    ASSUME NEW w, Sound(w, Conns), NEW fd \in Fds, NEW c, NEW proc, Called(w, c, fd, proc)
    PROVE  /\ c \in Conns /\ w.fd[c] = fd /\ Own(w, c)
           /\ c \in w.disturbed \/ w.socket[fd].owner = c
<1>1. w.events[fd].mask # {} /\ w.events[fd].data = c
  BY DEF Called
<1>2. Registered(w, fd)
  BY DEF Sound
<1>3. /\ c \in Conns /\ w.fd[c] = fd
      /\ w.socket[fd].owner = c \/ {w.socket[fd].owner, c} \subseteq w.disturbed
  BY <1>1, <1>2 DEF Registered
<1> QED BY <1>3 DEF Own

LEMMA CalledServed ==
    ASSUME NEW w, Sound(w, Conns), NEW fd \in Fds, NEW c \in Conns,
           c \in w.disturbed \/ w.socket[fd].owner = c
    PROVE  c \in w.disturbed \/ (c \notin w.lost /\ Served(w, c, <<>>))
<1>1. Held(w, fd) /\ Each(w, c, <<>>) /\ c # Nobody
  BY Numbers DEF Sound
<1> QED BY <1>1 DEF Held, Each

LEMMA Whole ==
    ASSUME NEW w, NEW c \in Conns, Sound(w, Conns \ {c}), Each(w, c, <<>>)
    PROVE  Sound(w, Conns)
  BY DEF Sound

\* A sequence and what two parts of it hold.
LEMMA TwoParts ==
    ASSUME NEW S, NEW all \in Seq(S), NEW some \in 0 .. Len(all)
    PROVE  LET first == SubSeq(all, 1, some)
               last == SubSeq(all, some + 1, Len(all))
           IN  /\ first \in Seq(S) /\ last \in Seq(S)
               /\ Len(first) = some /\ Len(last) = Len(all) - some
               /\ Range(all) = Range(first) \cup Range(last)
<1> DEFINE len == Len(all)
           rest == len - some
           first == SubSeq(all, 1, some)
           last == SubSeq(all, some + 1, len)
<1>1. len \in Nat /\ \A i \in 1 .. len : all[i] \in S
  BY LenProperties, ElementOfSeq
<1>2. DOMAIN all = 1 .. len
  BY LenProperties
<1> HIDE DEF len
<1>3. some \in Nat /\ some <= len /\ rest \in Nat
  BY <1>1 DEF len
<1>4. /\ \A i \in 1 .. some : i \in 1 .. len
      /\ \A i \in some + 1 .. len : i \in 1 .. len
      /\ \A i \in 1 .. rest : some + i \in 1 .. len
      /\ \A i \in 1 .. len : i \in 1 .. some \/ (i - some \in 1 .. rest /\ some + (i - some) = i)
  BY <1>1, <1>3
<1>5. /\ first \in Seq(S) /\ Len(first) = some
      /\ \A i \in 1 .. some : first[i] = all[i]
  <2>1. \A i \in 1 .. some : all[i] \in S
    BY <1>1, <1>4
  <2>2. /\ first \in Seq(S) /\ Len(first) = IF 1 <= some THEN some - 1 + 1 ELSE 0
        /\ \A i \in 1 .. some - 1 + 1 : first[i] = all[1 + i - 1]
    BY <1>3, <2>1, SubSeqProperties
  <2> HIDE DEF first
  <2> QED BY <1>3, <2>2
<1>6. /\ last \in Seq(S) /\ Len(last) = rest
      /\ \A i \in 1 .. rest : last[i] = all[some + i]
  <2>1. \A i \in some + 1 .. len : all[i] \in S
    BY <1>1, <1>4
  <2>2. /\ last \in Seq(S)
        /\ Len(last) = IF some + 1 <= len THEN len - (some + 1) + 1 ELSE 0
        /\ \A i \in 1 .. len - (some + 1) + 1 : last[i] = all[some + 1 + i - 1]
    BY <1>1, <1>3, <2>1, SubSeqProperties
  <2> HIDE DEF last
  <2> QED BY <1>1, <1>3, <2>2
<1> HIDE DEF rest, first, last
<1>7. DOMAIN first = 1 .. some /\ DOMAIN last = 1 .. rest
  BY <1>5, <1>6, LenProperties
<1>8. ASSUME NEW x \in Range(all) PROVE x \in Range(first) \cup Range(last)
  <2>1. PICK i \in 1 .. len : all[i] = x
    BY <1>2 DEF Range
  <2>2. CASE i \in 1 .. some
    BY <1>5, <1>7, <2>1, <2>2 DEF Range
  <2>3. CASE i \notin 1 .. some
    <3> DEFINE j == i - some
    <3>1. j \in 1 .. rest /\ some + j = i
      BY <1>4, <2>3
    <3> HIDE DEF j
    <3>2. last[j] = x
      BY <1>6, <2>1, <3>1
    <3> QED BY <1>7, <3>1, <3>2 DEF Range
  <2> QED BY <2>2, <2>3
<1>9. ASSUME NEW x \in Range(first) PROVE x \in Range(all)
  <2>1. PICK i \in 1 .. some : first[i] = x
    BY <1>7 DEF Range
  <2> QED BY <1>2, <1>4, <1>5, <2>1 DEF Range
<1>10. ASSUME NEW x \in Range(last) PROVE x \in Range(all)
  <2>1. PICK i \in 1 .. rest : last[i] = x
    BY <1>7 DEF Range
  <2>2. some + i \in 1 .. len /\ all[some + i] = x
    BY <1>4, <1>6, <2>1
  <2> QED BY <1>2, <2>2 DEF Range
<1>11. Range(all) = Range(first) \cup Range(last)
  BY <1>8, <1>9, <1>10
<1>12. Len(last) = Len(all) - some
  BY <1>6 DEF rest, len
<1> QED BY <1>5, <1>6, <1>11, <1>12 DEF first, last, len

\* A number from 0 to a natural number is a natural number.
LEMMA UpToIsNat ==
    ASSUME NEW n \in Nat, NEW i \in 0 .. n
    PROVE  i \in Nat /\ i <= n
  OBVIOUS

\* Between the answers still to be read and those the parser is given, nothing changes.
LEMMA TakenServed ==
    ASSUME NEW w \in Threads, NEW c \in Conns, w.fd[c] \in Fds, Each(w, c, <<>>),
           NEW some \in 0 .. Len(w.socket[w.fd[c]].inbox), w.socket[w.fd[c]].inbox # <<>>,
           NEW v \in Threads,
           v.fd = w.fd, v.timers = w.timers, v.events = w.events, v.lost = w.lost,
           v.disturbed = w.disturbed, v.written = w.written, v.pending = w.pending,
           LET has == w.socket[w.fd[c]]
               now == v.socket[w.fd[c]]
           IN  /\ now.owner = has.owner /\ now.err = has.err /\ now.fin = has.fin
               /\ now.owed = has.owed
               /\ now.inbox = SubSeq(has.inbox, some + 1, Len(has.inbox))
    PROVE  Each(v, c, SubSeq(w.socket[w.fd[c]].inbox, 1, some))
<1> DEFINE fd == w.fd[c]
           sock == w.socket[fd]
           now == v.socket[fd]
           all == sock.inbox
           first == SubSeq(all, 1, some)
           last == SubSeq(all, some + 1, Len(all))
<1>1. sock \in Socket /\ all \in Seq(Answer) /\ w.pending[c] \in Int
  BY DEF Threads, Socket
<1> HIDE DEF fd, sock
<1>2. some \in 0 .. Len(all)
  BY DEF sock, fd
<1>3. Len(all) \in Nat
  BY <1>1, LenProperties
<1> HIDE DEF all
<1>4. some \in Nat /\ some <= Len(all)
  BY <1>2, <1>3, UpToIsNat
<1>5. /\ Len(first) = some /\ Len(last) = Len(all) - some
      /\ Range(all) = Range(first) \cup Range(last)
  BY <1>1, <1>2, TwoParts
<1> HIDE DEF first, last
<1>6. CASE c \in w.disturbed \/ c \in w.lost
  BY <1>6 DEF Each
<1>7. CASE c \notin w.disturbed /\ c \notin w.lost
  <2>1. Served(w, c, <<>>) /\ all # <<>>
    BY <1>7 DEF Each, all, sock, fd
  <2>2. Awaiting(w, c, <<>>)
    BY <2>1 DEF Served, Connecting, Writing, Delaying, Quiet, all, sock, fd
  <2> DEFINE before == sock.owed + Len(all) + Len(<<>>)
             after == sock.owed + Len(last) + Len(first)
  <2>3. after = before
    <3> DEFINE a == sock.owed
               b == Len(all)
    <3>1. a \in Nat /\ b \in Nat /\ Len(<<>>) = 0 /\ Len(last) = b - some /\ Len(first) = some
      BY <1>1, <1>3, <1>5, EmptySeq DEF Socket
    <3> HIDE DEF a, b
    <3>2. a + (b - some) + some = a + b + 0
      BY <1>4, <3>1
    <3> QED BY <3>1, <3>2 DEF a, b
  <2> HIDE DEF before, after
  <2>4. Range(<<>>) = {}
    BY DEF Range
  <2>5. /\ now.owner = sock.owner /\ now.err = sock.err /\ now.fin = sock.fin
        /\ now.owed = sock.owed /\ now.inbox = last
    BY DEF fd, sock, now, all, last
  <2> HIDE DEF now
  <2>6. Ending(sock, <<>>) <=> Ending(now, first)
    BY <1>5, <2>4, <2>5 DEF Ending, all
  <2>7. v.fd[c] = fd /\ v.socket[fd] = now /\ w.fd[c] = fd /\ w.socket[fd] = sock
    BY DEF fd, now, sock
  <2>8. Awaiting(v, c, first)
    <3>1. /\ "w" \notin w.events[fd].mask /\ w.events[fd].rproc = "socket_readable"
          /\ w.timers[c] = 0 /\ w.written[c] = 0 /\ w.pending[c] > 0
          /\ before <= w.pending[c]
          /\ Ending(sock, <<>>) \/ before = w.pending[c]
          /\ "body" \in Range(all) \cup Range(<<>>) => sock.fin
      BY <2>2 DEF Awaiting, fd, sock, all, before
    <3>2. "body" \in Range(last) \cup Range(first) => sock.fin
      BY <1>5, <3>1
    <3>3. /\ v.events[fd] = w.events[fd] /\ v.timers[c] = w.timers[c]
          /\ v.written[c] = w.written[c] /\ v.pending[c] = w.pending[c]
      OBVIOUS
    <3>4. after = now.owed + Len(now.inbox) + Len(first)
      BY <2>5 DEF after
    <3>5. /\ v.socket[v.fd[c]] = now /\ v.events[v.fd[c]] = w.events[fd]
          /\ now.inbox = last /\ now.fin = sock.fin
      BY <2>5, <2>7, <3>3
    <3> QED BY <2>3, <2>6, <3>1, <3>2, <3>3, <3>4, <3>5 DEF Awaiting
  <2>9. Served(v, c, first)
    BY <2>1, <2>5, <2>7, <2>8 DEF Served
  <2> QED BY <1>7, <2>9 DEF Each, first, all, sock, fd
<1> QED BY <1>6, <1>7

LEMMA ReadableSound ==
    ASSUME NEW w, Sound(w, Conns), NEW c \in Conns, Own(w, c), delay \in BOOLEAN,
           NEW some \in 0 .. Len(w.socket[w.fd[c]].inbox), NEW F
    PROVE  Sound(socket_readable(w, c, some, F), Conns)
<1> DEFINE fd == w.fd[c]
           all == w.socket[fd].inbox
           last == SubSeq(all, some + 1, Len(all))
           first == SubSeq(all, 1, some)
           rest == [w EXCEPT !.socket[fd].inbox = last]
           done == Executed(rest, first, c, F)
<1>1. w \in Threads /\ fd \in Fds /\ Sound(w, Conns \ {c}) /\ Each(w, c, <<>>)
  BY DEF Sound, Own
<1>2. \A failing : Sound(reconnect_socket(w, c, failing), Conns)
  BY <1>1, Reconnects
<1>3. CASE all = <<>> /\ ~w.socket[fd].fin
  BY <1>2, <1>3 DEF socket_readable
<1>4. CASE all = <<>> /\ w.socket[fd].fin
  <2> DEFINE ended == response_complete([w EXCEPT !.parser[c] = "dead"], c, FALSE, 1 \in F)
  <2>1. socket_readable(w, c, some, F) =
            reconnect_socket(IF w.parser[c] = "eof" THEN ended ELSE w, c, 2 \in F)
    BY <1>4 DEF socket_readable, ReadEnd
  <2>2. Sound(ended, Conns) /\ Own(ended, c)
    BY <1>1, EndingSound
  <2> HIDE DEF ended
  <2>3. Sound(ended, Conns \ {c})
    BY <2>2 DEF Sound
  <2>4. \A failing : Sound(reconnect_socket(ended, c, failing), Conns)
    BY <2>2, <2>3, Reconnects
  <2> QED BY <1>2, <2>1, <2>4
<1>5. CASE all # <<>>
  <2>1. socket_readable(w, c, some, F) =
            IF done.ok THEN done.w ELSE reconnect_socket(done.w, c, 2 \in F)
    BY <1>1, <1>5 DEF socket_readable, Threads
  <2>2. w.socket[fd] \in Socket /\ all \in Seq(Answer)
    BY <1>1 DEF Threads, Socket
  <2>3. Len(all) \in Nat /\ \A i \in 1 .. Len(all) : all[i] \in Answer
    BY <2>2, LenProperties, ElementOfSeq
  <2>4. last \in Seq(Answer) /\ first \in Seq(Answer)
    <3>1. some \in Nat /\ some <= Len(all)
      BY <2>3
    <3>2. (\A i \in some + 1 .. Len(all) : all[i] \in Answer) /\ \A i \in 1 .. some : all[i] \in Answer
      BY <2>3, <3>1
    <3> HIDE DEF all
    <3> QED BY <2>3, <3>1, <3>2, SubSeqProperties
  <2> DEFINE now == [w.socket[fd] EXCEPT !.inbox = last]
             sockets == [w.socket EXCEPT ![fd] = now]
  <2>5. rest = [w EXCEPT !.socket = sockets]
    BY <1>1 DEF Threads
  <2> HIDE DEF last, first, rest, done
  <2>6. /\ now \in Socket /\ now.inbox = last /\ now.owner = w.socket[fd].owner
        /\ now.err = w.socket[fd].err /\ now.fin = w.socket[fd].fin
        /\ now.owed = w.socket[fd].owed
    BY <2>2, <2>4 DEF Socket
  <2> HIDE DEF now
  <2>7. /\ sockets \in [Fds -> Socket] /\ sockets[fd] = now
        /\ \A g \in Fds \ {fd} : sockets[g] = w.socket[g]
    BY <1>1, <2>6 DEF Threads
  <2> HIDE DEF sockets
  <2>8. /\ rest \in Threads /\ rest.socket = sockets
        /\ rest.fd = w.fd /\ rest.timers = w.timers /\ rest.events = w.events
        /\ rest.lost = w.lost /\ rest.disturbed = w.disturbed /\ rest.delayed = w.delayed
        /\ rest.written = w.written /\ rest.pending = w.pending
    BY <1>1, <2>5, <2>7 DEF Threads
  <2>9. Noted(w, rest, c)
    <3>1. \A g \in Fds : \/ rest.socket[g] = w.socket[g]
                         \/ rest.socket[g].owner = w.socket[g].owner /\ g = w.fd[c]
      BY <2>6, <2>7, <2>8
    <3> HIDE DEF fd
    <3> QED BY <2>8, <3>1 DEF Noted
  <2>10. Sound(rest, Conns \ {c}) /\ Own(rest, c)
    BY <1>1, <2>9, NotedSound
  <2>11. Each(rest, c, first)
    <3>1. LET has == w.socket[w.fd[c]]
              new == rest.socket[w.fd[c]]
          IN  /\ new.owner = has.owner /\ new.err = has.err /\ new.fin = has.fin
              /\ new.owed = has.owed
              /\ new.inbox = SubSeq(has.inbox, some + 1, Len(has.inbox))
      BY <2>6, <2>7, <2>8 DEF last
    <3> QED BY <1>1, <1>5, <2>8, <3>1, TakenServed DEF first
  <2>12. Reading(done, c, <<>>)
    BY <2>4, <2>10, <2>11, ExecutedReading DEF done
  <2>13. Sound(done.w, Conns \ {c}) /\ Own(done.w, c) /\ (done.ok => Each(done.w, c, <<>>))
    BY <2>12 DEF Reading
  <2>14. done.ok => Sound(done.w, Conns)
    BY <2>13, Whole
  <2>15. Sound(reconnect_socket(done.w, c, 2 \in F), Conns)
    BY <2>13, Reconnects
  <2> QED BY <2>1, <2>14, <2>15
<1> QED BY <1>3, <1>4, <1>5

LEMMA DeletesSound ==
    ASSUME NEW w, NEW c \in Conns, Sound(w, Conns \ {c}), Own(w, c), NEW mask,
           NEW v, Deleted(w, v, w.fd[c], mask)
    PROVE  Sound(v, Conns \ {c}) /\ Own(v, c)
<1> DEFINE fd == w.fd[c]
<1>1. fd \in Fds /\ w \in Threads
  BY DEF Own, Sound
<1>2. /\ v \in Threads /\ v.fd = w.fd /\ v.delayed = w.delayed /\ v.written = w.written
      /\ v.pending = w.pending /\ v.timers = w.timers
      /\ v.socket = w.socket /\ v.lost = w.lost /\ v.disturbed = w.disturbed
      /\ v.events[fd].mask = w.events[fd].mask \ mask
      /\ v.events[fd].data = w.events[fd].data
      /\ \A g \in Fds \ {fd} : v.events[g] = w.events[g]
  BY DEF Deleted
<1> HIDE DEF fd
<1>3. ASSUME NEW g \in Fds PROVE Registered(v, g) /\ Held(v, g)
  <2>1. Registered(w, g) /\ Held(w, g)
    BY DEF Sound
  <2>2. v.events[g].mask \subseteq w.events[g].mask /\ v.events[g].data = w.events[g].data
    BY <1>2
  <2> QED BY <1>2, <2>1, <2>2 DEF Registered, Held
<1>4. ASSUME NEW d \in Conns \ {c} PROVE Each(v, d, <<>>)
  <2>1. Each(w, d, <<>>) /\ d # Nobody
    BY Numbers DEF Sound
  <2>2. d \notin v.disturbed /\ w.fd[d] \in Fds /\ w.socket[w.fd[d]].owner = d =>
            v.events[w.fd[d]] = w.events[w.fd[d]]
    BY <1>2, <2>1 DEF Own, fd
  <2> QED BY <1>2, <2>1, <2>2, Frame
<1>5. \A d \in Conns : v.timers[d] > 0 => v.fd[d] \in Fds
  BY <1>2 DEF Sound
<1>6. Sound(v, Conns \ {c})
  BY <1>2, <1>3, <1>4, <1>5 DEF Sound
<1>7. Own(v, c)
  BY <1>2 DEF Own
<1> QED BY <1>6, <1>7

\* socket_connected makes of a connection that connects one that writes.
LEMMA ConnectedSound ==
    ASSUME NEW w, Sound(w, Conns), NEW fd \in Fds, NEW c, NEW proc, Called(w, c, fd, proc),
           proc \in {"socket_connected"}
    PROVE  Sound(socket_connected(w, c, fd), Conns)
<1>1. /\ c \in Conns /\ w.fd[c] = fd /\ Own(w, c)
      /\ Sound(w, Conns \ {c}) /\ w \in Threads
      /\ c \notin w.disturbed => w.socket[fd].owner = c /\ c \notin w.lost /\ Served(w, c, <<>>)
  <2>1. /\ c \in Conns /\ w.fd[c] = fd /\ Own(w, c)
        /\ c \in w.disturbed \/ w.socket[fd].owner = c
    BY CalledOwn
  <2>2. c \in w.disturbed \/ (c \notin w.lost /\ Served(w, c, <<>>))
    BY <2>1, CalledServed
  <2>3. Sound(w, Conns \ {c}) /\ w \in Threads
    BY DEF Sound
  <2> QED BY <2>1, <2>2, <2>3
<1> DEFINE base == [w EXCEPT !.parser[c] = "fresh", !.written[c] = 0]
           one == CreateFileEvent(base, fd, {"r"}, "socket_readable", c)
           two == CreateFileEvent(one, fd, {"w"}, "socket_writeable", c)
           others == Conns \ {c}
<1>2. others \in SUBSET Conns /\ others \ {c} = others
  OBVIOUS
<1>3. /\ {"r"} \in SUBSET {"r", "w"} /\ {"w"} \in SUBSET {"r", "w"}
      /\ "socket_readable" \in Procs /\ "socket_writeable" \in Procs
  BY DEF Procs
<1> DEFINE parsers == [w.parser EXCEPT ![c] = "fresh"]
           writes == [w.written EXCEPT ![c] = 0]
<1>4. base = [w EXCEPT !.parser = parsers, !.written = writes]
  BY <1>1 DEF Threads
<1>5. /\ parsers \in [Conns -> {"fresh", "eof", "dead"}]
      /\ writes \in [Conns -> Nat] /\ writes[c] = 0
      /\ \A d \in Conns \ {c} : writes[d] = w.written[d]
  BY <1>1 DEF Threads
<1> HIDE DEF base, parsers, writes
<1>6. /\ base \in Threads /\ base.written = writes
      /\ base.fd = w.fd /\ base.delayed = w.delayed /\ base.pending = w.pending
      /\ base.events = w.events /\ base.timers = w.timers /\ base.socket = w.socket
      /\ base.lost = w.lost /\ base.disturbed = w.disturbed
  BY <1>1, <1>4, <1>5 DEF Threads
<1>7. Noted(w, base, c)
  BY <1>5, <1>6 DEF Noted
<1>8. Sound(base, others) /\ Own(base, c)
  BY <1>1, <1>7, NotedSound
<1> HIDE DEF others
<1>9. Created(base, one, fd, {"r"}, "socket_readable", c)
  BY <1>1, <1>3, <1>6, Creates
<1> HIDE DEF one
<1>10. Sound(one, others)
  <2>1. base.fd[c] = fd
    BY <1>1, <1>6
  <2>2. Sound(one, others \ {c})
    BY <1>1, <1>2, <1>3, <1>8, <1>9, <2>1, CreatesSound
  <2> QED BY <1>2, <2>2
<1>11. one \in Threads /\ one.fd = base.fd /\ one.socket = base.socket
  BY <1>9 DEF Created
<1>12. Created(one, two, fd, {"w"}, "socket_writeable", c)
  BY <1>1, <1>3, <1>11, Creates
<1> HIDE DEF two
<1>13. Sound(two, others)
  <2>1. one.fd[c] = fd
    BY <1>1, <1>6, <1>11
  <2>2. Sound(two, others \ {c})
    BY <1>1, <1>2, <1>3, <1>10, <1>12, <2>1, CreatesSound
  <2> QED BY <1>2, <2>2
<1>14. Each(two, c, <<>>)
  <2>1. base.disturbed \subseteq one.disturbed /\ one.disturbed \subseteq two.disturbed
    BY <1>9, <1>12 DEF Created
  <2> SUFFICES ASSUME c \notin two.disturbed PROVE Each(two, c, <<>>)
    BY DEF Each
  <2>2. w.socket[fd].owner = c /\ c # Nobody /\ c \notin w.lost /\ Served(w, c, <<>>)
    BY <1>1, <1>6, <2>1, Numbers
  <2>3. Connecting(w, c, <<>>)
    BY <1>1, <2>2 DEF Called, Served, Writing, Delaying, Awaiting
  <2>4. /\ one.events[fd].mask = w.events[fd].mask \cup {"r"}
        /\ one.events[fd].rproc = "socket_readable"
    BY <1>6, <1>9, <2>2 DEF Created
  <2>5. /\ two.events[fd].mask = one.events[fd].mask \cup {"w"}
        /\ two.events[fd].rproc = one.events[fd].rproc
        /\ two.events[fd].wproc = "socket_writeable" /\ two.events[fd].data = c
    BY <1>6, <1>11, <1>12, <2>2 DEF Created
  <2>6. /\ two.fd = w.fd /\ two.timers = w.timers /\ two.socket = w.socket
        /\ two.lost = w.lost /\ two.written = writes
    BY <1>6, <1>9, <1>12 DEF Created
  <2>7. Writing(two, c, <<>>)
    BY <1>1, <1>5, <2>3, <2>4, <2>5, <2>6 DEF Writing, Connecting, Begun
  <2>8. Served(two, c, <<>>)
    BY <1>1, <2>2, <2>4, <2>5, <2>6, <2>7 DEF Served
  <2> QED BY <2>2, <2>6, <2>8 DEF Each
<1>15. Sound(two, Conns)
  BY <1>1, <1>13, <1>14, Whole DEF others
<1> QED BY <1>15 DEF socket_connected, two, one, base

\* What socket_writeable notes before the first unit of a request.
BegunBy(w, begun, c) ==
    /\ begun \in Threads
    /\ begun.fd = w.fd /\ begun.delayed = w.delayed /\ begun.written = w.written
    /\ begun.timers = w.timers /\ begun.events = w.events /\ begun.socket = w.socket
    /\ begun.lost = w.lost /\ begun.disturbed = w.disturbed
    /\ Begun(w, c) => begun.pending[c] = Pipeline

LEMMA Begins ==
    ASSUME NEW w, NEW c \in Conns, Sound(w, Conns \ {c}), Own(w, c)
    PROVE  LET begun == IF w.written[c] = 0 THEN [w EXCEPT !.pending[c] = Pipeline] ELSE w
           IN  BegunBy(w, begun, c) /\ Sound(begun, Conns \ {c}) /\ Own(begun, c)
<1> DEFINE begun == [w EXCEPT !.pending[c] = Pipeline]
           pendings == [w.pending EXCEPT ![c] = Pipeline]
<1>1. w \in Threads
  BY DEF Sound
<1>2. CASE w.written[c] = 0
  <2>1. begun = [w EXCEPT !.pending = pendings]
    BY <1>1 DEF Threads
  <2>2. /\ pendings \in [Conns -> Int] /\ pendings[c] = Pipeline
        /\ \A d \in Conns \ {c} : pendings[d] = w.pending[d]
    BY <1>1, WrkAssumption DEF WrkAssumption, Threads
  <2> HIDE DEF begun, pendings
  <2>3. /\ begun \in Threads /\ begun.pending = pendings
        /\ begun.fd = w.fd /\ begun.delayed = w.delayed /\ begun.written = w.written
        /\ begun.timers = w.timers /\ begun.events = w.events /\ begun.socket = w.socket
        /\ begun.lost = w.lost /\ begun.disturbed = w.disturbed
    BY <1>1, <2>1, <2>2 DEF Threads
  <2>4. BegunBy(w, begun, c) /\ Noted(w, begun, c)
    BY <2>2, <2>3 DEF BegunBy, Noted
  <2>5. Sound(begun, Conns \ {c}) /\ Own(begun, c)
    BY <2>4, NotedSound
  <2> QED BY <1>2, <2>4, <2>5 DEF begun
<1>3. CASE w.written[c] # 0
  <2>1. w.written[c] > 0
    BY <1>1, <1>3 DEF Threads
  <2>2. BegunBy(w, w, c)
    BY <1>1, <2>1 DEF BegunBy, Begun
  <2> QED BY <1>3, <2>2
<1> QED BY <1>2, <1>3

\* A connection whose script has a delay waits for its timer before it writes.
LEMMA DelayedSound ==
    ASSUME NEW w, NEW fd \in Fds, NEW c \in Conns, w.fd[c] = fd, Sound(w, Conns \ {c}), Own(w, c),
           w.delayed[c],
           c \notin w.disturbed => c \notin w.lost /\ Served(w, c, <<>>) /\ Writing(w, c, <<>>)
    PROVE  Sound([DeleteFileEvent(w, fd, {"w"}) EXCEPT
                     !.timers[c] = @ + 1,
                     !.disturbed = IF w.timers[c] > 0 THEN @ \cup {c} ELSE @], Conns)
<1> DEFINE u == DeleteFileEvent(w, fd, {"w"})
           v == [u EXCEPT !.timers[c] = @ + 1,
                          !.disturbed = IF w.timers[c] > 0 THEN @ \cup {c} ELSE @]
           clock == [w.timers EXCEPT ![c] = w.timers[c] + 1]
           touched == IF w.timers[c] > 0 THEN w.disturbed \cup {c} ELSE w.disturbed
<1>1. w \in Threads /\ {"w"} \in SUBSET {"r", "w"}
  BY DEF Sound
<1>2. Deleted(w, u, fd, {"w"})
  BY <1>1, Deletes
<1> HIDE DEF u
<1>3. Sound(u, Conns \ {c}) /\ Own(u, c)
  BY <1>2, DeletesSound
<1>4. u \in Threads /\ u.timers = w.timers /\ u.disturbed = w.disturbed /\ u.fd = w.fd
  BY <1>2 DEF Deleted
<1>5. v = [u EXCEPT !.timers = clock, !.disturbed = touched]
  BY <1>4 DEF Threads
<1>6. /\ clock \in [Conns -> Nat] /\ clock[c] = w.timers[c] + 1
      /\ \A d \in Conns \ {c} : clock[d] = w.timers[d]
      /\ touched \in SUBSET Conns /\ w.disturbed \subseteq touched
  BY <1>1 DEF Threads
<1> HIDE DEF v, clock
<1>7. /\ v \in Threads /\ v.timers = clock /\ v.disturbed = touched
      /\ v.fd = u.fd /\ v.delayed = u.delayed /\ v.written = u.written /\ v.pending = u.pending
      /\ v.events = u.events /\ v.socket = u.socket /\ v.lost = u.lost
  BY <1>4, <1>5, <1>6 DEF Threads
<1>8. Noted(u, v, c)
  BY <1>4, <1>6, <1>7 DEF Noted
<1>9. Sound(v, Conns \ {c})
  BY <1>3, <1>8, NotedSound
<1>10. Each(v, c, <<>>)
  <2> SUFFICES ASSUME c \notin v.disturbed PROVE Each(v, c, <<>>)
    BY DEF Each
  <2>1. c \notin w.lost /\ Served(w, c, <<>>) /\ Writing(w, c, <<>>)
    BY <1>6, <1>7
  <2>2. w.timers[c] = 0
    BY <2>1 DEF Writing
  <2>3. v.timers[c] = 1
    BY <1>6, <1>7, <2>2
  <2>4. /\ v.fd = w.fd /\ v.delayed = w.delayed /\ v.written = w.written /\ v.pending = w.pending
        /\ v.socket = w.socket /\ v.lost = w.lost
        /\ v.events[fd].mask = w.events[fd].mask \ {"w"}
        /\ v.events[fd].rproc = w.events[fd].rproc /\ v.events[fd].data = w.events[fd].data
    BY <1>2, <1>7 DEF Deleted
  <2>5. Delaying(v, c, <<>>)
    BY <2>1, <2>3, <2>4 DEF Delaying, Writing, Begun
  <2>6. Served(v, c, <<>>)
    BY <2>1, <2>4, <2>5 DEF Served
  <2> QED BY <2>1, <2>4, <2>6 DEF Each
<1> QED BY <1>9, <1>10, Whole DEF v, u

\* With the request written whole the connection awaits as many answers as it holds requests.
LEMMA AskedSound ==
    ASSUME NEW w, NEW fd \in Fds, NEW c \in Conns, w.fd[c] = fd, Sound(w, Conns \ {c}), Own(w, c),
           c \notin w.disturbed => /\ c \notin w.lost /\ Served(w, c, <<>>)
                                   /\ Writing(w, c, <<>>) /\ w.pending[c] = Pipeline
    PROVE  Sound(Asked(w, c, fd), Conns)
<1> DEFINE owing == [w.socket[fd] EXCEPT !.owed = @ + Pipeline]
           sockets == [w.socket EXCEPT ![fd] = owing]
           writes == [w.written EXCEPT ![c] = 0]
           u == [w EXCEPT !.written[c] = 0, !.socket[w.fd[c]].owed = @ + Pipeline]
           v == DeleteFileEvent(u, fd, {"w"})
<1>1. w \in Threads /\ {"w"} \in SUBSET {"r", "w"}
  BY DEF Sound
<1>2. w.socket[fd] \in Socket /\ Pipeline \in Nat /\ Pipeline > 0
  BY <1>1, WrkAssumption DEF WrkAssumption, Threads
<1>3. u = [w EXCEPT !.written = writes, !.socket = sockets]
  BY <1>1 DEF Threads
<1>4. /\ owing \in Socket /\ owing.owed = w.socket[fd].owed + Pipeline
      /\ owing.owner = w.socket[fd].owner /\ owing.inbox = w.socket[fd].inbox
      /\ owing.fin = w.socket[fd].fin /\ owing.err = w.socket[fd].err
  BY <1>2 DEF Socket
<1> HIDE DEF owing
<1>5. /\ sockets \in [Fds -> Socket] /\ sockets[fd] = owing
      /\ \A g \in Fds \ {fd} : sockets[g] = w.socket[g]
      /\ writes \in [Conns -> Nat] /\ writes[c] = 0
      /\ \A d \in Conns \ {c} : writes[d] = w.written[d]
  BY <1>1, <1>4 DEF Threads
<1> HIDE DEF u, sockets, writes
<1>6. /\ u \in Threads /\ u.written = writes /\ u.socket = sockets
      /\ u.fd = w.fd /\ u.delayed = w.delayed /\ u.pending = w.pending /\ u.timers = w.timers
      /\ u.events = w.events /\ u.lost = w.lost /\ u.disturbed = w.disturbed
  BY <1>1, <1>3, <1>5 DEF Threads
<1>7. Noted(w, u, c)
  <2>1. \A g \in Fds : \/ u.socket[g] = w.socket[g]
                       \/ u.socket[g].owner = w.socket[g].owner /\ g = w.fd[c]
    BY <1>4, <1>5, <1>6
  <2> QED BY <1>5, <1>6, <2>1 DEF Noted
<1>8. Sound(u, Conns \ {c}) /\ Own(u, c)
  BY <1>7, NotedSound
<1>9. Deleted(u, v, fd, {"w"})
  BY <1>1, <1>6, Deletes
<1> HIDE DEF v
<1>10. Sound(v, Conns \ {c})
  BY <1>6, <1>8, <1>9, DeletesSound
<1>11. Each(v, c, <<>>)
  <2>1. /\ v.fd = w.fd /\ v.written = writes /\ v.pending = w.pending /\ v.timers = w.timers
        /\ v.socket = sockets /\ v.lost = w.lost /\ v.disturbed = w.disturbed
        /\ v.events[fd].mask = w.events[fd].mask \ {"w"}
        /\ v.events[fd].rproc = w.events[fd].rproc /\ v.events[fd].data = w.events[fd].data
    BY <1>6, <1>9 DEF Deleted
  <2> SUFFICES ASSUME c \notin v.disturbed PROVE Each(v, c, <<>>)
    BY DEF Each
  <2>2. c \notin w.lost /\ Served(w, c, <<>>) /\ Writing(w, c, <<>>) /\ w.pending[c] = Pipeline
    BY <2>1
  <2>3. owing.owed = Pipeline /\ owing.inbox = <<>> /\ v.socket[fd] = owing
    BY <1>2, <1>4, <1>5, <2>1, <2>2 DEF Writing, Quiet
  <2>4. owing.owed + Len(owing.inbox) + Len(<<>>) = Pipeline
    <3>1. Len(<<>>) = 0
      BY EmptySeq
    <3>2. owing.owed + 0 + 0 = Pipeline
      BY <1>2, <2>3
    <3> QED BY <2>3, <3>1, <3>2
  <2>5. Range(<<>>) = {}
    BY DEF Range
  <2>6. Awaiting(v, c, <<>>)
    <3>1. v.socket[v.fd[c]] = owing /\ v.events[v.fd[c]] = v.events[fd]
      BY <2>1, <2>3
    <3>2. /\ "w" \notin v.events[fd].mask /\ v.events[fd].rproc = "socket_readable"
          /\ v.timers[c] = 0 /\ v.written[c] = 0 /\ v.pending[c] = Pipeline
      BY <1>5, <2>1, <2>2 DEF Writing
    <3>3. Pipeline <= Pipeline
      BY <1>2
    <3> QED BY <1>2, <2>3, <2>4, <2>5, <3>1, <3>2, <3>3 DEF Awaiting
  <2>7. Served(v, c, <<>>)
    BY <1>4, <2>1, <2>2, <2>3, <2>6 DEF Served
  <2> QED BY <2>1, <2>2, <2>7 DEF Each
<1> QED BY <1>10, <1>11, Whole DEF Asked, v, u

\* socket_writeable, of a connection that may write, whatever write returns.
LEMMA WriteableSound ==
    ASSUME NEW w, Sound(w, Conns), NEW fd \in Fds, NEW c, NEW proc, Called(w, c, fd, proc),
           proc \notin {"socket_connected", "socket_readable"},
           NEW took \in {-1} \cup Nat, NEW failing
    PROVE  Sound(socket_writeable(w, c, fd, took, failing), Conns)
<1>1. /\ c \in Conns /\ w.fd[c] = fd /\ Own(w, c)
      /\ Sound(w, Conns \ {c}) /\ w \in Threads
      /\ c \notin w.disturbed => w.socket[fd].owner = c /\ c \notin w.lost /\ Served(w, c, <<>>)
  <2>1. /\ c \in Conns /\ w.fd[c] = fd /\ Own(w, c)
        /\ c \in w.disturbed \/ w.socket[fd].owner = c
    BY CalledOwn
  <2>2. c \in w.disturbed \/ (c \notin w.lost /\ Served(w, c, <<>>))
    BY <2>1, CalledServed
  <2>3. Sound(w, Conns \ {c}) /\ w \in Threads
    BY DEF Sound
  <2> QED BY <2>1, <2>2, <2>3
<1>2. ASSUME c \notin w.disturbed
      PROVE  c \notin w.lost /\ Served(w, c, <<>>) /\ Writing(w, c, <<>>)
  <2>1. Served(w, c, <<>>) /\ c \notin w.lost
    BY <1>1, <1>2
  <2>2. Writing(w, c, <<>>)
    BY <1>1, <2>1 DEF Called, Served, Connecting, Delaying, Awaiting
  <2> QED BY <2>1, <2>2
<1> DEFINE begun == IF w.written[c] = 0 THEN [w EXCEPT !.pending[c] = Pipeline] ELSE w
<1>3. CASE w.delayed[c]
  BY <1>1, <1>2, <1>3, DelayedSound DEF socket_writeable
<1>4. CASE ~w.delayed[c]
  <2>1. BegunBy(w, begun, c) /\ Sound(begun, Conns \ {c}) /\ Own(begun, c)
    BY <1>1, Begins
  <2>2. socket_writeable(w, c, fd, took, failing) =
            IF took = -1 THEN reconnect_socket(begun, c, failing)
            ELSE IF took + w.written[c] = Length THEN Asked(begun, c, fd)
            ELSE [begun EXCEPT !.written[c] = @ + took]
    BY <1>4 DEF socket_writeable
  <2> HIDE DEF begun
  <2>3. /\ begun \in Threads /\ begun.fd = w.fd /\ begun.delayed = w.delayed
        /\ begun.written = w.written /\ begun.timers = w.timers /\ begun.events = w.events
        /\ begun.socket = w.socket /\ begun.lost = w.lost /\ begun.disturbed = w.disturbed
        /\ Begun(w, c) => begun.pending[c] = Pipeline
    BY <2>1 DEF BegunBy
  <2>4. ASSUME c \notin begun.disturbed
        PROVE  /\ c \notin begun.lost /\ Served(begun, c, <<>>)
               /\ Writing(begun, c, <<>>) /\ begun.pending[c] = Pipeline
    <3>1. c \notin w.lost /\ Served(w, c, <<>>) /\ Writing(w, c, <<>>)
      BY <1>2, <2>3, <2>4
    <3>2. begun.pending[c] = Pipeline
      BY <2>3, <3>1 DEF Writing
    <3>3. Writing(begun, c, <<>>)
      BY <2>3, <3>1, <3>2 DEF Writing, Begun
    <3>4. Served(begun, c, <<>>)
      BY <2>3, <3>1, <3>3 DEF Served
    <3> QED BY <2>3, <3>1, <3>2, <3>3, <3>4
  <2>5. Sound(reconnect_socket(begun, c, failing), Conns)
    BY <1>1, <2>1, Reconnects
  <2>6. Sound(Asked(begun, c, fd), Conns)
    <3>1. begun.fd[c] = fd
      BY <1>1, <2>3
    <3> QED BY <1>1, <2>1, <2>4, <3>1, AskedSound
  <2>7. CASE took # -1
    <3> DEFINE v == [begun EXCEPT !.written[c] = @ + took]
               writes == [begun.written EXCEPT ![c] = begun.written[c] + took]
    <3>1. v = [begun EXCEPT !.written = writes]
      BY <2>3 DEF Threads
    <3>2. writes \in [Conns -> Nat] /\ \A d \in Conns \ {c} : writes[d] = begun.written[d]
      <4>1. took \in Nat
        BY <2>7
      <4> QED BY <1>1, <2>3, <4>1 DEF Threads
    <3> HIDE DEF v, writes
    <3>3. /\ v \in Threads /\ v.written = writes
          /\ v.fd = begun.fd /\ v.delayed = begun.delayed /\ v.pending = begun.pending
          /\ v.timers = begun.timers /\ v.events = begun.events /\ v.socket = begun.socket
          /\ v.lost = begun.lost /\ v.disturbed = begun.disturbed
      BY <2>3, <3>1, <3>2 DEF Threads
    <3>4. Noted(begun, v, c)
      BY <3>2, <3>3 DEF Noted
    <3>5. Sound(v, Conns \ {c})
      BY <1>1, <2>1, <3>4, NotedSound
    <3>6. Each(v, c, <<>>)
      <4> SUFFICES ASSUME c \notin v.disturbed PROVE Each(v, c, <<>>)
        BY DEF Each
      <4>1. /\ c \notin begun.lost /\ Served(begun, c, <<>>)
            /\ Writing(begun, c, <<>>) /\ begun.pending[c] = Pipeline
        BY <2>4, <3>3
      <4>2. Writing(v, c, <<>>)
        BY <3>3, <4>1 DEF Writing, Begun
      <4>3. Served(v, c, <<>>)
        BY <3>3, <4>1, <4>2 DEF Served
      <4> QED BY <3>3, <4>1, <4>3 DEF Each
    <3>7. Sound(v, Conns)
      BY <1>1, <3>5, <3>6, Whole
    <3> QED BY <2>2, <2>6, <2>7, <3>7 DEF v
  <2> QED BY <2>2, <2>5, <2>7
<1> QED BY <1>3, <1>4

LEMMA CallSound ==
    ASSUME NEW w, Sound(w, Conns), delay \in BOOLEAN, NEW fd \in Fds, NEW proc,
           Called(w, w.events[fd].data, fd, proc),
           NEW some \in 0 .. Len(w.socket[fd].inbox), NEW took \in {-1} \cup Nat, NEW F
    PROVE  Sound(Call(w, proc, fd, some, took, F), Conns)
<1> DEFINE c == w.events[fd].data
<1>0. Called(w, c, fd, proc)
  OBVIOUS
<1>1. c \in Conns /\ w.fd[c] = fd /\ Own(w, c)
  <2> HIDE DEF c
  <2> QED BY <1>0, CalledOwn
<1>2. CASE proc = "socket_connected"
  <2>1. Sound(socket_connected(w, c, fd), Conns)
    BY <1>2, ConnectedSound
  <2> QED BY <1>2, <2>1 DEF Call
<1>3. CASE proc = "socket_readable"
  <2>1. some \in 0 .. Len(w.socket[w.fd[c]].inbox)
    BY <1>1
  <2> HIDE DEF c
  <2>2. Sound(socket_readable(w, c, some, F), Conns)
    BY <1>1, <2>1, ReadableSound
  <2> QED BY <1>3, <2>2 DEF Call, c
<1>4. CASE proc \notin {"socket_connected", "socket_readable"}
  <2>1. Sound(socket_writeable(w, c, fd, took, 3 \in F), Conns)
    BY <1>4, WriteableSound
  <2> QED BY <1>4, <2>1 DEF Call
<1> QED BY <1>2, <1>3, <1>4

-----------------------------------------------------------------------------
(* The steps of the loop.                                                  *)

LEMMA BecomesThread ==
    ASSUME NEW w \in Threads, Becomes(w)
    PROVE  Thread' = w
BY DEF Becomes, Thread, Threads

LEMMA SoundAfter ==
    ASSUME NEW w, Sound(w, Conns), Becomes(w), UNCHANGED delay, Inv
    PROVE  Inv'
<1>1. w \in Threads
  BY DEF Sound
<1>2. Thread' = w
  BY <1>1, BecomesThread
<1> QED BY <1>2 DEF Inv

LEMMA ReadSound ==
    ASSUME Inv, NEW fd \in Fds, NEW some \in 0 .. Len(socket[fd].inbox), NEW F
    PROVE  Sound(AfterRead(fd, some, F), Conns)
<1>1. Sound(Thread, Conns) /\ delay \in BOOLEAN
  BY DEF Inv
<1>2. CASE "r" \notin Watching(fd) \cap fired[fd]
  BY <1>1, <1>2 DEF AfterRead
<1>3. CASE "r" \in Watching(fd) \cap fired[fd]
  <2>1. Thread.events = events /\ Thread.socket = socket
    BY DEF Thread
  <2> DEFINE w == Thread
             proc == events[fd].rproc
  <2>2. Called(w, w.events[fd].data, fd, proc)
    BY <1>3, <2>1 DEF Called, Watching
  <2>3. some \in 0 .. Len(w.socket[fd].inbox)
    BY <2>1
  <2>4. 0 \in {-1} \cup Nat
    OBVIOUS
  <2> HIDE DEF w, proc
  <2>5. Sound(Call(w, proc, fd, some, 0, F), Conns)
    <3>1. Sound(w, Conns)
      BY <1>1 DEF w
    <3> QED BY <1>1, <2>2, <2>3, <2>4, <3>1, CallSound
  <2> QED BY <1>3, <2>5 DEF AfterRead, w, proc
<1> QED BY <1>2, <1>3

\* The second call for a descriptor sees what the first one made of it.
LEMMA HandleEventStep ==
    ASSUME Inv, NEW fd \in Fds, HandleEvent(fd)
    PROVE  Inv'
<1>1. UNCHANGED delay /\ delay \in BOOLEAN
  BY DEF HandleEvent, Inv
<1>2. PICK F \in SUBSET (1 .. 3), some \in 0 .. Len(socket[fd].inbox) :
          \E one \in {AfterRead(fd, some, F)} :
             LET has == one.events[fd]
                 again == "r" \in Watching(fd) \cap fired[fd] /\ has.wproc = has.rproc
             IN  IF "w" \in has.mask \cap fired[fd] /\ ~again
                 THEN \E took \in Writes(one, has.data) :
                         \E two \in {Call(one, has.wproc, fd, 0, took, F)} : Becomes(two)
                 ELSE Becomes(one)
  BY DEF HandleEvent
<1>3. PICK one : /\ one = AfterRead(fd, some, F)
                 /\ LET has == one.events[fd]
                        again == "r" \in Watching(fd) \cap fired[fd] /\ has.wproc = has.rproc
                    IN  IF "w" \in has.mask \cap fired[fd] /\ ~again
                        THEN \E took \in Writes(one, has.data) :
                                \E two \in {Call(one, has.wproc, fd, 0, took, F)} : Becomes(two)
                        ELSE Becomes(one)
  BY <1>2
<1>4. Sound(one, Conns)
  BY <1>3, ReadSound
<1>5. CASE Becomes(one)
  BY <1>1, <1>4, <1>5, SoundAfter
<1>6. CASE /\ "w" \in one.events[fd].mask
           /\ \E took \in Writes(one, one.events[fd].data) :
                 \E two \in {Call(one, one.events[fd].wproc, fd, 0, took, F)} : Becomes(two)
  <2> DEFINE c == one.events[fd].data
             proc == one.events[fd].wproc
  <2>1. PICK took \in Writes(one, c) : Becomes(Call(one, proc, fd, 0, took, F))
    BY <1>6
  <2>2. Called(one, c, fd, proc)
    BY <1>6 DEF Called
  <2>3. took \in {-1} \cup Nat
    <3>1. c \in Conns
      <4> HIDE DEF c, proc
      <4> QED BY <1>4, <2>2, CalledOwn
    <3>2. one.written[c] \in Nat /\ Length \in Nat
      BY <1>4, <3>1, WrkAssumption DEF WrkAssumption, Sound, Threads
    <3> HIDE DEF c
    <3>3. 0 .. Length - one.written[c] \subseteq Nat
      BY <3>2
    <3> QED BY <2>1, <3>3 DEF Writes
  <2>4. 0 \in 0 .. Len(one.socket[fd].inbox)
    <3>1. one.socket[fd].inbox \in Seq(Answer)
      BY <1>4 DEF Sound, Threads, Socket
    <3> QED BY <3>1, LenProperties
  <2>5. Sound(Call(one, proc, fd, 0, took, F), Conns)
    <3> HIDE DEF proc
    <3> QED BY <1>1, <1>4, <2>2, <2>3, <2>4, CallSound
  <2> QED BY <1>1, <2>1, <2>5, SoundAfter
<1> QED BY <1>3, <1>5, <1>6

\* The timer that a connection set for itself makes it write again.
LEMMA FireDelayStep ==
    ASSUME Inv, NEW c \in Conns, FireDelay(c)
    PROVE  Inv'
<1> DEFINE w == Thread
           fd == w.fd[c]
           base == [w EXCEPT !.delayed[c] = FALSE, !.timers[c] = @ - 1]
           v == CreateFileEvent(base, fd, {"w"}, "socket_writeable", c)
           prompt == [w.delayed EXCEPT ![c] = FALSE]
           clock == [w.timers EXCEPT ![c] = w.timers[c] - 1]
<1>1. Sound(w, Conns) /\ w.fd = fd_ /\ w.timers = timers /\ timers[c] > 0
  BY DEF Inv, Thread, FireDelay
<1>2. Becomes(v) /\ UNCHANGED delay
  BY <1>1 DEF FireDelay
<1> HIDE DEF w
<1>3. w \in Threads /\ fd \in Fds /\ w.timers[c] \in Nat /\ w.timers[c] > 0
  BY <1>1 DEF Sound, Threads
<1>4. base = [w EXCEPT !.delayed = prompt, !.timers = clock]
  BY <1>3 DEF Threads
<1>5. /\ prompt \in [Conns -> BOOLEAN] /\ \A d \in Conns \ {c} : prompt[d] = w.delayed[d]
      /\ clock \in [Conns -> Nat] /\ clock[c] = w.timers[c] - 1
      /\ \A d \in Conns \ {c} : clock[d] = w.timers[d]
  <2>1. w.timers[c] - 1 \in Nat
    BY <1>3
  <2> QED BY <1>3, <2>1 DEF Threads
<1> HIDE DEF base, prompt, clock
<1>6. /\ base \in Threads /\ base.timers = clock
      /\ base.fd = w.fd /\ base.written = w.written /\ base.pending = w.pending
      /\ base.events = w.events /\ base.socket = w.socket
      /\ base.lost = w.lost /\ base.disturbed = w.disturbed /\ base.delayed = prompt
  BY <1>3, <1>4, <1>5 DEF Threads
<1>7. Noted(w, base, c)
  BY <1>5, <1>6 DEF Noted
<1>8. Sound(base, Conns \ {c})
  <2>1. Sound(w, Conns \ {c})
    BY <1>1 DEF Sound
  <2> QED BY <1>3, <1>6, <1>7, <2>1, NotedFrame
<1>9. {"w"} \in SUBSET {"r", "w"} /\ "socket_writeable" \in Procs
  BY DEF Procs
<1>10. Created(base, v, fd, {"w"}, "socket_writeable", c)
  BY <1>3, <1>6, <1>9, Creates
<1> HIDE DEF v
<1>11. Sound(v, Conns \ {c})
  <2>1. base.fd[c] = fd /\ (Conns \ {c}) \in SUBSET Conns
    BY <1>6
  <2> HIDE DEF fd
  <2>2. Sound(v, (Conns \ {c}) \ {c})
    BY <1>3, <1>8, <1>9, <1>10, <2>1, CreatesSound
  <2>3. (Conns \ {c}) \ {c} = Conns \ {c}
    OBVIOUS
  <2> QED BY <2>2, <2>3
<1>12. Each(v, c, <<>>)
  <2>1. base.disturbed \subseteq v.disturbed
    BY <1>10 DEF Created
  <2> SUFFICES ASSUME c \notin v.disturbed PROVE Each(v, c, <<>>)
    BY DEF Each
  <2>2. Each(w, c, <<>>) /\ c \notin w.disturbed
    BY <1>1, <1>6, <2>1 DEF Sound
  <2>3. c \notin w.lost /\ Served(w, c, <<>>)
    BY <1>3, <2>2 DEF Each
  <2>4. Delaying(w, c, <<>>)
    BY <1>3, <2>3 DEF Served, Connecting, Writing, Awaiting
  <2>5. w.socket[fd].owner = c /\ c # Nobody
    BY <2>3, Numbers DEF Served
  <2>6. /\ v.events[fd].mask = w.events[fd].mask \cup {"w"}
        /\ v.events[fd].rproc = w.events[fd].rproc
        /\ v.events[fd].wproc = "socket_writeable" /\ v.events[fd].data = c
    BY <1>6, <1>10, <2>5 DEF Created
  <2>7. /\ v.fd = w.fd /\ v.timers = clock /\ v.socket = w.socket /\ v.lost = w.lost
        /\ v.written = w.written /\ v.pending = w.pending
    BY <1>6, <1>10 DEF Created
  <2>8. clock[c] = 0
    BY <1>5, <2>4 DEF Delaying
  <2>9. Writing(v, c, <<>>)
    BY <2>4, <2>6, <2>7, <2>8 DEF Delaying, Writing, Begun
  <2>10. Served(v, c, <<>>)
    BY <2>3, <2>6, <2>7, <2>9 DEF Served
  <2> QED BY <2>3, <2>7, <2>10 DEF Each
<1>13. Sound(v, Conns)
  BY <1>11, <1>12, Whole
<1> QED BY <1>2, <1>13, SoundAfter

-----------------------------------------------------------------------------
(* The steps of the kernel and the server.                                 *)

\* A turn at a socket keeps a connection sound when it keeps the one that has the socket.
LEMMA TurnStep ==
    ASSUME Inv, NEW fd \in Fds, NEW to \in Socket, Turns(fd, to), troubles' \in Nat,
           to.owner = socket[fd].owner,
           \A w, v, d : w.fd[d] = fd /\ v.fd[d] = fd /\ w.socket[fd] = socket[fd] /\ v.socket[fd] = to
                        /\ w.events[fd] = v.events[fd] /\ w.timers[d] = v.timers[d]
                        /\ w.delayed[d] = v.delayed[d] /\ w.written[d] = v.written[d]
                        /\ w.pending[d] = v.pending[d] /\ w.pending[d] \in Int
                        /\ Served(w, d, <<>>) => Served(v, d, <<>>)
    PROVE  Inv'
<1> DEFINE w == Thread
           v == Thread'
<1>1. Sound(w, Conns) /\ delay \in BOOLEAN /\ w.socket = socket /\ w \in Threads
  BY DEF Inv, Thread, Sound
<1>2. /\ v.fd = w.fd /\ v.delayed = w.delayed /\ v.written = w.written
      /\ v.pending = w.pending /\ v.parser = w.parser /\ v.timers = w.timers
      /\ v.events = w.events /\ v.lost = w.lost /\ v.disturbed = w.disturbed
      /\ v.socket = [w.socket EXCEPT ![fd] = to] /\ v.troubles = troubles' /\ delay' = delay
  BY DEF Turns, Thread
<1>3. v = [fd |-> v.fd, delayed |-> v.delayed, written |-> v.written, pending |-> v.pending,
           parser |-> v.parser, events |-> v.events, timers |-> v.timers, socket |-> v.socket,
           troubles |-> v.troubles, lost |-> v.lost, disturbed |-> v.disturbed]
  BY DEF Thread
<1> HIDE DEF w, v
<1> DEFINE sockets == [w.socket EXCEPT ![fd] = to]
<1>4. /\ sockets \in [Fds -> Socket] /\ sockets[fd] = to
      /\ \A g \in Fds \ {fd} : sockets[g] = w.socket[g]
  BY <1>1 DEF Threads
<1> HIDE DEF sockets
<1>5. v.socket = sockets /\ v \in Threads
  <2>1. v.socket = sockets
    BY <1>2 DEF sockets
  <2>2. /\ v.fd \in [Conns -> Nat] /\ v.delayed \in [Conns -> BOOLEAN]
        /\ v.written \in [Conns -> Nat] /\ v.pending \in [Conns -> Int]
        /\ v.parser \in [Conns -> {"fresh", "eof", "dead"}] /\ v.events \in [Fds -> Event]
        /\ v.timers \in [Conns -> Nat] /\ v.socket \in [Fds -> Socket] /\ v.troubles \in Nat
        /\ v.lost \in SUBSET Conns /\ v.disturbed \in SUBSET Conns
    BY <1>1, <1>2, <1>4, <2>1 DEF Threads
  <2> QED BY <1>3, <2>1, <2>2 DEF Threads
<1>6. \A g \in Fds : v.socket[g].owner = w.socket[g].owner
  BY <1>1, <1>4, <1>5
<1>7. ASSUME NEW g \in Fds PROVE Registered(v, g) /\ Held(v, g)
  <2>1. Registered(w, g) /\ Held(w, g)
    BY <1>1 DEF Sound
  <2> QED BY <1>2, <1>6, <2>1 DEF Registered, Held
<1>8. ASSUME NEW d \in Conns PROVE Each(v, d, <<>>)
  <2>1. Each(w, d, <<>>) /\ w.pending[d] \in Int
    BY <1>1 DEF Sound, Threads
  <2>2. CASE w.fd[d] = fd
    <3>1. Served(w, d, <<>>) => Served(v, d, <<>>)
      BY <1>1, <1>2, <1>4, <1>5, <2>1, <2>2
    <3> QED BY <1>2, <2>1, <3>1 DEF Each
  <2>3. CASE w.fd[d] # fd
    <3>1. w.fd[d] \in Fds => v.socket[w.fd[d]] = w.socket[w.fd[d]]
      BY <1>4, <1>5, <2>3
    <3> QED BY <1>2, <2>1, <3>1, Frame
  <2> QED BY <2>2, <2>3
<1>9. \A d \in Conns : v.timers[d] > 0 => v.fd[d] \in Fds
  BY <1>1, <1>2 DEF Sound
<1>10. Sound(v, Conns)
  BY <1>5, <1>7, <1>8, <1>9 DEF Sound
<1> QED BY <1>1, <1>2, <1>10 DEF Inv, v

\* What the end of a connection, or its establishment, changes of a socket.
LEMMA EstablishedStep ==
    ASSUME Inv, NEW fd \in Fds, NEW up \in BOOLEAN, NEW err \in BOOLEAN, NEW fin \in BOOLEAN,
           socket[fd].err => err, socket[fd].fin => fin,
           Turns(fd, [socket[fd] EXCEPT !.up = up, !.err = err, !.fin = fin]), troubles' \in Nat
    PROVE  Inv'
<1> DEFINE sock == socket[fd]
           to == [sock EXCEPT !.up = up, !.err = err, !.fin = fin]
<1>1. sock \in Socket
  BY DEF Inv, Sound, Threads, Thread
<1>2. /\ to \in Socket /\ to.owner = sock.owner /\ to.owed = sock.owed /\ to.inbox = sock.inbox
      /\ to.err = err /\ to.fin = fin
  BY <1>1 DEF Socket
<1>3. Turns(fd, to)
  OBVIOUS
<1>4. (sock.err => err) /\ (sock.fin => fin)
  OBVIOUS
<1> HIDE DEF to
<1>5. ASSUME NEW w, NEW v, NEW d,
             w.fd[d] = fd, v.fd[d] = fd, w.socket[fd] = sock, v.socket[fd] = to,
             w.events[fd] = v.events[fd], w.timers[d] = v.timers[d],
             w.delayed[d] = v.delayed[d], w.written[d] = v.written[d],
             w.pending[d] = v.pending[d], Served(w, d, <<>>)
      PROVE  Served(v, d, <<>>)
  <2>1. Quiet(sock, <<>>) => Quiet(to, <<>>)
    BY <1>2 DEF Quiet
  <2>2. Ending(sock, <<>>) => Ending(to, <<>>)
    BY <1>2, <1>4 DEF Ending
  <2> HIDE DEF sock
  <2>3. Awaiting(w, d, <<>>) => Awaiting(v, d, <<>>)
    BY <1>2, <1>4, <1>5, <2>2 DEF Awaiting
  <2> QED BY <1>2, <1>5, <2>1, <2>3 DEF Served, Connecting, Writing, Delaying, Begun
<1> QED BY <1>2, <1>3, <1>5, TurnStep

\* An answer that the server gives is one that it owed.
LEMMA AnswersStep ==
    ASSUME Inv, NEW fd \in Fds, Answers(fd)
    PROVE  Inv'
<1> DEFINE sock == socket[fd]
<1>1. sock \in Socket /\ troubles' \in Nat /\ sock.owed > 0
  BY DEF Inv, Sound, Threads, Thread, Answers
<1>2. sock.owed \in Nat /\ sock.inbox \in Seq(Answer) /\ Len(sock.inbox) \in Nat
  BY <1>1, LenProperties DEF Socket
<1>3. ASSUME NEW x \in Answer
      PROVE  /\ <<x>> \in Seq(Answer) /\ sock.inbox \o <<x>> \in Seq(Answer)
             /\ Len(sock.inbox \o <<x>>) = Len(sock.inbox) + 1
             /\ Range(sock.inbox \o <<x>>) = Range(sock.inbox) \cup {x}
  <2>1. <<x>> \in Seq(Answer) /\ Len(<<x>>) = 1 /\ DOMAIN <<x>> = {1} /\ <<x>>[1] = x
    OBVIOUS
  <2>2. Range(<<x>>) = {x}
    BY <2>1 DEF Range
  <2> HIDE DEF sock
  <2>3. /\ sock.inbox \o <<x>> \in Seq(Answer)
        /\ Len(sock.inbox \o <<x>>) = Len(sock.inbox) + 1
    BY <1>2, <2>1, ConcatProperties
  <2>4. Range(sock.inbox \o <<x>>) = Range(sock.inbox) \cup Range(<<x>>)
    <3> DEFINE inbox == sock.inbox
               end == <<x>>
    <3>1. inbox \in Seq(Answer) /\ end \in Seq(Answer)
      BY <1>2, <2>1
    <3> HIDE DEF inbox, end
    <3>2. Range(inbox \o end) = Range(inbox) \cup Range(end)
      BY <3>1, RangeConcatenation
    <3> QED BY <3>2 DEF inbox, end
  <2> QED BY <2>1, <2>2, <2>3, <2>4
<1>4. PICK x, owed, fin :
          /\ x \in Answer
          /\ Turns(fd, [sock EXCEPT !.owed = owed, !.inbox = @ \o <<x>>, !.fin = fin])
          /\ \/ owed = sock.owed - 1 /\ fin = sock.fin /\ x # "body"
             \/ owed = 0 /\ fin = TRUE
  <2> DEFINE to == [sock EXCEPT !.owed = @ - 1]
             Goal == \E x, owed, fin :
                        /\ x \in Answer
                        /\ Turns(fd, [sock EXCEPT !.owed = owed, !.inbox = @ \o <<x>>, !.fin = fin])
                        /\ \/ owed = sock.owed - 1 /\ fin = sock.fin /\ x # "body"
                           \/ owed = 0 /\ fin = TRUE
  <2>1. ASSUME NEW end \in {<<"keep">>, <<"close">>}, Turns(fd, [to EXCEPT !.inbox = @ \o end])
        PROVE  Goal
    <3>1. PICK x \in {"keep", "close"} : end = <<x>>
      OBVIOUS
    <3>2. [to EXCEPT !.inbox = @ \o end] =
              [sock EXCEPT !.owed = sock.owed - 1, !.inbox = @ \o <<x>>, !.fin = sock.fin]
      BY <1>1, <3>1 DEF Socket
    <3>3. x \in Answer /\ x # "body"
      BY DEF Answer
    <3> QED BY <2>1, <3>2, <3>3
  <2>2. ASSUME NEW end \in {<<"close">>, <<"body">>},
               Turns(fd, [to EXCEPT !.inbox = @ \o end, !.owed = 0, !.fin = TRUE])
        PROVE  Goal
    <3>1. PICK x \in {"close", "body"} : end = <<x>>
      OBVIOUS
    <3>2. [to EXCEPT !.inbox = @ \o end, !.owed = 0, !.fin = TRUE] =
              [sock EXCEPT !.owed = 0, !.inbox = @ \o <<x>>, !.fin = TRUE]
      BY <1>1, <3>1 DEF Socket
    <3>3. x \in Answer
      BY DEF Answer
    <3> QED BY <2>2, <3>2, <3>3
  <2>3. \/ \E end \in {<<"keep">>, <<"close">>} : Turns(fd, [to EXCEPT !.inbox = @ \o end])
        \/ \E end \in {<<"close">>, <<"body">>} :
              Turns(fd, [to EXCEPT !.inbox = @ \o end, !.owed = 0, !.fin = TRUE])
    BY DEF Answers
  <2> HIDE DEF Goal, to
  <2>4. Goal
    BY <2>1, <2>2, <2>3
  <2> QED BY <2>4 DEF Goal
<1> DEFINE more == sock.inbox \o <<x>>
           to == [sock EXCEPT !.owed = owed, !.inbox = more, !.fin = fin]
<1>5. Turns(fd, to)
  BY <1>4
<1>6. owed \in Nat /\ fin \in BOOLEAN /\ owed + 1 <= sock.owed
  <2>1. fin \in BOOLEAN
    BY <1>1, <1>4 DEF Socket
  <2> HIDE DEF sock
  <2>2. owed \in Nat /\ owed + 1 <= sock.owed
    BY <1>1, <1>2, <1>4
  <2> QED BY <2>1, <2>2
<1>7. /\ more \in Seq(Answer) /\ Len(more) = Len(sock.inbox) + 1
      /\ Range(more) = Range(sock.inbox) \cup {x}
  BY <1>3, <1>4
<1> HIDE DEF more
<1>8. /\ to \in Socket /\ to.owner = sock.owner /\ to.owed = owed /\ to.inbox = more
      /\ to.err = sock.err /\ to.fin = fin
  BY <1>1, <1>6, <1>7 DEF Socket
<1> HIDE DEF to
<1>9. ASSUME NEW w, NEW v, NEW d,
             w.fd[d] = fd, v.fd[d] = fd, w.socket[fd] = sock, v.socket[fd] = to,
             w.events[fd] = v.events[fd], w.timers[d] = v.timers[d],
             w.delayed[d] = v.delayed[d], w.written[d] = v.written[d],
             w.pending[d] = v.pending[d], w.pending[d] \in Int, Served(w, d, <<>>)
      PROVE  Served(v, d, <<>>)
  <2> DEFINE before == sock.owed + Len(sock.inbox) + Len(<<>>)
             after == owed + Len(more) + Len(<<>>)
  <2>1. Awaiting(w, d, <<>>)
    BY <1>1, <1>9 DEF Served, Connecting, Writing, Delaying, Quiet
  <2>2. before \in Nat /\ after \in Nat /\ after <= before
        /\ (owed = sock.owed - 1 => after = before)
    <3> DEFINE a == sock.owed
               b == Len(sock.inbox)
    <3>1. /\ a \in Nat /\ b \in Nat /\ owed \in Nat /\ owed + 1 <= a
          /\ Len(<<>>) = 0 /\ Len(more) = b + 1
      BY <1>2, <1>6, <1>7, EmptySeq
    <3> HIDE DEF a, b
    <3>2. /\ a + b + 0 \in Nat /\ owed + (b + 1) + 0 \in Nat /\ owed + (b + 1) + 0 <= a + b + 0
          /\ owed = a - 1 => owed + (b + 1) + 0 = a + b + 0
      BY <3>1
    <3> QED BY <3>1, <3>2 DEF a, b
  <2>3. /\ before <= w.pending[d] /\ (Ending(sock, <<>>) \/ before = w.pending[d])
        /\ "body" \in Range(sock.inbox) \cup Range(<<>>) => sock.fin
        /\ "w" \notin w.events[fd].mask /\ w.events[fd].rproc = "socket_readable"
        /\ w.timers[d] = 0 /\ w.written[d] = 0 /\ w.pending[d] > 0
    BY <1>9, <2>1 DEF Awaiting
  <2> HIDE DEF before, after, sock
  <2>4. after <= w.pending[d]
    BY <1>9, <2>2, <2>3
  <2>5. Ending(to, <<>>) \/ after = w.pending[d]
    <3>1. CASE fin
      BY <1>8, <3>1 DEF Ending
    <3>2. CASE ~fin
      <4>1. after = before /\ fin = sock.fin
        BY <1>4, <2>2, <3>2
      <4>2. Ending(sock, <<>>) => Ending(to, <<>>)
        BY <1>7, <1>8, <4>1 DEF Ending
      <4> QED BY <2>3, <4>1, <4>2
    <3> QED BY <3>1, <3>2
  <2>6. "body" \in Range(more) \cup Range(<<>>) => fin
    BY <1>4, <1>7, <2>3
  <2>7. Awaiting(v, d, <<>>)
    <3>1. v.socket[v.fd[d]] = to /\ v.events[v.fd[d]] = w.events[fd]
      BY <1>9
    <3>2. to.owed + Len(to.inbox) + Len(<<>>) = after
      BY <1>8 DEF after
    <3> QED BY <1>8, <1>9, <2>3, <2>4, <2>5, <2>6, <3>1, <3>2 DEF Awaiting
  <2> QED BY <1>8, <1>9, <2>7 DEF Served
<1> QED BY <1>1, <1>5, <1>8, <1>9, TurnStep

-----------------------------------------------------------------------------
(* The start, and the theorem.                                             *)

LEMMA NewThreadSound ==
    ASSUME delay \in BOOLEAN
    PROVE  Sound(NewThread, {}) /\ \A d \in Conns : Unattached(NewThread, d)
<1>1. NoEvents \in Event /\ NoEvents.mask = {}
  BY DEF NoEvents, Event, Procs
<1>2. Closed \in Socket /\ Closed.owner = Nobody
  <2>1. <<>> \in Seq(Answer)
    BY EmptySeq
  <2> QED BY <2>1 DEF Closed, Socket
<1>3. /\ NewThread \in Threads
      /\ \A d \in Conns : NewThread.timers[d] = 0
      /\ \A g \in Fds : NewThread.events[g] = NoEvents /\ NewThread.socket[g] = Closed
  BY <1>1, <1>2 DEF NewThread, Threads
<1>4. \A g \in Fds : Registered(NewThread, g) /\ Held(NewThread, g)
  BY <1>1, <1>2, <1>3 DEF Registered, Held
<1>5. \A d \in Conns : Unattached(NewThread, d)
  BY <1>1, <1>2, <1>3, Numbers DEF Unattached
<1>6. \A d \in Conns : ~(NewThread.timers[d] > 0)
  BY <1>3
<1> QED BY <1>3, <1>4, <1>5, <1>6 DEF Sound

StartedUpTo(upTo, F) ==
    upTo = [c \in 0 .. Connections |->
                IF c = 0 THEN NewThread ELSE connect_socket(upTo[c - 1], c, c \in F)]

LEMMA StartedExists ==
    ASSUME delay \in BOOLEAN, NEW F
    PROVE  \E upTo : StartedUpTo(upTo, F)
<1> DEFINE G == [x \in Nat \X Threads |->
                    IF x[1] + 1 \in Conns THEN connect_socket(x[2], x[1] + 1, x[1] + 1 \in F)
                    ELSE x[2]]
<1>1. NewThread \in Threads
  BY NewThreadSound DEF Sound
<1>2. ASSUME NEW t \in Threads, NEW c \in Conns, NEW failing
      PROVE  connect_socket(t, c, failing) \in Threads
  BY <1>2, Connects DEF LostBy, OpenedBy
<1>3. G \in [Nat \X Threads -> Threads]
  BY <1>2
<1>4. \A n \in Nat, t \in Threads : n + 1 \in Conns => G[<<n, t>>] = connect_socket(t, n + 1, n + 1 \in F)
  OBVIOUS
<1> HIDE DEF G
<1>5. PICK f : Recursive(f, Threads, NewThread, G)
  BY <1>1, <1>3, Recursion
<1>6. /\ f \in [Nat -> Threads] /\ f[0] = NewThread
      /\ \A n \in Nat : f[n + 1] = G[<<n, f[n]>>]
  BY <1>5 DEF Recursive
<1> DEFINE upTo == [c \in 0 .. Connections |-> f[c]]
<1>7. Connections \in Nat
  BY WrkAssumption DEF WrkAssumption
<1>8. ASSUME NEW c \in 0 .. Connections
      PROVE  upTo[c] = IF c = 0 THEN NewThread ELSE connect_socket(upTo[c - 1], c, c \in F)
  <2>1. CASE c = 0
    BY <1>6, <2>1
  <2>2. CASE c # 0
    <3> DEFINE n == c - 1
    <3>1. n \in Nat /\ n \in 0 .. Connections /\ n + 1 = c /\ c \in Conns
      BY <1>7, <2>2 DEF Conns
    <3> HIDE DEF n
    <3>2. f[c] = G[<<n, f[n]>>] /\ f[n] \in Threads
      BY <1>6, <3>1
    <3>3. f[c] = connect_socket(f[n], c, c \in F)
      BY <1>4, <3>1, <3>2
    <3>4. upTo[c] = f[c] /\ upTo[n] = f[n]
      BY <3>1
    <3>5. upTo[c] = connect_socket(upTo[n], c, c \in F)
      BY <3>3, <3>4
    <3> QED BY <2>2, <3>5 DEF n
  <2> QED BY <2>1, <2>2
<1>9. StartedUpTo(upTo, F)
  <2>1. upTo = [c \in 0 .. Connections |-> upTo[c]]
    OBVIOUS
  <2> HIDE DEF upTo
  <2> QED BY <1>8, <2>1 DEF StartedUpTo
<1> QED BY <1>9

\* thread_main connects the connections one after the other.
LEMMA StartedSound ==
    ASSUME delay \in BOOLEAN, NEW F
    PROVE  Sound(Started(F), Conns)
<1> DEFINE upTo == CHOOSE upTo : StartedUpTo(upTo, F)
<1>1. StartedUpTo(upTo, F)
  BY StartedExists
<1>2. Started(F) = upTo[Connections]
  BY DEF Started, StartedUpTo
<1> HIDE DEF upTo
<1>3. Connections \in Nat /\ Connections \in 0 .. Connections
  BY WrkAssumption DEF WrkAssumption
<1>4. \A n \in 0 .. Connections :
          upTo[n] = IF n = 0 THEN NewThread ELSE connect_socket(upTo[n - 1], n, n \in F)
  BY <1>1 DEF StartedUpTo
<1> DEFINE Fine(n) == /\ Sound(upTo[n], 1 .. n)
                      /\ \A d \in Conns \ (1 .. n) : Unattached(upTo[n], d)
           T == {n \in 0 .. Connections : ~Fine(n)}
<1>5. T = {}
  <2> SUFFICES ASSUME T # {} PROVE FALSE
    OBVIOUS
  <2>1. PICK n \in T : \A k \in T : n <= k
    <3> HIDE DEF T
    <3>1. T \subseteq Nat
      BY <1>3 DEF T
    <3> QED BY <3>1, Least
  <2>2. n \in 0 .. Connections /\ n \in Nat /\ ~Fine(n)
    BY <1>3, <2>1
  <2>3. CASE n = 0
    <3>1. upTo[n] = NewThread /\ 1 .. n = {}
      BY <1>4, <2>2, <2>3
    <3>2. Sound(upTo[n], 1 .. n) /\ \A d \in Conns : Unattached(upTo[n], d)
      BY <3>1, NewThreadSound
    <3> QED BY <2>2, <3>2
  <2>4. CASE n # 0
    <3> DEFINE k == n - 1
               D == 1 .. k
    <3>1. k \in 0 .. Connections /\ k \in Nat /\ k < n /\ n \in Conns
      BY <1>3, <2>2, <2>4 DEF Conns
    <3>2. Fine(k)
      BY <2>1, <3>1
    <3>3. upTo[n] = connect_socket(upTo[k], n, n \in F)
      BY <1>4, <2>2, <2>4
    <3>4. D \in SUBSET Conns /\ n \in Conns \ D /\ D \cup {n} = 1 .. n
      BY <1>3, <2>2, <2>4 DEF Conns
    <3> HIDE DEF T, k
    <3>5. Sound(upTo[k], D) /\ \A d \in Conns \ D : Unattached(upTo[k], d)
      BY <3>2
    <3> HIDE DEF Fine, D
    <3> DEFINE v == connect_socket(upTo[k], n, n \in F)
    <3>6. /\ Sound(v, D \cup {n})
          /\ \A d \in Conns \ {n} : Unattached(upTo[k], d) => Unattached(v, d)
      BY <3>4, <3>5, ConnectSound
    <3> HIDE DEF v
    <3>7. \A d \in Conns \ (D \cup {n}) : Unattached(v, d)
      BY <3>5, <3>6
    <3>8. v = upTo[n]
      BY <3>3 DEF v
    <3> QED BY <2>2, <3>4, <3>6, <3>7, <3>8 DEF Fine
  <2> QED BY <2>3, <2>4
<1>6. Fine(Connections)
  BY <1>3, <1>5
<1>7. 1 .. Connections = Conns
  BY DEF Conns
<1> QED BY <1>2, <1>6, <1>7

LEMMA WrkInitial == Init => Inv
<1> SUFFICES ASSUME Init PROVE Inv
  OBVIOUS
<1>1. delay \in BOOLEAN
  BY DEF Init
<1>2. PICK F : /\ fd_ = Started(F).fd /\ delayed = Started(F).delayed
               /\ written = Started(F).written
               /\ pending = Started(F).pending /\ parser = Started(F).parser
               /\ events = Started(F).events /\ timers = Started(F).timers
               /\ socket = Started(F).socket /\ troubles = Started(F).troubles
               /\ lost = Started(F).lost /\ disturbed = Started(F).disturbed
  BY DEF Init
<1>3. Sound(Started(F), Conns) /\ Started(F) \in Threads
  BY <1>1, StartedSound DEF Sound
<1>4. Thread = Started(F)
  BY <1>2, <1>3 DEF Thread, Threads
<1> QED BY <1>1, <1>3, <1>4 DEF Inv

LEMMA WrkStep == Inv /\ [Next]_vars => Inv'
<1> SUFFICES ASSUME Inv, [Next]_vars PROVE Inv'
  OBVIOUS
<1>1. CASE UNCHANGED <<wrkVars, delay>>
  <2>1. Thread' = Thread /\ delay' = delay
    BY <1>1 DEF wrkVars, Thread
  <2> QED BY <2>1 DEF Inv
<1>2. ASSUME NEW fd \in Fds, HandleEvent(fd) PROVE Inv'
  BY <1>2, HandleEventStep
<1>3. ASSUME NEW c \in Conns, FireDelay(c) PROVE Inv'
  BY <1>3, FireDelayStep
<1>4. ASSUME NEW fd \in Fds PROVE troubles \in Nat /\ socket[fd] \in Socket
  BY DEF Inv, Sound, Threads, Thread
<1>5. ASSUME NEW fd \in Fds, NEW up \in BOOLEAN, NEW err \in BOOLEAN, NEW fin \in BOOLEAN,
             socket[fd].err => err, socket[fd].fin => fin,
             Turns(fd, [socket[fd] EXCEPT !.up = up, !.err = err, !.fin = fin]), troubles' \in Nat
      PROVE  Inv'
  BY <1>5, EstablishedStep
<1>6. ASSUME NEW fd \in Fds, Established(fd) PROVE Inv'
  <2> DEFINE sock == socket[fd]
  <2>1. [sock EXCEPT !.up = TRUE] = [sock EXCEPT !.up = TRUE, !.err = sock.err, !.fin = sock.fin]
    BY <1>4 DEF Socket
  <2>2. sock.err \in BOOLEAN /\ sock.fin \in BOOLEAN /\ troubles' \in Nat
    BY <1>4, <1>6 DEF Socket, Established
  <2>3. Turns(fd, [sock EXCEPT !.up = TRUE, !.err = sock.err, !.fin = sock.fin])
    BY <1>6, <2>1 DEF Established
  <2> QED BY <1>5, <2>2, <2>3
<1>7. ASSUME NEW fd \in Fds, Dropped(fd) PROVE Inv'
  <2> DEFINE sock == socket[fd]
  <2>1. /\ [sock EXCEPT !.err = TRUE] = [sock EXCEPT !.up = sock.up, !.err = TRUE, !.fin = sock.fin]
        /\ [sock EXCEPT !.fin = TRUE] = [sock EXCEPT !.up = sock.up, !.err = sock.err, !.fin = TRUE]
    BY <1>4 DEF Socket
  <2>2. sock.up \in BOOLEAN /\ sock.err \in BOOLEAN /\ sock.fin \in BOOLEAN /\ troubles' \in Nat
    BY <1>4, <1>7 DEF Socket, Dropped
  <2>3. \/ Turns(fd, [sock EXCEPT !.up = sock.up, !.err = TRUE, !.fin = sock.fin])
        \/ Turns(fd, [sock EXCEPT !.up = sock.up, !.err = sock.err, !.fin = TRUE])
    BY <1>7, <2>1 DEF Dropped
  <2> QED BY <1>5, <2>2, <2>3
<1>8. ASSUME NEW fd \in Fds, Answers(fd) PROVE Inv'
  BY <1>8, AnswersStep
<1>9. CASE Poll \/ EventsDone \/ TimersDone \/ RecordRate \/ MainStops \/ UNCHANGED vars
  BY <1>1, <1>9 DEF Poll, EventsDone, TimersDone, RecordRate, MainStops, vars
<1> QED BY <1>2, <1>3, <1>6, <1>7, <1>8, <1>9 DEF Next, LoopStep, TimerStep, Server

\* What the connection is at says what it waits for.
LEMMA ServedKept ==
    ASSUME Inv, NEW c \in Conns \ (lost \cup disturbed)
    PROVE  Kept(c)
<1> DEFINE sock == socket[fd_[c]]
           has == events[fd_[c]]
           len == Len(sock.inbox)
           known == sock.owed + len
           ends == sock.fin \/ sock.err \/ "close" \in Range(sock.inbox)
<1>1. Served(Thread, c, <<>>)
  <2>1. Each(Thread, c, <<>>) /\ Thread.lost = lost /\ Thread.disturbed = disturbed
    BY DEF Inv, Sound, Thread
  <2> QED BY <2>1 DEF Each
<1>2. /\ Thread.fd = fd_ /\ Thread.socket = socket /\ Thread.events = events
      /\ Thread.timers = timers /\ Thread.delayed = delayed /\ Thread.pending = pending
  BY DEF Thread
<1>3. fd_[c] \in Fds /\ sock.owner = c /\ has.data = c /\ "r" \in has.mask
  BY <1>1, <1>2 DEF Served
<1>4. /\ sock.owed \in Nat /\ sock.inbox \in Seq(Answer) /\ len \in Nat
      /\ pending[c] \in Int /\ timers[c] \in Nat
  <2>1. Thread \in Threads
    BY DEF Inv, Sound
  <2>2. sock \in Socket /\ pending[c] \in Int /\ timers[c] \in Nat
    BY <1>2, <1>3, <2>1 DEF Threads
  <2> QED BY <2>2, LenProperties DEF Socket
<1>5. Range(<<>>) = {} /\ Len(<<>>) = 0
  BY EmptySeq DEF Range
<1>6. CASE Awaiting(Thread, c, <<>>)
  <2>1. "w" \notin has.mask /\ timers[c] = 0
    BY <1>2, <1>6 DEF Awaiting
  <2>2. pending[c] > 0 /\ (Ending(sock, <<>>) \/ sock.owed + len + 0 = pending[c])
    BY <1>2, <1>5, <1>6 DEF Awaiting
  <2>3. Ending(sock, <<>>) => ends
    BY <1>5 DEF Ending
  <2>4. ends \/ known = pending[c]
    <3> HIDE DEF sock, len
    <3>1. sock.owed + len + 0 = sock.owed + len
      BY <1>4
    <3> QED BY <2>2, <2>3, <3>1
  <2>5. sock.inbox = <<>> => Range(sock.inbox) = {} /\ len = 0
    BY <1>5
  <2>6. sock.owed > 0 \/ sock.inbox # <<>> \/ sock.fin \/ sock.err
    <3> SUFFICES ASSUME sock.inbox = <<>>, ~sock.fin, ~sock.err PROVE sock.owed > 0
      OBVIOUS
    <3>1. ~ends /\ len = 0
      BY <2>5
    <3> HIDE DEF len, ends
    <3>2. sock.owed + 0 = pending[c]
      BY <2>4, <3>1
    <3> HIDE DEF sock
    <3> QED BY <1>4, <2>2, <3>2
  <2> QED BY <1>3, <2>1, <2>4, <2>6 DEF Kept
<1>7. CASE Connecting(Thread, c, <<>>) \/ Writing(Thread, c, <<>>) \/ Delaying(Thread, c, <<>>)
  <2>1. /\ ~("w" \notin has.mask /\ timers[c] = 0)
        /\ timers[c] > 0 => delayed[c] /\ "w" \notin has.mask
        /\ Quiet(sock, <<>>)
    BY <1>2, <1>7 DEF Connecting, Writing, Delaying
  <2>2. known = 0
    BY <1>5, <2>1 DEF Quiet
  <2> QED BY <1>3, <2>1, <2>2 DEF Kept
<1> QED BY <1>1, <1>6, <1>7 DEF Served

LEMMA WrkSound == Spec => []Inv
<1>1. Init => Inv
  BY WrkInitial
<1>2. Inv /\ [Next]_vars => Inv'
  BY WrkStep
<1> QED BY <1>1, <1>2, PTL DEF Spec

\* However connects fail, connections drop, answers are cut and events are ordered, and
\* whatever connections, descriptors and requests there are, the loop serves a connection
\* that neither has lost its socket nor met a stray timer, and it awaits the answers that are
\* still to come (wrk.c:236-271, 291-296, 324-448, ae.c:139-178, 394-415).
THEOREM WrkKeepsConnections == Spec => []ConnectionsKept
<1>1. Inv => ConnectionsKept
  <2> SUFFICES ASSUME Inv PROVE ConnectionsKept
    OBVIOUS
  <2>1. ASSUME NEW fd \in Fds, socket[fd].owner = Nobody PROVE events[fd].mask = {}
    <3>1. Registered(Thread, fd) /\ Thread.socket = socket /\ Thread.events = events
      BY DEF Inv, Sound, Thread
    <3> QED BY <2>1, <3>1 DEF Registered
  <2> QED BY <2>1, ServedKept DEF ConnectionsKept
<1> QED BY <1>1, WrkSound, PTL
=============================================================================
