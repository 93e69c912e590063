------------------------------ MODULE Sockets ------------------------------
(***************************************************************************)
(* What the select and the fork server share: the clients, their           *)
(* connections, and the functions of HttpHandler that look at one read.    *)
(*                                                                         *)
(* Data.  The k-th request of a connection is two tokens, 2k-1 (request    *)
(* line and headers) and 2k (the end of the header).  These two servers    *)
(* keep no buffer: what one recv returns, a chunk of consecutive tokens,   *)
(* is handled as one request.  recv is given room for 2047 bytes           *)
(* (TcpServer.cpp:167-168, HttpHandler.cpp:241-242): the first token of a  *)
(* long request fills it, whether or not the rest is there.                *)
(*                                                                         *)
(* The sockets block: a send to a client that does not read what it was    *)
(* sent waits until it does, or until it has gone.                         *)
(***************************************************************************)
EXTENDS Naturals, Sequences, FiniteSets

CONSTANTS
    Conns,     \* one identity per TCP connection ever made
    MaxReq,    \* connection -> requests its client may send
    Cutters,   \* the connections whose requests may come in halves
    Closing,   \* the requests <<connection, k>> that say "Connection: close";
               \* the others say nothing of it
    Long       \* the requests that are longer than what one recv returns

ASSUME SocketsAssumption ==
    /\ MaxReq \in [Conns -> Nat]
    /\ Cutters \subseteq Conns
    /\ Closing \subseteq Conns \X Nat
    /\ Long \subseteq Conns \X Nat

VARIABLES
    peer,      \* connection -> "new", "backlog", "open", "closed"
    sent,      \* connection -> tokens the client has put on the wire
    rcvd,      \* connection -> tokens the server has taken off it
    fin,       \* connection -> the client has hung up
    full,      \* connection -> its client has not read what it was sent, and
               \*               there is no room for more
    inbox,     \* history: connection -> chunks its client was answered
    polite     \* history: connection -> its client sent whole requests, each in
               \*          one piece that one recv returns and after the answer
               \*          to the last

client == <<sent, fin, polite>>
replies == <<full, inbox>>
sockets == <<peer, sent, rcvd, fin, full, inbox, polite>>

Backlog == {c \in Conns : peer[c] = "backlog"}
Readable(c) == sent[c] > rcvd[c] \/ fin[c]

Request(c, k) == [of |-> c, from |-> 2 * k - 1, to |-> 2 * k]
Answered(c, k) == Request(c, k) \in inbox[c]

\* What recv takes off the connection now: all there is, or as far as the first
\* token of a long request.
Filled(c) == {k \in 1 .. MaxReq[c] :
    <<c, k>> \in Long /\ rcvd[c] < 2 * k - 1 /\ 2 * k - 1 <= sent[c]}

Ends(c) == {sent[c]} \cup {2 * k - 1 : k \in Filled(c)}

Chunk(c) == [of |-> c, from |-> rcvd[c] + 1,
             to |-> CHOOSE n \in Ends(c) : \A m \in Ends(c) : n <= m]

\* isRequestComplete: there is an end of a header somewhere in the chunk.
Complete(chunk) == \E n \in chunk.from .. chunk.to : n % 2 = 0

\* ~shouldKeepAlive: the first "Connection:" in the chunk says close.
AsksToClose(chunk) ==
    \E k \in 1 .. chunk.to : <<chunk.of, k>> \in Closing /\ 2 * k - 1 \in chunk.from .. chunk.to

SocketsInit ==
    /\ peer = [c \in Conns |-> "new"]
    /\ sent = [c \in Conns |-> 0]
    /\ rcvd = [c \in Conns |-> 0]
    /\ fin = [c \in Conns |-> FALSE]
    /\ full = [c \in Conns |-> FALSE]
    /\ inbox = [c \in Conns |-> {}]
    /\ polite = [c \in Conns |-> TRUE]

Connect(c) ==
    /\ peer[c] = "new"
    /\ peer' = [peer EXCEPT ![c] = "backlog"]
    /\ UNCHANGED <<client, rcvd, replies>>

\* Half a request or a whole one, as far as it goes.
Send(c) ==
    /\ peer[c] \in {"backlog", "open"}
    /\ ~fin[c]
    /\ \E n \in {1, 2} :
          /\ n = 1 => c \in Cutters
          /\ sent[c] + n <= 2 * MaxReq[c]
          /\ sent' = [sent EXCEPT ![c] = @ + n]
          /\ polite' = [polite EXCEPT ![c] =
                /\ @ /\ n = 2
                /\ <<c, sent[c] \div 2 + 1>> \notin Long
                /\ sent[c] = 0 \/ Answered(c, sent[c] \div 2)]
    /\ UNCHANGED <<peer, rcvd, fin, replies>>

\* An orderly close (end of file after the data) or a reset (the data is lost).  A
\* send waits for room no longer.
HangUp(c) ==
    /\ peer[c] \in {"backlog", "open"}
    /\ ~fin[c]
    /\ fin' = [fin EXCEPT ![c] = TRUE]
    /\ \E n \in {sent[c], rcvd[c]} : sent' = [sent EXCEPT ![c] = n]
    /\ full' = [full EXCEPT ![c] = FALSE]
    /\ UNCHANGED <<peer, rcvd, inbox, polite>>

\* The client takes what it was sent, and there is room again.
Reads(c) ==
    /\ full[c]
    /\ full' = [full EXCEPT ![c] = FALSE]
    /\ UNCHANGED <<peer, client, rcvd, inbox>>

\* A part of an answer goes out, and the next send finds no room.
SendPart(c) ==
    /\ ~full[c] /\ ~fin[c]
    /\ full' = [full EXCEPT ![c] = TRUE]

ClientStep(c) == Connect(c) \/ Send(c) \/ HangUp(c) \/ Reads(c)

SocketsTypeOK ==
    /\ peer \in [Conns -> {"new", "backlog", "open", "closed"}]
    /\ sent \in [Conns -> Nat] /\ rcvd \in [Conns -> Nat]
    /\ \A c \in Conns : rcvd[c] <= sent[c] /\ sent[c] <= 2 * MaxReq[c]
    /\ fin \in [Conns -> BOOLEAN] /\ full \in [Conns -> BOOLEAN] /\ polite \in [Conns -> BOOLEAN]
=============================================================================
