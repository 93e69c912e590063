------------------------- MODULE HttpHandlerProofs -------------------------
(***************************************************************************)
(* Proofs, for any number of workers, clients and requests, any responses  *)
(* and any room in the sockets, that HttpHandler never counts too few      *)
(* connections and that dynamic responses and file headers on connections  *)
(* left open are whole; and that the loop which splits a stream into       *)
(* requests loses nothing of it and does the same wherever it is cut.      *)
(***************************************************************************)
EXTENDS HttpHandler, QueueLemmas

Jobs == [client : Clients \cup {"none"}, kind : Kinds \cup {"none"}, req : 0 .. MaxReq]

-----------------------------------------------------------------------------
(* What a worker at work has done and has yet to do.                       *)

\* What was sent and what is left make up the part, but for blocks of a file, whose
\* loss nobody notices.
Adds(w) ==
    /\ left[w] \in 1 .. Units(at[w])
    /\ got[<<job[w].req, at[w]>>] + left[w] <= Units(at[w])
    /\ at[w] # "block" => got[<<job[w].req, at[w]>>] + left[w] = Units(at[w])

\* Parts come in order.
InSequence(w) ==
    /\ at[w] # "dynamic" => got[<<job[w].req, "dynamic">>] = 0
    /\ at[w] = "head" => got[<<job[w].req, "block">>] = 0
    /\ at[w] = "block" => got[<<job[w].req, "head">>] = Length
    /\ at[w] \in {"head", "block"} => job[w].kind = "file"
    /\ at[w] = "json" => job[w].kind \in {"api", "status"}

Assigned(w) ==
    /\ job[w].client \in Clients /\ job[w].kind \in Kinds
    /\ job[w].req \in 1 .. total_requests

Working == \A w \in Workers : at[w] # "idle" => Assigned(w) /\ Adds(w) /\ InSequence(w)

\* No two handlers have one request, and a request that is over stays so.
Single ==
    /\ \A v, w \in Busy : job[v].req = job[w].req => v = w
    /\ \A e \in ended : e.req \in 1 .. total_requests /\ \A w \in Busy : job[w].req # e.req

\* Nothing is sent for a request that has not come.
Unsent == \A r \in 1 .. MaxReq, p \in Parts : r > total_requests => got[<<r, p>>] = 0

Counted == Cardinality(Busy) <= active_connections /\ active_connections <= total_requests

Types ==
    /\ at \in [Workers -> Parts \cup {"idle"}]
    /\ job \in [Workers -> Jobs]
    /\ left \in [Workers -> Nat]
    /\ \A w \in Workers : at[w] = "idle" => left[w] = 0
    /\ active_connections \in Int
    /\ total_requests \in 0 .. MaxReq
    /\ room \in [Clients -> 0 .. Room]
    /\ peer \in [Clients -> {"here", "reset", "dead"}]
    /\ alive \in BOOLEAN
    /\ got \in [(1 .. MaxReq) \X Parts -> Nat]
    /\ \A r \in 1 .. MaxReq, p \in Parts : got[<<r, p>>] <= Units(p)

Handled == Types /\ Working /\ Single /\ Unsent /\ Counted /\ ResponsesWhole

LEMMA Numbers ==
    /\ Length \in Nat \ {0} /\ Room \in Nat \ {0} /\ MaxReq \in Nat
    /\ \A p : Units(p) \in Nat \ {0} /\ Units(p) <= Length
    /\ Parts = {"403", "head", "block", "json", "dynamic"}
<1>1. Length \in Nat \ {0} /\ Room \in Nat \ {0} /\ MaxReq \in Nat
  BY HttpAssumption
<1> QED BY <1>1 DEF Units, Parts

LEMMA BusyCount == IsFiniteSet(Busy) /\ Cardinality(Busy) \in Nat
<1>1. Busy \subseteq Workers
  BY DEF Busy
<1>2. IsFiniteSet(Workers)
  BY HttpAssumption
<1> QED BY <1>1, <1>2, FS_Subset, FS_CardinalityType

LEMMA HandledSuffices == Handled => NeverUndercounts /\ ResponsesWhole
<1> SUFFICES ASSUME Handled PROVE NeverUndercounts
  BY DEF Handled
<1>1. \A w \in Workers : left[w] \in 0 .. Length /\ (at[w] = "idle" <=> left[w] = 0)
  <2> SUFFICES ASSUME NEW w \in Workers PROVE left[w] \in 0 .. Length /\ (at[w] = "idle" <=> left[w] = 0)
    OBVIOUS
  <2>1. CASE at[w] = "idle"
    BY <2>1, Numbers DEF Handled, Types
  <2>2. CASE at[w] # "idle"
    <3>1. left[w] \in 1 .. Units(at[w]) /\ Units(at[w]) \in Nat /\ Units(at[w]) <= Length
      BY <2>2, Numbers DEF Handled, Working, Adds
    <3> QED BY <2>2, <3>1, Numbers
  <2> QED BY <2>1, <2>2
<1>2. active_connections \in 0 .. MaxReq
  BY BusyCount, Numbers DEF Handled, Types, Counted
<1>3. active_connections >= Cardinality(Busy)
  BY BusyCount DEF Handled, Types, Counted
<1> QED BY <1>1, <1>2, <1>3 DEF NeverUndercounts, TypeOK, Handled, Types, Jobs

LEMMA HandledInit == Init => Handled
<1> SUFFICES ASSUME Init PROVE Handled
  OBVIOUS
<1>1. NoJob \in Jobs
  BY Numbers DEF NoJob, Jobs
<1>2. Types
  BY <1>1, Numbers DEF Init, Types
<1>3. Busy = {}
  BY DEF Init, Busy
<1>4. Cardinality(Busy) = 0
  BY <1>3, FS_EmptySet
<1>5. Working /\ Single /\ Unsent /\ ResponsesWhole
  BY <1>3, Numbers DEF Init, Working, Single, Unsent, ResponsesWhole
<1> QED BY <1>2, <1>4, <1>5 DEF Handled, Counted, Init

-----------------------------------------------------------------------------
(* A send, and what becomes of the worker.                                 *)

\* Only the part that w is sending can have gone further.
Wire(w) ==
    /\ total_requests' = total_requests
    /\ room' \in [Clients -> 0 .. Room]
    /\ peer' \in [Clients -> {"here", "reset", "dead"}]
    /\ alive' \in BOOLEAN
    /\ got' \in [(1 .. MaxReq) \X Parts -> Nat]
    /\ \A r \in 1 .. MaxReq, p \in Parts :
          r # job[w].req \/ p # at[w] => got'[<<r, p>>] = got[<<r, p>>]

LEMMA BusyFacts ==
    ASSUME Handled, NEW w \in Busy
    PROVE  /\ w \in Workers /\ at[w] \in Parts /\ job[w].client \in Clients /\ job[w].kind \in Kinds
           /\ job[w].req \in 1 .. MaxReq /\ job[w].req <= total_requests
           /\ total_requests \in Nat /\ total_requests <= MaxReq
           /\ <<job[w].req, at[w]>> \in (1 .. MaxReq) \X Parts
           /\ left[w] \in 1 .. Units(at[w]) /\ Units(at[w]) \in Nat /\ Units(at[w]) <= Length
           /\ got[<<job[w].req, at[w]>>] \in Nat
           /\ got[<<job[w].req, at[w]>>] + left[w] <= Units(at[w])
           /\ at[w] # "block" => got[<<job[w].req, at[w]>>] + left[w] = Units(at[w])
           /\ InSequence(w)
<1>1. w \in Workers /\ at[w] # "idle"
  BY DEF Busy
<1>2. Assigned(w) /\ Adds(w) /\ InSequence(w) /\ at[w] \in Parts
  BY <1>1 DEF Handled, Working, Types
<1>3. job[w].req \in 1 .. MaxReq /\ job[w].req <= total_requests
      /\ total_requests \in Nat /\ total_requests <= MaxReq
  BY <1>2, Numbers DEF Handled, Types, Assigned
<1>4. got[<<job[w].req, at[w]>>] \in Nat /\ <<job[w].req, at[w]>> \in (1 .. MaxReq) \X Parts
  BY <1>2, <1>3 DEF Handled, Types
<1> QED BY <1>1, <1>2, <1>3, <1>4, Numbers DEF Assigned, Adds

LEMMA EndedFacts ==
    ASSUME Handled, NEW e \in ended
    PROVE  e.req \in 1 .. MaxReq /\ e.req \in 1 .. total_requests /\ \A w \in Busy : job[w].req # e.req
<1>1. e.req \in 1 .. total_requests /\ \A w \in Busy : job[w].req # e.req
  BY DEF Handled, Single
<1>2. total_requests \in 0 .. MaxReq /\ MaxReq \in Nat
  BY Numbers DEF Handled, Types
<1> QED BY <1>1, <1>2

\* What send takes is counted exactly.
LEMMA TakeWire ==
    ASSUME Handled, NEW w \in Busy, NEW n \in Nat, Take(w, n)
    PROVE  /\ Wire(w) /\ n # 0 /\ n <= left[w]
           /\ got'[<<job[w].req, at[w]>>] = got[<<job[w].req, at[w]>>] + n
<1> DEFINE x == <<job[w].req, at[w]>>
           c == job[w].client
           g == got[x]
<1>1. x \in (1 .. MaxReq) \X Parts /\ c \in Clients /\ g \in Nat /\ left[w] \in Nat /\ g + left[w] <= Length
      /\ Length \in Nat
  BY BusyFacts, Numbers
<1>2. n > 0 /\ n <= left[w] /\ n <= room[c]
      /\ room' = [room EXCEPT ![c] = @ - n]
      /\ got' = [got EXCEPT ![x] = CountTo(@ + n)]
      /\ UNCHANGED <<peer, alive, total_requests>>
  BY DEF Take, Client
<1>3. room \in [Clients -> 0 .. Room] /\ peer \in [Clients -> {"here", "reset", "dead"}]
      /\ alive \in BOOLEAN /\ got \in [(1 .. MaxReq) \X Parts -> Nat]
  BY DEF Handled, Types
<1>4. CountTo(g + n) = g + n
  <2>1. ~(g + n > Length)
    BY <1>1, <1>2
  <2> QED BY <2>1 DEF CountTo
<1>5. room' \in [Clients -> 0 .. Room]
  <2>1. room[c] - n \in 0 .. Room
    BY <1>1, <1>2, <1>3, Numbers
  <2> QED BY <1>2, <1>3, <2>1
<1>6. got'[x] = g + n /\ g + n \in Nat /\ got' = [got EXCEPT ![x] = g + n]
  <2>1. g = got[x] /\ g \in Nat /\ n \in Nat
    BY <1>1
  <2> HIDE DEF x, g
  <2>2. got' = [got EXCEPT ![x] = g + n]
    BY <1>2, <1>4, <2>1
  <2> QED BY <1>1, <1>3, <2>1, <2>2
<1>7. got' \in [(1 .. MaxReq) \X Parts -> Nat]
  BY <1>3, <1>6
<1>8. ASSUME NEW r \in 1 .. MaxReq, NEW p \in Parts, r # job[w].req \/ p # at[w]
      PROVE  got'[<<r, p>>] = got[<<r, p>>]
  <2>1. <<r, p>> # x /\ <<r, p>> \in (1 .. MaxReq) \X Parts
    BY <1>8
  <2> QED BY <1>3, <1>6, <2>1
<1> QED BY <1>2, <1>3, <1>5, <1>6, <1>7, <1>8 DEF Wire

LEMMA FailWire ==
    ASSUME Handled, NEW w \in Busy,
           Fails(w) \/ (peer[Client(w)] = "dead" /\ UNCHANGED <<room, got, peer, alive, total_requests>>)
    PROVE  Wire(w) /\ got' = got
<1>1. room' = room /\ got' = got /\ alive' = alive /\ total_requests' = total_requests
      /\ (peer' = peer \/ peer' = [peer EXCEPT ![Client(w)] = "dead"])
  BY DEF Fails, Full, Reset
<1>2. room \in [Clients -> 0 .. Room] /\ peer \in [Clients -> {"here", "reset", "dead"}]
      /\ alive \in BOOLEAN /\ got \in [(1 .. MaxReq) \X Parts -> Nat]
  BY DEF Handled, Types
<1> QED BY <1>1, <1>2 DEF Wire

\* What a send leaves as it was, whatever the worker does next.
LEMMA OthersKept ==
    ASSUME Handled, NEW w \in Busy, Wire(w), got'[<<job[w].req, at[w]>>] <= Units(at[w]),
           \A u \in Workers \ {w} : at'[u] = at[u] /\ left'[u] = left[u] /\ job'[u] = job[u]
    PROVE  /\ \A u \in Workers \ {w} : at'[u] # "idle" => (Assigned(u) /\ Adds(u) /\ InSequence(u))'
           /\ \A r \in 1 .. MaxReq, p \in Parts : got'[<<r, p>>] <= Units(p)
           /\ Unsent'
           /\ \A u \in Busy' \ {w} : u \in Busy /\ job'[u] = job[u] /\ job[u].req # job[w].req
<1>1. ASSUME NEW r \in 1 .. MaxReq, NEW p \in Parts
      PROVE  got'[<<r, p>>] <= Units(p) /\ (r > total_requests' => got'[<<r, p>>] = 0)
  <2>1. got[<<r, p>>] <= Units(p) /\ (r > total_requests => got[<<r, p>>] = 0)
    BY DEF Handled, Types, Unsent
  <2>2. r > total_requests => r # job[w].req
    BY BusyFacts
  <2> QED BY <2>1, <2>2 DEF Wire
<1>2. ASSUME NEW u \in Workers \ {w}, at[u] # "idle"
      PROVE  u \in Busy /\ job[u].req # job[w].req /\ job[u].req \in 1 .. MaxReq /\ at[u] \in Parts
             /\ \A p \in Parts : got'[<<job[u].req, p>>] = got[<<job[u].req, p>>]
  <2>1. u \in Busy
    BY <1>2 DEF Busy
  <2>2. job[u].req # job[w].req
    BY <2>1 DEF Handled, Single
  <2>3. job[u].req \in 1 .. MaxReq /\ at[u] \in Parts
    BY <2>1, BusyFacts
  <2> QED BY <2>1, <2>2, <2>3 DEF Wire
<1>3. ASSUME NEW u \in Workers \ {w}, at'[u] # "idle"
      PROVE  (Assigned(u) /\ Adds(u) /\ InSequence(u))'
  <2>1. at'[u] = at[u] /\ left'[u] = left[u] /\ job'[u] = job[u] /\ at[u] # "idle"
    BY <1>3
  <2>2. Assigned(u) /\ Adds(u) /\ InSequence(u)
    BY <2>1 DEF Handled, Working
  <2>3. at[u] \in Parts /\ \A p \in Parts : got'[<<job[u].req, p>>] = got[<<job[u].req, p>>]
    BY <1>2, <2>1
  <2>4. {"dynamic", "block", "head"} \subseteq Parts
    BY DEF Parts
  <2>5. Adds(u)'
    BY <2>1, <2>2, <2>3 DEF Adds
  <2>6. InSequence(u)'
    BY <2>1, <2>2, <2>3, <2>4 DEF InSequence
  <2>7. Assigned(u)'
    BY <2>1, <2>2 DEF Assigned, Wire
  <2> QED BY <2>5, <2>6, <2>7
<1>4. ASSUME NEW u \in Busy', u # w PROVE u \in Busy /\ job'[u] = job[u] /\ job[u].req # job[w].req
  <2>1. u \in Workers \ {w} /\ at[u] # "idle"
    BY <1>4 DEF Busy
  <2> QED BY <1>2, <2>1
<1> QED BY <1>1, <1>3, <1>4 DEF Unsent

\* The worker goes on with its response.
LEMMA StayKept ==
    ASSUME Handled, NEW w \in Busy, Wire(w), got'[<<job[w].req, at[w]>>] <= Units(at[w]),
           NEW s \in Parts, NEW l \in 1 .. Units(s),
           at' = [at EXCEPT ![w] = s], left' = [left EXCEPT ![w] = l],
           UNCHANGED <<job, ended, active_connections>>,
           got'[<<job[w].req, s>>] + l <= Units(s),
           s # "block" => got'[<<job[w].req, s>>] + l = Units(s),
           s # "dynamic" => got'[<<job[w].req, "dynamic">>] = 0,
           s = "head" => got'[<<job[w].req, "block">>] = 0,
           s = "block" => got'[<<job[w].req, "head">>] = Length,
           s \in {"head", "block"} => job[w].kind = "file",
           s = "json" => job[w].kind \in {"api", "status"},
           got'[<<job[w].req, "block">>] > 0 => got'[<<job[w].req, "head">>] = Length
    PROVE  Handled'
<1>1. at \in [Workers -> Parts \cup {"idle"}] /\ left \in [Workers -> Nat] /\ w \in Workers
      /\ l \in Nat /\ s # "idle"
  <2>1. s # "idle"
    BY DEF Parts
  <2>2. l \in Nat
    BY Numbers
  <2> QED BY <2>1, <2>2, BusyFacts DEF Handled, Types
<1>2. at'[w] = s /\ left'[w] = l /\ job' = job /\ ended' = ended /\ active_connections' = active_connections
      /\ \A u \in Workers \ {w} : at'[u] = at[u] /\ left'[u] = left[u] /\ job'[u] = job[u]
  BY <1>1
<1>3. /\ \A u \in Workers \ {w} : at'[u] # "idle" => (Assigned(u) /\ Adds(u) /\ InSequence(u))'
      /\ \A r \in 1 .. MaxReq, p \in Parts : got'[<<r, p>>] <= Units(p)
      /\ Unsent'
      /\ \A u \in Busy' \ {w} : u \in Busy /\ job'[u] = job[u] /\ job[u].req # job[w].req
  BY <1>2, OthersKept
<1>4. Busy' = Busy
  BY <1>1, <1>2 DEF Busy
<1>5. Types'
  <2>1. at' \in [Workers -> Parts \cup {"idle"}] /\ left' \in [Workers -> Nat]
    BY <1>1
  <2>2. \A u \in Workers : at'[u] = "idle" => left'[u] = 0
    BY <1>1, <1>2 DEF Handled, Types
  <2> QED BY <1>2, <1>3, <2>1, <2>2 DEF Handled, Types, Wire
<1>6. Assigned(w)' /\ Adds(w)' /\ InSequence(w)'
  <2>1. job[w].client \in Clients /\ job[w].kind \in Kinds /\ job[w].req \in 1 .. total_requests
    BY BusyFacts
  <2>2. Assigned(w)'
    BY <1>2, <2>1 DEF Assigned, Wire
  <2>3. Adds(w)'
    BY <1>2 DEF Adds
  <2>4. InSequence(w)'
    BY <1>2 DEF InSequence
  <2> QED BY <2>2, <2>3, <2>4
<1>7. Working'
  BY <1>3, <1>6 DEF Working
<1>8. Single'
  BY <1>2, <1>4 DEF Handled, Single, Wire
<1>9. Counted'
  BY <1>2, <1>4 DEF Handled, Counted, Wire
<1>10. ResponsesWhole'
  <2>1. ASSUME NEW e \in ended', e.kind \notin {"api", "status"}, ~e.failed
        PROVE  \/ got'[<<e.req, "dynamic">>] = Length
               \/ e.kind = "file" /\ got'[<<e.req, "head">>] = Length
    <3>1. /\ e \in ended
          /\ \/ got[<<e.req, "dynamic">>] = Length
             \/ e.kind = "file" /\ got[<<e.req, "head">>] = Length
      BY <1>2, <2>1 DEF Handled, ResponsesWhole
    <3>2. e.req \in 1 .. MaxReq /\ e.req # job[w].req
      BY <3>1, EndedFacts
    <3>3. "dynamic" \in Parts /\ "head" \in Parts
      BY DEF Parts
    <3> QED BY <3>1, <3>2, <3>3 DEF Wire
  <2>2. ASSUME NEW r \in 1 .. MaxReq, got'[<<r, "block">>] > 0 PROVE got'[<<r, "head">>] = Length
    <3>1. CASE r = job[w].req
      BY <2>2, <3>1
    <3>2. CASE r # job[w].req
      <4>1. got'[<<r, "block">>] = got[<<r, "block">>] /\ got'[<<r, "head">>] = got[<<r, "head">>]
        BY <3>2 DEF Wire, Parts
      <4> QED BY <2>2, <4>1 DEF Handled, ResponsesWhole
    <3> QED BY <3>1, <3>2
  <2> QED BY <2>1, <2>2 DEF ResponsesWhole
<1> QED BY <1>3, <1>5, <1>7, <1>8, <1>9, <1>10 DEF Handled

\* The handler returns; it takes at most itself off the count.
LEMMA EndKept ==
    ASSUME Handled, NEW w \in Busy, Wire(w), got'[<<job[w].req, at[w]>>] <= Units(at[w]),
           NEW n \in {0, 1}, NEW failed, Return(w, n, failed),
           job[w].kind \notin {"api", "status"} /\ ~failed
              => \/ got'[<<job[w].req, "dynamic">>] = Length
                 \/ job[w].kind = "file" /\ got'[<<job[w].req, "head">>] = Length,
           got'[<<job[w].req, "block">>] > 0 => got'[<<job[w].req, "head">>] = Length
    PROVE  Handled'
<1> DEFINE done == [req |-> job[w].req, kind |-> job[w].kind, failed |-> failed]
<1>1. /\ at \in [Workers -> Parts \cup {"idle"}] /\ left \in [Workers -> Nat] /\ w \in Workers
      /\ job \in [Workers -> Jobs] /\ NoJob \in Jobs
  <2>1. NoJob \in Jobs
    BY Numbers DEF NoJob, Jobs
  <2> QED BY <2>1, BusyFacts DEF Handled, Types
<1>2. /\ at' = [at EXCEPT ![w] = "idle"] /\ job' = [job EXCEPT ![w] = NoJob] /\ left' = [left EXCEPT ![w] = 0]
      /\ ended' = ended \cup {done} /\ active_connections' = active_connections - n
  BY DEF Return
<1>3. at'[w] = "idle" /\ left'[w] = 0
      /\ \A u \in Workers \ {w} : at'[u] = at[u] /\ left'[u] = left[u] /\ job'[u] = job[u]
  BY <1>1, <1>2
<1>4. /\ \A u \in Workers \ {w} : at'[u] # "idle" => (Assigned(u) /\ Adds(u) /\ InSequence(u))'
      /\ \A r \in 1 .. MaxReq, p \in Parts : got'[<<r, p>>] <= Units(p)
      /\ Unsent'
      /\ \A u \in Busy' \ {w} : u \in Busy /\ job'[u] = job[u] /\ job[u].req # job[w].req
  BY <1>3, OthersKept
<1>5. Busy' = Busy \ {w}
  BY <1>1, <1>3 DEF Busy
<1>6. Types'
  <2>1. at' \in [Workers -> Parts \cup {"idle"}] /\ left' \in [Workers -> Nat] /\ job' \in [Workers -> Jobs]
    BY <1>1, <1>2
  <2>2. \A u \in Workers : at'[u] = "idle" => left'[u] = 0
    BY <1>1, <1>3 DEF Handled, Types
  <2>3. active_connections' \in Int
    BY <1>2 DEF Handled, Types
  <2> QED BY <1>4, <2>1, <2>2, <2>3 DEF Handled, Types, Wire
<1>7. Working'
  BY <1>3, <1>4 DEF Working
<1>8. Single'
  <2>1. ASSUME NEW u \in Busy', NEW v \in Busy', job'[u].req = job'[v].req PROVE u = v
    BY <1>4, <1>5, <2>1 DEF Handled, Single
  <2>2. ASSUME NEW e \in ended' PROVE e.req \in 1 .. total_requests' /\ \A u \in Busy' : job'[u].req # e.req
    <3>1. CASE e \in ended
      BY <1>4, <1>5, <3>1, EndedFacts DEF Wire
    <3>2. CASE e = done
      <4>1. e.req = job[w].req /\ total_requests' = total_requests
        BY <3>2 DEF Wire
      <4> QED BY <1>4, <1>5, <4>1, BusyFacts
    <3> QED BY <1>2, <3>1, <3>2
  <2> QED BY <2>1, <2>2 DEF Single
<1>9. Counted'
  <2>1. Cardinality(Busy') = Cardinality(Busy) - 1
    BY <1>5, BusyCount, CountMoves
  <2> QED BY <1>2, <2>1, BusyCount DEF Handled, Counted, Types, Wire
<1>10. ResponsesWhole'
  <2>1. ASSUME NEW e \in ended', e.kind \notin {"api", "status"}, ~e.failed
        PROVE  \/ got'[<<e.req, "dynamic">>] = Length
               \/ e.kind = "file" /\ got'[<<e.req, "head">>] = Length
    <3>1. CASE e \in ended
      <4>1. \/ got[<<e.req, "dynamic">>] = Length
            \/ e.kind = "file" /\ got[<<e.req, "head">>] = Length
        BY <2>1, <3>1 DEF Handled, ResponsesWhole
      <4>2. e.req \in 1 .. MaxReq /\ e.req # job[w].req
        BY <3>1, EndedFacts
      <4>3. "dynamic" \in Parts /\ "head" \in Parts
        BY DEF Parts
      <4> QED BY <4>1, <4>2, <4>3 DEF Wire
    <3>2. CASE e = done
      <4>1. e.req = job[w].req /\ e.kind = job[w].kind /\ e.failed = failed
        BY <3>2
      <4> QED BY <2>1, <4>1
    <3> QED BY <1>2, <3>1, <3>2
  <2>2. ASSUME NEW r \in 1 .. MaxReq, got'[<<r, "block">>] > 0 PROVE got'[<<r, "head">>] = Length
    <3>1. CASE r = job[w].req
      BY <2>2, <3>1
    <3>2. CASE r # job[w].req
      <4>1. got'[<<r, "block">>] = got[<<r, "block">>] /\ got'[<<r, "head">>] = got[<<r, "head">>]
        BY <3>2 DEF Wire, Parts
      <4> QED BY <2>2, <4>1 DEF Handled, ResponsesWhole
    <3> QED BY <3>1, <3>2
  <2> QED BY <2>1, <2>2 DEF ResponsesWhole
<1> QED BY <1>4, <1>6, <1>7, <1>8, <1>9, <1>10 DEF Handled

-----------------------------------------------------------------------------
(* The actions.                                                            *)

\* A new request has a number of its own.
LEMMA BeginKept == ASSUME Handled, NEW w \in Workers, Begin(w) PROVE Handled'
<1>1. at[w] = "idle" /\ total_requests < MaxReq
      /\ total_requests' = total_requests + 1 /\ active_connections' = active_connections + 1
      /\ UNCHANGED <<room, peer, alive, got, ended>>
  BY DEF Begin
<1>2. PICK c \in Clients, k \in Kinds \ {"incomplete"} :
         /\ job' = [job EXCEPT ![w] = [client |-> c, kind |-> k, req |-> total_requests + 1]]
         /\ at' = [at EXCEPT ![w] = FirstPart(k)]
         /\ left' = [left EXCEPT ![w] = Units(FirstPart(k))]
  BY DEF Begin
<1> DEFINE new == total_requests + 1
           p == FirstPart(k)
           j == [client |-> c, kind |-> k, req |-> new]
<1>3. /\ at \in [Workers -> Parts \cup {"idle"}] /\ job \in [Workers -> Jobs] /\ left \in [Workers -> Nat]
      /\ total_requests \in Nat /\ new \in 1 .. MaxReq /\ new \in 1 .. new
      /\ \A r \in 1 .. total_requests : r # new /\ r \in 1 .. new
  BY <1>1, Numbers DEF Handled, Types
<1>4. p \in Parts \ {"block"} /\ p # "idle" /\ Units(p) \in Nat \ {0}
      /\ (p = "head" => k = "file") /\ (p = "json" => k \in {"api", "status"})
  BY Numbers DEF FirstPart, Parts
<1>5. j \in Jobs
  BY <1>3 DEF Jobs
<1> HIDE DEF p
<1>6. /\ at'[w] = p /\ left'[w] = Units(p) /\ job'[w] = j
      /\ \A u \in Workers \ {w} : at'[u] = at[u] /\ left'[u] = left[u] /\ job'[u] = job[u]
  BY <1>2, <1>3 DEF p
<1>7. Busy' = Busy \cup {w} /\ w \notin Busy
  BY <1>1, <1>4, <1>6 DEF Busy
<1>8. \A q \in Parts : got[<<new, q>>] = 0
  BY <1>3 DEF Handled, Unsent
<1>9. Types'
  <2>1. at' \in [Workers -> Parts \cup {"idle"}] /\ left' \in [Workers -> Nat] /\ job' \in [Workers -> Jobs]
    BY <1>2, <1>3, <1>4, <1>5 DEF p
  <2>2. \A u \in Workers : at'[u] = "idle" => left'[u] = 0
    BY <1>4, <1>6 DEF Handled, Types
  <2>3. total_requests' \in 0 .. MaxReq /\ active_connections' \in Int
    BY <1>1, <1>3 DEF Handled, Types
  <2> QED BY <1>1, <2>1, <2>2, <2>3 DEF Handled, Types
<1>10. Working'
  <2>1. ASSUME NEW u \in Workers \ {w}, at'[u] # "idle" PROVE (Assigned(u) /\ Adds(u) /\ InSequence(u))'
    <3>1. Assigned(u) /\ Adds(u) /\ InSequence(u)
      BY <1>6, <2>1 DEF Handled, Working
    <3>2. at'[u] = at[u] /\ left'[u] = left[u] /\ job'[u] = job[u] /\ got' = got
      BY <1>1, <1>6
    <3>3. Assigned(u)'
      BY <1>1, <1>3, <3>1, <3>2 DEF Assigned
    <3>4. Adds(u)' /\ InSequence(u)'
      BY <3>1, <3>2 DEF Adds, InSequence
    <3> QED BY <3>3, <3>4
  <2>2. got'[<<new, p>>] = 0 /\ got'[<<new, "dynamic">>] = 0 /\ got'[<<new, "block">>] = 0
    BY <1>1, <1>4, <1>8 DEF Parts
  <2>3. job'[w].client = c /\ job'[w].kind = k /\ job'[w].req = new
    BY <1>6
  <2>4. Assigned(w)'
    BY <1>1, <1>3, <2>3 DEF Assigned
  <2>5. Adds(w)'
    BY <1>4, <1>6, <2>2, <2>3 DEF Adds
  <2>6. InSequence(w)'
    BY <1>4, <1>6, <2>2, <2>3 DEF InSequence
  <2> QED BY <2>1, <2>4, <2>5, <2>6 DEF Working
<1>11. \A u \in Busy : job'[u] = job[u] /\ job[u].req \in 1 .. total_requests
  BY <1>6, <1>7 DEF Busy, Handled, Working, Assigned
<1>12. Single'
  <2>1. job'[w].req = new
    BY <1>6
  <2>2. \A v, u \in Busy' : job'[v].req = job'[u].req => v = u
    BY <1>3, <1>7, <1>11, <2>1 DEF Handled, Single
  <2>3. ASSUME NEW e \in ended' PROVE e.req \in 1 .. total_requests' /\ \A u \in Busy' : job'[u].req # e.req
    <3>1. e.req \in 1 .. total_requests /\ \A u \in Busy : job[u].req # e.req
      BY <1>1, EndedFacts
    <3> QED BY <1>1, <1>3, <1>7, <1>11, <2>1, <3>1
  <2> QED BY <2>2, <2>3 DEF Single
<1>13. Unsent'
  BY <1>1, <1>3 DEF Handled, Unsent
<1>14. Counted'
  <2>1. Cardinality(Busy') = Cardinality(Busy) + 1
    BY <1>7, BusyCount, CountMoves
  <2> QED BY <1>1, <1>3, <2>1, BusyCount DEF Handled, Types, Counted
<1>15. ResponsesWhole'
  BY <1>1 DEF Handled, ResponsesWhole
<1> QED BY <1>9, <1>10, <1>12, <1>13, <1>14, <1>15 DEF Handled

LEMMA IncompleteKept == ASSUME Handled, NEW w \in Workers, Incomplete(w) PROVE Handled'
<1>1. total_requests < MaxReq
      /\ total_requests' = total_requests + 1 /\ active_connections' = active_connections + 1
      /\ UNCHANGED <<at, job, left, room, peer, alive, got, ended>>
  BY DEF Incomplete
<1>2. total_requests \in Nat /\ total_requests + 1 \in 0 .. MaxReq
      /\ \A r \in 1 .. total_requests : r \in 1 .. total_requests + 1
  BY <1>1, Numbers DEF Handled, Types
<1>3. Busy' = Busy
  BY <1>1 DEF Busy
<1>4. Types'
  BY <1>1, <1>2 DEF Handled, Types
<1>5. Working'
  <2>1. \A u \in Workers : at[u] # "idle" => Assigned(u) /\ Adds(u) /\ InSequence(u)
    BY DEF Handled, Working
  <2>2. \A u \in Workers : Assigned(u) => Assigned(u)'
    BY <1>1, <1>2 DEF Assigned
  <2>3. \A u \in Workers : (Adds(u) => Adds(u)') /\ (InSequence(u) => InSequence(u)')
    BY <1>1 DEF Adds, InSequence
  <2> QED BY <1>1, <2>1, <2>2, <2>3 DEF Working
<1>6. Single'
  BY <1>1, <1>2, <1>3 DEF Handled, Single
<1>7. Unsent'
  BY <1>1, <1>2 DEF Handled, Unsent
<1>8. Counted'
  BY <1>1, <1>2, <1>3, BusyCount DEF Handled, Types, Counted
<1>9. ResponsesWhole'
  BY <1>1 DEF Handled, ResponsesWhole
<1> QED BY <1>4, <1>5, <1>6, <1>7, <1>8, <1>9 DEF Handled

\* What clients and the kernel do concerns no handler.
LEMMA OutsideKept ==
    ASSUME Handled, UNCHANGED <<at, job, left, active_connections, total_requests, got, ended>>,
           room' \in [Clients -> 0 .. Room], peer' \in [Clients -> {"here", "reset", "dead"}],
           alive' \in BOOLEAN
    PROVE  Handled'
<1>1. Busy' = Busy
  BY DEF Busy
<1>2. Types' /\ Single' /\ Unsent' /\ Counted' /\ ResponsesWhole'
  BY <1>1 DEF Handled, Types, Single, Unsent, Counted, ResponsesWhole
<1>3. Working'
  BY DEF Handled, Working, Assigned, Adds, InSequence
<1> QED BY <1>2, <1>3 DEF Handled

\* Whatever the worker sends, and whether the socket takes it or not.
LEMMA SendKept == ASSUME Handled, NEW w \in Workers, Send(w) PROVE Handled'
<1> DEFINE r == job[w].req
           g == got[<<r, at[w]>>]
<1>1. w \in Busy
  BY DEF Send, SendMore, Send403, SendHead, SendBlock, SendJson, SendDynamic, Busy
<1>2. /\ at[w] \in Parts /\ r \in 1 .. MaxReq /\ g \in Nat /\ Units(at[w]) \in Nat
      /\ left[w] \in 1 .. Units(at[w]) /\ g + left[w] <= Units(at[w])
      /\ at[w] # "block" => g + left[w] = Units(at[w])
      /\ InSequence(w)
  BY <1>1, BusyFacts
<1>3. got[<<r, "block">>] > 0 => got[<<r, "head">>] = Length
  BY <1>2 DEF Handled, ResponsesWhole
<1>4. {"dynamic", "block", "head", "json", "403"} = Parts /\ Length \in Nat \ {0}
      /\ Units("dynamic") = Length /\ Units("block") = Length /\ Units("head") = Length
      /\ Units("json") = Length /\ Units("403") = 1
  BY Numbers DEF Parts, Units
<1>5. left \in [Workers -> Nat] /\ at \in [Workers -> Parts \cup {"idle"}]
  BY DEF Handled, Types
\* The other parts of the response are not touched.
<1>6. Wire(w) => \A p \in Parts : p # at[w] => got'[<<r, p>>] = got[<<r, p>>]
  BY <1>2 DEF Wire
<1>7. CASE SendMore(w)
  <2>1. at[w] \in {"head", "json", "dynamic"} /\ UNCHANGED <<at, job, active_connections, ended>>
    BY <1>7 DEF SendMore
  <2>2. PICK n \in 1 .. Length : n < left[w] /\ Take(w, n) /\ left' = [left EXCEPT ![w] = left[w] - n]
    BY <1>7 DEF SendMore, Sent
  <2> DEFINE l == left[w] - n
  <2>3. n \in Nat /\ l \in 1 .. Units(at[w]) /\ left' = [left EXCEPT ![w] = l] /\ g + n + l = Units(at[w])
        /\ g + n <= Units(at[w])
    BY <1>2, <2>1, <2>2
  <2>4. Wire(w) /\ got'[<<r, at[w]>>] = g + n
    BY <1>1, <2>2, <2>3, TakeWire
  <2>5. at' = [at EXCEPT ![w] = at[w]]
    BY <1>5, <2>1
  <2>6. at[w] # "dynamic" => got'[<<r, "dynamic">>] = 0
    BY <1>2, <1>4, <1>6, <2>4 DEF InSequence
  <2>7. at[w] = "head" => got'[<<r, "block">>] = 0
    BY <1>2, <1>4, <1>6, <2>4 DEF InSequence
  <2>8. got'[<<r, "block">>] > 0 => got'[<<r, "head">>] = Length
    <3>1. got'[<<r, "block">>] = got[<<r, "block">>]
      BY <1>4, <1>6, <2>1, <2>4
    <3>2. at[w] # "head" => got'[<<r, "head">>] = got[<<r, "head">>]
      BY <1>4, <1>6, <2>4
    <3>3. at[w] = "head" => got[<<r, "block">>] = 0
      BY <1>2 DEF InSequence
    <3> QED BY <1>3, <3>1, <3>2, <3>3
  <2>9. (at[w] \in {"head", "block"} => job[w].kind = "file")
        /\ (at[w] = "json" => job[w].kind \in {"api", "status"}) /\ at[w] # "block"
    BY <1>2, <2>1 DEF InSequence
  <2>10. got'[<<r, at[w]>>] <= Units(at[w]) /\ got'[<<r, at[w]>>] + l <= Units(at[w])
         /\ got'[<<r, at[w]>>] + l = Units(at[w])
    BY <1>2, <2>3, <2>4
  <2> HIDE DEF l
  <2> QED BY <1>1, <1>2, <2>1, <2>3, <2>4, <2>5, <2>6, <2>7, <2>8, <2>9, <2>10, StayKept
<1>8. ASSUME Wire(w), at[w] \in {"403", "head"}, Continue(w, "dynamic"), got'[<<r, at[w]>>] <= Units(at[w]),
             at[w] = "head" => got' = got
      PROVE  Handled'
  <2>1. at' = [at EXCEPT ![w] = "dynamic"] /\ left' = [left EXCEPT ![w] = Units("dynamic")]
        /\ UNCHANGED <<job, ended, active_connections>>
    BY <1>8 DEF Continue
  <2>2. got'[<<r, "dynamic">>] = 0
    BY <1>2, <1>4, <1>6, <1>8 DEF InSequence
  <2>3. got'[<<r, "block">>] > 0 => got'[<<r, "head">>] = Length
    BY <1>3, <1>4, <1>6, <1>8
  <2>4. Units("dynamic") \in 1 .. Units("dynamic") /\ "dynamic" \in Parts
        /\ got'[<<r, "dynamic">>] + Units("dynamic") = Units("dynamic")
        /\ got'[<<r, "dynamic">>] + Units("dynamic") <= Units("dynamic")
    BY <1>4, <2>2
  <2>5. Wire(w) /\ got'[<<r, at[w]>>] <= Units(at[w])
    BY <1>8
  <2> QED BY <1>1, <2>1, <2>2, <2>3, <2>4, <2>5, StayKept
<1>9. CASE Send403(w)
  <2>1. at[w] = "403" /\ Continue(w, "dynamic")
    BY <1>9 DEF Send403
  <2>2. Wire(w) /\ got'[<<r, at[w]>>] <= Units(at[w])
    <3>1. CASE Take(w, 1)
      BY <1>1, <1>2, <1>4, <2>1, <3>1, TakeWire
    <3>2. CASE ~Take(w, 1)
      BY <1>1, <1>2, <1>9, <3>2, FailWire DEF Send403
    <3> QED BY <3>1, <3>2
  <2> QED BY <1>8, <2>1, <2>2
<1>10. CASE SendHead(w)
  <2>1. at[w] = "head"
    BY <1>10 DEF SendHead
  <2>2. CASE Fails(w) /\ Continue(w, "dynamic")
    <3>1. Wire(w) /\ got' = got
      BY <1>1, <2>2, FailWire
    <3> QED BY <1>2, <1>8, <2>1, <2>2, <3>1
  <2>3. CASE Take(w, left[w]) /\ Continue(w, "block")
    <3>1. Wire(w) /\ got'[<<r, at[w]>>] = g + left[w]
      <4>1. left[w] \in Nat
        BY <1>5
      <4> QED BY <1>1, <2>3, <4>1, TakeWire
    <3>2. at' = [at EXCEPT ![w] = "block"] /\ left' = [left EXCEPT ![w] = Units("block")]
          /\ UNCHANGED <<job, ended, active_connections>>
      BY <2>3 DEF Continue
    <3>3. got'[<<r, "head">>] = Length /\ got'[<<r, at[w]>>] <= Units(at[w])
      BY <1>2, <1>4, <2>1, <3>1
    <3>4. got'[<<r, "block">>] = 0 /\ got'[<<r, "dynamic">>] = 0
      BY <1>2, <1>4, <1>6, <2>1, <3>1 DEF InSequence
    <3>5. job[w].kind = "file"
      BY <1>2, <2>1 DEF InSequence
    <3>6. Units("block") \in 1 .. Units("block") /\ 0 + Units("block") <= Units("block")
      BY <1>4
    <3> QED BY <1>1, <1>4, <3>1, <3>2, <3>3, <3>4, <3>5, <3>6, StayKept
  <2> QED BY <1>10, <2>2, <2>3 DEF SendHead
<1>11. CASE SendBlock(w)
  <2>1. at[w] = "block" /\ (Take(w, 1) \/ Fails(w))
    BY <1>11 DEF SendBlock
  <2>2. Wire(w) /\ (got'[<<r, "block">>] = g \/ got'[<<r, "block">>] = g + 1)
    <3>1. CASE Take(w, 1)
      BY <1>1, <2>1, <3>1, TakeWire
    <3>2. CASE Fails(w)
      BY <1>1, <2>1, <3>2, FailWire
    <3> QED BY <2>1, <3>1, <3>2
  <2>3. got[<<r, "head">>] = Length /\ got[<<r, "dynamic">>] = 0 /\ job[w].kind = "file"
    BY <1>2, <2>1 DEF InSequence
  <2>4. got'[<<r, "head">>] = Length /\ got'[<<r, "dynamic">>] = 0
    BY <1>4, <1>6, <2>1, <2>2, <2>3
  <2>5. got'[<<r, at[w]>>] <= Units(at[w])
    BY <1>2, <2>1, <2>2
  <2>6. CASE left[w] > 1
    <3> DEFINE l == left[w] - 1
    <3>1. left' = [left EXCEPT ![w] = l] /\ UNCHANGED <<at, job, active_connections, ended>>
      BY <1>11, <2>6 DEF SendBlock
    <3>2. l \in 1 .. Units("block") /\ got'[<<r, "block">>] + l <= Units("block")
      BY <1>2, <2>1, <2>2, <2>6
    <3>3. at' = [at EXCEPT ![w] = "block"] /\ "block" \in Parts
      BY <1>4, <1>5, <2>1, <3>1
    <3> HIDE DEF l
    <3> QED BY <1>1, <2>2, <2>3, <2>4, <2>5, <3>1, <3>2, <3>3, StayKept
  <2>7. CASE ~(left[w] > 1)
    <3>1. Return(w, 0, FALSE)
      BY <1>11, <2>7 DEF SendBlock
    <3> QED BY <1>1, <2>2, <2>3, <2>4, <2>5, <3>1, EndKept
  <2> QED BY <2>6, <2>7
<1>12. CASE SendJson(w)
  <2>1. at[w] = "json" /\ (Take(w, left[w]) \/ Fails(w)) /\ Return(w, JsonOff(w), FALSE)
    BY <1>12 DEF SendJson
  <2>2. Wire(w) /\ (got'[<<r, "json">>] = g \/ got'[<<r, "json">>] = g + left[w])
    <3>1. CASE Take(w, left[w])
      <4>1. left[w] \in Nat
        BY <1>5
      <4> QED BY <1>1, <2>1, <3>1, <4>1, TakeWire
    <3>2. CASE Fails(w)
      BY <1>1, <2>1, <3>2, FailWire
    <3> QED BY <2>1, <3>1, <3>2
  <2>3. got'[<<r, at[w]>>] <= Units(at[w])
    BY <1>2, <2>1, <2>2
  <2>4. job[w].kind \in {"api", "status"} /\ JsonOff(w) \in {0, 1}
    BY <1>2, <2>1 DEF InSequence, JsonOff
  <2>5. got'[<<r, "block">>] > 0 => got'[<<r, "head">>] = Length
    BY <1>3, <1>4, <1>6, <2>1, <2>2
  <2> QED BY <1>1, <2>1, <2>2, <2>3, <2>4, <2>5, EndKept
<1>13. CASE SendDynamic(w)
  <2>1. at[w] = "dynamic"
    BY <1>13 DEF SendDynamic
  <2>2. CASE Take(w, left[w]) /\ Return(w, DynamicOff, FALSE)
    <3>1. Wire(w) /\ got'[<<r, "dynamic">>] = g + left[w]
      <4>1. left[w] \in Nat
        BY <1>5
      <4> QED BY <1>1, <2>1, <2>2, <4>1, TakeWire
    <3>2. got'[<<r, "dynamic">>] = Length /\ got'[<<r, at[w]>>] <= Units(at[w])
      BY <1>2, <1>4, <2>1, <3>1
    <3>3. got'[<<r, "block">>] > 0 => got'[<<r, "head">>] = Length
      BY <1>3, <1>4, <1>6, <2>1, <3>1
    <3>4. DynamicOff \in {0, 1}
      BY DEF DynamicOff
    <3> QED BY <1>1, <2>2, <3>1, <3>2, <3>3, <3>4, EndKept
  <2>3. CASE GivesUp(w)
    <3>1. Fails(w) /\ Return(w, DynamicOff, TRUE)
      BY <2>3 DEF GivesUp, Fails
    <3>2. Wire(w) /\ got' = got
      BY <1>1, <3>1, FailWire
    <3>3. got'[<<r, at[w]>>] <= Units(at[w])
      BY <1>2, <3>2
    <3>4. DynamicOff \in {0, 1}
      BY DEF DynamicOff
    <3> QED BY <1>1, <1>3, <3>1, <3>2, <3>3, <3>4, EndKept
  <2> QED BY <1>13, <2>2, <2>3 DEF SendDynamic
<1> QED BY <1>7, <1>9, <1>10, <1>11, <1>12, <1>13 DEF Send

LEMMA HandledStep == Handled /\ [Next]_vars => Handled'
<1> SUFFICES ASSUME Handled, [Next]_vars PROVE Handled'
  OBVIOUS
<1>1. room \in [Clients -> 0 .. Room] /\ peer \in [Clients -> {"here", "reset", "dead"}]
      /\ alive \in BOOLEAN /\ Room \in 0 .. Room
  BY Numbers DEF Handled, Types
<1>2. ASSUME NEW c \in Clients, Drain(c) PROVE Handled'
  <2>1. room' \in [Clients -> 0 .. Room]
    BY <1>1, <1>2 DEF Drain
  <2> QED BY <1>1, <1>2, <2>1, OutsideKept DEF Drain
<1>3. ASSUME NEW c \in Clients, Leave(c) PROVE Handled'
  <2>1. peer' \in [Clients -> {"here", "reset", "dead"}]
    BY <1>1, <1>3 DEF Leave
  <2> QED BY <1>1, <1>3, <2>1, OutsideKept DEF Leave
<1>4. ASSUME NEW w \in Workers, Killed(w) PROVE Handled'
  BY <1>1, <1>4, OutsideKept DEF Killed
<1>5. CASE UNCHANGED vars
  BY <1>1, <1>5, OutsideKept DEF vars
<1> QED BY <1>2, <1>3, <1>4, <1>5, BeginKept, IncompleteKept, SendKept DEF Next

-----------------------------------------------------------------------------
(* The theorems.                                                           *)

LEMMA HandledAlways == Spec => []Handled
BY HandledInit, HandledStep, PTL DEF Spec

\* active_connections is never less than the handlers at work, whatever order requests
\* come in, sends fail in and clients leave in (HttpHandler.cpp:126, 193, 218, 229, 236).
THEOREM HttpNeverUndercounts == Spec => []NeverUndercounts
BY HandledSuffices, HandledAlways, PTL

\* A handler that leaves the connection open has sent a dynamic response whole, or the
\* whole header of a file, however full sockets are and whoever else fills them; and the
\* body of a file never comes before the whole of its header (HttpHandler.cpp:207-231,
\* 303-327).  Nothing is said of JSON responses and of the blocks of a file's body: those
\* may be lost at a full socket.
THEOREM HttpResponsesWhole == Spec => []ResponsesWhole
BY HandledSuffices, HandledAlways, PTL

-----------------------------------------------------------------------------
(* Numbers and sequences of texts.                                         *)

\* What a client sends, and any part of it.
Streamed == Seq(STRING)

\* Arithmetic that the provers do best with nothing else in sight.
LEMMA OneAbove == \A i \in Nat : i + 1 \in Nat
OBVIOUS

LEMMA OneBelow == \A k, l \in Nat : l \in 1 .. k /\ l # 1 => l - 1 \in 1 .. k
OBVIOUS

LEMMA NextDigit == \A a, b \in Nat : 10 * a + b \in Nat
OBVIOUS

\* Every digit has a value.
LEMMA DigitType == Digit \in [Range(Digits) -> 0 .. 9]
<1>1. ASSUME NEW d \in Range(Digits) PROVE \E n \in 1 .. 10 : Digits[n] = d
  BY DEF Range, Digits
<1>2. ASSUME NEW d \in Range(Digits) PROVE (CHOOSE n \in 1 .. 10 : Digits[n] = d) \in 1 .. 10
  BY <1>1
<1>3. ASSUME NEW n \in 1 .. 10 PROVE n - 1 \in 0 .. 9
  OBVIOUS
<1> HIDE DEF Digits
<1> QED BY <1>2, <1>3 DEF Digit

\* Digits stand for a natural number.
LEMMA DecimalType == ASSUME NEW s \in Seq(Range(Digits)) PROVE Decimal(s) \in Nat
<1> DEFINE Longer(p) == IF p[1] < Len(s) THEN 10 * p[2] + Digit[s[p[1] + 1]] ELSE 0
           G == [p \in Nat \X Nat |-> Longer(p)]
           Up(g) == g = [n \in 0 .. Len(s) |-> IF n = 0 THEN 0 ELSE 10 * g[n - 1] + Digit[s[n]]]
           w == CHOOSE g : Up(g)
<1>1. \A i \in 1 .. Len(s) : Digit[s[i]] \in Nat
  <2>1. \A i \in 1 .. Len(s) : s[i] \in Range(Digits)
    BY ElementOfSeq
  <2>2. \A d \in Range(Digits) : Digit[d] \in Nat
    BY DigitType
  <2> QED BY <2>1, <2>2
<1>2. Len(s) \in Nat
  BY LenProperties
<1>3. G \in [Nat \X Nat -> Nat]
  <2>1. ASSUME NEW p \in Nat \X Nat PROVE Longer(p) \in Nat
    <3>1. p[1] \in Nat /\ p[2] \in Nat
      OBVIOUS
    <3>2. CASE p[1] < Len(s)
      <4>1. p[1] + 1 \in 1 .. Len(s)
        BY <1>2, <3>1, <3>2
      <4> QED BY <1>1, <3>1, <3>2, <4>1
    <3> QED BY <1>2, <3>1, <3>2
  <2> QED BY <2>1
<1>4. PICK f \in [Nat -> Nat] : f[0] = 0 /\ \A n \in Nat : f[n + 1] = G[<<n, f[n]>>]
  <2> HIDE DEF G
  <2>1. PICK f : Recursive(f, Nat, 0, G)
    BY <1>3, Recursion
  <2> QED BY <2>1 DEF Recursive
<1>5. \E g : Up(g)
  <2> DEFINE g == [n \in 0 .. Len(s) |-> f[n]]
  <2>1. ASSUME NEW n \in 0 .. Len(s), n # 0 PROVE f[n] = 10 * g[n - 1] + Digit[s[n]]
    <3>1. n - 1 \in Nat /\ n - 1 < Len(s) /\ n - 1 + 1 = n /\ n - 1 \in 0 .. Len(s)
      BY <1>2, <2>1
    <3>2. f[n] = G[<<n - 1, f[n - 1]>>] /\ f[n - 1] \in Nat
      <4>1. f[n - 1 + 1] = G[<<n - 1, f[n - 1]>>] /\ f[n - 1] \in Nat
        <5> HIDE DEF G
        <5> QED BY <1>4, <3>1
      <4> QED BY <3>1, <4>1
    <3>3. <<n - 1, f[n - 1]>> \in Nat \X Nat
      BY <3>1, <3>2
    <3>4. f[n] = 10 * f[n - 1] + Digit[s[n]]
      BY <3>1, <3>2, <3>3
    <3> QED BY <3>1, <3>4
  <2>2. Up(g)
    <3>1. f[0] = 0
      BY <1>4
    <3>2. ASSUME NEW n \in 0 .. Len(s)
          PROVE  f[n] = IF n = 0 THEN 0 ELSE 10 * g[n - 1] + Digit[s[n]]
      BY <2>1, <3>1
    <3> QED BY <3>2
  <2> HIDE DEF Up, g
  <2> QED BY <2>2
<1>6. Up(w)
  <2> HIDE DEF Up
  <2> QED BY <1>5
<1>7. Decimal(s) = w[Len(s)]
  BY DEF Decimal
<1> HIDE DEF w
<1>8. \A n \in 0 .. Len(s) : w[n] \in Nat
  <2> DEFINE T == {n \in 0 .. Len(s) : w[n] \notin Nat}
  <2>1. SUFFICES ASSUME T # {} PROVE FALSE
    OBVIOUS
  <2>2. PICK n \in T : \A k \in T : n <= k
    <3>1. T \subseteq Nat
      BY <1>2
    <3> HIDE DEF T
    <3> QED BY <2>1, <3>1, Least
  <2>3. n # 0
    BY <1>6, <2>2
  <2>4. n \in 1 .. Len(s) /\ n - 1 \in 0 .. Len(s) /\ n - 1 \notin T
    BY <1>2, <2>2, <2>3
  <2>5. w[n - 1] \in Nat /\ Digit[s[n]] \in Nat
    BY <1>1, <2>4
  <2>6. w[n] = 10 * w[n - 1] + Digit[s[n]]
    BY <1>6, <2>2, <2>3
  <2>7. w[n] \in Nat
    BY <2>5, <2>6, NextDigit
  <2> QED BY <2>2, <2>7
<1> QED BY <1>2, <1>7, <1>8

\* f is the concatenation of the first elements of seqs, for up to n of them.
Flattens(f, seqs, n) == \A i \in 0 .. n - 1 : f[i + 1] = f[i] \o seqs[i + 1]

\* FlattenSeq concatenates from the left.
LEMMA FlattenIs ==
    ASSUME NEW A, NEW seqs \in Seq(Seq(A)),
           NEW f \in [Nat -> Seq(A)], f[0] = <<>>, Flattens(f, seqs, Len(seqs))
    PROVE  FlattenSeq(seqs) = f[Len(seqs)]
<1> DEFINE m == Len(seqs)
           Fl(g) == g = [i \in 1 .. m |-> IF i = 1 THEN seqs[i] ELSE g[i - 1] \o seqs[i]]
           w == CHOOSE g : Fl(g)
<1>1. m \in Nat /\ \A i \in 1 .. m : seqs[i] \in Seq(A)
  BY LenProperties, ElementOfSeq
<1>0. \A i \in 0 .. m - 1 : f[i + 1] = f[i] \o seqs[i + 1]
  BY DEF Flattens
<1>m. m = Len(seqs)
  OBVIOUS
<1> HIDE DEF m
<1>2. CASE m = 0
  <2>1. seqs = <<>>
    BY <1>2, <1>m, EmptySeq
  <2> QED BY <1>2, <1>m, <2>1 DEF FlattenSeq
<1>3. CASE m # 0
  <2>1. \E g : Fl(g)
    <3> DEFINE g == [i \in 1 .. m |-> f[i]]
    <3>1. ASSUME NEW i \in 1 .. m PROVE f[i] = IF i = 1 THEN seqs[i] ELSE g[i - 1] \o seqs[i]
      <4>1. i - 1 \in 0 .. m - 1 /\ i - 1 + 1 = i
        BY <1>1
      <4>2. f[i] = f[i - 1] \o seqs[i]
        BY <1>0, <4>1
      <4>3. CASE i = 1
        <5>0. i - 1 = 0 /\ 1 \in 1 .. m
          BY <1>1, <4>3
        <5>1. f[1] = f[0] \o seqs[1] /\ seqs[1] \in Seq(A)
          BY <1>1, <4>2, <4>3, <5>0
        <5> QED BY <4>3, <5>1, ConcatEmptySeq
      <4>4. CASE i # 1
        <5>1. i - 1 \in 1 .. m
          BY <1>1, <4>4
        <5> QED BY <4>2, <4>4, <5>1
      <4> QED BY <4>3, <4>4
    <3>2. Fl(g)
      BY <3>1
    <3> HIDE DEF Fl, g
    <3> QED BY <3>2
  <2>2. Fl(w)
    <3> HIDE DEF Fl
    <3> QED BY <2>1
  <2>3. FlattenSeq(seqs) = w[m]
    BY <1>3, <1>m DEF FlattenSeq
  <2> HIDE DEF w
  <2>4. \A i \in 1 .. m : w[i] = f[i]
    <3> DEFINE T == {i \in 1 .. m : w[i] # f[i]}
    <3>1. SUFFICES ASSUME T # {} PROVE FALSE
      OBVIOUS
    <3>2. PICK i \in T : \A k \in T : i <= k
      <4>1. T \subseteq Nat
        BY <1>1
      <4> HIDE DEF T
      <4> QED BY <3>1, <4>1, Least
    <3>3. i - 1 \in 0 .. m - 1 /\ i - 1 + 1 = i /\ i - 1 \notin T
      BY <1>1, <3>2
    <3>4. f[i] = f[i - 1] \o seqs[i]
      BY <1>0, <3>3
    <3>5. CASE i = 1
      <4>0. i - 1 = 0 /\ 1 \in 1 .. m
        BY <1>1, <3>2, <3>5
      <4>1. f[1] = f[0] \o seqs[1] /\ seqs[1] \in Seq(A)
        BY <1>1, <3>4, <3>5, <4>0
      <4>2. f[1] = seqs[1]
        BY <4>1, ConcatEmptySeq
      <4>3. w[1] = seqs[1]
        BY <2>2, <3>2, <3>5
      <4> QED BY <3>2, <3>5, <4>2, <4>3
    <3>6. CASE i # 1
      <4>0. i \in 1 .. m
        BY <3>2
      <4>1. w[i - 1] = f[i - 1]
        <5>2. m \in Nat /\ i \in Nat
          BY <1>1, <4>0
        <5>1. i - 1 \in 1 .. m
          BY <3>6, <4>0, <5>2, OneBelow
        <5> QED BY <3>3, <5>1
      <4>2. w[i] = w[i - 1] \o seqs[i]
        BY <2>2, <3>6, <4>0
      <4> QED BY <3>2, <3>4, <4>1, <4>2
    <3> QED BY <3>5, <3>6
  <2>5. m \in 1 .. m
    BY <1>1, <1>3
  <2>6. w[m] = f[m]
    BY <2>4, <2>5
  <2> QED BY <1>m, <2>3, <2>6
<1> QED BY <1>2, <1>3

\* One more element is one more at the end.
LEMMA FlattenAppend ==
    ASSUME NEW A, NEW seqs \in Seq(Seq(A)), NEW x \in Seq(A)
    PROVE  /\ FlattenSeq(seqs) \in Seq(A)
           /\ FlattenSeq(Append(seqs, x)) = FlattenSeq(seqs) \o x
<1> DEFINE t == Append(seqs, x)
           m == Len(seqs)
           G == [p \in Nat \X Seq(A) |-> IF p[1] < m + 1 THEN p[2] \o t[p[1] + 1] ELSE <<>>]
<1>1. /\ t \in Seq(Seq(A)) /\ Len(t) = m + 1 /\ t[m + 1] = x
      /\ \A i \in 1 .. m : t[i] = seqs[i]
  BY AppendProperties
<1>m. m = Len(seqs)
  OBVIOUS
<1>2. m \in Nat /\ \A i \in 1 .. m + 1 : t[i] \in Seq(A)
  <2>1. m \in Nat
    BY LenProperties
  <2> HIDE DEF t, m
  <2>2. \A i \in 1 .. Len(t) : t[i] \in Seq(A)
    BY <1>1, ElementOfSeq
  <2> QED BY <1>1, <2>1, <2>2
<1> HIDE DEF t, m
<1>3. <<>> \in Seq(A)
  BY EmptySeq
<1>4. G \in [Nat \X Seq(A) -> Seq(A)]
  <2>1. ASSUME NEW p \in Nat \X Seq(A)
        PROVE  (IF p[1] < m + 1 THEN p[2] \o t[p[1] + 1] ELSE <<>>) \in Seq(A)
    <3>1. p[1] \in Nat /\ p[2] \in Seq(A)
      OBVIOUS
    <3>2. CASE p[1] < m + 1
      <4>1. p[1] + 1 \in 1 .. m + 1
        BY <1>2, <3>1, <3>2
      <4>2. t[p[1] + 1] \in Seq(A)
        BY <1>2, <4>1
      <4>3. p[2] \o t[p[1] + 1] \in Seq(A)
        BY <3>1, <4>2, ConcatProperties
      <4> QED BY <3>2, <4>3
    <3> QED BY <1>3, <3>2
  <2> QED BY <2>1
<1>5. PICK f \in [Nat -> Seq(A)] : f[0] = <<>> /\ \A n \in Nat : f[n + 1] = G[<<n, f[n]>>]
  <2> DEFINE e == <<>>
             S == Seq(A)
  <2>1. e \in S /\ G \in [Nat \X S -> S]
    BY <1>3, <1>4
  <2> HIDE DEF G, e, S
  <2>2. PICK f : Recursive(f, S, e, G)
    BY <2>1, Recursion
  <2>3. f \in [Nat -> S] /\ f[0] = e /\ \A n \in Nat : f[n + 1] = G[<<n, f[n]>>]
    BY <2>2 DEF Recursive
  <2> QED BY <2>3 DEF e, S
<1>6. \A i \in 0 .. m : f[i + 1] = f[i] \o t[i + 1]
  <2> SUFFICES ASSUME NEW i \in 0 .. m PROVE f[i + 1] = f[i] \o t[i + 1]
    OBVIOUS
  <2>1. i \in Nat /\ i < m + 1 /\ f[i] \in Seq(A)
    BY <1>2
  <2>2. <<i, f[i]>> \in Nat \X Seq(A)
    BY <2>1
  <2>3. f[i + 1] = G[<<i, f[i]>>]
    BY <1>5, <2>1
  <2> QED BY <2>1, <2>2, <2>3
<1>7. Flattens(f, t, Len(t))
  <2>1. Len(t) - 1 = m
    BY <1>1, <1>2
  <2> QED BY <1>6, <2>1 DEF Flattens
<1>8. Flattens(f, seqs, Len(seqs))
  <2> SUFFICES ASSUME NEW i \in 0 .. m - 1 PROVE f[i + 1] = f[i] \o seqs[i + 1]
    BY <1>m DEF Flattens
  <2>1. i \in 0 .. m /\ i + 1 \in 1 .. m
    BY <1>2
  <2> QED BY <1>1, <1>6, <2>1
<1>9. FlattenSeq(t) = f[m + 1] /\ FlattenSeq(seqs) = f[m]
  <2>1. FlattenSeq(t) = f[Len(t)]
    BY <1>1, <1>5, <1>7, FlattenIs
  <2>2. FlattenSeq(seqs) = f[Len(seqs)]
    BY <1>5, <1>8, FlattenIs
  <2> QED BY <1>1, <1>m, <2>1, <2>2
<1>10. f[m] \in Seq(A) /\ f[m + 1] = f[m] \o x
  <2>1. f[m] \in Seq(A)
    BY <1>2, <1>5
  <2>2. f[m + 1] = f[m] \o t[m + 1]
    <3>1. m \in 0 .. m
      BY <1>2
    <3> QED BY <1>6, <3>1
  <2> QED BY <1>1, <2>1, <2>2
<1> QED BY <1>9, <1>10 DEF t

-----------------------------------------------------------------------------
(* Searching a text that grows at the end.                                 *)

\* pat stands at place n of s.
Occurs(s, pat, n) == SubSeq(s, n, n + Len(pat) - 1) = pat

\* x is the first place of pat at or after from.
FirstPlace(s, pat, from, x) ==
    /\ x \in Nat /\ from <= x /\ x + Len(pat) <= Len(s) + 1
    /\ Occurs(s, pat, x)
    /\ \A n \in Nat : from <= n /\ n < x => ~Occurs(s, pat, n)

NoPlace(s, pat, from) ==
    \A n \in Nat : from <= n /\ n + Len(pat) <= Len(s) + 1 => ~Occurs(s, pat, n)

\* Find finds the first place, or none if there is none.
LEMMA FindIs ==
    ASSUME NEW A, NEW s \in Seq(A), NEW pat \in Seq(A), NEW from \in Nat \ {0}
    PROVE  /\ Find(s, pat, from) \in Nat
           /\ Find(s, pat, from) # 0 => FirstPlace(s, pat, from, Find(s, pat, from))
           /\ Find(s, pat, from) = 0 => NoPlace(s, pat, from)
<1> DEFINE m == Len(s)
           k == Len(pat)
           T == {n \in from .. m - k + 1 : SubSeq(s, n, n + Len(pat) - 1) = pat}
           x == CHOOSE n \in T : \A j \in T : n <= j
<1>1. m \in Nat /\ k \in Nat
  BY LenProperties
<1>2. Find(s, pat, from) = IF T = {} THEN 0 ELSE x
  BY DEF Find
<1>3. T = {n \in from .. m - k + 1 : Occurs(s, pat, n)}
  BY DEF Occurs
<1>m. m = Len(s) /\ k = Len(pat)
  OBVIOUS
<1> HIDE DEF T, m, k
<1>4. T \subseteq Nat
  BY <1>1, <1>3
<1>5. CASE T = {}
  <2>1. Find(s, pat, from) = 0
    BY <1>2, <1>5
  <2>2. ASSUME NEW n \in Nat, from <= n, n + k <= m + 1 PROVE ~Occurs(s, pat, n)
    <3>1. n \in from .. m - k + 1
      BY <1>1, <2>2
    <3> QED BY <1>3, <1>5, <3>1
  <2>3. NoPlace(s, pat, from)
    BY <1>m, <2>2 DEF NoPlace
  <2> QED BY <2>1, <2>3
<1>6. CASE T # {}
  <2>1. x \in T /\ \A j \in T : x <= j
    <3>1. \E n \in T : \A j \in T : n <= j
      BY <1>4, <1>6, Least
    <3> QED BY <3>1
  <2> HIDE DEF x
  <2>2. x \in from .. m - k + 1 /\ Occurs(s, pat, x)
    BY <1>3, <2>1
  <2>3. x \in Nat /\ x # 0 /\ from <= x /\ x + k <= m + 1
    BY <1>1, <2>2
  <2>4. ASSUME NEW n \in Nat, from <= n, n < x PROVE ~Occurs(s, pat, n)
    <3>1. n \in from .. m - k + 1 /\ ~(x <= n)
      BY <1>1, <2>3, <2>4
    <3> QED BY <1>3, <2>1, <3>1
  <2>5. FirstPlace(s, pat, from, x)
    BY <1>m, <2>2, <2>3, <2>4 DEF FirstPlace
  <2>6. Find(s, pat, from) = x
    BY <1>2, <1>6
  <2> QED BY <2>3, <2>5, <2>6
<1> QED BY <1>5, <1>6

\* The first place is the one found.
LEMMA OnePlace ==
    ASSUME NEW A, NEW s \in Seq(A), NEW pat \in Seq(A), NEW from \in Nat \ {0},
           NEW x, FirstPlace(s, pat, from, x)
    PROVE  Find(s, pat, from) = x
<1> DEFINE y == Find(s, pat, from)
<1>1. y \in Nat /\ (y # 0 => FirstPlace(s, pat, from, y)) /\ (y = 0 => NoPlace(s, pat, from))
  BY FindIs
<1> HIDE DEF y
<1>2. y # 0
  BY <1>1 DEF FirstPlace, NoPlace
<1>3. FirstPlace(s, pat, from, y)
  BY <1>1, <1>2
<1>4. ~(x < y) /\ ~(y < x)
  BY <1>3 DEF FirstPlace
<1>5. x = y
  BY <1>3, <1>4 DEF FirstPlace
<1> QED BY <1>5 DEF y

\* Within the old text a pattern stands where it stood.
LEMMA OccursAsBefore ==
    ASSUME NEW A, NEW s \in Seq(A), NEW e \in Seq(A), NEW pat \in Seq(A), pat # <<>>,
           NEW n \in Nat \ {0}, n + Len(pat) <= Len(s) + 1
    PROVE  Occurs(s \o e, pat, n) <=> Occurs(s, pat, n)
<1> DEFINE j == n + Len(pat) - 1
<1>1. Len(s) \in Nat /\ Len(pat) \in Nat \ {0}
  BY LenProperties, EmptySeq
<1>2. n \in 1 .. Len(s) /\ j \in 1 .. Len(s)
  BY <1>1
<1> HIDE DEF j
<1>3. SubSeq(s \o e, n, j) = SubSeq(s, n, j)
  BY <1>2, SubSeqOfConcat1
<1> QED BY <1>3 DEF j, Occurs

\* What is found in a text is still there, and still first, when more has arrived.
LEMMA FoundAsBefore ==
    ASSUME NEW A, NEW s \in Seq(A), NEW e \in Seq(A), NEW pat \in Seq(A), pat # <<>>,
           NEW from \in Nat \ {0}, Find(s, pat, from) # 0
    PROVE  Find(s \o e, pat, from) = Find(s, pat, from)
<1> DEFINE x == Find(s, pat, from)
<1>1. FirstPlace(s, pat, from, x)
  BY FindIs
<1> HIDE DEF x
<1>2. /\ s \o e \in Seq(A) /\ Len(s \o e) = Len(s) + Len(e)
      /\ Len(s) \in Nat /\ Len(e) \in Nat /\ Len(pat) \in Nat
  BY ConcatProperties, LenProperties
<1>3. x \in Nat \ {0} /\ from <= x /\ x + Len(pat) <= Len(s) + 1
  BY <1>1 DEF FirstPlace
<1>4. Occurs(s \o e, pat, x)
  BY <1>1, <1>3, OccursAsBefore DEF FirstPlace
<1>5. ASSUME NEW n \in Nat, from <= n, n < x PROVE ~Occurs(s \o e, pat, n)
  <2>1. n \in Nat \ {0} /\ n + Len(pat) <= Len(s) + 1
    BY <1>2, <1>3, <1>5
  <2>2. ~Occurs(s, pat, n)
    BY <1>1, <1>5 DEF FirstPlace
  <2> QED BY <2>1, <2>2, OccursAsBefore
<1>6. FirstPlace(s \o e, pat, from, x)
  <2>1. x + Len(pat) <= Len(s \o e) + 1
    BY <1>2, <1>3
  <2> QED BY <1>3, <1>4, <1>5, <2>1 DEF FirstPlace
<1>7. Find(s \o e, pat, from) = x
  BY <1>2, <1>6, OnePlace
<1> QED BY <1>7 DEF x

\* What was not found is found, if at all, no earlier than where the old text ends.
LEMMA FoundLate ==
    ASSUME NEW A, NEW s \in Seq(A), NEW e \in Seq(A), NEW pat \in Seq(A), pat # <<>>,
           NEW from \in Nat \ {0}, Find(s, pat, from) = 0, Find(s \o e, pat, from) # 0
    PROVE  Find(s \o e, pat, from) + Len(pat) > Len(s) + 1
<1> DEFINE x == Find(s \o e, pat, from)
<1>1. s \o e \in Seq(A)
  BY ConcatProperties
<1>2. FirstPlace(s \o e, pat, from, x)
  BY <1>1, FindIs
<1>3. NoPlace(s, pat, from)
  BY FindIs
<1> HIDE DEF x
<1>4. Len(s) \in Nat /\ Len(pat) \in Nat /\ x \in Nat \ {0} /\ from <= x
  BY <1>2, LenProperties DEF FirstPlace
<1>5. ASSUME x + Len(pat) <= Len(s) + 1 PROVE FALSE
  <2>1. Occurs(s, pat, x)
    BY <1>2, <1>4, <1>5, OccursAsBefore DEF FirstPlace
  <2> QED BY <1>3, <1>4, <1>5, <2>1 DEF NoPlace
<1>6. x + Len(pat) > Len(s) + 1
  BY <1>4, <1>5
<1> QED BY <1>6 DEF x

\* A part of a text is a text.
LEMMA UpToType ==
    ASSUME NEW A, NEW s \in Seq(A), NEW pat \in Seq(A), pat # <<>>, NEW a \in Nat \ {0}
    PROVE  UpTo(s, a, pat) \in Seq(A)
<1> DEFINE x == Find(s, pat, a)
           z == IF x = 0 THEN Len(s) ELSE x - 1
<1>1. x \in Nat /\ (x # 0 => FirstPlace(s, pat, a, x))
  BY FindIs
<1>2. UpTo(s, a, pat) = SubSeq(s, a, z)
  BY DEF UpTo
<1> HIDE DEF x
<1>3. Len(s) \in Nat /\ Len(pat) \in Nat
  BY LenProperties
<1>4. z \in Nat /\ z <= Len(s)
  <2>0. Len(pat) # 0
    BY EmptySeq
  <2>1. CASE x = 0
    BY <1>3, <2>1
  <2>2. CASE x # 0
    <3>1. x + Len(pat) <= Len(s) + 1
      BY <1>1, <2>2 DEF FirstPlace
    <3> QED BY <1>1, <1>3, <2>0, <2>2, <3>1
  <2> QED BY <2>1, <2>2
<1> HIDE DEF z
<1>5. \A i \in a .. z : s[i] \in A
  <2>1. \A i \in a .. z : i \in 1 .. Len(s)
    BY <1>3, <1>4
  <2> QED BY <2>1, ElementOfSeq
<1>6. SubSeq(s, a, z) \in Seq(A)
  BY <1>4, <1>5, SubSeqProperties
<1> QED BY <1>2, <1>6

\* A part that has ended does not change.
LEMMA UpToAsBefore ==
    ASSUME NEW A, NEW s \in Seq(A), NEW e \in Seq(A), NEW pat \in Seq(A), pat # <<>>,
           NEW a \in Nat \ {0}, Find(s, pat, a) # 0
    PROVE  UpTo(s \o e, a, pat) = UpTo(s, a, pat)
<1> DEFINE x == Find(s, pat, a)
           z == x - 1
<1>1. Find(s \o e, pat, a) = x
  BY FoundAsBefore
<1>2. FirstPlace(s, pat, a, x)
  BY FindIs
<1>3. UpTo(s, a, pat) = SubSeq(s, a, z) /\ UpTo(s \o e, a, pat) = SubSeq(s \o e, a, z)
  BY <1>1 DEF UpTo
<1> HIDE DEF x
<1>4. Len(s) \in Nat /\ Len(pat) \in Nat \ {0}
  BY LenProperties, EmptySeq
<1>5. z \in Int /\ z <= Len(s)
  BY <1>2, <1>4 DEF FirstPlace
<1> HIDE DEF z
<1>6. CASE a <= z
  <2>1. a \in 1 .. Len(s) /\ z \in 1 .. Len(s)
    BY <1>4, <1>5, <1>6
  <2>2. SubSeq(s \o e, a, z) = SubSeq(s, a, z)
    BY <2>1, SubSeqOfConcat1
  <2> QED BY <1>3, <2>2
<1>7. CASE z < a
  <2>1. SubSeq(s \o e, a, z) = <<>> /\ SubSeq(s, a, z) = <<>>
    BY <1>5, <1>7, SubSeqEmpty
  <2> QED BY <1>3, <2>1
<1> QED BY <1>5, <1>6, <1>7

-----------------------------------------------------------------------------
(* The length of the first request.                                        *)

LEMMA ShortSequences ==
    ASSUME NEW A, NEW x \in A, NEW y \in A
    PROVE  /\ <<x>> \in Seq(A) /\ <<x>> # <<>> /\ Len(<<x>>) = 1
           /\ <<x, y>> \in Seq(A) /\ Len(<<x, y>>) = 2 /\ <<x, y>>[1] = x /\ <<x, y>>[2] = y
OBVIOUS

\* What Append makes of nothing, twice.
LEMMA TwoAppended ==
    ASSUME NEW A, NEW x \in A, NEW y \in A
    PROVE  Append(Append(<<>>, x), y) = <<x, y>>
<1> DEFINE o == Append(<<>>, x)
           t == Append(o, y)
           u == <<x, y>>
<1>0. <<>> \in Seq(A) /\ Len(<<>>) = 0
  BY EmptySeq
<1>1. o \in Seq(A) /\ Len(o) = 1 /\ o[1] = x
  <2>1. o \in Seq(A) /\ Len(o) = Len(<<>>) + 1 /\ o[Len(<<>>) + 1] = x
    BY <1>0, AppendProperties
  <2> QED BY <1>0, <2>1
<1> HIDE DEF o
<1>2. t \in Seq(A) /\ Len(t) = 2 /\ t[1] = x /\ t[2] = y
  <2>1. /\ t \in Seq(A) /\ Len(t) = Len(o) + 1 /\ \A i \in 1 .. Len(o) : t[i] = o[i]
        /\ t[Len(o) + 1] = y
    <3>1. o \in Seq(A)
      BY <1>1
    <3> QED BY <3>1, AppendProperties
  <2> HIDE DEF t
  <2>2. 1 \in 1 .. Len(o) /\ Len(o) + 1 = 2
    BY <1>1
  <2> QED BY <1>1, <2>1, <2>2
<1>3. u \in Seq(A) /\ Len(u) = 2 /\ u[1] = x /\ u[2] = y
  BY ShortSequences
<1> HIDE DEF t, u
<1>4. \A i \in 1 .. Len(t) : t[i] = u[i]
  <2>1. \A i \in 1 .. 2 : i = 1 \/ i = 2
    OBVIOUS
  <2> QED BY <1>2, <1>3, <2>1
<1>5. t = u
  BY <1>2, <1>3, <1>4, SeqEqual
<1> QED BY <1>5 DEF t, u, o

\* The patterns the code looks for.
LEMMA Patterns ==
    /\ CRLF \in Streamed /\ CRLF # <<>> /\ Len(CRLF) = 2 /\ CRLF[1] = CR /\ CRLF[2] = LF
    /\ EndOfHeader \in Streamed /\ EndOfHeader # <<>> /\ Len(EndOfHeader) = 4
    /\ EndOfHeader[1] = CR /\ EndOfHeader[2] = LF
    /\ <<LengthField>> \in Streamed /\ <<LengthField>> # <<>>
    /\ Len(<<LengthField>>) = 1
<1>1. CR \in STRING /\ LF \in STRING /\ LengthField \in STRING
  BY TextAssumption
<1>2. /\ CRLF \in Streamed /\ Len(CRLF) = 2
      /\ CRLF[1] = CR /\ CRLF[2] = LF
  BY <1>1, ShortSequences DEF CRLF, Streamed
<1>3. /\ EndOfHeader \in Streamed /\ Len(EndOfHeader) = 4
      /\ EndOfHeader[1] = CR /\ EndOfHeader[2] = LF
  <2>1. 1 \in 1 .. 2 + 2 /\ 2 \in 1 .. 2 + 2 /\ 2 + 2 = 4 /\ 1 <= 2 /\ 2 <= 2
    OBVIOUS
  <2>2. /\ CRLF \o CRLF \in Streamed /\ Len(CRLF \o CRLF) = 2 + 2
        /\ \A i \in 1 .. 2 + 2 : (CRLF \o CRLF)[i] = IF i <= 2 THEN CRLF[i] ELSE CRLF[i - 2]
    <3> DEFINE a == CRLF
    <3>1. a \in Seq(STRING) /\ Len(a) = 2
      BY <1>2 DEF Streamed
    <3> HIDE DEF a
    <3>2. /\ a \o a \in Seq(STRING) /\ Len(a \o a) = Len(a) + Len(a)
          /\ \A i \in 1 .. Len(a) + Len(a) : (a \o a)[i] = IF i <= Len(a) THEN a[i] ELSE a[i - Len(a)]
      BY <3>1, ConcatProperties
    <3> QED BY <3>1, <3>2 DEF a, Streamed
  <2>3. (CRLF \o CRLF)[1] = CRLF[1] /\ (CRLF \o CRLF)[2] = CRLF[2]
    BY <2>1, <2>2
  <2> QED BY <1>2, <2>1, <2>2, <2>3 DEF EndOfHeader
<1>4. EndOfHeader # <<>> /\ CRLF # <<>>
  BY <1>2, <1>3, EmptySeq
<1>5. /\ <<LengthField>> \in Streamed /\ <<LengthField>> # <<>>
      /\ Len(<<LengthField>>) = 1
  BY <1>1, ShortSequences DEF Streamed
<1> QED BY <1>2, <1>3, <1>4, <1>5

\* The front of a text that is in T ends somewhere.
LEMMA LeadingIs ==
    ASSUME NEW s \in Streamed, NEW T
    PROVE  /\ Leading(s, T) \in 0 .. Len(s) /\ Len(s) \in Nat
           /\ \A k \in 1 .. Leading(s, T) : s[k] \in T
<1> DEFINE Ok(n) == /\ \A k \in 1 .. n : s[k] \in T
                    /\ n < Len(s) => s[n + 1] \notin T
<1>1. Len(s) \in Nat
  BY LenProperties DEF Streamed
<1>2. \E n \in 0 .. Len(s) : Ok(n)
  <2> DEFINE E == {n \in 0 .. Len(s) : n < Len(s) => s[n + 1] \notin T}
  <2>1. E \subseteq Nat /\ E # {}
    <3>1. Len(s) \in E
      BY <1>1
    <3> QED BY <1>1, <3>1
  <2>2. PICK n \in E : \A k \in E : n <= k
    <3> HIDE DEF E
    <3> QED BY <2>1, Least
  <2>3. ASSUME NEW k \in 1 .. n PROVE s[k] \in T
    <3>1. k - 1 \in 0 .. Len(s) /\ ~(n <= k - 1) /\ k - 1 + 1 = k
      BY <1>1, <2>2
    <3>2. k - 1 \notin E
      BY <2>2, <3>1
    <3> QED BY <3>1, <3>2
  <2> QED BY <2>2, <2>3
<1>3. Leading(s, T) = CHOOSE n \in 0 .. Len(s) : Ok(n)
  BY DEF Leading
<1>4. Leading(s, T) \in 0 .. Len(s) /\ Ok(Leading(s, T))
  <2> HIDE DEF Ok
  <2> QED BY <1>2, <1>3
<1> QED BY <1>1, <1>4

\* A length is a natural number, whatever text it is read from.
LEMMA StoullType == ASSUME NEW s \in Streamed PROVE Stoull(s) \in Nat
<1> DEFINE a == Leading(s, {" ", "\t", CR, LF})
           text == SubSeq(s, a + 1, Len(s))
           signed == text # <<>> /\ text[1] \in {"+", "-"}
           rest == IF signed THEN Tail(text) ELSE text
           c == Leading(rest, DOMAIN Digit)
           digits == SubSeq(rest, 1, c)
           v == Decimal(digits)
<1>1. text \in Streamed
  <2>1. a \in 0 .. Len(s) /\ Len(s) \in Nat
    BY LeadingIs
  <2> HIDE DEF a
  <2>2. \A k \in a + 1 .. Len(s) : s[k] \in STRING
    BY <2>1, ElementOfSeq DEF Streamed
  <2> QED BY <2>1, <2>2, SubSeqProperties DEF Streamed
<1>2. Stoull(s) = IF v >= Limit THEN 0
                  ELSE IF signed /\ text[1] = "-" THEN (Limit - v) % Limit ELSE v
  BY DEF Stoull
<1> HIDE DEF text
<1>3. rest \in Streamed
  BY <1>1, HeadTailProperties DEF Streamed
<1> HIDE DEF signed, rest
<1>4. DOMAIN Digit = Range(Digits)
  BY DEF Digit
<1>5. c \in 0 .. Len(rest) /\ Len(rest) \in Nat /\ \A k \in 1 .. c : rest[k] \in Range(Digits)
  BY <1>3, <1>4, LeadingIs
<1> HIDE DEF c
<1>6. digits \in Seq(Range(Digits))
  <2>1. c \in Int
    BY <1>5
  <2> QED BY <1>5, <2>1, SubSeqProperties
<1>7. v \in Nat
  BY <1>6, DecimalType
<1> HIDE DEF v
<1>8. Limit \in Nat \ {0}
  BY TextAssumption
<1>9. (Limit - v) % Limit \in Nat
  BY <1>7, <1>8
<1> QED BY <1>2, <1>7, <1>9

\* Also if there is no such field.
LEMMA ContentLengthType ==
    ASSUME NEW d \in Streamed, NEW h PROVE ContentLength(d, h) \in Nat
<1> DEFINE x == Find(d, <<LengthField>>, 1)
<1>1. x \in Nat
  <2>1. 1 \in Nat \ {0}
    OBVIOUS
  <2> QED BY <2>1, Patterns, FindIs DEF Streamed
<1> HIDE DEF x
<1>2. UpTo(d, x + 1, CRLF) \in Streamed
  <2>1. x + 1 \in Nat \ {0}
    BY <1>1
  <2> QED BY <2>1, Patterns, UpToType DEF Streamed
<1>3. Stoull(UpTo(d, x + 1, CRLF)) \in Nat
  BY <1>2, StoullType
<1> QED BY <1>3 DEF ContentLength, x

\* The field is looked for in the header only: what follows the end of the header makes no
\* difference to the length.
LEMMA ContentLengthAsBefore ==
    ASSUME NEW d \in Streamed, NEW e \in Streamed, Find(d, EndOfHeader, 1) # 0
    PROVE  ContentLength(d \o e, Find(d, EndOfHeader, 1)) = ContentLength(d, Find(d, EndOfHeader, 1))
<1> DEFINE h == Find(d, EndOfHeader, 1)
           field == <<LengthField>>
           x == Find(d, field, 1)
           y == Find(d \o e, field, 1)
<1>0. 1 \in Nat \ {0} /\ Len(d) \in Nat /\ d \o e \in Streamed
  BY LenProperties, ConcatProperties DEF Streamed
<1>p. /\ EndOfHeader \in Seq(STRING) /\ EndOfHeader # <<>> /\ Len(EndOfHeader) = 4
      /\ CRLF \in Seq(STRING) /\ CRLF # <<>> /\ Len(CRLF) = 2
      /\ field \in Seq(STRING) /\ field # <<>> /\ Len(field) = 1
      /\ d \in Seq(STRING) /\ e \in Seq(STRING) /\ d \o e \in Seq(STRING)
  BY <1>0, Patterns DEF Streamed
<1>5. /\ ContentLength(d, h) =
             IF x # 0 /\ x < h THEN Stoull(UpTo(d, x + 1, CRLF)) ELSE 0
      /\ ContentLength(d \o e, h) =
             IF y # 0 /\ y < h THEN Stoull(UpTo(d \o e, y + 1, CRLF)) ELSE 0
  BY DEF ContentLength
<1> HIDE DEF field
<1>1. h \in Nat \ {0} /\ h + 4 <= Len(d) + 1 /\ Occurs(d, EndOfHeader, h)
  <2>1. FirstPlace(d, EndOfHeader, 1, h)
    BY <1>0, <1>p, FindIs
  <2> QED BY <1>p, <2>1 DEF FirstPlace
<1>2. x \in Nat /\ y \in Nat
  BY <1>0, <1>p, FindIs
<1>3. x # 0 => y = x
  <2> SUFFICES ASSUME x # 0 PROVE y = x
    OBVIOUS
  <2> QED BY <1>0, <1>p, FoundAsBefore
<1>4. x = 0 /\ y # 0 => y + 1 > Len(d) + 1
  <2> SUFFICES ASSUME x = 0, y # 0 PROVE y + 1 > Len(d) + 1
    OBVIOUS
  <2> QED BY <1>0, <1>p, FoundLate
<1> HIDE DEF h, x, y
<1>6. CASE x = 0
  <2>1. ~(y # 0 /\ y < h)
    BY <1>0, <1>1, <1>2, <1>4, <1>6
  <2> QED BY <1>5, <1>6, <2>1 DEF h
<1>7. CASE x # 0 /\ ~(x < h)
  BY <1>3, <1>5, <1>7 DEF h
<1>8. CASE x # 0 /\ x < h
  <2>1. Occurs(d, CRLF, h)
    <3>1. d[h] = CR /\ d[h + 1] = LF
      <4> DEFINE u == SubSeq(d, h, h + 3)
      <4>1. u = EndOfHeader
        <5>1. h + 3 = h + 4 - 1
          BY <1>1
        <5> QED BY <1>1, <5>1, Patterns DEF Occurs
      <4>2. \A i \in h .. h + 3 : d[i] \in STRING
        <5>1. \A i \in h .. h + 3 : i \in 1 .. Len(d)
          BY <1>0, <1>1
        <5> QED BY <5>1, ElementOfSeq DEF Streamed
      <4>3. h \in Int /\ h + 3 \in Int /\ 1 \in 1 .. (h + 3) - h + 1 /\ 2 \in 1 .. (h + 3) - h + 1
        BY <1>1
      <4>4. u[1] = d[h + 1 - 1] /\ u[2] = d[h + 2 - 1]
        BY <4>2, <4>3, SubSeqProperties
      <4>5. h + 1 - 1 = h /\ h + 2 - 1 = h + 1
        BY <1>1
      <4> QED BY <4>1, <4>4, <4>5, Patterns
    <3> DEFINE t == SubSeq(d, h, h + 1)
    <3>2. \A i \in h .. h + 1 : d[i] \in STRING
      <4>1. \A i \in h .. h + 1 : i \in 1 .. Len(d)
        BY <1>0, <1>1
      <4> QED BY <4>1, ElementOfSeq DEF Streamed
    <3>3. /\ t \in Streamed /\ Len(t) = IF h <= h + 1 THEN (h + 1) - h + 1 ELSE 0
          /\ \A i \in 1 .. (h + 1) - h + 1 : t[i] = d[h + i - 1]
      <4>1. h \in Int /\ h + 1 \in Int
        BY <1>1
      <4> QED BY <3>2, <4>1, SubSeqProperties DEF Streamed
    <3> HIDE DEF t
    <3>4. Len(t) = 2 /\ t[1] = CR /\ t[2] = LF
      <4>1. (h + 1) - h + 1 = 2 /\ h <= h + 1 /\ h + 1 - 1 = h /\ h + 2 - 1 = h + 1
        BY <1>1
      <4>2. t[1] = d[h + 1 - 1] /\ t[2] = d[h + 2 - 1] /\ Len(t) = 2
        BY <3>3, <4>1
      <4> QED BY <3>1, <4>1, <4>2
    <3>5. \A i \in 1 .. Len(t) : t[i] = CRLF[i]
      <4>1. \A i \in 1 .. 2 : i = 1 \/ i = 2
        OBVIOUS
      <4> QED BY <3>4, <4>1, Patterns
    <3>6. t = CRLF
      BY <3>3, <3>4, <3>5, Patterns, SeqEqual DEF Streamed
    <3>7. h + Len(CRLF) - 1 = h + 1
      <4>1. Len(CRLF) = 2
        BY <1>p
      <4> QED BY <1>1, <4>1
    <3> QED BY <3>6, <3>7 DEF t, Occurs
  <2>2. x + 1 \in Nat \ {0} /\ x + 1 <= h /\ h + 2 <= Len(d) + 1
    BY <1>0, <1>1, <1>2, <1>8
  <2>3. Find(d, CRLF, x + 1) # 0
    <3>1. Find(d, CRLF, x + 1) = 0 => NoPlace(d, CRLF, x + 1)
      BY <1>p, <2>2, FindIs
    <3>2. ~NoPlace(d, CRLF, x + 1)
      BY <1>1, <1>p, <2>1, <2>2 DEF NoPlace
    <3> QED BY <3>1, <3>2
  <2>4. UpTo(d \o e, x + 1, CRLF) = UpTo(d, x + 1, CRLF)
    BY <1>p, <2>2, <2>3, UpToAsBefore
  <2> QED BY <1>3, <1>5, <1>8, <2>4 DEF h
<1> QED BY <1>6, <1>7, <1>8

\* The first request is no longer than the text, also if its length wraps.
LEMMA FirstRequestType ==
    ASSUME NEW d \in Streamed PROVE FirstRequest(d) \in 0 .. Len(d)
<1> DEFINE h == Find(d, EndOfHeader, 1)
           c == ContentLength(d, h)
           n == IF h = 0 THEN 0 ELSE (h - 1 + 4 + c) % Limit
<1>1. h \in Nat /\ c \in Nat
  <2>1. 1 \in Nat \ {0}
    OBVIOUS
  <2>2. h \in Nat
    BY <2>1, Patterns, FindIs DEF Streamed
  <2> HIDE DEF h
  <2> QED BY <2>2, ContentLengthType
<1>2. FirstRequest(d) = IF n > Len(d) THEN 0 ELSE n
  BY DEF FirstRequest, getFullRequestLength
<1> HIDE DEF h, c
<1>3. Limit \in Nat \ {0} /\ Len(d) \in Nat
  BY TextAssumption, LenProperties DEF Streamed
<1>4. n \in Nat
  <2>1. CASE h = 0
    BY <2>1
  <2>2. CASE h # 0
    <3>1. h - 1 + 4 + c \in Nat
      BY <1>1, <2>2
    <3>2. (h - 1 + 4 + c) % Limit \in Nat
      BY <1>3, <3>1
    <3> QED BY <2>2, <3>2
  <2> QED BY <2>1, <2>2
<1> HIDE DEF n
<1> QED BY <1>2, <1>3, <1>4

\* A request that is complete is the same one when more has arrived.
LEMMA FirstAsBefore ==
    ASSUME NEW d \in Streamed, NEW e \in Streamed, FirstRequest(d) # 0
    PROVE  FirstRequest(d \o e) = FirstRequest(d)
<1> DEFINE h == Find(d, EndOfHeader, 1)
           n == getFullRequestLength(d, h)
<1>1. h # 0 /\ n <= Len(d) /\ FirstRequest(d) = n
  <2>1. FirstRequest(d) = IF (IF h = 0 THEN 0 ELSE n) > Len(d) THEN 0 ELSE (IF h = 0 THEN 0 ELSE n)
    BY DEF FirstRequest
  <2> HIDE DEF h, n
  <2>2. h # 0
    BY <2>1
  <2>3. FirstRequest(d) = IF n > Len(d) THEN 0 ELSE n
    BY <2>1, <2>2
  <2>4. FirstRequest(d) = n
    BY <2>3
  <2>5. FirstRequest(d) \in 0 .. Len(d) /\ Len(d) \in Nat
    BY FirstRequestType, LenProperties DEF Streamed
  <2> QED BY <2>2, <2>4, <2>5
<1>2. Find(d \o e, EndOfHeader, 1) = h
  <2>1. 1 \in Nat \ {0}
    OBVIOUS
  <2>2. EndOfHeader \in Seq(STRING) /\ EndOfHeader # <<>>
    BY Patterns DEF Streamed
  <2>3. d \in Seq(STRING) /\ e \in Seq(STRING)
    BY DEF Streamed
  <2> QED BY <1>1, <2>1, <2>2, <2>3, FoundAsBefore
<1>3. ContentLength(d \o e, h) = ContentLength(d, h)
  BY <1>1, ContentLengthAsBefore
<1>4. getFullRequestLength(d \o e, h) = n
  BY <1>3 DEF getFullRequestLength
<1>5. FirstRequest(d \o e) = IF (IF h = 0 THEN 0 ELSE n) > Len(d \o e) THEN 0 ELSE (IF h = 0 THEN 0 ELSE n)
  BY <1>2, <1>4 DEF FirstRequest
<1> HIDE DEF h, n
<1>6. Len(d) \in Nat /\ Len(e) \in Nat /\ Len(d \o e) = Len(d) + Len(e)
  BY LenProperties, ConcatProperties DEF Streamed
<1>7. n \in Nat
  <2>1. FirstRequest(d) \in 0 .. Len(d)
    BY FirstRequestType
  <2> QED BY <1>1, <1>6, <2>1
<1>8. ~(n > Len(d \o e))
  BY <1>1, <1>6, <1>7
<1> QED BY <1>1, <1>5, <1>8

-----------------------------------------------------------------------------
(* The split loop.                                                         *)

Splittable(s) == FirstRequest(s.buffer) # 0
Turn(s) == IF Splittable(s) THEN Round(s) ELSE s
Conn(r, b) == [requests |-> r, buffer |-> b]

LEMMA Associative == \A a, b, c \in Streamed : (a \o b) \o c = a \o (b \o c)
<1> TAKE a, b, c \in Streamed
<1>1. a \in Seq(STRING) /\ b \in Seq(STRING) /\ c \in Seq(STRING)
  BY DEF Streamed
<1> QED BY <1>1, ConcatAssociative

\* A round takes the first request, and nothing else, off the buffer.
LEMMA RoundType ==
    ASSUME NEW s \in Connection, Splittable(s)
    PROVE  /\ Round(s) \in Connection
           /\ Len(Round(s).buffer) \in Nat /\ Len(s.buffer) \in Nat
           /\ Len(Round(s).buffer) < Len(s.buffer)
           /\ SubSeq(s.buffer, 1, FirstRequest(s.buffer)) \in Streamed
           /\ SubSeq(s.buffer, 1, FirstRequest(s.buffer)) \o Round(s).buffer = s.buffer
<1> DEFINE d == s.buffer
           n == FirstRequest(d)
           m == Len(d)
           x == SubSeq(d, 1, n)
           y == SubSeq(d, n + 1, m)
<1>1. s.requests \in Seq(Streamed) /\ d \in Streamed
  BY DEF Connection, Streamed
<1>2. Round(s) = [requests |-> Append(s.requests, x), buffer |-> y]
  BY DEF Round
<1>3. n \in 0 .. m /\ n # 0
  <2>1. n # 0
    BY DEF Splittable
  <2> HIDE DEF d
  <2> QED BY <1>1, <2>1, FirstRequestType
<1> HIDE DEF d, n
<1>4. m \in Nat
  BY <1>1, LenProperties DEF Streamed
<1>5. \A i \in 1 .. m : d[i] \in STRING
  BY <1>1, ElementOfSeq DEF Streamed
<1>m. m = Len(d)
  OBVIOUS
<1> HIDE DEF m
<1>6. x \in Streamed
  <2>1. \A i \in 1 .. n : d[i] \in STRING
    BY <1>3, <1>4, <1>5
  <2>2. 1 \in Int /\ n \in Int
    BY <1>3, <1>4
  <2> QED BY <2>1, <2>2, SubSeqProperties DEF Streamed
<1>7. y \in Streamed /\ Len(y) \in Nat /\ Len(y) < m
  <2>1. \A i \in n + 1 .. m : d[i] \in STRING
    BY <1>3, <1>4, <1>5
  <2>2. n + 1 \in Int /\ m \in Int
    BY <1>3, <1>4
  <2>3. y \in Streamed /\ Len(y) = IF n + 1 <= m THEN m - (n + 1) + 1 ELSE 0
    BY <2>1, <2>2, SubSeqProperties DEF Streamed
  <2>4. (IF n + 1 <= m THEN m - (n + 1) + 1 ELSE 0) < m /\ (IF n + 1 <= m THEN m - (n + 1) + 1 ELSE 0) \in Nat
    BY <1>3, <1>4
  <2> QED BY <2>3, <2>4
<1>8. x \o y = d
  <2>1. /\ d \in Seq(STRING) /\ 1 \in 1 .. Len(d) + 1 /\ n \in 1 - 1 .. Len(d)
        /\ m \in n .. Len(d)
    BY <1>1, <1>3, <1>4, <1>m DEF Streamed
  <2>2. x \o y = SubSeq(d, 1, m)
    BY <2>1, ConcatAdjacentSubSeq
  <2>3. SubSeq(d, 1, m) = d
    BY <1>m, <2>1, SubSeqFull
  <2> QED BY <2>2, <2>3
<1>9. Append(s.requests, x) \in Seq(Streamed)
  BY <1>1, <1>6, AppendProperties
<1> HIDE DEF x, y
<1>10. Round(s) \in Connection /\ Round(s).buffer = y
  BY <1>2, <1>7, <1>9 DEF Connection, Streamed
<1>11. Len(Round(s).buffer) \in Nat /\ Len(Round(s).buffer) < m
  BY <1>7, <1>10
<1>12. x \o Round(s).buffer = d
  BY <1>8, <1>10
<1> QED BY <1>4, <1>6, <1>10, <1>11, <1>12 DEF d, n, m, x

\* The connections the loop goes through from s on, and where it ends.
Trace(t, s) ==
    t \in [Nat -> Connection] /\ t[0] = s /\ \A i \in Nat : t[i + 1] = Turn(t[i])
Ends(s) == {r \in Connection : \E t, n : Trace(t, s) /\ n \in Nat /\ r = t[n] /\ ~Splittable(r)}
Some(R) == CHOOSE r : r \in R

\* The buffer gets shorter, so the loop ends.
LEMMA LoopEnds == ASSUME NEW s \in Connection PROVE Ends(s) # {}
<1> DEFINE G == [p \in Nat \X Connection |-> Turn(p[2])]
<1>1. G \in [Nat \X Connection -> Connection]
  <2>1. ASSUME NEW r \in Connection PROVE Turn(r) \in Connection
    BY RoundType DEF Turn
  <2>2. \A p \in Nat \X Connection : p[2] \in Connection
    OBVIOUS
  <2> QED BY <2>1, <2>2
<1>2. PICK t : t \in [Nat -> Connection] /\ t[0] = s /\ \A i \in Nat : t[i + 1] = G[<<i, t[i]>>]
  <2> HIDE DEF G
  <2>1. PICK t : Recursive(t, Connection, s, G)
    BY <1>1, Recursion
  <2> QED BY <2>1 DEF Recursive
<1>3. Trace(t, s)
  <2>1. ASSUME NEW i \in Nat PROVE t[i + 1] = Turn(t[i])
    <3>1. <<i, t[i]>> \in Nat \X Connection
      BY <1>2
    <3> QED BY <1>2, <3>1
  <2> QED BY <1>2, <2>1 DEF Trace
<1>4. \E n \in Nat : ~Splittable(t[n])
  <2> DEFINE T == {Len(t[n].buffer) : n \in Nat}
  <2>1. SUFFICES ASSUME \A n \in Nat : Splittable(t[n]) PROVE FALSE
    OBVIOUS
  <2>2. ASSUME NEW n \in Nat
        PROVE  Len(t[n].buffer) \in Nat /\ Len(t[n + 1].buffer) < Len(t[n].buffer) /\ n + 1 \in Nat
    <3>1. t[n] \in Connection /\ t[n + 1] = Round(t[n])
      BY <1>3, <2>1 DEF Trace, Turn
    <3>2. Splittable(t[n])
      BY <2>1
    <3> QED BY <3>1, <3>2, RoundType
  <2>3. T \subseteq Nat /\ T # {}
    <3>1. T # {}
      OBVIOUS
    <3> QED BY <2>2, <3>1
  <2>4. PICK x \in T : \A y \in T : x <= y
    <3> HIDE DEF T
    <3> QED BY <2>3, Least
  <2>5. PICK n \in Nat : x = Len(t[n].buffer)
    BY <2>4
  <2>6. Len(t[n + 1].buffer) \in T /\ Len(t[n + 1].buffer) \in Nat
    BY <2>2
  <2>7. /\ Len(t[n].buffer) \in Nat /\ Len(t[n + 1].buffer) < Len(t[n].buffer)
        /\ Len(t[n].buffer) <= Len(t[n + 1].buffer)
    BY <2>2, <2>4, <2>5, <2>6
  <2> HIDE DEF T
  <2> QED BY <2>6, <2>7
<1>5. PICK n \in Nat : ~Splittable(t[n])
  BY <1>4
<1>6. t[n] \in Ends(s)
  BY <1>3, <1>5 DEF Ends, Trace
<1> QED BY <1>6

\* It ends at once if there is no request at the front, and else where the next round ends.
LEMMA EndsHere == ASSUME NEW s \in Connection, ~Splittable(s), NEW r \in Ends(s) PROVE r = s
<1>1. PICK t, n : Trace(t, s) /\ n \in Nat /\ r = t[n]
  BY DEF Ends
<1> DEFINE T == {i \in Nat : t[i] # s}
<1>2. SUFFICES ASSUME T # {} PROVE FALSE
  BY <1>1
<1>3. PICK i \in T : \A j \in T : i <= j
  <2>1. T \subseteq Nat
    OBVIOUS
  <2> HIDE DEF T
  <2> QED BY <1>2, <2>1, Least
<1>4. i \in Nat /\ i # 0 /\ t[i] # s
  BY <1>1, <1>3 DEF Trace
<1>5. i - 1 \in Nat /\ i - 1 + 1 = i /\ ~(i <= i - 1)
  BY <1>4
<1>6. t[i - 1] = s
  BY <1>3, <1>5
<1>7. t[i] = Turn(s)
  BY <1>1, <1>5, <1>6 DEF Trace
<1> QED BY <1>4, <1>7 DEF Turn

LEMMA EndsLater == ASSUME NEW s \in Connection, Splittable(s) PROVE Ends(s) = Ends(Round(s))
<1>0. Round(s) \in Connection
  BY RoundType
<1>1. ASSUME NEW r \in Ends(s) PROVE r \in Ends(Round(s))
  <2>1. PICK t, n : Trace(t, s) /\ n \in Nat /\ r = t[n] /\ ~Splittable(r)
    BY DEF Ends
  <2> DEFINE u == [i \in Nat |-> t[i + 1]]
  <2>2. n # 0
    BY <2>1 DEF Trace
  <2>3. n - 1 \in Nat /\ n - 1 + 1 = n
    BY <2>1, <2>2
  <2>4. Trace(u, Round(s))
    <3>1. \A i \in Nat : i + 1 \in Nat
      BY OneAbove
    <3>2. u \in [Nat -> Connection]
      BY <2>1, <3>1 DEF Trace
    <3>3. u[0] = Round(s)
      <4>1. t[0 + 1] = Turn(t[0]) /\ t[0] = s
        BY <2>1 DEF Trace
      <4>2. u[0] = t[0 + 1]
        OBVIOUS
      <4> QED BY <4>1, <4>2 DEF Turn
    <3>4. ASSUME NEW i \in Nat PROVE u[i + 1] = Turn(u[i])
      <4>1. t[i + 1 + 1] = Turn(t[i + 1])
        BY <2>1, <3>1 DEF Trace
      <4> QED BY <3>1, <4>1
    <3> QED BY <3>2, <3>3, <3>4 DEF Trace
  <2>5. u[n - 1] = r
    BY <2>1, <2>3
  <2>6. r \in Connection
    BY DEF Ends
  <2> HIDE DEF u
  <2> QED BY <2>1, <2>3, <2>4, <2>5, <2>6 DEF Ends
<1>2. ASSUME NEW r \in Ends(Round(s)) PROVE r \in Ends(s)
  <2>1. PICK t, n : Trace(t, Round(s)) /\ n \in Nat /\ r = t[n] /\ ~Splittable(r)
    BY DEF Ends
  <2> DEFINE u == [i \in Nat |-> IF i = 0 THEN s ELSE t[i - 1]]
  <2>2. Trace(u, s)
    <3>1. ASSUME NEW i \in Nat, i # 0 PROVE i - 1 \in Nat /\ i - 1 + 1 = i
      BY <3>1
    <3>2. u \in [Nat -> Connection] /\ u[0] = s
      BY <2>1, <3>1 DEF Trace
    <3>3. ASSUME NEW i \in Nat PROVE u[i + 1] = Turn(u[i])
      <4>1. i + 1 \in Nat /\ i + 1 # 0 /\ i + 1 - 1 = i
        OBVIOUS
      <4>2. u[i + 1] = t[i]
        BY <4>1
      <4>3. CASE i = 0
        <5>1. t[0] = Round(s)
          BY <2>1 DEF Trace
        <5> QED BY <4>2, <4>3, <5>1 DEF Turn
      <4>4. CASE i # 0
        <5>1. t[i - 1 + 1] = Turn(t[i - 1])
          BY <2>1, <3>1, <4>4 DEF Trace
        <5> QED BY <3>1, <4>2, <4>4, <5>1
      <4> QED BY <4>3, <4>4
    <3> QED BY <3>2, <3>3 DEF Trace
  <2>3. n + 1 \in Nat /\ u[n + 1] = r
    BY <2>1
  <2>4. r \in Connection
    BY DEF Ends
  <2> HIDE DEF u
  <2> QED BY <2>1, <2>2, <2>3, <2>4 DEF Ends
<1> QED BY <1>1, <1>2

\* So there is a function that satisfies the equation by which SplitAll is defined.
LEMMA SplitEquation ==
    ASSUME NEW s \in Connection
    PROVE  SplitAll[s] = IF Splittable(s) THEN SplitAll[Round(s)] ELSE s
<1> DEFINE Is(f) == f = [r \in Connection |-> IF FirstRequest(r.buffer) = 0 THEN r ELSE f[Round(r)]]
           g == [r \in Connection |-> Some(Ends(r))]
<1>1. Is(g)
  <2>1. ASSUME NEW r \in Connection
        PROVE  Some(Ends(r)) = IF FirstRequest(r.buffer) = 0 THEN r ELSE g[Round(r)]
    <3>1. CASE Splittable(r)
      <4>1. Round(r) \in Connection
        BY <3>1, RoundType
      <4>2. Some(Ends(r)) = Some(Ends(Round(r)))
        BY <3>1, EndsLater
      <4>3. g[Round(r)] = Some(Ends(Round(r)))
        BY <4>1
      <4> QED BY <3>1, <4>2, <4>3 DEF Splittable
    <3>2. CASE ~Splittable(r)
      <4>1. Some(Ends(r)) \in Ends(r)
        BY LoopEnds DEF Some
      <4>2. Some(Ends(r)) = r
        BY <3>2, <4>1, EndsHere
      <4> QED BY <3>2, <4>2 DEF Splittable
    <3> QED BY <3>1, <3>2
  <2> QED BY <2>1
<1>2. SplitAll = CHOOSE f : Is(f)
  BY DEF SplitAll
<1>3. Is(SplitAll)
  <2> HIDE DEF Is, g
  <2> QED BY <1>1, <1>2
<1> QED BY <1>3 DEF Splittable

\* What the loop makes of a connection: still one, with every token in its place, and the
\* same whether more arrives before or after.
Sound(s) ==
    LET r == SplitAll[s]
    IN  /\ r \in Connection
        /\ FlattenSeq(r.requests) \o r.buffer = FlattenSeq(s.requests) \o s.buffer
        /\ \A e \in Streamed :
              SplitAll[Conn(s.requests, s.buffer \o e)] = SplitAll[Conn(r.requests, r.buffer \o e)]

LEMMA SoundStep ==
    ASSUME NEW s \in Connection, Splittable(s), Sound(Round(s)) PROVE Sound(s)
<1> DEFINE n == FirstRequest(s.buffer)
           x == SubSeq(s.buffer, 1, n)
           q == Round(s)
           r == SplitAll[q]
<1>1. /\ q \in Connection /\ x \in Streamed /\ x \o q.buffer = s.buffer
      /\ s.requests \in Seq(Streamed) /\ s.buffer \in Streamed
      /\ q.requests = Append(s.requests, x) /\ q.buffer \in Streamed
  <2>1. q \in Connection /\ x \in Streamed /\ x \o q.buffer = s.buffer
    BY RoundType
  <2>2. q.requests = Append(s.requests, x)
    BY DEF Round
  <2> HIDE DEF q, x
  <2> QED BY <2>1, <2>2 DEF Connection, Streamed
<1>2. SplitAll[s] = r
  BY SplitEquation
<1>3. /\ r \in Connection
      /\ FlattenSeq(r.requests) \o r.buffer = FlattenSeq(q.requests) \o q.buffer
      /\ \A e \in Streamed :
            SplitAll[Conn(q.requests, q.buffer \o e)] = SplitAll[Conn(r.requests, r.buffer \o e)]
  BY DEF Sound
<1> HIDE DEF r
<1>4. FlattenSeq(q.requests) \o q.buffer = FlattenSeq(s.requests) \o s.buffer
  <2> DEFINE f == FlattenSeq(s.requests)
  <2>1. f \in Streamed /\ FlattenSeq(q.requests) = f \o x
    <3>1. s.requests \in Seq(Seq(STRING)) /\ x \in Seq(STRING)
      BY <1>1 DEF Streamed
    <3> HIDE DEF x, q
    <3>2. FlattenSeq(s.requests) \in Seq(STRING)
          /\ FlattenSeq(Append(s.requests, x)) = FlattenSeq(s.requests) \o x
      BY <3>1, FlattenAppend
    <3> QED BY <1>1, <3>2 DEF Streamed
  <2> HIDE DEF f, x, q
  <2>2. (f \o x) \o q.buffer = f \o (x \o q.buffer)
    BY <1>1, <2>1, Associative
  <2> QED BY <1>1, <2>1, <2>2 DEF f
<1>5. ASSUME NEW e \in Streamed
      PROVE  SplitAll[Conn(s.requests, s.buffer \o e)] = SplitAll[Conn(r.requests, r.buffer \o e)]
  <2> DEFINE b == s.buffer
             d == b \o e
             c == Conn(s.requests, d)
  <2>0. d \in Streamed /\ Len(b) \in Nat /\ Len(e) \in Nat /\ Len(d) = Len(b) + Len(e)
    BY <1>1, ConcatProperties, LenProperties DEF Streamed
  <2>1. c \in Connection /\ c.requests = s.requests /\ c.buffer = d
    <3> HIDE DEF d
    <3> QED BY <1>1, <2>0 DEF Connection, Conn, Streamed
  <2>2. FirstRequest(d) = n /\ n # 0 /\ n \in 0 .. Len(b)
    <3>1. FirstRequest(b) # 0
      BY DEF Splittable
    <3> HIDE DEF b
    <3>2. b \in Streamed
      BY <1>1 DEF b
    <3>3. FirstRequest(b \o e) = FirstRequest(b) /\ FirstRequest(b) \in 0 .. Len(b)
      BY <3>1, <3>2, FirstAsBefore, FirstRequestType
    <3> QED BY <3>1, <3>3 DEF b
  <2>3. Splittable(c)
    BY <2>1, <2>2 DEF Splittable
  <2>4. SubSeq(d, 1, n) = x
    <3>1. b \in Seq(STRING) /\ e \in Seq(STRING) /\ 1 \in 1 .. Len(b) /\ n \in 1 .. Len(b)
      BY <1>1, <2>0, <2>2 DEF Streamed
    <3> HIDE DEF n, b
    <3>2. SubSeq(b \o e, 1, n) = SubSeq(b, 1, n)
      BY <3>1, SubSeqOfConcat1
    <3> QED BY <3>2 DEF b, n
  <2>5. SubSeq(d, n + 1, Len(d)) = q.buffer \o e
    <3> DEFINE y == SubSeq(d, n + 1, Len(d))
    <3>1. /\ d \in Seq(STRING) /\ 1 \in 1 .. Len(d) + 1 /\ n \in 1 - 1 .. Len(d)
          /\ Len(d) \in n .. Len(d)
      <4> HIDE DEF d, b, n
      <4> QED BY <2>0, <2>2 DEF Streamed
    <3> HIDE DEF n, d, b
    <3>2. SubSeq(d, 1, n) \o y = SubSeq(d, 1, Len(d))
      BY <3>1, ConcatAdjacentSubSeq
    <3>3. SubSeq(d, 1, Len(d)) = d
      BY <3>1, SubSeqFull
    <3>4. y \in Seq(STRING)
      <4>1. \A i \in n + 1 .. Len(d) : d[i] \in STRING
        <5>1. \A i \in n + 1 .. Len(d) : i \in 1 .. Len(d)
          BY <3>1
        <5> QED BY <3>1, <5>1, ElementOfSeq
      <4>2. n + 1 \in Int /\ Len(d) \in Int
        BY <2>0, <2>2
      <4> QED BY <4>1, <4>2, SubSeqProperties
    <3> HIDE DEF y, x, q
    <3>5. x \o y = d
      BY <2>4, <3>2, <3>3
    <3>6. q.buffer \in Seq(STRING) /\ x \in Seq(STRING) /\ e \in Seq(STRING)
      BY <1>1 DEF Streamed
    <3>7. d = x \o (q.buffer \o e)
      <4>1. (x \o q.buffer) \o e = x \o (q.buffer \o e)
        BY <1>1, Associative
      <4> QED BY <1>1, <4>1 DEF d, b
    <3>8. q.buffer \o e \in Seq(STRING)
      BY <3>6, ConcatProperties
    <3>9. y = q.buffer \o e
      BY <3>4, <3>5, <3>6, <3>7, <3>8, ConcatSimplifications
    <3> QED BY <3>9 DEF y
  <2>6. Round(c) = Conn(q.requests, q.buffer \o e)
    <3>1. Round(c) = [requests |-> Append(c.requests, SubSeq(c.buffer, 1, FirstRequest(c.buffer))),
                      buffer |-> SubSeq(c.buffer, FirstRequest(c.buffer) + 1, Len(c.buffer))]
      BY DEF Round
    <3> HIDE DEF c, d, n, x, q
    <3> QED BY <1>1, <2>1, <2>2, <2>4, <2>5, <3>1 DEF Conn
  <2>7. SplitAll[c] = SplitAll[Round(c)]
    BY <2>1, <2>3, SplitEquation
  <2>8. SplitAll[Conn(q.requests, q.buffer \o e)] = SplitAll[Conn(r.requests, r.buffer \o e)]
    BY <1>3
  <2> QED BY <2>6, <2>7, <2>8
<1> HIDE DEF q
<1> QED BY <1>2, <1>3, <1>4, <1>5 DEF Sound

LEMMA SplitSound == \A s \in Connection : Sound(s)
<1> DEFINE B == {s \in Connection : ~Sound(s)}
           T == {Len(s.buffer) : s \in B}
<1>1. SUFFICES ASSUME B # {} PROVE FALSE
  OBVIOUS
<1>2. T \subseteq Nat /\ T # {}
  <2>1. \A s \in Connection : s.buffer \in Seq(STRING)
    BY DEF Connection
  <2>2. \A s \in Connection : Len(s.buffer) \in Nat
    BY <2>1, LenProperties
  <2> QED BY <1>1, <2>2
<1>3. PICK x \in T : \A y \in T : x <= y
  <2> HIDE DEF T
  <2> QED BY <1>2, Least
<1>4. PICK s \in B : x = Len(s.buffer)
  BY <1>3
<1>5. s \in Connection /\ ~Sound(s)
  BY <1>4
<1>6. CASE Splittable(s)
  <2>1. ~Sound(Round(s))
    BY <1>5, <1>6, SoundStep
  <2>2. /\ Round(s) \in Connection /\ Len(Round(s).buffer) \in Nat /\ Len(s.buffer) \in Nat
        /\ Len(Round(s).buffer) < Len(s.buffer)
    BY <1>5, <1>6, RoundType
  <2>3. Len(s.buffer) <= Len(Round(s).buffer)
    BY <1>3, <1>4, <2>1, <2>2
  <2> HIDE DEF B, T
  <2> QED BY <2>2, <2>3
<1>7. CASE ~Splittable(s)
  <2>1. SplitAll[s] = s
    BY <1>5, <1>7, SplitEquation
  <2>2. Sound(s)
    BY <1>5, <2>1 DEF Sound
  <2> QED BY <1>5, <2>2
<1> QED BY <1>6, <1>7

\* Data that arrives in two parts is split as if it arrived at once, whatever has been
\* received before.
LEMMA ArriveTwice ==
    ASSUME NEW s \in Connection, NEW a \in Streamed, NEW b \in Streamed
    PROVE  /\ Arrive(s, a) \in Connection
           /\ Arrive(Arrive(s, a), b) = Arrive(s, a \o b)
           /\ FlattenSeq(Arrive(s, a).requests) \o Arrive(s, a).buffer
                 = FlattenSeq(s.requests) \o (s.buffer \o a)
<1> DEFINE c == Conn(s.requests, s.buffer \o a)
           r == SplitAll[c]
<1>1. s.requests \in Seq(Streamed) /\ s.buffer \in Streamed
  BY DEF Connection, Streamed
<1>2. s.buffer \o a \in Streamed
  BY <1>1, ConcatProperties DEF Streamed
<1>3. c \in Connection /\ c.requests = s.requests /\ c.buffer = s.buffer \o a
  BY <1>1, <1>2 DEF Connection, Conn, Streamed
<1>4. Arrive(s, a) = r
  BY DEF Arrive, Conn
<1>5. Arrive(r, b) = SplitAll[Conn(r.requests, r.buffer \o b)]
  BY DEF Arrive, Conn
<1>6. Arrive(s, a \o b) = SplitAll[Conn(s.requests, s.buffer \o (a \o b))]
  BY DEF Arrive, Conn
<1> HIDE DEF c
<1>7. /\ r \in Connection
      /\ FlattenSeq(r.requests) \o r.buffer = FlattenSeq(c.requests) \o c.buffer
      /\ SplitAll[Conn(c.requests, c.buffer \o b)] = SplitAll[Conn(r.requests, r.buffer \o b)]
  BY <1>3, SplitSound DEF Sound
<1> HIDE DEF r
<1>8. (s.buffer \o a) \o b = s.buffer \o (a \o b)
  BY <1>1, Associative
<1>9. Arrive(r, b) = Arrive(s, a \o b)
  BY <1>3, <1>5, <1>6, <1>7, <1>8
<1> QED BY <1>3, <1>4, <1>7, <1>9

\* The parts of a cut stream join to the stream.
LEMMA CutJoins ==
    ASSUME NEW s \in Streamed, NEW c \in Cuts(s)
    PROVE  c[1] \in Streamed /\ c[2] \in Streamed /\ c[1] \o c[2] = s
<1>1. PICK n \in 0 .. Len(s) : c = <<SubSeq(s, 1, n), SubSeq(s, n + 1, Len(s))>>
  BY DEF Cuts
<1>2. c[1] = SubSeq(s, 1, n) /\ c[2] = SubSeq(s, n + 1, Len(s))
  BY <1>1
<1>3. s \in Seq(STRING) /\ Len(s) \in Nat /\ \A i \in 1 .. Len(s) : s[i] \in STRING
  BY LenProperties, ElementOfSeq DEF Streamed
<1> HIDE DEF Streamed
<1>4. SubSeq(s, 1, n) \in Streamed
  <2>1. 1 \in Int /\ n \in Int /\ \A i \in 1 .. n : s[i] \in STRING
    BY <1>3
  <2> QED BY <2>1, SubSeqProperties DEF Streamed
<1>5. SubSeq(s, n + 1, Len(s)) \in Streamed
  <2>1. n + 1 \in Int /\ Len(s) \in Int /\ \A i \in n + 1 .. Len(s) : s[i] \in STRING
    BY <1>3
  <2> QED BY <2>1, SubSeqProperties DEF Streamed
<1>6. SubSeq(s, 1, n) \o SubSeq(s, n + 1, Len(s)) = s
  <2>1. 1 \in 1 .. Len(s) + 1 /\ n \in 1 - 1 .. Len(s) /\ Len(s) \in n .. Len(s)
    BY <1>3
  <2>2. SubSeq(s, 1, n) \o SubSeq(s, n + 1, Len(s)) = SubSeq(s, 1, Len(s))
    BY <1>3, <2>1, ConcatAdjacentSubSeq
  <2>3. SubSeq(s, 1, Len(s)) = s
    BY <1>3, SubSeqFull
  <2> QED BY <2>2, <2>3
<1> QED BY <1>2, <1>4, <1>5, <1>6

\* A connection nothing has arrived on.
LEMMA NothingYet ==
    /\ <<>> \in Streamed /\ Untouched \in Connection
    /\ Untouched.requests = <<>> /\ Untouched.buffer = <<>> /\ FlattenSeq(<<>>) = <<>>
    /\ \A s \in Streamed : <<>> \o s = s /\ s \o <<>> = s
<1>1. <<>> \in Seq(STRING) /\ <<>> \in Seq(Seq(STRING)) /\ Len(<<>>) = 0
  BY EmptySeq
<1>2. \A s \in Streamed : <<>> \o s = s /\ s \o <<>> = s
  BY ConcatEmptySeq DEF Streamed
<1>3. FlattenSeq(<<>>) = <<>>
  BY <1>1 DEF FlattenSeq
<1> QED BY <1>1, <1>2, <1>3 DEF Untouched, Connection, Streamed

\* Of any stream, well formed or not, of any length, nothing is lost, repeated or reordered
\* by the loop, and what it hands over does not depend on where the stream is cut
\* (TcpServer.cpp:260-316, HttpHandler.cpp:554-582).
THEOREM HttpNothingLost == NothingLost
<1> SUFFICES ASSUME NEW s \in Streams
             PROVE  /\ FlattenSeq(Arrive(Untouched, s).requests) \o Arrive(Untouched, s).buffer = s
                    /\ \A c \in Cuts(s) :
                          Arrive(Arrive(Untouched, c[1]), c[2]) = Arrive(Untouched, s)
  BY DEF NothingLost
<1>1. s \in Streamed
  BY TextAssumption DEF Streamed
<1>2. FlattenSeq(Arrive(Untouched, s).requests) \o Arrive(Untouched, s).buffer = s
  <2>1. FlattenSeq(Arrive(Untouched, s).requests) \o Arrive(Untouched, s).buffer
           = FlattenSeq(Untouched.requests) \o (Untouched.buffer \o s)
    BY <1>1, NothingYet, ArriveTwice
  <2> QED BY <1>1, <2>1, NothingYet
<1>3. ASSUME NEW c \in Cuts(s)
      PROVE  Arrive(Arrive(Untouched, c[1]), c[2]) = Arrive(Untouched, s)
  <2>1. c[1] \in Streamed /\ c[2] \in Streamed /\ c[1] \o c[2] = s
    BY <1>1, CutJoins
  <2>2. Arrive(Arrive(Untouched, c[1]), c[2]) = Arrive(Untouched, c[1] \o c[2])
    BY <2>1, NothingYet, ArriveTwice
  <2> QED BY <2>1, <2>2
<1> QED BY <1>2, <1>3

\* A text that is a whole request by itself.
Whole(q) == q \in Streamed /\ q # <<>> /\ FirstRequest(q) = Len(q)

\* At the front of a buffer it is handed over as it is.
LEMMA WholeHandedOver ==
    ASSUME NEW rs \in Seq(Streamed), NEW q, Whole(q), NEW e \in Streamed
    PROVE  SplitAll[Conn(rs, q \o e)] = SplitAll[Conn(Append(rs, q), e)]
<1> DEFINE d == q \o e
           c == Conn(rs, d)
           n == Len(q)
<1>1. q \in Seq(STRING) /\ e \in Seq(STRING) /\ n \in Nat /\ n # 0 /\ FirstRequest(q) = n
  <2>1. q \in Seq(STRING) /\ e \in Seq(STRING) /\ q # <<>> /\ FirstRequest(q) = n
    BY DEF Whole, Streamed
  <2>2. n \in Nat \ {0}
    BY <2>1, LenProperties, EmptySeq
  <2> QED BY <2>1, <2>2
<1>n. n = Len(q)
  OBVIOUS
<1> HIDE DEF n
<1>2. d \in Seq(STRING) /\ Len(d) = n + Len(e) /\ Len(e) \in Nat
  BY <1>1, <1>n, ConcatProperties, LenProperties
<1>3. FirstRequest(d) = n
  BY <1>1, FirstAsBefore DEF Streamed
<1>4. SubSeq(d, 1, n) = q
  <2>1. 1 \in 1 .. Len(q) /\ n \in 1 .. Len(q)
    BY <1>1, <1>n
  <2>2. SubSeq(q \o e, 1, n) = SubSeq(q, 1, n)
    BY <1>1, <2>1, SubSeqOfConcat1
  <2>3. SubSeq(q, 1, n) = q
    BY <1>1, <1>n, SubSeqFull
  <2> QED BY <2>2, <2>3
<1>5. SubSeq(d, n + 1, Len(d)) = e
  <2> DEFINE y == SubSeq(d, n + 1, Len(d))
  <2>1. /\ 1 \in 1 .. Len(d) + 1 /\ n \in 1 - 1 .. Len(d) /\ Len(d) \in n .. Len(d)
        /\ n + 1 \in Int /\ Len(d) \in Int
    <3> HIDE DEF d
    <3> QED BY <1>1, <1>2
  <2>2. y \in Seq(STRING)
    <3>1. \A i \in n + 1 .. Len(d) : i \in 1 .. Len(d)
      <4> HIDE DEF d
      <4> QED BY <1>1, <1>2
    <3> HIDE DEF d
    <3>2. \A i \in n + 1 .. Len(d) : d[i] \in STRING
      BY <1>2, <3>1, ElementOfSeq
    <3> QED BY <2>1, <3>2, SubSeqProperties
  <2> HIDE DEF d
  <2>3. SubSeq(d, 1, n) \o y = SubSeq(d, 1, Len(d)) /\ SubSeq(d, 1, Len(d)) = d
    BY <1>2, <2>1, ConcatAdjacentSubSeq, SubSeqFull
  <2> HIDE DEF y
  <2>4. q \o y = q \o e
    BY <1>4, <2>3 DEF d
  <2>5. y = e
    BY <1>1, <2>2, <2>4, ConcatSimplifications
  <2> QED BY <2>5 DEF y
<1> HIDE DEF d
<1>6. c \in Connection /\ c.requests = rs /\ c.buffer = d
  BY <1>2 DEF Conn, Connection, Streamed
<1>7. Splittable(c)
  BY <1>1, <1>3, <1>6 DEF Splittable
<1>8. Round(c) = Conn(Append(rs, q), e)
  <2>1. Round(c) = [requests |-> Append(c.requests, SubSeq(c.buffer, 1, FirstRequest(c.buffer))),
                    buffer |-> SubSeq(c.buffer, FirstRequest(c.buffer) + 1, Len(c.buffer))]
    BY DEF Round
  <2> HIDE DEF c
  <2> QED BY <1>3, <1>4, <1>5, <1>6, <2>1 DEF Conn
<1>9. SplitAll[c] = SplitAll[Round(c)]
  BY <1>6, <1>7, SplitEquation
<1> QED BY <1>8, <1>9 DEF d

\* If each of the requests is a whole request when it comes alone, then the loop hands over
\* exactly these, one behind another and however they are cut, and a worker never works
\* on a torn one (TcpServer.cpp:260-316).
THEOREM HttpStreamSplit ==
    ASSUME \A r \in Samples : Whole(Text(r))
    PROVE  Spec => []StreamSplit
<1>1. ASSUME NEW q, NEW r, Whole(q), Whole(r), NEW c \in Cuts(q \o r)
      PROVE  Arrive(Arrive(Untouched, c[1]), c[2]) = [requests |-> <<q, r>>, buffer |-> <<>>]
  <2>1. q \in Streamed /\ r \in Streamed /\ q \o r \in Streamed
    <3>1. q \in Streamed /\ r \in Streamed
      BY <1>1 DEF Whole
    <3> QED BY <3>1, ConcatProperties DEF Streamed
  <2> DEFINE s == q \o r
  <2>2. Arrive(Arrive(Untouched, c[1]), c[2]) = Arrive(Untouched, s)
    <3>1. c[1] \in Streamed /\ c[2] \in Streamed /\ c[1] \o c[2] = s
      BY <1>1, <2>1, CutJoins
    <3> HIDE DEF s
    <3> QED BY <3>1, NothingYet, ArriveTwice
  <2>3. Arrive(Untouched, s) = SplitAll[Conn(<<>>, s)]
    <3>1. Arrive(Untouched, s) = SplitAll[Conn(Untouched.requests, Untouched.buffer \o s)]
      BY DEF Arrive, Conn
    <3>2. Untouched.requests = <<>> /\ Untouched.buffer \o s = s
      <4> HIDE DEF s
      <4>1. s \in Streamed
        BY <2>1 DEF s
      <4> QED BY <4>1, NothingYet
    <3> QED BY <3>1, <3>2
  <2>4. <<>> \in Seq(Streamed) /\ <<>> \in Streamed
    BY EmptySeq DEF Streamed
  <2> DEFINE one == Append(<<>>, q)
             two == Append(one, r)
  <2>5. one \in Seq(Streamed) /\ two \in Seq(Streamed) /\ two = <<q, r>>
    <3>1. one \in Seq(Streamed)
      BY <2>1, <2>4, AppendProperties
    <3>2. two \in Seq(Streamed)
      <4> HIDE DEF one
      <4> QED BY <2>1, <3>1, AppendProperties
    <3>3. two = <<q, r>>
      BY <2>1, TwoAppended
    <3> QED BY <3>1, <3>2, <3>3
  <2> HIDE DEF one
  <2>6. SplitAll[Conn(<<>>, s)] = SplitAll[Conn(one, r)]
    BY <1>1, <2>1, <2>4, WholeHandedOver DEF one
  <2>7. SplitAll[Conn(one, r)] = SplitAll[Conn(two, <<>>)]
    <3>1. SplitAll[Conn(one, r \o <<>>)] = SplitAll[Conn(two, <<>>)]
      BY <1>1, <2>4, <2>5, WholeHandedOver
    <3>2. r \o <<>> = r
      BY <2>1, NothingYet
    <3> QED BY <3>1, <3>2
  <2> HIDE DEF two
  <2>8. SplitAll[Conn(two, <<>>)] = Conn(two, <<>>)
    <3>1. FirstRequest(<<>>) = 0
      <4>1. FirstRequest(<<>>) \in 0 .. Len(<<>>) /\ Len(<<>>) = 0
        BY <2>4, EmptySeq, FirstRequestType
      <4> QED BY <4>1
    <3>2. Conn(two, <<>>) \in Connection /\ Conn(two, <<>>).buffer = <<>>
      BY <2>4, <2>5 DEF Conn, Connection, Streamed
    <3> QED BY <3>1, <3>2, SplitEquation DEF Splittable
  <2>9. Conn(two, <<>>) = [requests |-> <<q, r>>, buffer |-> <<>>]
    BY <2>5 DEF Conn
  <2> QED BY <2>2, <2>3, <2>6, <2>7, <2>8, <2>9
<1>2. Samples \subseteq WellSplit
  BY <1>1 DEF WellSplit
<1>3. Torn = {}
  BY <1>2 DEF Torn
<1>4. StreamSplit
  BY <1>3, HttpNothingLost DEF StreamSplit
<1> QED BY <1>4, PTL
=============================================================================
