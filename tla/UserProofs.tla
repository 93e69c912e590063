----------------------------- MODULE UserProofs -----------------------------
(***************************************************************************)
(* Proofs, for any number of workers, connections, users and calls and any *)
(* capacity of the cache, that User gives back every connection, that the  *)
(* cache agrees with the table and that logins are honest.                 *)
(***************************************************************************)
EXTENDS User, QueueLemmas

Rows == [name : Names, password : Passwords]
Cacheable == [key : Names, value : Passwords]

-----------------------------------------------------------------------------
(* What one step of the cache does to its entries.                         *)

\* The cache holds what it held and at most one entry more.
Gained(e) ==
    /\ entries' \in Seq(Cacheable)
    /\ Len(entries') <= Capacity
    /\ \A i \in DOMAIN entries' : entries'[i] = e \/ \E j \in DOMAIN entries : entries'[i] = entries[j]

\* Bringing an entry to the front brings nothing else in.
LEMMA FrontedGains ==
    ASSUME entries \in Seq(Cacheable), NEW e \in Cacheable, NEW p \in Nat \ {0}, NEW length \in Nat,
           length <= Capacity, p <= Len(entries) + 1, length <= Len(entries) \/ length = p,
           entries' = Fronted(e, p, length)
    PROVE  Gained(e)
<1>1. Len(entries) \in Nat /\ DOMAIN entries = 1 .. Len(entries)
      /\ \A j \in 1 .. Len(entries) : entries[j] \in Cacheable
  OBVIOUS
<1>2. entries' = [n \in 1 .. length |->
                    IF n = 1 THEN e ELSE IF n <= p THEN entries[n - 1] ELSE entries[n]]
  BY DEF Fronted
<1> DEFINE x(i) == IF i = 1 THEN e ELSE IF i <= p THEN entries[i - 1] ELSE entries[i]
<1>3. ASSUME NEW i \in 1 .. length
      PROVE  x(i) \in Cacheable /\ (x(i) = e \/ \E j \in DOMAIN entries : x(i) = entries[j])
  <2>1. CASE i = 1
    BY <2>1
  <2>2. CASE i # 1 /\ i <= p
    <3>1. i - 1 \in 1 .. Len(entries)
      BY <1>1, <2>2
    <3> QED BY <1>1, <2>2, <3>1
  <2>3. CASE i # 1 /\ ~(i <= p)
    <3>1. i \in 1 .. Len(entries)
      BY <1>1, <2>3
    <3> QED BY <1>1, <2>3, <3>1
  <2> QED BY <2>1, <2>2, <2>3
<1>4. entries' = [i \in 1 .. length |-> x(i)]
  BY <1>2
<1> HIDE DEF x
<1>5. entries' \in Seq(Cacheable) /\ Len(entries') = length /\ DOMAIN entries' = 1 .. length
      /\ \A i \in 1 .. length : entries'[i] = x(i)
  BY <1>3, <1>4
<1> QED BY <1>3, <1>5 DEF Gained

\* A get brings nothing in, and what it answers is the value of an entry for its key.
LEMMA GetGains ==
    ASSUME TypeOK, NEW k \in Names, Get(k)
    PROVE  /\ \/ answer' = Missing
              \/ /\ answer' \in Passwords
                 /\ \E p \in DOMAIN entries : entries[p] = [key |-> k, value |-> answer']
           /\ entries' \in Seq(Cacheable) /\ Len(entries') <= Capacity
           /\ \A i \in DOMAIN entries' : \E j \in DOMAIN entries : entries'[i] = entries[j]
<1>1. entries \in Seq(Cacheable) /\ Len(entries) <= Capacity /\ Capacity \in Nat
      /\ Len(entries) \in Nat /\ DOMAIN entries = 1 .. Len(entries)
      /\ \A j \in DOMAIN entries : entries[j] \in Cacheable
  <2>1. entries \in Seq(Cacheable) /\ Len(entries) <= Capacity
    BY DEF TypeOK, Cacheable
  <2>2. Capacity \in Nat
    BY UserAssumption
  <2> QED BY <2>1, <2>2
<1>2. CASE answer' = Missing /\ UNCHANGED entries
  BY <1>1, <1>2
<1>3. ASSUME NEW p \in DOMAIN entries, entries[p].key = k, answer' = entries[p].value,
             Use(p, entries[p].value)
      PROVE  /\ answer' \in Passwords
             /\ \E q \in DOMAIN entries : entries[q] = [key |-> k, value |-> answer']
             /\ entries' \in Seq(Cacheable) /\ Len(entries') <= Capacity
             /\ \A i \in DOMAIN entries' : \E j \in DOMAIN entries : entries'[i] = entries[j]
  <2>1. entries[p] \in Cacheable
    BY <1>1
  <2>2. [key |-> entries[p].key, value |-> entries[p].value] = entries[p] /\ answer' \in Passwords
        /\ entries[p] = [key |-> k, value |-> answer']
    BY <1>3, <2>1 DEF Cacheable
  <2>3. entries' = Fronted(entries[p], p, Len(entries))
    BY <1>3, <2>2 DEF Use
  <2>4. p \in Nat \ {0} /\ p <= Len(entries) + 1
    BY <1>1
  <2>5. Gained(entries[p])
    BY <1>1, <2>1, <2>3, <2>4, FrontedGains
  <2> QED BY <2>2, <2>5 DEF Gained
<1> QED BY <1>2, <1>3 DEF Get

\* A put brings in its own entry only.
LEMMA PutGains ==
    ASSUME TypeOK, NEW k \in Names, NEW v \in Passwords, Put(k, v)
    PROVE  Gained([key |-> k, value |-> v]) /\ UNCHANGED answer
<1> DEFINE e == [key |-> k, value |-> v]
<1>1. entries \in Seq(Cacheable) /\ Len(entries) <= Capacity /\ Capacity \in Nat
      /\ Len(entries) \in Nat /\ DOMAIN entries = 1 .. Len(entries) /\ e \in Cacheable
  BY UserAssumption DEF TypeOK, Cacheable
<1>2. ASSUME NEW p \in DOMAIN entries, entries[p].key = k, Use(p, v)
      PROVE  Gained(e)
  <2>1. entries' = Fronted(e, p, Len(entries))
    BY <1>2 DEF Use
  <2>2. p \in Nat \ {0} /\ p <= Len(entries) + 1
    BY <1>1
  <2> HIDE DEF e
  <2> QED BY <1>1, <2>1, <2>2, FrontedGains
<1>3. ASSUME entries' = Fronted(e, Len(entries) + 1, Grown)
      PROVE  Gained(e)
  <2>1. Grown \in Nat /\ Grown <= Capacity /\ Len(entries) + 1 \in Nat \ {0}
        /\ (Grown <= Len(entries) \/ Grown = Len(entries) + 1)
    BY <1>1 DEF Grown
  <2> HIDE DEF e
  <2> QED BY <1>1, <1>3, <2>1, FrontedGains
<1> QED BY <1>2, <1>3 DEF Put

-----------------------------------------------------------------------------
(* Types.                                                                  *)

LEMMA TypeInit == UInit => TypeOK
<1> SUFFICES ASSUME UInit PROVE TypeOK
  OBVIOUS
<1>1. MaxConn \in Nat \ {0} /\ MaxCalls \in Nat /\ Capacity \in Nat
  BY UserAssumption
<1>2. entries \in Seq(Cacheable) /\ Len(entries) <= Capacity /\ answer = Missing
  BY <1>1 DEF UInit, Init
<1>3. NoCall \in [kind : {"none", "register", "login"}, name : Names \cup {Missing},
                  password : Passwords \cup {Missing}]
  BY DEF NoCall
<1>4. free \in 0 .. MaxConn /\ calls \in 0 .. MaxCalls
  BY <1>1 DEF UInit
<1>5. UNION {told, entered, refused} = {}
  BY DEF UInit
<1> QED BY <1>2, <1>3, <1>4, <1>5 DEF UInit, TypeOK, Cacheable

\* Going on leaves a call typed.
States == {"idle", "cached", "connect", "check", "insert", "fetch", "fill", "compare"}
CallRecords == [kind : {"none", "register", "login"}, name : Names \cup {Missing},
                password : Passwords \cup {Missing}]
CallsTyped ==
    /\ at \in [Threads -> States]
    /\ call \in [Threads -> CallRecords]
    /\ \A t \in Threads : at[t] # "idle" => Mine(t) \in Rows

LEMMA GoTyped ==
    ASSUME CallsTyped, NEW t \in Threads, NEW s \in States, at[t] # "idle", Go(t, s)
    PROVE  CallsTyped'
<1>1. NoCall \in CallRecords
  BY DEF NoCall, CallRecords
<1>2. at' = [at EXCEPT ![t] = s] /\ at' \in [Threads -> States]
  BY DEF Go, CallsTyped
<1>3. call' = (IF s = "idle" THEN [call EXCEPT ![t] = NoCall] ELSE call) /\ call' \in [Threads -> CallRecords]
  BY <1>1 DEF Go, CallsTyped
<1>4. ASSUME NEW u \in Threads, at'[u] # "idle"
      PROVE  call'[u] = call[u] /\ at[u] # "idle"
  BY <1>2, <1>3, <1>4 DEF CallsTyped
<1>5. ASSUME NEW u \in Threads, at'[u] # "idle"
      PROVE  Row(call'[u].name, call'[u].password) \in Rows
  <2>1. call'[u] = call[u] /\ at[u] # "idle"
    BY <1>4, <1>5
  <2>2. Row(call[u].name, call[u].password) \in Rows
    BY <2>1 DEF CallsTyped, Mine
  <2> QED BY <2>1, <2>2
<1> QED BY <1>2, <1>3, <1>5 DEF CallsTyped, Mine

LEMMA MineTyped ==
    ASSUME CallsTyped, NEW t \in Threads, at[t] # "idle"
    PROVE  Mine(t) \in Rows /\ call[t].name \in Names /\ call[t].password \in Passwords
<1>1. Mine(t) \in Rows
  BY DEF CallsTyped
<1> QED BY <1>1 DEF Mine, Row, Rows

\* The rest of the type.
DataTyped ==
    /\ entries \in Seq(Cacheable) /\ Len(entries) <= Capacity
    /\ answer \in Passwords \cup {Missing}
    /\ table \subseteq Rows
    /\ free \in 0 .. MaxConn
    /\ stored \in [Threads -> Passwords \cup {Missing}]
    /\ calls \in 0 .. MaxCalls
    /\ told \subseteq Rows /\ entered \subseteq Rows /\ refused \subseteq Rows

LEMMA TypeParts == TypeOK <=> CallsTyped /\ DataTyped
BY DEF TypeOK, CallsTyped, DataTyped, States, CallRecords, Rows, Cacheable

\* Connections are counted: none is lost and none given back twice.
Holders == {t \in Threads : Connected(t)}
Counted == free + Cardinality(Holders) = MaxConn
LEMMA HoldersCount == IsFiniteSet(Holders) /\ Cardinality(Holders) \in Nat
<1>1. Holders \subseteq Threads
  BY DEF Holders
<1>2. IsFiniteSet(Threads)
  BY UserAssumption
<1> QED BY <1>1, <1>2, FS_Subset, FS_CardinalityType

\* A thread that goes on may come to hold a connection, or no longer hold one.
LEMMA HoldersMove ==
    ASSUME CallsTyped, NEW t \in Threads, NEW s \in States, at' = [at EXCEPT ![t] = s]
    PROVE  Cardinality(Holders') =
              IF s \in {"check", "insert", "fetch"}
              THEN IF Connected(t) THEN Cardinality(Holders) ELSE Cardinality(Holders) + 1
              ELSE IF Connected(t) THEN Cardinality(Holders) - 1 ELSE Cardinality(Holders)
<1>1. at \in [Threads -> States]
  BY DEF CallsTyped
<1>2. Holders' = IF s \in {"check", "insert", "fetch"} THEN Holders \cup {t} ELSE Holders \ {t}
  BY <1>1 DEF Holders, Connected
<1>3. t \in Holders <=> Connected(t)
  BY DEF Holders
<1> QED BY <1>2, <1>3, HoldersCount, CountMoves

-----------------------------------------------------------------------------
(* Types and connections, together: that free stays within its bounds      *)
(* follows from the count.                                                 *)

LEMMA ReturnedParts == ConnectionsReturned <=> CallsTyped /\ DataTyped /\ Counted
BY TypeParts DEF ConnectionsReturned, Counted, Holders

\* One connection is taken, one is given back, or neither.
LEMMA CountKept ==
    ASSUME CallsTyped, DataTyped, Counted, NEW t \in Threads, NEW s \in States,
           at' = [at EXCEPT ![t] = s],
           \/ Connected(t) /\ s \notin {"check", "insert", "fetch"} /\ free' = free + 1
           \/ ~Connected(t) /\ s \in {"check", "insert", "fetch"} /\ free' = free - 1 /\ free > 0
           \/ (Connected(t) <=> s \in {"check", "insert", "fetch"}) /\ free' = free
    PROVE  Counted' /\ free' \in 0 .. MaxConn
<1>1. Cardinality(Holders) \in Nat /\ free \in Nat /\ MaxConn \in Nat /\ Cardinality(Holders)' \in Nat
  <2>1. Cardinality(Holders)' \in Nat
    <3>1. Holders' \subseteq Threads
      BY DEF Holders
    <3>2. IsFiniteSet(Threads)
      BY UserAssumption
    <3> QED BY <3>1, <3>2, FS_Subset, FS_CardinalityType
  <2> QED BY <2>1, HoldersCount, UserAssumption DEF DataTyped
<1>2. Cardinality(Holders') =
              IF s \in {"check", "insert", "fetch"}
              THEN IF Connected(t) THEN Cardinality(Holders) ELSE Cardinality(Holders) + 1
              ELSE IF Connected(t) THEN Cardinality(Holders) - 1 ELSE Cardinality(Holders)
  BY HoldersMove
<1>3. free + Cardinality(Holders) = MaxConn
  BY DEF Counted
<1>4. free' + Cardinality(Holders') = MaxConn /\ free' \in Nat
  BY <1>1, <1>2, <1>3
<1> QED BY <1>1, <1>4 DEF Counted

\* What a thread is to cache, or to compare with, is a row of the table for its name.
FetchedRows ==
    \A t \in Threads : at[t] \in {"fill", "compare"} => Row(call[t].name, stored[t]) \in table

LEMMA ReturnedStep == ConnectionsReturned /\ FetchedRows /\ [UNext]_uvars => ConnectionsReturned'
<1> SUFFICES ASSUME CallsTyped, DataTyped, Counted, FetchedRows, [UNext]_uvars
             PROVE  CallsTyped' /\ DataTyped' /\ Counted'
  <2>1. (CallsTyped' /\ DataTyped' /\ Counted') => ConnectionsReturned'
    BY ReturnedParts, PTL
  <2> QED BY <2>1, ReturnedParts
<1>1. TypeOK /\ MaxCalls \in Nat
  BY TypeParts, UserAssumption
<1>2. ASSUME NEW t \in Threads, Begin(t) PROVE CallsTyped' /\ DataTyped' /\ Counted'
  <2>1. PICK k \in {"register", "login"}, n \in Names, p \in Passwords :
           /\ call' = [call EXCEPT ![t] = [kind |-> k, name |-> n, password |-> p]]
           /\ at' = [at EXCEPT ![t] = IF k = "register" THEN "connect" ELSE "cached"]
    BY <1>2 DEF Begin
  <2> DEFINE s == IF k = "register" THEN "connect" ELSE "cached"
             c == [kind |-> k, name |-> n, password |-> p]
  <2>2. s \in States /\ s \notin {"check", "insert", "fetch"} /\ at' = [at EXCEPT ![t] = s] /\ ~Connected(t)
    BY <1>2, <2>1 DEF States, Begin, Connected
  <2>3. c \in CallRecords /\ Row(c.name, c.password) \in Rows
    BY DEF CallRecords, Row, Rows
  <2>4. CallsTyped'
    <3> HIDE DEF s, c
    <3>1. at' \in [Threads -> States] /\ call' = [call EXCEPT ![t] = c] /\ call' \in [Threads -> CallRecords]
      BY <2>1, <2>2, <2>3 DEF CallsTyped, c
    <3>2. ASSUME NEW u \in Threads, at'[u] # "idle" PROVE Row(call'[u].name, call'[u].password) \in Rows
      <4>1. CASE u = t
        BY <2>3, <3>1, <4>1 DEF CallsTyped
      <4>2. CASE u # t
        <5>1. at[u] # "idle" /\ call'[u] = call[u]
          BY <2>2, <3>1, <3>2, <4>2 DEF CallsTyped
        <5>2. Row(call[u].name, call[u].password) \in Rows
          BY <5>1 DEF CallsTyped, Mine
        <5> QED BY <5>1, <5>2
      <4> QED BY <4>1, <4>2
    <3> QED BY <3>1, <3>2 DEF CallsTyped, Mine
  <2>5. DataTyped'
    BY <1>1, <1>2 DEF Begin, DataTyped
  <2>6. Counted'
    <3>1. free' = free
      BY <1>2 DEF Begin
    <3> HIDE DEF s
    <3> QED BY <2>2, <3>1, CountKept
  <2> QED BY <2>4, <2>5, <2>6
<1>3. ASSUME NEW t \in Threads, LookInCache(t) PROVE CallsTyped' /\ DataTyped' /\ Counted'
  <2> DEFINE s == IF answer' = Missing THEN "connect" ELSE "compare"
  <2>1. at[t] # "idle" /\ s \in States /\ s \notin {"check", "insert", "fetch"} /\ ~Connected(t) /\ free' = free
    BY <1>3 DEF LookInCache, States, Connected
  <2>2. Go(t, s) /\ at' = [at EXCEPT ![t] = s]
    BY <1>3 DEF LookInCache, Go
  <2>3. call[t].name \in Names
    BY <2>1, MineTyped
  <2>4. answer' \in Passwords \cup {Missing} /\ entries' \in Seq(Cacheable) /\ Len(entries') <= Capacity
    BY <1>1, <1>3, <2>3, GetGains DEF LookInCache
  <2>5. stored' = [stored EXCEPT ![t] = answer']
        /\ UNCHANGED <<table, free, calls, told, entered, refused>>
    BY <1>3 DEF LookInCache
  <2>6. DataTyped'
    BY <2>4, <2>5 DEF DataTyped
  <2> HIDE DEF s
  <2> QED BY <2>1, <2>2, <2>6, GoTyped, CountKept
<1>4. ASSUME NEW t \in Threads, Connect(t) PROVE CallsTyped' /\ DataTyped' /\ Counted'
  <2> DEFINE s == IF call[t].kind = "register" THEN "check" ELSE "fetch"
  <2>1. at[t] # "idle" /\ s \in States /\ s \in {"check", "insert", "fetch"} /\ ~Connected(t)
        /\ free > 0 /\ free' = free - 1
    BY <1>4 DEF Connect, States, Connected
  <2>2. Go(t, s) /\ at' = [at EXCEPT ![t] = s]
    BY <1>4 DEF Connect, Go
  <2> HIDE DEF s
  <2>3. free' \in 0 .. MaxConn /\ Counted'
    BY <2>1, <2>2, CountKept
  <2>4. DataTyped'
    BY <1>4, <2>3 DEF Connect, DataTyped
  <2> QED BY <2>1, <2>2, <2>3, <2>4, GoTyped
<1>5. ASSUME NEW t \in Threads, ConnectFails(t) PROVE CallsTyped' /\ DataTyped' /\ Counted'
  <2>1. at[t] # "idle" /\ ~Connected(t) /\ free' = free /\ "idle" \in States
        /\ Go(t, "idle") /\ at' = [at EXCEPT ![t] = "idle"]
    BY <1>5 DEF ConnectFails, Connected, States, Go
  <2>2. DataTyped'
    BY <1>5 DEF ConnectFails, DataTyped
  <2> QED BY <2>1, <2>2, GoTyped, CountKept
<1>6. ASSUME NEW t \in Threads, StatementFails(t) PROVE CallsTyped' /\ DataTyped' /\ Counted'
  <2>1. at[t] # "idle" /\ Connected(t) /\ free' = free + 1 /\ "idle" \in States
        /\ Go(t, "idle") /\ at' = [at EXCEPT ![t] = "idle"]
    BY <1>6 DEF StatementFails, Connected, States, Go, Returned
  <2>2. free' \in 0 .. MaxConn /\ Counted'
    BY <2>1, CountKept
  <2>3. DataTyped'
    BY <1>6, <2>2 DEF StatementFails, DataTyped
  <2> QED BY <2>1, <2>2, <2>3, GoTyped
<1>7. ASSUME NEW t \in Threads, CheckName(t) PROVE CallsTyped' /\ DataTyped' /\ Counted'
  <2>1. at[t] # "idle" /\ Connected(t) /\ free' = free /\ "insert" \in States
        /\ Go(t, "insert") /\ at' = [at EXCEPT ![t] = "insert"]
    BY <1>7 DEF CheckName, Connected, States, Go
  <2>2. DataTyped'
    BY <1>7 DEF CheckName, DataTyped
  <2> QED BY <2>1, <2>2, GoTyped, CountKept
<1>8. ASSUME NEW t \in Threads, Insert(t) PROVE CallsTyped' /\ DataTyped' /\ Counted'
  <2>1. at[t] # "idle" /\ Connected(t) /\ free' = free + 1 /\ "idle" \in States
        /\ Go(t, "idle") /\ at' = [at EXCEPT ![t] = "idle"]
    BY <1>8 DEF Insert, Connected, States, Go
  <2>2. free' \in 0 .. MaxConn /\ Counted'
    BY <2>1, CountKept
  <2>3. Mine(t) \in Rows
    BY <2>1, MineTyped
  <2>4. table' \subseteq table \cup {Mine(t)} /\ told' = told \cup {Mine(t)}
    BY <1>8 DEF Insert
  <2>5. DataTyped'
    BY <1>8, <2>2, <2>3, <2>4 DEF Insert, DataTyped
  <2> QED BY <2>1, <2>2, <2>5, GoTyped
<1>9. ASSUME NEW t \in Threads, FetchRow(t) PROVE CallsTyped' /\ DataTyped' /\ Counted'
  <2>1. PICK s \in {"idle", "fill"} : Go(t, s)
    BY <1>9 DEF FetchRow
  <2>2. at[t] # "idle" /\ s \in States /\ s \notin {"check", "insert", "fetch"} /\ Connected(t)
        /\ at' = [at EXCEPT ![t] = s] /\ free' = free + 1
    BY <1>9, <2>1 DEF FetchRow, States, Connected, Go
  <2>3. free' \in 0 .. MaxConn /\ Counted'
    BY <2>1, <2>2, CountKept
  <2>4. stored' \in [Threads -> Passwords \cup {Missing}]
    <3>1. \A r \in table : r.password \in Passwords
      BY DEF DataTyped, Rows
    <3> QED BY <1>9, <3>1 DEF FetchRow, Fetched, RowsOf, DataTyped
  <2>5. DataTyped'
    BY <1>9, <2>3, <2>4 DEF FetchRow, DataTyped
  <2> QED BY <2>1, <2>2, <2>3, <2>5, GoTyped
<1>10. ASSUME NEW t \in Threads, FillCache(t) PROVE CallsTyped' /\ DataTyped' /\ Counted'
  <2>1. at[t] # "idle" /\ ~Connected(t) /\ free' = free /\ "compare" \in States
        /\ "compare" \notin {"check", "insert", "fetch"}
        /\ Go(t, "compare") /\ at' = [at EXCEPT ![t] = "compare"]
    BY <1>10 DEF FillCache, Connected, States, Go
  <2>2. call[t].name \in Names /\ stored[t] \in Passwords
    <3>1. Row(call[t].name, stored[t]) \in Rows
      BY <1>10 DEF FillCache, FetchedRows, DataTyped
    <3> QED BY <2>1, <3>1, MineTyped DEF Row, Rows
  <2>3. entries' \in Seq(Cacheable) /\ Len(entries') <= Capacity /\ answer' = answer
    BY <1>1, <1>10, <2>2, PutGains DEF FillCache, Cached, Gained
  <2>4. DataTyped'
    BY <1>10, <2>3 DEF FillCache, DataTyped
  <2> QED BY <2>1, <2>4, GoTyped, CountKept
<1>11. ASSUME NEW t \in Threads, Compare(t) PROVE CallsTyped' /\ DataTyped' /\ Counted'
  <2>1. at[t] # "idle" /\ ~Connected(t) /\ free' = free /\ "idle" \in States
        /\ Go(t, "idle") /\ at' = [at EXCEPT ![t] = "idle"]
    BY <1>11 DEF Compare, Connected, States, Go
  <2>2. Mine(t) \in Rows
    BY <2>1, MineTyped
  <2>3. DataTyped'
    BY <1>11, <2>2 DEF Compare, DataTyped
  <2> QED BY <2>1, <2>3, GoTyped, CountKept
<1>12. CASE UNCHANGED uvars
  BY <1>12 DEF uvars, CallsTyped, DataTyped, Counted, Holders, Connected, Mine
<1> QED BY <1>2, <1>3, <1>4, <1>5, <1>6, <1>7, <1>8, <1>9, <1>10, <1>11, <1>12 DEF UNext, Step

-----------------------------------------------------------------------------
(* The table, the cache, and what was answered.                            *)

\* Whoever was refused has a row with another password.
RefusedForAReason ==
    \A r \in refused : \E q \in table : q.name = r.name /\ q.password # r.password

Honest ==
    /\ CacheMatchesTable
    /\ FetchedRows
    /\ entered \subseteq table
    /\ RefusedForAReason
    /\ UniqueKey => OneRowEach(table)

LEMMA HonestSuffices == Honest => LoginsHonest
<1> SUFFICES ASSUME Honest, UniqueKey, NEW r \in entered \cap refused PROVE FALSE
  BY DEF Honest, LoginsHonest
<1>1. PICK q \in table : q.name = r.name /\ q.password # r.password
  BY DEF Honest, RefusedForAReason
<1>2. r \in table /\ OneRowEach(table)
  BY DEF Honest
<1> QED BY <1>1, <1>2 DEF OneRowEach

LEMMA HonestInit == UInit => Honest
<1> SUFFICES ASSUME UInit PROVE Honest
  OBVIOUS
<1>1. entries = << >> /\ entered = {} /\ refused = {} /\ (UniqueKey => OneRowEach(table))
      /\ at = [t \in Threads |-> "idle"]
  BY DEF UInit, Init
<1>2. CacheMatchesTable
  BY <1>1 DEF CacheMatchesTable
<1> QED BY <1>1, <1>2 DEF Honest, FetchedRows, RefusedForAReason

\* Rows already there stay, so what agreed with the table still does.
LEMMA StillHonest ==
    ASSUME Honest, table \subseteq table', entries' = entries,
           entered' = entered, refused' = refused
    PROVE  CacheMatchesTable' /\ entered' \subseteq table' /\ RefusedForAReason'
BY DEF Honest, CacheMatchesTable, RefusedForAReason

LEMMA HonestStep == ConnectionsReturned /\ Honest /\ [UNext]_uvars => Honest'
<1> SUFFICES ASSUME ConnectionsReturned, Honest, [UNext]_uvars PROVE Honest'
  OBVIOUS
<1>1. TypeOK /\ CallsTyped /\ DataTyped
  BY TypeParts DEF ConnectionsReturned
<1>2. at \in [Threads -> States] /\ call \in [Threads -> CallRecords]
      /\ stored \in [Threads -> Passwords \cup {Missing}] /\ table \subseteq Rows
  BY <1>1 DEF CallsTyped, DataTyped
<1>3. FetchedRows /\ CacheMatchesTable /\ entered \subseteq table /\ RefusedForAReason
      /\ (UniqueKey => OneRowEach(table))
  BY DEF Honest
<1>4. ASSUME NEW t \in Threads,
             Begin(t) \/ Connect(t) \/ ConnectFails(t) \/ StatementFails(t) \/ CheckName(t) \/ Insert(t)
      PROVE  Honest'
  <2>1. /\ at[t] \notin {"fill", "compare"} /\ at'[t] \notin {"fill", "compare"}
        /\ \A u \in Threads \ {t} : at'[u] = at[u] /\ call'[u] = call[u]
        /\ stored' = stored /\ entries' = entries /\ entered' = entered /\ refused' = refused
    <3>1. CASE Begin(t)
      BY <1>2, <3>1 DEF Begin
    <3>2. CASE Connect(t)
      BY <1>2, <3>2 DEF Connect, Go
    <3>3. CASE ConnectFails(t)
      BY <1>2, <3>3 DEF ConnectFails, Go
    <3>4. CASE StatementFails(t)
      BY <1>2, <3>4 DEF StatementFails, Go, Connected
    <3>5. CASE CheckName(t)
      BY <1>2, <3>5 DEF CheckName, Go
    <3>6. CASE Insert(t)
      BY <1>2, <3>6 DEF Insert, Go
    <3> QED BY <1>4, <3>1, <3>2, <3>3, <3>4, <3>5, <3>6
  <2>2. table \subseteq table' /\ (UniqueKey => OneRowEach(table'))
    <3>1. CASE Insert(t)
      <4>1. table \subseteq table'
        BY <3>1 DEF Insert
      <4>2. ASSUME UniqueKey PROVE OneRowEach(table')
        <5>1. CASE RowsOf(call[t].name) # {}
          BY <1>3, <3>1, <4>2, <5>1 DEF Insert
        <5>2. CASE RowsOf(call[t].name) = {}
          <6>1. table' \subseteq table \cup {Mine(t)}
            BY <3>1 DEF Insert
          <6>2. \A r \in table : r.name # Mine(t).name
            BY <5>2 DEF RowsOf, Mine, Row
          <6> QED BY <1>3, <4>2, <6>1, <6>2 DEF OneRowEach
        <5> QED BY <5>1, <5>2
      <4> QED BY <4>1, <4>2
    <3>2. CASE table' = table
      BY <1>3, <3>2
    <3>3. Insert(t) \/ table' = table
      BY <1>4 DEF Begin, Connect, ConnectFails, StatementFails, CheckName
    <3> QED BY <3>1, <3>2, <3>3
  <2>3. FetchedRows'
    <3>1. ASSUME NEW u \in Threads, at'[u] \in {"fill", "compare"}
          PROVE  Row(call'[u].name, stored'[u]) \in table'
      <4>1. at'[u] = at[u] /\ call'[u] = call[u] /\ stored'[u] = stored[u]
        BY <2>1, <3>1
      <4>2. Row(call[u].name, stored[u]) \in table
        BY <1>3, <3>1, <4>1 DEF FetchedRows
      <4> QED BY <2>2, <4>1, <4>2
    <3> QED BY <3>1 DEF FetchedRows
  <2> QED BY <2>1, <2>2, <2>3, StillHonest DEF Honest
<1>5. ASSUME NEW t \in Threads, LookInCache(t) PROVE Honest'
  <2>1. at[t] = "cached" /\ Get(call[t].name) /\ stored' = [stored EXCEPT ![t] = answer']
        /\ Go(t, IF answer' = Missing THEN "connect" ELSE "compare")
        /\ table' = table /\ entered' = entered /\ refused' = refused
    BY <1>5 DEF LookInCache
  <2>2. call[t].name \in Names
    BY <1>1, <2>1, MineTyped
  <2>3. /\ \/ answer' = Missing
           \/ \E p \in DOMAIN entries : entries[p] = [key |-> call[t].name, value |-> answer']
        /\ \A i \in DOMAIN entries' : \E j \in DOMAIN entries : entries'[i] = entries[j]
    BY <1>1, <2>1, <2>2, GetGains
  <2>4. call' = call /\ at' = [at EXCEPT ![t] = IF answer' = Missing THEN "connect" ELSE "compare"]
    BY <2>1 DEF Go
  <2>5. CacheMatchesTable'
    BY <1>3, <2>1, <2>3 DEF CacheMatchesTable
  <2>6. ASSUME NEW u \in Threads, at'[u] \in {"fill", "compare"}
        PROVE  Row(call'[u].name, stored'[u]) \in table'
    <3>1. CASE u = t
      <4>1. answer' # Missing /\ stored'[u] = answer'
        BY <1>2, <2>1, <2>4, <2>6, <3>1
      <4>2. PICK p \in DOMAIN entries : entries[p] = [key |-> call[t].name, value |-> answer']
        BY <2>3, <4>1
      <4>3. Row(entries[p].key, entries[p].value) \in table
        BY <1>3 DEF CacheMatchesTable
      <4>4. entries[p].key = call[t].name /\ entries[p].value = answer'
        BY <4>2
      <4> QED BY <2>1, <2>4, <3>1, <4>1, <4>3, <4>4
    <3>2. CASE u # t
      <4>1. at'[u] = at[u] /\ stored'[u] = stored[u]
        BY <1>2, <2>1, <2>4, <3>2
      <4>2. Row(call[u].name, stored[u]) \in table
        BY <1>3, <2>6, <4>1 DEF FetchedRows
      <4> QED BY <2>1, <2>4, <4>1, <4>2
    <3> QED BY <3>1, <3>2
  <2>7. RefusedForAReason'
    BY <1>3, <2>1 DEF RefusedForAReason
  <2> QED BY <1>3, <2>1, <2>5, <2>6, <2>7 DEF Honest, FetchedRows
<1>6. ASSUME NEW t \in Threads, FetchRow(t) PROVE Honest'
  <2>1. table' = table /\ entries' = entries /\ entered' = entered /\ refused' = refused
    BY <1>6 DEF FetchRow
  <2>2. ASSUME NEW u \in Threads, at'[u] \in {"fill", "compare"}
        PROVE  Row(call'[u].name, stored'[u]) \in table
    <3>1. CASE u = t
      <4>1. ~Go(t, "idle")
        BY <1>2, <2>2, <3>1 DEF Go
      <4>2. PICK r \in RowsOf(call[t].name) : Go(t, "fill") /\ stored' = [stored EXCEPT ![t] = r.password]
        BY <1>6, <4>1 DEF FetchRow, Fetched
      <4>3. r \in table /\ r \in Rows /\ r.name = call[t].name
        BY <1>2 DEF RowsOf
      <4>4. Row(r.name, r.password) = r
        BY <4>3 DEF Row, Rows
      <4>5. call' = call /\ stored'[t] = r.password
        BY <1>2, <4>2 DEF Go
      <4> QED BY <3>1, <4>3, <4>4, <4>5
    <3>2. CASE u # t
      <4>1. at'[u] = at[u] /\ stored'[u] = stored[u] /\ call'[u] = call[u]
        BY <1>2, <1>6, <3>2 DEF FetchRow, Go, Fetched
      <4>2. Row(call[u].name, stored[u]) \in table
        BY <1>3, <2>2, <4>1 DEF FetchedRows
      <4> QED BY <4>1, <4>2
    <3> QED BY <3>1, <3>2
  <2>3. FetchedRows'
    BY <2>1, <2>2 DEF FetchedRows
  <2> QED BY <1>3, <2>1, <2>3, StillHonest DEF Honest
<1>7. ASSUME NEW t \in Threads, FillCache(t) PROVE Honest'
  <2>1. at[t] = "fill" /\ Put(call[t].name, stored[t]) /\ Go(t, "compare") /\ table' = table
        /\ stored' = stored /\ entered' = entered /\ refused' = refused
    BY <1>7 DEF FillCache, Cached
  <2>2. Row(call[t].name, stored[t]) \in table
    BY <1>3, <2>1 DEF FetchedRows
  <2>3. call[t].name \in Names /\ stored[t] \in Passwords
    <3>1. Row(call[t].name, stored[t]) \in Rows
      BY <1>2, <2>2
    <3> QED BY <3>1 DEF Row, Rows
  <2> DEFINE e == [key |-> call[t].name, value |-> stored[t]]
  <2>4. \A i \in DOMAIN entries' : entries'[i] = e \/ \E j \in DOMAIN entries : entries'[i] = entries[j]
    BY <1>1, <2>1, <2>3, PutGains DEF Gained
  <2>5. CacheMatchesTable'
    <3>1. Row(e.key, e.value) \in table
      BY <2>2
    <3> HIDE DEF e
    <3> QED BY <1>3, <2>1, <2>4, <3>1 DEF CacheMatchesTable
  <2>6. call' = call /\ at' = [at EXCEPT ![t] = "compare"]
    BY <2>1 DEF Go
  <2>7. FetchedRows'
    BY <1>2, <1>3, <2>1, <2>2, <2>6 DEF FetchedRows
  <2>8. RefusedForAReason'
    BY <1>3, <2>1 DEF RefusedForAReason
  <2> QED BY <1>3, <2>1, <2>5, <2>7, <2>8 DEF Honest
<1>8. ASSUME NEW t \in Threads, Compare(t) PROVE Honest'
  <2>1. /\ at[t] = "compare" /\ table' = table /\ entries' = entries
        /\ IF call[t].password = stored[t]
           THEN entered' = entered \cup {Mine(t)} /\ UNCHANGED refused
           ELSE refused' = refused \cup {Mine(t)} /\ UNCHANGED entered
        /\ stored' = [stored EXCEPT ![t] = Missing]
        /\ Go(t, "idle")
    BY <1>8 DEF Compare
  <2>2. Row(call[t].name, stored[t]) \in table
    BY <1>3, <2>1 DEF FetchedRows
  <2>3. CacheMatchesTable'
    BY <1>3, <2>1 DEF CacheMatchesTable
  <2>4. FetchedRows'
    <3>1. ASSUME NEW u \in Threads, at'[u] \in {"fill", "compare"}
          PROVE  Row(call'[u].name, stored'[u]) \in table'
      <4>1. u # t
        BY <1>2, <2>1, <3>1 DEF Go
      <4>2. at'[u] = at[u] /\ stored'[u] = stored[u] /\ call'[u] = call[u]
        BY <1>2, <2>1, <4>1 DEF Go
      <4>3. Row(call[u].name, stored[u]) \in table
        BY <1>3, <3>1, <4>2 DEF FetchedRows
      <4> QED BY <2>1, <4>2, <4>3
    <3> QED BY <3>1 DEF FetchedRows
  <2>5. entered' \subseteq table'
    BY <1>3, <2>1, <2>2 DEF Mine
  <2>6. RefusedForAReason'
    <3>1. call[t].password # stored[t] =>
             \E q \in table : q.name = Mine(t).name /\ q.password # Mine(t).password
      BY <2>2 DEF Mine, Row
    <3> QED BY <1>3, <2>1, <3>1 DEF RefusedForAReason
  <2> QED BY <1>3, <2>1, <2>3, <2>4, <2>5, <2>6 DEF Honest
<1>9. CASE UNCHANGED uvars
  BY <1>9 DEF uvars, Honest, CacheMatchesTable, FetchedRows, RefusedForAReason
<1> QED BY <1>4, <1>5, <1>6, <1>7, <1>8, <1>9 DEF UNext, Step

-----------------------------------------------------------------------------
(* The theorems.                                                           *)

LEMMA ReturnedInit == UInit => ConnectionsReturned
<1> SUFFICES ASSUME UInit PROVE ConnectionsReturned
  OBVIOUS
<1>1. Holders = {}
  BY DEF UInit, Holders, Connected
<1>2. Cardinality(Holders) = 0 /\ free = MaxConn /\ MaxConn \in Nat
  BY <1>1, FS_EmptySet, UserAssumption DEF UInit
<1> QED BY <1>2, TypeInit DEF ConnectionsReturned, Holders

\* Types and connections hold up because what is fetched is a row, and what is fetched
\* is a row because the types hold: one induction for both.
LEMMA UserInvariant == USpec => [](ConnectionsReturned /\ Honest)
<1>1. UInit => ConnectionsReturned /\ Honest
  BY ReturnedInit, HonestInit
<1>2. ConnectionsReturned /\ Honest /\ [UNext]_uvars => (ConnectionsReturned /\ Honest)'
  <2>1. Honest => FetchedRows
    BY DEF Honest
  <2> QED BY <2>1, ReturnedStep, HonestStep
<1> QED BY <1>1, <1>2, PTL DEF USpec

\* However many workers share however many connections, every return of registerUser
\* and loginUser gives its connection back exactly once (User.cpp:70-284).
THEOREM UserConnectionsReturned == USpec => []ConnectionsReturned
BY UserInvariant, PTL

\* A hit in the cache of credentials says what the table says, whatever the capacity and
\* whoever fills the cache at the same time (User.cpp:173-267).
THEOREM UserCacheMatchesTable == USpec => []CacheMatchesTable
<1>1. Honest => CacheMatchesTable
  BY DEF Honest
<1> QED BY <1>1, UserInvariant, PTL

\* A login that succeeds used the stored password, and under a unique key no password is
\* both accepted and refused (User.cpp:269-284).
THEOREM UserLoginsHonest == USpec => []LoginsHonest
BY HonestSuffices, UserInvariant, PTL
=============================================================================
