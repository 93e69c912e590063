-------------------------------- MODULE User --------------------------------
(***************************************************************************)
(* User::registerUser and User::loginUser (src/user/User.cpp), run by many *)
(* workers at once over the connection pool, the users table and the LRU   *)
(* cache of credentials.                                                   *)
(*                                                                         *)
(* The pool is the number of idle connections (MySQLPool.tla is its own    *)
(* model), the cache what LRU.tla promises.  A password stands for the     *)
(* hash made from it and the salt of its row: equal passwords compare      *)
(* equal under one salt, different ones do not.  The users table is not    *)
(* defined in the repository: UniqueKey says whether it has a unique key   *)
(* on username, which makes a second INSERT fail.                          *)
(*                                                                         *)
(* Bound: MaxCalls calls in a run.                                         *)
(***************************************************************************)
EXTENDS Naturals, Sequences, FiniteSets, LRU

CONSTANTS
    Threads,
    MaxConn,     \* connections in the pool
    UniqueKey,
    MayFail,     \* whether MySQL may fail to execute a statement
    MaxCalls

ASSUME UserAssumption ==
    /\ MaxConn \in Nat \ {0}
    /\ Capacity \in Nat
    /\ {UniqueKey, MayFail} \subseteq BOOLEAN
    /\ MaxCalls \in Nat
    /\ IsFiniteSet(Threads)
    /\ Missing \notin Values

\* Keys are user names and Values passwords.
Names == Keys
Passwords == Values

VARIABLES
    table,       \* rows of users: [name, password]
    free,        \* idle connections
    at,          \* thread -> "idle", "cached" (about to ask the cache), "connect",
                 \*           "check", "insert", "fetch", "fill", "compare"
    call,        \* thread -> [kind, name, password] of its request
    stored,      \* thread -> the stored password it will compare with
    calls,       \* requests begun
    told,        \* history: [name, password] answered "registered"
    entered,     \* history: [name, password] answered "logged in"
    refused      \* history: [name, password] answered "wrong password"

\* The cache is the pair <<entries, answer>> of LRU.
uvars == <<entries, answer, table, free, at, call, stored, calls, told, entered, refused>>

Row(n, p) == [name |-> n, password |-> p]
Mine(t) == Row(call[t].name, call[t].password)
RowsOf(n) == {r \in table : r.name = n}
OneRowEach(rows) == \A r, s \in rows : r.name = s.name => r = s
Connected(t) == at[t] \in {"check", "insert", "fetch"}
NoCall == [kind |-> "none", name |-> Missing, password |-> Missing]

\* Thread t goes on to s, and at the end of its call forgets the call.
Go(t, s) ==
    /\ at' = [at EXCEPT ![t] = s]
    /\ call' = IF s = "idle" THEN [call EXCEPT ![t] = NoCall] ELSE call

-----------------------------------------------------------------------------

\* The server starts with an empty cache on the users of earlier days.
UInit ==
    /\ Init
    /\ table \in SUBSET [name : Names, password : Passwords]
    /\ UniqueKey => OneRowEach(table)
    /\ free = MaxConn
    /\ at = [t \in Threads |-> "idle"]
    /\ call = [t \in Threads |-> NoCall]
    /\ stored = [t \in Threads |-> Missing]
    /\ calls = 0
    /\ told = {}
    /\ entered = {}
    /\ refused = {}

\* Both functions return at once on an empty name or password, so a call that
\* does anything has both.
Begin(t) ==
    /\ at[t] = "idle"
    /\ calls < MaxCalls
    /\ calls' = calls + 1
    /\ \E k \in {"register", "login"}, n \in Names, p \in Passwords :
          /\ call' = [call EXCEPT ![t] = [kind |-> k, name |-> n, password |-> p]]
          /\ at' = [at EXCEPT ![t] = IF k = "register" THEN "connect" ELSE "cached"]
    /\ UNCHANGED <<entries, answer, table, free, stored, told, entered, refused>>

\* user_cache.get: a hit goes straight to the comparison.
LookInCache(t) ==
    /\ at[t] = "cached"
    /\ Get(call[t].name)
    /\ stored' = [stored EXCEPT ![t] = answer']
    /\ Go(t, IF answer' = Missing THEN "connect" ELSE "compare")
    /\ UNCHANGED <<table, free, calls, told, entered, refused>>

\* getConnection lends one ...
Connect(t) ==
    /\ at[t] = "connect"
    /\ free > 0
    /\ free' = free - 1
    /\ Go(t, IF call[t].kind = "register" THEN "check" ELSE "fetch")
    /\ UNCHANGED <<entries, answer, table, stored, calls, told, entered, refused>>

\* ... or returns nullptr after its timeout: "server error".
ConnectFails(t) ==
    /\ at[t] = "connect"
    /\ free = 0
    /\ Go(t, "idle")
    /\ UNCHANGED <<entries, answer, table, free, stored, calls, told, entered, refused>>

\* Mutant of Returned: the error return forgets releaseConnection.
NotReturned == free

Returned == free + 1

\* mysql_stmt_init or mysql_stmt_prepare fails: release, "server error".
StatementFails(t) ==
    /\ Connected(t)
    /\ free' = Returned
    /\ Go(t, "idle")
    /\ UNCHANGED <<entries, answer, table, stored, calls, told, entered, refused>>

\* SELECT, executed or not: the rows that are counted are those of the metadata, which
\* has none, so that no name is ever found taken.
CheckName(t) ==
    /\ at[t] = "check"
    /\ Go(t, "insert")
    /\ UNCHANGED <<entries, answer, table, free, stored, calls, told, entered, refused>>

\* INSERT, whose result is not looked at: a duplicate name or a failing server
\* leaves the table as it was.  Success is reported either way.
Insert(t) ==
    /\ at[t] = "insert"
    /\ table' \in
          IF UniqueKey /\ RowsOf(call[t].name) # {}
          THEN {table}
          ELSE {table \cup {Mine(t)}} \cup (IF MayFail THEN {table} ELSE {})
    /\ free' = free + 1
    /\ told' = told \cup {Mine(t)}
    /\ Go(t, "idle")
    /\ UNCHANGED <<entries, answer, stored, calls, entered, refused>>

\* Mutant of Fetched: the buffer of the fetch is shared by all threads.
FetchedForAll(t, r) == [u \in Threads |-> r.password]

Fetched(t, r) == [stored EXCEPT ![t] = r.password]

\* SELECT and fetch of the first row, then the connection is returned; the row
\* is cached only afterwards.  Without a row, or if the SELECT failed: "no such user".
FetchRow(t) ==
    /\ at[t] = "fetch"
    /\ free' = free + 1
    /\ \/ /\ RowsOf(call[t].name) = {} \/ MayFail
          /\ Go(t, "idle")
          /\ UNCHANGED stored
       \/ /\ \E r \in RowsOf(call[t].name) : stored' = Fetched(t, r)
          /\ Go(t, "fill")
    /\ UNCHANGED <<entries, answer, table, calls, told, entered, refused>>

\* Mutant of Cached: the password just entered is cached.
CachedInput(t) == call[t].password

Cached(t) == stored[t]

FillCache(t) ==
    /\ at[t] = "fill"
    /\ Put(call[t].name, Cached(t))
    /\ Go(t, "compare")
    /\ UNCHANGED <<table, free, stored, calls, told, entered, refused>>

Compare(t) ==
    /\ at[t] = "compare"
    /\ IF call[t].password = stored[t]
       THEN entered' = entered \cup {Mine(t)} /\ UNCHANGED refused
       ELSE refused' = refused \cup {Mine(t)} /\ UNCHANGED entered
    /\ stored' = [stored EXCEPT ![t] = Missing]
    /\ Go(t, "idle")
    /\ UNCHANGED <<entries, answer, table, free, calls, told>>

Step(t) ==
    \/ LookInCache(t) \/ Connect(t) \/ CheckName(t) \/ Insert(t)
    \/ FetchRow(t) \/ FillCache(t) \/ Compare(t)

UNext == \E t \in Threads : Begin(t) \/ Step(t) \/ ConnectFails(t) \/ StatementFails(t)

\* A worker goes on with its call.  It is not given up to a failure or to the
\* pool's timeout: connections come back before that.
USpec == UInit /\ [][UNext]_uvars /\ \A t \in Threads : WF_uvars(Step(t))

-----------------------------------------------------------------------------

\* Every variable has its type, and a call in progress has a name and a password.
TypeOK ==
    /\ entries \in Seq([key : Names, value : Passwords]) /\ Len(entries) <= Capacity
    /\ answer \in Passwords \cup {Missing}
    /\ table \subseteq [name : Names, password : Passwords]
    /\ free \in 0 .. MaxConn
    /\ at \in [Threads -> {"idle", "cached", "connect", "check", "insert",
                           "fetch", "fill", "compare"}]
    /\ call \in [Threads -> [kind : {"none", "register", "login"}, name : Names \cup {Missing},
                             password : Passwords \cup {Missing}]]
    /\ \A t \in Threads : at[t] # "idle" => Mine(t) \in [name : Names, password : Passwords]
    /\ stored \in [Threads -> Passwords \cup {Missing}]
    /\ calls \in 0 .. MaxCalls
    /\ UNION {told, entered, refused} \subseteq [name : Names, password : Passwords]

\* Every way out of a call gives its connection back, once (User.cpp:70-284).
ConnectionsReturned ==
    TypeOK /\ free + Cardinality({t \in Threads : Connected(t)}) = MaxConn

\* What is cached for a name is in the table under that name: a hit says what
\* a query would have said.
CacheMatchesTable ==
    \A n \in DOMAIN entries : Row(entries[n].key, entries[n].value) \in table

\* Nobody logs in with a password that is not stored under the name; and with a
\* unique key a password is not accepted at one time and refused at another,
\* whether the row comes from the cache or the table, before or after an eviction.
LoginsHonest ==
    /\ entered \subseteq table
    /\ UniqueKey => entered \cap refused = {}

\* Every call is answered, even if no getConnection ever times out: workers that
\* wait for a connection are not waiting for each other.
CallsEnd == \A t \in Threads : at[t] # "idle" ~> at[t] = "idle"

\* Whoever was told "registered" has the row that was asked for.  Does NOT
\* hold: no name is ever found taken, and the result of INSERT is not looked at
\* (User.cpp:112-123, 160-168).
RegisteredIsStored == told \subseteq table
=============================================================================
