-------------------------------- MODULE TestDB --------------------------------
(***************************************************************************)
(* The query tool of internal/testdb: the validators of SQL statements,    *)
(* MySQLClient.Query with the connection pool of each engine, and          *)
(* HTTPClient.Query, one of which main chooses at startup.                 *)
(*                                                                         *)
(* A statement is abstracted to the facts the validators decide on.  What  *)
(* a table holds is chosen when a query reads it: other clients change the *)
(* test database at any time.  Rows are numbered, the newest has the       *)
(* largest number, and `seen' rows 1..seen match a statement.  Sizes in    *)
(* bytes are not kept: a result may always turn out to be too large.       *)
(***************************************************************************)
EXTENDS Naturals, FiniteSets

CONSTANTS
    Calls,         \* concurrent requests
    Engines,       \* EngineXianshiSQL and EngineConfigSQL
    MaxOpenConns,  \* db.SetMaxOpenConns, 4 in the code
    maxRows,       \* MySQLClient.maxRows, 500 in the code
    MaxMatch       \* bound: the rows that match a statement

ASSUME DBAssumption ==
    /\ {MaxOpenConns, maxRows, MaxMatch} \subseteq Nat \ {0}
    /\ "xianshi" \in Engines
    /\ IsFiniteSet(Calls)

VARIABLES
    direct,   \* config.DirectDBEnabled(): a MySQLClient instead of an HTTPClient
    pools,    \* the engines whose sql.DB is open
    boot,     \* OpenMySQLClient: opening, ready, failed
    q,        \* the query of every call
    held,     \* calls whose transaction holds a connection
    gone      \* calls whose request context has been canceled

dbVars == <<direct, pools, boot, q, held, gone>>

-----------------------------------------------------------------------------
(* Statements and their validation. *)

\* The LIMIT is 0 when there is no LIMIT clause.
Select(n) == [head |-> "SELECT", words |-> {}, limit |-> n, qualified |-> FALSE,
              lexical |-> TRUE]
Show(w) == [head |-> "SHOW", words |-> w, limit |-> 0, qualified |-> FALSE,
            lexical |-> TRUE]

\* One statement for each reason to accept or to refuse.
Statements ==
    {Select(0), Select(MaxMatch)}
    \cup {Show(w) : w \in {{"TABLES"}, {"CREATE", "TABLE"}, {"GRANTS"}}}
    \cup {[Select(1) EXCEPT !.qualified = TRUE], [Select(1) EXCEPT !.lexical = FALSE],
          [Select(1) EXCEPT !.head = "UPDATE"], [Select(1) EXCEPT !.words = {"INTO"}]}

Statement == [head: {"SELECT", "SHOW", "UPDATE"}, limit: Nat, qualified: BOOLEAN,
              words: SUBSET {"TABLES", "CREATE", "TABLE", "GRANTS", "INTO"},
              lexical: BOOLEAN]

allowedPrefixes == {"SELECT", "SHOW", "DESCRIBE", "DESC", "EXPLAIN", "WITH"}
forbiddenSQL ==
    {"INSERT", "UPDATE", "DELETE", "DROP", "TRUNCATE", "ALTER", "CREATE", "REPLACE",
     "RENAME", "GRANT", "REVOKE", "CALL", "LOAD", "LOAD_FILE", "LOCK", "UNLOCK",
     "SET", "EXEC", "EXECUTE", "PREPARE", "DEALLOCATE", "HANDLER", "PROCEDURE",
     "FUNCTION", "TRIGGER", "EVENT", "OUTFILE", "DUMPFILE", "INFILE", "INTO"}
allowedDirectShow == {{"TABLES"}, {"COLUMNS", "FROM"}, {"INDEX", "FROM"},
                      {"CREATE", "TABLE"}, {"TABLE", "STATUS"}}

hasAllowedPrefix(st) == st.head \in allowedPrefixes

\* "lexical" stands for length, quoting, comments, characters and functions.
ValidateReadOnlySQL(st) ==
    /\ st.lexical
    /\ hasAllowedPrefix(st)
    /\ st.words \cap forbiddenSQL = {}
    /\ st.head \in {"SELECT", "WITH"} => st.limit > 0

\* "qualified" stands for a.b outside of literals, and for double quotes.
validateDirectDatabaseScope(st) ==
    /\ ~st.qualified
    /\ st.head = "SHOW" => st.words \in allowedDirectShow

\* What the client in use refuses before it asks anyone.  HTTPClient leaves
\* that to the endpoint.
ClientAccepts(st, e) ==
    direct => /\ ValidateReadOnlySQL(st)
              /\ validateDirectDatabaseScope(st)
              /\ e \in Engines

-----------------------------------------------------------------------------
(* A query. *)

\* waiting: in BeginTx; executing: in QueryContext; reading: in the loop over
\* rows.Next; read: after the loop; asking: in HTTPClient; done: out is set.
PC == {"idle", "waiting", "executing", "reading", "read", "asking", "done"}
Active == {"waiting", "executing", "reading", "asking"}
Outcome == {"none", "rows", "refused", "too_many", "error"}

NoStatement == Select(0)
Idle == [pc |-> "idle", stmt |-> NoStatement, engine |-> "xianshi",
         expired |-> FALSE, seen |-> 0, rows |-> {}, err |-> FALSE, out |-> "none"]

LowerOf(a, b) == IF a < b THEN a ELSE b

\* The rows with which a database that holds 1..seen answers ORDER BY id DESC
\* LIMIT limit.  SHOW has no LIMIT.
ResultSet(seen, limit) ==
    LET n == IF limit = 0 THEN seen ELSE LowerOf(limit, seen)
    IN  (seen - n + 1)..seen

Ended(c) == gone[c] \/ q[c].expired

\* The client's Query is called; it answers with a refusal, or waits.
Begin(c, st, e) ==
    q' = [q EXCEPT ![c] =
            [Idle EXCEPT !.stmt = st, !.engine = e,
                         !.pc = IF ~ClientAccepts(st, e) THEN "done"
                                ELSE IF direct THEN "waiting" ELSE "asking",
                         !.out = IF ClientAccepts(st, e) THEN "none" ELSE "refused"]]

\* What Query returns: an error comes without rows.
Output(r, outcome) ==
    LET ok == outcome = "rows"
    IN  [pc |-> "done", stmt |-> r.stmt, engine |-> r.engine, expired |-> FALSE,
         seen |-> IF ok THEN r.seen ELSE 0, rows |-> IF ok THEN r.rows ELSE {},
         err |-> FALSE, out |-> outcome]

\* Mutant: the transaction is only rolled back after a success.
Leave_NoRollback(c, outcome) ==
    /\ q' = [q EXCEPT ![c] = Output(@, outcome)]
    /\ held' = IF outcome = "rows" THEN held \ {c} ELSE held

\* Query returns: the deferred Close, Rollback and cancel run.
Leave(c, outcome) ==
    /\ q' = [q EXCEPT ![c] = Output(@, outcome)]
    /\ held' = held \ {c}

\* The query tool: Service.Query validates, then calls the client.
Query(c, st, e) ==
    /\ boot = "ready"
    /\ q[c].pc = "idle"
    /\ IF e \in Engines /\ ValidateReadOnlySQL(st)
       THEN Begin(c, st, e)
       ELSE q' = [q EXCEPT ![c] = Output([@ EXCEPT !.stmt = st, !.engine = e], "refused")]
    /\ UNCHANGED <<direct, pools, boot, held, gone>>

\* BeginTx gets a connection of the engine's pool.
Acquire(c) ==
    /\ q[c].pc = "waiting"
    /\ ~Ended(c)
    /\ Cardinality({d \in held : q[d].engine = q[c].engine}) < MaxOpenConns
    /\ held' = held \cup {c}
    /\ q' = [q EXCEPT ![c].pc = "executing"]
    /\ UNCHANGED <<direct, pools, boot, gone>>

\* QueryContext returns a result set.
Execute(c) ==
    /\ q[c].pc = "executing"
    /\ c \in held
    /\ \E n \in 0..MaxMatch : q' = [q EXCEPT ![c] = [@ EXCEPT !.seen = n, !.pc = "reading"]]
    /\ UNCHANGED <<direct, pools, boot, held, gone>>

\* rows.Next returns true.
ReadRow(c) ==
    LET rest == ResultSet(q[c].seen, q[c].stmt.limit) \ q[c].rows
    IN  /\ q[c].pc = "reading"
        /\ c \in held
        /\ rest # {}
        /\ IF Cardinality(q[c].rows) >= maxRows
           THEN Leave(c, "too_many")
           ELSE /\ \E r \in rest :
                      /\ \A s \in rest : s <= r
                      /\ q' = [q EXCEPT ![c].rows = @ \cup {r}]
                /\ UNCHANGED held
        /\ UNCHANGED <<direct, pools, boot, gone>>

\* rows.Next returns false at the end of the result.
EndOfRows(c) ==
    /\ q[c].pc = "reading"
    /\ c \in held
    /\ q[c].rows = ResultSet(q[c].seen, q[c].stmt.limit)
    /\ q' = [q EXCEPT ![c].pc = "read"]
    /\ UNCHANGED <<direct, pools, boot, held, gone>>

\* A context that ends, the server or the network makes the current step fail;
\* inside the loop rows.Next returns false and rows.Err keeps the error.
Fail(c) ==
    /\ \/ /\ q[c].pc \in {"waiting", "executing", "asking"}
          /\ Leave(c, "error")
       \/ /\ q[c].pc = "reading"
          /\ q' = [q EXCEPT ![c] = [@ EXCEPT !.pc = "read", !.err = TRUE]]
          /\ UNCHANGED held
    /\ UNCHANGED <<direct, pools, boot, gone>>

\* Mutant: rows.Err is not looked at.
Conclude_NoErr(c) ==
    /\ q[c].pc = "read"
    /\ \E outcome \in {"rows", "error"} : Leave(c, outcome)
    /\ UNCHANGED <<direct, pools, boot, gone>>

\* The rest of Query: rows.Err, and the size of the encoded result.
Conclude(c) ==
    /\ q[c].pc = "read"
    /\ \E outcome \in IF q[c].err THEN {"error"} ELSE {"rows", "error"} :
          Leave(c, outcome)
    /\ UNCHANGED <<direct, pools, boot, gone>>

\* HTTPClient.Query returns the endpoint's rows; its other ends are Fail.
Answer(c) ==
    /\ q[c].pc = "asking"
    /\ ~Ended(c)
    /\ \E n \in 0..MaxMatch :
          q' = [q EXCEPT ![c] = Output([@ EXCEPT !.seen = n,
                                         !.rows = ResultSet(n, q[c].stmt.limit)], "rows")]
    /\ UNCHANGED <<direct, pools, boot, held, gone>>

\* database/sql rolls a transaction back as soon as its context has ended: the
\* connection may serve another call before this one returns.
AwaitDone(c) ==
    /\ Ended(c)
    /\ c \in held
    /\ held' = held \ {c}
    /\ UNCHANGED <<direct, pools, boot, q, gone>>

\* Mutant: a client without a timeout.
Expire_Never(c) == FALSE

\* queryTimeout, or the timeout of the HTTP client.
Expire(c) ==
    /\ q[c].pc \in Active
    /\ ~Ended(c)
    /\ q' = [q EXCEPT ![c].expired = TRUE]
    /\ UNCHANGED <<direct, pools, boot, held, gone>>

-----------------------------------------------------------------------------
(* Startup. *)

\* OpenMySQLClient: both pools are opened and pinged in turn; a failure of the
\* second one closes the first.  main then exits.
OpenFails ==
    /\ boot = "opening"
    /\ boot' = "failed"
    /\ pools' = {}
    /\ UNCHANGED <<direct, q, held, gone>>

Open(e) ==
    /\ boot = "opening"
    /\ e \notin pools
    /\ e # "xianshi" => "xianshi" \in pools
    /\ pools' = pools \cup {e}
    /\ boot' = IF pools' = Engines THEN "ready" ELSE "opening"
    /\ UNCHANGED <<direct, q, held, gone>>

DBInit ==
    /\ direct \in BOOLEAN
    /\ pools = {}
    /\ boot = IF direct THEN "opening" ELSE "ready"
    /\ q = [c \in Calls |-> Idle]
    /\ held = {}
    /\ gone = [c \in Calls |-> FALSE]

\* The steps of a query in progress.
QueryStep(c) ==
    \/ Acquire(c) \/ Execute(c) \/ ReadRow(c) \/ EndOfRows(c) \/ Fail(c)
    \/ Conclude(c) \/ Answer(c) \/ AwaitDone(c) \/ Expire(c)

Startup == OpenFails \/ \E e \in Engines : Open(e)

-----------------------------------------------------------------------------
(* Properties. *)

QueryState ==
    [pc: PC, stmt: Statement, engine: Engines \cup {"unknown"}, expired: BOOLEAN,
     seen: 0..MaxMatch, rows: SUBSET (1..MaxMatch), err: BOOLEAN, out: Outcome]

DBTypeOK ==
    /\ direct \in BOOLEAN
    /\ pools \subseteq Engines
    /\ boot \in {"opening", "ready", "failed"}
    /\ q \in [Calls -> QueryState]
    /\ held \subseteq Calls
    /\ gone \in [Calls -> BOOLEAN]

\* A query that succeeds returns every row of the database's result.
ResultIsWhole ==
    \A c \in Calls : q[c].out = "rows" =>
        q[c].rows = ResultSet(q[c].seen, q[c].stmt.limit)

\* Every error path gives its connection back, and a client that could not be
\* opened keeps no pool: no call holds a connection outside of
\* MySQLClient.Query, and the pool never has more than its limit in use.
ConnectionsAreReturned ==
    /\ \A c \in held : q[c].pc \in {"executing", "reading", "read"}
    /\ \A e \in Engines :
          Cardinality({c \in held : q[c].engine = e}) <= MaxOpenConns
    /\ boot = "failed" => pools = {}
=============================================================================
