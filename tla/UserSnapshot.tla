----------------------------- MODULE UserSnapshot -----------------------------
(***************************************************************************)
(* internal/usersnapshot over TestDB: a snapshot is a sequence of queries, *)
(* one per section, each with a connection and a timeout of its own, next  *)
(* to calls of the query tool.                                             *)
(***************************************************************************)
EXTENDS TestDB, Sequences

CONSTANTS
    Getters,       \* the calls that use the snapshot tool, not the query tool
    Sections,      \* in the code <<"user", "vip", "commodities", "equipped",
                   \*               "prop_cards">>
    VIPLimit,      \* 20 in the code
    MaxLimit,      \* the largest backpack_limit, 100 in the code
    DefaultLimit   \* 50 in the code

ASSUME SnapshotAssumption ==
    /\ Getters \subseteq Calls
    /\ {VIPLimit, MaxLimit} \subseteq Nat \ {0}
    /\ DefaultLimit \in 1..MaxLimit
    /\ Sections \in Seq(STRING)
    /\ VIPLimit <= maxRows /\ MaxLimit < maxRows

VARIABLE snap      \* the Get of every call: its limit (0: none) and sections

vars == <<dbVars, snap>>

NoGet == [limit |-> 0, sections |-> <<>>]

\* The limit that querySection cuts at.
SectionLimit(name, limit) ==
    CASE name = "user" -> 1
      [] name = "vip" -> VIPLimit
      [] OTHER -> limit

\* The LIMIT clause of a section's statement: the backpack asks for one row
\* more than it keeps, the others do not.
QueryLimit(name, limit) ==
    IF name \in {"user", "vip"} THEN SectionLimit(name, limit) ELSE limit + 1

\* Mutant: there is no upper bound.
ValidLimit_NoMax(limit) == limit >= 1

\* Get refuses other values of backpack_limit.
ValidLimit(limit) == limit \in 1..MaxLimit

\* Get of an input that passes its checks; any other changes nothing.
Get(c, input) ==
    LET limit == IF input = 0 THEN DefaultLimit ELSE input
    IN  /\ boot = "ready"
        /\ q[c].pc = "idle"
        /\ snap[c] = NoGet
        /\ ValidLimit(limit)
        /\ snap' = [snap EXCEPT ![c].limit = limit]
        /\ UNCHANGED dbVars

\* querySection calls the client, always for the same engine.
QuerySection(c) ==
    LET i == Len(snap[c].sections) + 1
    IN  /\ snap[c].limit > 0
        /\ q[c].pc = "idle"
        /\ i <= Len(Sections)
        /\ Begin(c, Select(QueryLimit(Sections[i], snap[c].limit)), "xianshi")
        /\ UNCHANGED <<direct, pools, boot, held, gone, snap>>

\* The rows that Rows[:limit] keeps of a result in descending order.
Newest(rows, limit) == {r \in rows : Cardinality({s \in rows : s > r}) < limit}

\* What querySection makes of the client's answer; "seen" is history.
Section(r, limit, out) ==
    [error |-> out, seen |-> r.seen,
     truncated |-> out = "rows" /\ Cardinality(r.rows) > limit,
     rows |-> IF out = "rows" THEN Newest(r.rows, limit) ELSE {}]

\* querySection returns.  The endpoint's rows may also fail to decode.
TakeSection(c) ==
    LET i == Len(snap[c].sections) + 1
        limit == SectionLimit(Sections[i], snap[c].limit)
    IN  /\ snap[c].limit > 0
        /\ q[c].pc = "done"
        /\ \E out \in {q[c].out} \cup (IF direct THEN {} ELSE {"error"}) :
              snap' = [snap EXCEPT ![c].sections = Append(@, Section(q[c], limit, out))]
        /\ q' = [q EXCEPT ![c] = Idle]
        /\ UNCHANGED <<direct, pools, boot, held, gone>>

\* The tool returns, and the next request may come.
Return(c) ==
    /\ \/ snap[c].limit = 0 /\ q[c].pc = "done"
       \/ snap[c].limit > 0 /\ Len(snap[c].sections) = Len(Sections)
    /\ q' = [q EXCEPT ![c] = Idle]
    /\ snap' = [snap EXCEPT ![c] = NoGet]
    /\ gone' = [gone EXCEPT ![c] = FALSE]
    /\ UNCHANGED <<direct, pools, boot, held>>

Busy(c) == q[c].pc # "idle" \/ snap[c].limit > 0

\* The client of a request disconnects; its context ends for all sections.
Disconnect(c) ==
    /\ ~gone[c]
    /\ Busy(c)
    /\ gone' = [gone EXCEPT ![c] = TRUE]
    /\ UNCHANGED <<direct, pools, boot, q, held, snap>>

Init == DBInit /\ snap = [c \in Calls |-> NoGet]

\* main exits after a failed Open.
Exited == boot = "failed" /\ UNCHANGED vars

Next ==
    \/ \E c \in Calls \ Getters, st \in Statements, e \in Engines \cup {"unknown"} :
          Query(c, st, e) /\ UNCHANGED snap
    \/ \E c \in Getters, input \in 0..(MaxLimit + 1) : Get(c, input)
    \/ \E c \in Calls :
          \/ QueryStep(c) /\ UNCHANGED snap
          \/ QuerySection(c) \/ TakeSection(c) \/ Return(c) \/ Disconnect(c)
    \/ Startup /\ UNCHANGED snap
    \/ Exited

\* The Go scheduler runs a call that can go on, timers fire, and a step whose
\* context has ended fails.  Nothing is assumed of the database.
Fairness ==
    \A c \in Calls :
        /\ WF_vars(Expire(c) /\ UNCHANGED snap)
        /\ WF_vars(Ended(c) /\ Fail(c) /\ UNCHANGED snap)
        /\ WF_vars(Conclude(c) /\ UNCHANGED snap)
        /\ WF_vars(QuerySection(c) \/ TakeSection(c) \/ Return(c))

Spec == Init /\ [][Next]_vars /\ Fairness

-----------------------------------------------------------------------------
(* Properties. *)

SectionState ==
    [error: Outcome, seen: 0..MaxMatch, truncated: BOOLEAN, rows: SUBSET (1..MaxMatch)]

\* Types of the two modules' variables.
TypeOK ==
    /\ DBTypeOK
    /\ snap \in [Calls -> [limit: 0..MaxLimit, sections: Seq(SectionState)]]
    /\ \A c \in Calls : Len(snap[c].sections) <= Len(Sections)

\* A section holds the newest rows that the user had when it was read, as many
\* as were asked for, and says that it is truncated when the user had more.
WholeOrMarked(s, limit) ==
    /\ s.rows = Newest(1..s.seen, limit)
    /\ s.truncated <=> s.seen > limit

\* Nothing is cut silently: a query succeeds with all rows of its result, also
\* when a timeout or a broken connection ends the loop over rows.Next or the
\* result reaches the row limit (MySQLClient.Query), and a backpack section
\* without an error is whole or marked as truncated (querySection).
NothingIsCutSilently ==
    /\ ResultIsWhole
    /\ \A c \in Calls : \A i \in 1..Len(snap[c].sections) :
          snap[c].sections[i].error = "rows" /\ Sections[i] \notin {"user", "vip"} =>
              WholeOrMarked(snap[c].sections[i], snap[c].limit)

\* The statements of a snapshot agree with the limits of the client: no
\* section fails because the client refuses its statement or finds more rows
\* than its own limit, at the largest backpack_limit too.
SectionFitsClient ==
    \A c \in Calls : \A i \in 1..Len(snap[c].sections) :
        snap[c].sections[i].error \notin {"refused", "too_many"}

\* Every call of the query or the snapshot tool returns, however long the pool
\* is exhausted or the database silent, because each query has a timeout.
CallEnds == \A c \in Calls : Busy(c) ~> ~Busy(c)
=============================================================================
