-------------------------- MODULE UserSnapshotProofs --------------------------
(***************************************************************************)
(* Proofs about UserSnapshot and TestDB for any calls, pools, sections and *)
(* limits that fit the client's limit of rows.                             *)
(*                                                                         *)
(* The inductive invariant has a part for the pools (Connections) and one  *)
(* for every call: its query is at most as far as its result (QueryOK),    *)
(* belongs to the section that its Get asks for next (GetOK), and the      *)
(* sections that Get has are whole (SectionOK).                            *)
(***************************************************************************)
EXTENDS UserSnapshot, FiniteSetTheorems, TLAPS

\* A query r never has a row that is not of its result, and all of them when it
\* succeeds.
QueryOK(r) ==
    LET result == ResultSet(r.seen, r.stmt.limit)
    IN  /\ r.out = "none" <=> r.pc # "done"
        /\ r.pc \in {"idle", "waiting", "executing"} => r.rows = {}
        /\ r.pc = "reading" => r.rows \subseteq result
        /\ r.pc = "read" => r.err \/ r.rows = result
        /\ r.out = "rows" => r.rows = result

\* A Get s of call c is between two queries, or in the one of its next section.
GetOK(c, r, s) ==
    /\ c \notin Getters => s.limit = 0
    /\ s.limit = 0 => s.sections = <<>>
    /\ Len(s.sections) <= Len(Sections)
    /\ s.limit > 0 /\ r.pc # "idle" =>
          /\ Len(s.sections) < Len(Sections)
          /\ r.stmt = Select(QueryLimit(Sections[Len(s.sections) + 1], s.limit))
          /\ r.out \notin {"refused", "too_many"}

\* Section i of a Get with that limit is not refused, and whole if it succeeded.
SectionOK(section, i, limit) ==
    /\ section.error \notin {"refused", "too_many"}
    /\ section.error = "rows" /\ Sections[i] \notin {"user", "vip"} =>
          WholeOrMarked(section, limit)

SectionsOK(s) ==
    \A i \in 1..Len(s.sections) : SectionOK(s.sections[i], i, s.limit)

CallOK(c, r, s) == QueryOK(r) /\ GetOK(c, r, s) /\ SectionsOK(s)

SnapState == [limit: 0..MaxLimit, sections: Seq(SectionState)]

Types == DBTypeOK /\ snap \in [Calls -> SnapState]

CallsOK == \A c \in Calls : CallOK(c, q[c], snap[c])

IInv == Types /\ CallsOK /\ ConnectionsAreReturned
-----------------------------------------------------------------------------
(* Facts about results and what a section keeps of them. *)

\* A result has as many rows as the LIMIT and the table allow, the newest ones.
LEMMA ResultSize ==
  ASSUME NEW seen \in Nat, NEW limit \in Nat
  PROVE  LET n == IF limit = 0 THEN seen ELSE LowerOf(limit, seen)
         IN  /\ ResultSet(seen, limit) = (seen - n + 1)..seen
             /\ ResultSet(seen, limit) \subseteq 1..seen
             /\ IsFiniteSet(ResultSet(seen, limit))
             /\ Cardinality(ResultSet(seen, limit)) = n
  <1> DEFINE n == IF limit = 0 THEN seen ELSE LowerOf(limit, seen)
  <1>1. n \in 0..seen
    BY DEF LowerOf
  <1>2. ResultSet(seen, limit) = (seen - n + 1)..seen
    BY DEF ResultSet
  <1> HIDE DEF n
  <1>3. /\ IsFiniteSet((seen - n + 1)..seen)
        /\ Cardinality((seen - n + 1)..seen) =
              IF seen - n + 1 > seen THEN 0 ELSE seen - (seen - n + 1) + 1
    BY <1>1, FS_Interval
  <1>4. Cardinality((seen - n + 1)..seen) = n /\ (seen - n + 1)..seen \subseteq 1..seen
    BY <1>1, <1>3
  <1> QED
    BY <1>2, <1>3, <1>4 DEF n

\* What Rows[:limit] keeps of consecutive rows.
LEMMA NewestOfInterval ==
  ASSUME NEW a \in Nat, NEW b \in Nat, NEW limit \in Nat
  PROVE  Newest(a..b, limit) = {r \in a..b : b - r < limit}
  <1>1. ASSUME NEW r \in a..b
        PROVE  Cardinality({s \in a..b : s > r}) = b - r
    <2>1. r \in Nat /\ r + 1 \in Int /\ a <= r /\ r <= b
      OBVIOUS
    <2>2. {s \in a..b : s > r} = (r + 1)..b
      BY <2>1
    <2>3. Cardinality((r + 1)..b) = IF r + 1 > b THEN 0 ELSE b - (r + 1) + 1
      BY <2>1, FS_Interval
    <2>4. Cardinality((r + 1)..b) = b - r
      BY <2>1, <2>3
    <2> QED
      BY <2>2, <2>4, Zenon
  <1>2. \A r \in a..b : Cardinality({s \in a..b : s > r}) < limit <=> b - r < limit
    BY <1>1
  <1> QED
    BY <1>2, Zenon DEF Newest

\* A backpack section asks for one row more than it keeps: it has the newest
\* rows of the table, and finds out whether there are more.
LEMMA OneMoreIsEnough ==
  ASSUME NEW seen \in Nat, NEW limit \in Nat \ {0}
  PROVE  LET rows == ResultSet(seen, limit + 1)
         IN  /\ Newest(rows, limit) = Newest(1..seen, limit)
             /\ Cardinality(rows) > limit <=> seen > limit
  <1> DEFINE n == LowerOf(limit + 1, seen)
  <1>1. n \in 0..seen /\ n <= limit + 1 /\ (n = seen \/ n = limit + 1)
    BY DEF LowerOf
  <1>2. /\ ResultSet(seen, limit + 1) = (seen - n + 1)..seen
        /\ Cardinality(ResultSet(seen, limit + 1)) = n
    BY ResultSize
  <1> HIDE DEF n
  <1>3. Newest((seen - n + 1)..seen, limit) = {r \in (seen - n + 1)..seen : seen - r < limit}
    BY <1>1, NewestOfInterval
  <1>4. Newest(1..seen, limit) = {r \in 1..seen : seen - r < limit}
    BY NewestOfInterval
  <1>5. {r \in (seen - n + 1)..seen : seen - r < limit} = {r \in 1..seen : seen - r < limit}
    BY <1>1
  <1>6. n > limit <=> seen > limit
    BY <1>1
  <1> QED
    BY <1>2, <1>3, <1>4, <1>5, <1>6

\* The statement of a section passes the validation of both clients, and its
\* LIMIT is within the client's limit of rows.
LEMMA SectionStatement ==
  ASSUME NEW name, NEW limit \in 1..MaxLimit
  PROVE  /\ QueryLimit(name, limit) \in 1..maxRows
         /\ ClientAccepts(Select(QueryLimit(name, limit)), "xianshi")
  <1>1. QueryLimit(name, limit) \in 1..maxRows
    BY SnapshotAssumption, DBAssumption DEF QueryLimit, SectionLimit
  <1>2. ValidateReadOnlySQL(Select(QueryLimit(name, limit)))
    BY <1>1 DEF ValidateReadOnlySQL, Select, hasAllowedPrefix, allowedPrefixes
  <1>3. validateDirectDatabaseScope(Select(QueryLimit(name, limit)))
    BY DEF validateDirectDatabaseScope, Select
  <1> QED
    BY <1>1, <1>2, <1>3, DBAssumption DEF ClientAccepts

-----------------------------------------------------------------------------
(* A step of one call. *)

InTransaction == {"executing", "reading", "read"}

\* A pool that loses connections, or none, stays within its limit.
LEMMA PoolShrinks ==
  ASSUME Types, ConnectionsAreReturned, NEW e \in Engines,
         held' \subseteq held, \A c \in held' : q'[c].engine = q[c].engine
  PROVE  Cardinality({c \in held' : q'[c].engine = e}) <= MaxOpenConns
  <1> DEFINE old == {c \in held : q[c].engine = e}
             new == {c \in held' : q'[c].engine = e}
  <1>1. IsFiniteSet(held)
    BY DBAssumption, FS_Subset DEF Types, DBTypeOK
  <1>2. old \in SUBSET held /\ new \in SUBSET old
    OBVIOUS
  <1> HIDE DEF old, new
  <1>3. IsFiniteSet(old)
    BY <1>1, <1>2, FS_Subset
  <1>4. IsFiniteSet(new) /\ Cardinality(new) <= Cardinality(old)
    BY <1>2, <1>3, FS_Subset
  <1>5. Cardinality(new) \in Nat /\ Cardinality(old) \in Nat
    BY <1>3, <1>4, FS_CardinalityType
  <1>6. Cardinality(old) <= MaxOpenConns
    BY DEF ConnectionsAreReturned, old
  <1>7. Cardinality(new) <= MaxOpenConns
    BY <1>4, <1>5, <1>6, DBAssumption
  <1> QED
    BY <1>7 DEF new

\* A step of call c that takes no connection keeps the invariant if what it
\* leaves of its query and its Get is consistent.
LEMMA CallMoves ==
  ASSUME IInv, NEW c \in Calls, NEW r \in QueryState, NEW s \in SnapState,
         q' = [q EXCEPT ![c] = r], snap' = [snap EXCEPT ![c] = s],
         UNCHANGED <<direct, pools, boot>>, gone' \in [Calls -> BOOLEAN],
         held' \subseteq held,
         c \in held' => r.engine = q[c].engine /\ r.pc \in InTransaction,
         CallOK(c, r, s)
  PROVE  IInv'
  <1>1. Types'
    BY DEF IInv, Types, DBTypeOK
  <1>2. /\ q'[c] = r /\ snap'[c] = s
        /\ \A d \in Calls : d # c => q'[d] = q[d] /\ snap'[d] = snap[d]
    BY DEF IInv, Types, DBTypeOK
  <1>3. CallsOK'
    BY <1>2 DEF IInv, CallsOK
  <1>4. held \subseteq Calls
    BY DEF IInv, Types, DBTypeOK
  <1>5. \A d \in held' : q'[d].engine = q[d].engine
    BY <1>2, <1>4
  <1>6. \A d \in held' : q'[d].pc \in InTransaction
    BY <1>2, <1>4 DEF IInv, ConnectionsAreReturned, InTransaction
  <1>7. \A e \in Engines : Cardinality({d \in held' : q'[d].engine = e}) <= MaxOpenConns
    BY <1>5, PoolShrinks DEF IInv
  <1>8. boot' = "failed" => pools' = {}
    BY DEF IInv, ConnectionsAreReturned
  <1>9. ConnectionsAreReturned'
    BY <1>6, <1>7, <1>8 DEF ConnectionsAreReturned, InTransaction
  <1> QED
    BY <1>1, <1>3, <1>9 DEF IInv

\* The parts of the invariant about call c.
LEMMA OfCall ==
  ASSUME IInv, NEW c \in Calls
  PROVE  /\ q[c] \in QueryState /\ snap[c] \in SnapState
         /\ QueryOK(q[c]) /\ GetOK(c, q[c], snap[c]) /\ SectionsOK(snap[c])
         /\ c \in held => q[c].pc \in InTransaction
         /\ snap = [snap EXCEPT ![c] = snap[c]]
  BY DEF IInv, Types, DBTypeOK, CallsOK, CallOK, ConnectionsAreReturned, InTransaction

\* The state of a call without a query.
LEMMA IdleType == Idle \in QueryState /\ Idle.rows = {} /\ Idle.pc = "idle" /\ QueryOK(Idle)
  <1>1. Idle \in QueryState
    BY DBAssumption DEF Idle, QueryState, PC, NoStatement, Select, Statement, Outcome
  <1>2. QueryOK(Idle)
    BY DEF Idle, QueryOK
  <1> QED
    BY <1>1, <1>2 DEF Idle

\* What Query returns is consistent if it has every row of a result.
LEMMA OutputOK ==
  ASSUME NEW c \in Calls, NEW s \in SnapState, NEW r \in QueryState,
         GetOK(c, r, s), SectionsOK(s), r.pc # "idle",
         NEW outcome \in Outcome \ {"none"},
         s.limit > 0 => outcome \notin {"refused", "too_many"},
         outcome = "rows" => r.rows = ResultSet(r.seen, r.stmt.limit)
  PROVE  Output(r, outcome) \in QueryState /\ CallOK(c, Output(r, outcome), s)
  <1> DEFINE o == Output(r, outcome)
  <1>1. /\ o \in QueryState
        /\ o.pc = "done" /\ o.out = outcome /\ o.stmt = r.stmt
        /\ outcome = "rows" => o.rows = r.rows /\ o.seen = r.seen
    <2>1. o = [pc |-> "done", stmt |-> r.stmt, engine |-> r.engine, expired |-> FALSE,
               seen |-> IF outcome = "rows" THEN r.seen ELSE 0,
               rows |-> IF outcome = "rows" THEN r.rows ELSE {},
               err |-> FALSE, out |-> outcome]
      BY DEF Output
    <2>2. /\ r.stmt \in Statement /\ r.engine \in Engines \cup {"unknown"}
          /\ r.seen \in 0..MaxMatch /\ r.rows \in SUBSET (1..MaxMatch) /\ 0 \in 0..MaxMatch
      BY DBAssumption DEF QueryState
    <2> HIDE DEF o
    <2>3. o \in QueryState
      BY <2>1, <2>2 DEF QueryState, PC
    <2> QED
      BY <2>1, <2>3
  <1> HIDE DEF o
  <1>2. QueryOK(o)
    BY <1>1 DEF QueryOK
  <1>3. GetOK(c, o, s)
    BY <1>1 DEF GetOK
  <1> QED
    BY <1>1, <1>2, <1>3 DEF CallOK, o

\* A query in a transaction that goes on keeps its statement and its engine.
LEMMA GoesOn ==
  ASSUME IInv, NEW c \in Calls, NEW r \in QueryState,
         q[c].pc # "idle", q[c].out = "none",
         r.pc # "idle", r.out = "none", r.stmt = q[c].stmt, QueryOK(r)
  PROVE  CallOK(c, r, snap[c])
  <1>1. GetOK(c, q[c], snap[c]) /\ SectionsOK(snap[c])
    BY OfCall
  <1>2. GetOK(c, r, snap[c])
    BY <1>1 DEF GetOK
  <1> QED
    BY <1>1, <1>2 DEF CallOK

\* QueryContext returns: nothing has been read of the result.
LEMMA InvExecute ==
  ASSUME IInv, NEW c \in Calls, Execute(c), UNCHANGED snap
  PROVE  IInv'
  <1>1. PICK n \in 0..MaxMatch :
              q' = [q EXCEPT ![c] = [q[c] EXCEPT !.seen = n, !.pc = "reading"]]
    BY DEF Execute
  <1> DEFINE r == [q[c] EXCEPT !.seen = n, !.pc = "reading"]
  <1>2. /\ q[c] \in QueryState /\ snap[c] \in SnapState /\ QueryOK(q[c])
        /\ q[c].pc = "executing"
        /\ snap = [snap EXCEPT ![c] = snap[c]]
    BY OfCall DEF Execute
  <1>3. r \in QueryState /\ r.pc = "reading" /\ r.stmt = q[c].stmt /\ r.engine = q[c].engine
        /\ r.rows = q[c].rows /\ r.out = q[c].out
    BY <1>2 DEF QueryState, PC
  <1> HIDE DEF r
  <1>4. q[c].out = "none" /\ q[c].rows = {} /\ QueryOK(r)
    BY <1>2, <1>3 DEF QueryOK
  <1>5. CallOK(c, r, snap[c])
    BY <1>2, <1>3, <1>4, GoesOn
  <1>6. UNCHANGED <<direct, pools, boot, held, gone>> /\ gone \in [Calls -> BOOLEAN]
    BY DEF Execute, IInv, Types, DBTypeOK
  <1>7. q' = [q EXCEPT ![c] = r] /\ snap' = [snap EXCEPT ![c] = snap[c]]
    BY <1>1, <1>2 DEF r
  <1> QED
    BY <1>2, <1>3, <1>5, <1>6, <1>7, CallMoves DEF InTransaction

\* A section never reaches the client's limit of rows before its result ends.
LEMMA SectionReads ==
  ASSUME NEW r \in QueryState, r.stmt.limit \in 1..maxRows,
         r.rows \subseteq ResultSet(r.seen, r.stmt.limit),
         ResultSet(r.seen, r.stmt.limit) \ r.rows # {}
  PROVE  ~(Cardinality(r.rows) >= maxRows)
  <1> DEFINE result == ResultSet(r.seen, r.stmt.limit)
  <1>1. r.seen \in Nat /\ r.stmt.limit \in Nat
    BY DBAssumption DEF QueryState
  <1>2. IsFiniteSet(result) /\ Cardinality(result) = LowerOf(r.stmt.limit, r.seen)
    BY <1>1, ResultSize
  <1>3. r.rows \in SUBSET result /\ r.rows # result
    OBVIOUS
  <1> HIDE DEF result
  <1>4. IsFiniteSet(r.rows) /\ Cardinality(r.rows) <= Cardinality(result)
        /\ Cardinality(r.rows) # Cardinality(result)
    BY <1>2, <1>3, FS_Subset
  <1>5. Cardinality(r.rows) \in Nat
    BY <1>4, FS_CardinalityType
  <1>6. Cardinality(result) \in Nat /\ Cardinality(result) <= maxRows
    BY <1>1, <1>2, DBAssumption DEF LowerOf
  <1> QED
    BY <1>4, <1>5, <1>6, DBAssumption

\* Query returns with an outcome that agrees with what it has read: the
\* deferred calls give its connection back.
LEMMA InvLeave ==
  ASSUME IInv, NEW c \in Calls, NEW outcome \in Outcome \ {"none"}, Leave(c, outcome),
         q[c].pc # "idle", UNCHANGED <<direct, pools, boot, gone, snap>>,
         snap[c].limit > 0 => outcome \notin {"refused", "too_many"},
         outcome = "rows" => q[c].rows = ResultSet(q[c].seen, q[c].stmt.limit)
  PROVE  IInv'
  <1>1. /\ q[c] \in QueryState /\ snap[c] \in SnapState
        /\ GetOK(c, q[c], snap[c]) /\ SectionsOK(snap[c])
        /\ snap = [snap EXCEPT ![c] = snap[c]]
    BY OfCall
  <1>2. Output(q[c], outcome) \in QueryState /\ CallOK(c, Output(q[c], outcome), snap[c])
    BY <1>1, OutputOK
  <1>3. q' = [q EXCEPT ![c] = Output(q[c], outcome)] /\ held' = held \ {c}
    BY DEF Leave
  <1>4. gone' \in [Calls -> BOOLEAN] /\ snap' = [snap EXCEPT ![c] = snap[c]]
    BY <1>1 DEF IInv, Types, DBTypeOK
  <1> QED
    BY <1>1, <1>2, <1>3, <1>4, CallMoves

\* A row is one of the result; a result that is too long fails the query.
LEMMA InvReadRow ==
  ASSUME IInv, NEW c \in Calls, ReadRow(c), UNCHANGED snap
  PROVE  IInv'
  <1> DEFINE result == ResultSet(q[c].seen, q[c].stmt.limit)
  <1>1. /\ q[c] \in QueryState /\ snap[c] \in SnapState
        /\ QueryOK(q[c]) /\ GetOK(c, q[c], snap[c])
        /\ snap = [snap EXCEPT ![c] = snap[c]]
    BY OfCall
  <1>2. /\ q[c].pc = "reading" /\ result \ q[c].rows # {}
        /\ UNCHANGED <<direct, pools, boot, gone>>
    BY DEF ReadRow
  <1>3. q[c].rows \subseteq result /\ q[c].out = "none"
    BY <1>1, <1>2 DEF QueryOK
  <1>4. CASE Cardinality(q[c].rows) >= maxRows
    <2>1. Leave(c, "too_many")
      BY <1>4 DEF ReadRow
    <2>2. snap[c].limit = 0
      <3>1. ASSUME snap[c].limit # 0 PROVE FALSE
        <4>1. snap[c].limit \in 1..MaxLimit
          BY <1>1, <3>1, SnapshotAssumption DEF SnapState
        <4>2. q[c].stmt = Select(QueryLimit(Sections[Len(snap[c].sections) + 1], snap[c].limit))
          BY <1>1, <1>2, <4>1, SnapshotAssumption DEF GetOK
        <4>3. q[c].stmt.limit \in 1..maxRows
          BY <4>1, <4>2, SectionStatement DEF Select
        <4> QED
          BY <1>1, <1>2, <1>3, <1>4, <4>3, SectionReads
      <3> QED
        BY <3>1
    <2> QED
      BY <1>2, <2>1, <2>2, InvLeave DEF Outcome
  <1>5. CASE ~(Cardinality(q[c].rows) >= maxRows)
    <2>1. PICK x \in result : q' = [q EXCEPT ![c] = [q[c] EXCEPT !.rows = @ \cup {x}]]
      BY <1>5 DEF ReadRow
    <2>2. UNCHANGED held
      BY <1>5 DEF ReadRow
    <2> DEFINE r == [q[c] EXCEPT !.rows = @ \cup {x}]
    <2>3. x \in 1..MaxMatch
      <3>1. q[c].seen \in Nat /\ q[c].seen <= MaxMatch /\ q[c].stmt.limit \in Nat
        BY <1>1, DBAssumption DEF QueryState, Statement
      <3>2. x \in 1..q[c].seen
        BY <3>1, ResultSize
      <3> QED
        BY <3>1, <3>2, DBAssumption
    <2>4. /\ r \in QueryState
          /\ r.pc = "reading" /\ r.out = "none" /\ r.stmt = q[c].stmt
          /\ r.engine = q[c].engine /\ r.seen = q[c].seen /\ r.rows = q[c].rows \cup {x}
      BY <1>1, <1>2, <1>3, <2>3 DEF QueryState
    <2> HIDE DEF r
    <2>5. QueryOK(r)
      BY <1>3, <2>1, <2>4 DEF QueryOK
    <2>6. CallOK(c, r, snap[c])
      BY <1>2, <1>3, <2>4, <2>5, GoesOn
    <2>7. q' = [q EXCEPT ![c] = r] /\ snap' = [snap EXCEPT ![c] = snap[c]]
      BY <1>1, <2>1 DEF r
    <2>8. gone' \in [Calls -> BOOLEAN]
      BY <1>2 DEF IInv, Types, DBTypeOK
    <2> QED
      BY <1>1, <1>2, <2>2, <2>4, <2>6, <2>7, <2>8, CallMoves DEF InTransaction
  <1> QED
    BY <1>4, <1>5

\* The loop over the rows ends with the result, or with an error to look at.
LEMMA InvLoopEnds ==
  ASSUME IInv, NEW c \in Calls, NEW failed \in BOOLEAN,
         q[c].pc = "reading",
         failed \/ q[c].rows = ResultSet(q[c].seen, q[c].stmt.limit),
         q' = [q EXCEPT ![c] = [q[c] EXCEPT !.pc = "read",
                                            !.err = IF failed THEN TRUE ELSE @]],
         UNCHANGED <<direct, pools, boot, held, gone, snap>>
  PROVE  IInv'
  <1> DEFINE r == [q[c] EXCEPT !.pc = "read", !.err = IF failed THEN TRUE ELSE @]
  <1>1. /\ q[c] \in QueryState /\ snap[c] \in SnapState /\ QueryOK(q[c])
        /\ snap = [snap EXCEPT ![c] = snap[c]]
    BY OfCall
  <1>2. q[c].out = "none"
    BY <1>1 DEF QueryOK
  <1>3. /\ r \in QueryState
        /\ r.pc = "read" /\ r.out = "none" /\ r.stmt = q[c].stmt /\ r.engine = q[c].engine
        /\ r.seen = q[c].seen /\ r.rows = q[c].rows /\ (failed => r.err)
    BY <1>1, <1>2 DEF QueryState, PC
  <1> HIDE DEF r
  <1>4. QueryOK(r)
    BY <1>3 DEF QueryOK
  <1>5. CallOK(c, r, snap[c])
    BY <1>2, <1>3, <1>4, GoesOn
  <1>6. q' = [q EXCEPT ![c] = r] /\ snap' = [snap EXCEPT ![c] = snap[c]]
    BY <1>1 DEF r
  <1>7. gone' \in [Calls -> BOOLEAN]
    BY DEF IInv, Types, DBTypeOK
  <1> QED
    BY <1>1, <1>3, <1>5, <1>6, <1>7, CallMoves DEF InTransaction

\* EndOfRows and the end of the loop in Fail are ends of the loop; every other
\* failure leaves with an error.
LEMMA InvEndOfRowsOrFail ==
  ASSUME IInv, NEW c \in Calls, EndOfRows(c) \/ Fail(c), UNCHANGED snap
  PROVE  IInv'
  <1>1. q[c] \in QueryState
    BY OfCall
  <1>2. CASE EndOfRows(c)
    <2>1. q' = [q EXCEPT ![c] = [q[c] EXCEPT !.pc = "read", !.err = IF FALSE THEN TRUE ELSE @]]
      BY <1>1, <1>2 DEF EndOfRows, QueryState
    <2> QED
      BY <1>2, <2>1, InvLoopEnds DEF EndOfRows
  <1>3. CASE Fail(c) /\ q[c].pc = "reading"
    <2>1. q' = [q EXCEPT ![c] = [q[c] EXCEPT !.pc = "read", !.err = IF TRUE THEN TRUE ELSE @]]
      BY <1>3 DEF Fail
    <2>2. UNCHANGED <<direct, pools, boot, held, gone>>
      BY <1>3 DEF Fail
    <2> QED
      BY <1>3, <2>1, <2>2, InvLoopEnds
  <1>4. CASE Fail(c) /\ q[c].pc # "reading"
    <2>1. /\ Leave(c, "error") /\ q[c].pc # "idle"
          /\ UNCHANGED <<direct, pools, boot, gone>>
      BY <1>4 DEF Fail
    <2> QED
      BY <2>1, InvLeave DEF Outcome
  <1> QED
    BY <1>2, <1>3, <1>4

\* A success after the loop has every row, because rows.Err is looked at.
LEMMA InvConclude ==
  ASSUME IInv, NEW c \in Calls, Conclude(c), UNCHANGED snap
  PROVE  IInv'
  <1>1. /\ q[c].pc = "read" /\ UNCHANGED <<direct, pools, boot, gone>>
        /\ \/ Leave(c, "error")
           \/ ~q[c].err /\ Leave(c, "rows")
    BY DEF Conclude
  <1>2. ~q[c].err => q[c].rows = ResultSet(q[c].seen, q[c].stmt.limit)
    BY <1>1, OfCall DEF QueryOK
  <1> QED
    BY <1>1, <1>2, InvLeave DEF Outcome

\* The endpoint answers with a whole result.
LEMMA InvAnswer ==
  ASSUME IInv, NEW c \in Calls, Answer(c), UNCHANGED snap
  PROVE  IInv'
  <1>1. /\ q[c] \in QueryState /\ snap[c] \in SnapState
        /\ GetOK(c, q[c], snap[c]) /\ SectionsOK(snap[c])
        /\ c \in held => q[c].pc \in InTransaction
        /\ snap = [snap EXCEPT ![c] = snap[c]]
    BY OfCall
  <1>2. q[c].pc = "asking" /\ UNCHANGED <<direct, pools, boot, held, gone>>
    BY DEF Answer
  <1>3. PICK n \in 0..MaxMatch :
              q' = [q EXCEPT ![c] = Output([q[c] EXCEPT !.seen = n,
                                        !.rows = ResultSet(n, q[c].stmt.limit)], "rows")]
    BY DEF Answer
  <1> DEFINE r == [q[c] EXCEPT !.seen = n, !.rows = ResultSet(n, q[c].stmt.limit)]
  <1>4. ResultSet(n, q[c].stmt.limit) \in SUBSET (1..MaxMatch)
    <2>1. n \in Nat /\ n <= MaxMatch /\ q[c].stmt.limit \in Nat
      BY <1>1, DBAssumption DEF QueryState, Statement
    <2>2. ResultSet(n, q[c].stmt.limit) \subseteq 1..n
      BY <2>1, ResultSize
    <2>3. 1..n \subseteq 1..MaxMatch
      BY <2>1, DBAssumption
    <2> QED
      BY <2>2, <2>3
  <1>5. /\ r \in QueryState
        /\ r.pc = q[c].pc /\ r.stmt = q[c].stmt /\ r.out = q[c].out
        /\ r.seen = n /\ r.rows = ResultSet(n, q[c].stmt.limit)
    BY <1>1, <1>4 DEF QueryState
  <1>6. q' = [q EXCEPT ![c] = Output(r, "rows")] /\ snap' = [snap EXCEPT ![c] = snap[c]]
    BY <1>1, <1>3
  <1> HIDE DEF r
  <1>7. GetOK(c, r, snap[c])
    BY <1>1, <1>5 DEF GetOK
  <1>8. Output(r, "rows") \in QueryState /\ CallOK(c, Output(r, "rows"), snap[c])
    BY <1>1, <1>2, <1>5, <1>7, OutputOK DEF Outcome
  <1>9. c \notin held /\ gone' \in [Calls -> BOOLEAN]
    BY <1>1, <1>2 DEF InTransaction, IInv, Types, DBTypeOK
  <1> QED
    BY <1>1, <1>2, <1>6, <1>8, <1>9, CallMoves

\* The end of a context changes neither what was read nor what Get has.
LEMMA InvContext ==
  ASSUME IInv, NEW c \in Calls,
         \/ (AwaitDone(c) \/ Expire(c)) /\ UNCHANGED snap
         \/ Disconnect(c)
  PROVE  IInv'
  <1>1. /\ q[c] \in QueryState /\ snap[c] \in SnapState
        /\ QueryOK(q[c]) /\ GetOK(c, q[c], snap[c]) /\ SectionsOK(snap[c])
        /\ c \in held => q[c].pc \in InTransaction
        /\ snap' = [snap EXCEPT ![c] = snap[c]]
    BY OfCall DEF Disconnect
  <1>2. /\ UNCHANGED <<direct, pools, boot>> /\ gone' \in [Calls -> BOOLEAN]
        /\ held' \subseteq held
    BY DEF AwaitDone, Expire, Disconnect, IInv, Types, DBTypeOK
  <1>3. CASE Expire(c)
    <2> DEFINE r == [q[c] EXCEPT !.expired = TRUE]
    <2>1. r \in QueryState /\ r.pc = q[c].pc /\ r.stmt = q[c].stmt /\ r.engine = q[c].engine
          /\ r.rows = q[c].rows /\ r.seen = q[c].seen /\ r.err = q[c].err /\ r.out = q[c].out
      BY <1>1 DEF QueryState
    <2>2. q' = [q EXCEPT ![c] = r]
      BY <1>3 DEF Expire
    <2> HIDE DEF r
    <2>3. CallOK(c, r, snap[c])
      BY <1>1, <2>1 DEF CallOK, QueryOK, GetOK
    <2> QED
      BY <1>1, <1>2, <2>1, <2>2, <2>3, CallMoves
  <1>4. CASE AwaitDone(c) \/ Disconnect(c)
    <2>1. q' = [q EXCEPT ![c] = q[c]]
      BY <1>4 DEF AwaitDone, Disconnect, IInv, Types, DBTypeOK
    <2> QED
      BY <1>1, <1>2, <2>1, CallMoves DEF CallOK
  <1> QED
    BY <1>3, <1>4

\* BeginTx takes a connection only from a pool that has one left.
LEMMA InvAcquire ==
  ASSUME IInv, NEW c \in Calls, Acquire(c), UNCHANGED snap
  PROVE  IInv'
  <1> DEFINE r == [q[c] EXCEPT !.pc = "executing"]
  <1>1. /\ q[c] \in QueryState /\ snap[c] \in SnapState /\ QueryOK(q[c])
        /\ q[c].pc = "waiting"
        /\ UNCHANGED <<direct, pools, boot, gone>> /\ held' = held \cup {c}
    BY OfCall DEF Acquire
  <1>2. /\ r \in QueryState
        /\ r.pc = "executing" /\ r.stmt = q[c].stmt /\ r.engine = q[c].engine
        /\ r.rows = q[c].rows /\ r.out = q[c].out
    BY <1>1 DEF QueryState, PC
  <1>3. q' = [q EXCEPT ![c] = r]
    BY DEF Acquire
  <1> HIDE DEF r
  <1>4. q[c].out = "none" /\ q[c].rows = {} /\ QueryOK(r)
    BY <1>1, <1>2 DEF QueryOK
  <1>5. CallOK(c, r, snap[c])
    BY <1>1, <1>2, <1>4, GoesOn
  <1>6. q'[c] = r /\ \A d \in Calls : d # c => q'[d] = q[d]
    BY <1>3 DEF IInv, Types, DBTypeOK
  <1>7. Types'
    BY <1>1, <1>2, <1>3 DEF IInv, Types, DBTypeOK
  <1>8. CallsOK'
    BY <1>5, <1>6 DEF IInv, CallsOK
  <1>9. ConnectionsAreReturned'
    <2>1. held \subseteq Calls /\ IsFiniteSet(held)
      BY DBAssumption, FS_Subset DEF IInv, Types, DBTypeOK
    <2>2. \A d \in held' : q'[d].pc \in InTransaction
      BY <1>1, <1>2, <1>6, <2>1 DEF IInv, ConnectionsAreReturned, InTransaction
    <2>3. ASSUME NEW e \in Engines
          PROVE  Cardinality({d \in held' : q'[d].engine = e}) <= MaxOpenConns
      <3> DEFINE old == {d \in held : q[d].engine = e}
                 new == {d \in held' : q'[d].engine = e}
      <3>1. IsFiniteSet(old) /\ Cardinality(old) \in Nat /\ Cardinality(old) <= MaxOpenConns
        <4>1. old \in SUBSET held
          OBVIOUS
        <4>2. IsFiniteSet(old)
          BY <2>1, <4>1, FS_Subset
        <4> QED
          BY <4>2, FS_CardinalityType DEF IInv, ConnectionsAreReturned
      <3>2. CASE q[c].engine # e
        <4>1. new = old
          BY <1>1, <1>2, <1>6, <2>1, <3>2
        <4> QED
          BY <3>1, <4>1
      <3>3. CASE q[c].engine = e
        <4>1. new = old \cup {c}
          BY <1>1, <1>2, <1>6, <2>1, <3>3
        <4>2. Cardinality(old) < MaxOpenConns
          BY <3>3 DEF Acquire
        <4> HIDE DEF old, new
        <4>3. Cardinality(new) <= Cardinality(old) + 1 /\ Cardinality(new) \in Nat
          <5>1. Cardinality(new) = IF c \in old THEN Cardinality(old) ELSE Cardinality(old) + 1
            BY <3>1, <4>1, FS_AddElement
          <5> QED
            BY <3>1, <5>1
        <4>4. Cardinality(new) <= MaxOpenConns
          BY <3>1, <4>2, <4>3, DBAssumption
        <4> QED
          BY <4>4 DEF new
      <3> QED
        BY <3>2, <3>3
    <2>4. boot' = "failed" => pools' = {}
      BY <1>1 DEF IInv, ConnectionsAreReturned
    <2> QED
      BY <2>2, <2>3, <2>4 DEF ConnectionsAreReturned, InTransaction
  <1> QED
    BY <1>7, <1>8, <1>9 DEF IInv

\* The statements of users are statements.
LEMMA StatementsType == Statements \subseteq Statement
  <1>1. \A n \in Nat : Select(n) \in Statement
    BY DEF Select, Statement
  <1>2. \A w \in SUBSET {"TABLES", "CREATE", "TABLE", "GRANTS", "INTO"} : Show(w) \in Statement
    BY DEF Show, Statement
  <1>3. /\ [Select(1) EXCEPT !.qualified = TRUE] \in Statement
        /\ [Select(1) EXCEPT !.lexical = FALSE] \in Statement
        /\ [Select(1) EXCEPT !.head = "UPDATE"] \in Statement
        /\ [Select(1) EXCEPT !.words = {"INTO"}] \in Statement
    BY <1>1 DEF Select, Statement
  <1>4. Select(0) \in Statement /\ Select(MaxMatch) \in Statement
    BY <1>1, DBAssumption
  <1> QED
    BY <1>2, <1>3, <1>4 DEF Statements

\* A query begins with nothing read; a section's is not refused.
LEMMA InvBegin ==
  ASSUME IInv, NEW c \in Calls, NEW st \in Statement, NEW e \in Engines \cup {"unknown"},
         q[c].pc = "idle", Begin(c, st, e),
         UNCHANGED <<direct, pools, boot, held, gone, snap>>,
         snap[c].limit > 0 =>
            /\ ClientAccepts(st, e)
            /\ Len(snap[c].sections) < Len(Sections)
            /\ st = Select(QueryLimit(Sections[Len(snap[c].sections) + 1], snap[c].limit))
  PROVE  IInv'
  <1>1. /\ snap[c] \in SnapState
        /\ GetOK(c, q[c], snap[c]) /\ SectionsOK(snap[c])
        /\ c \in held => q[c].pc \in InTransaction
        /\ snap' = [snap EXCEPT ![c] = snap[c]]
    BY OfCall
  <1> DEFINE r == [Idle EXCEPT !.stmt = st, !.engine = e,
                     !.pc = IF ~ClientAccepts(st, e) THEN "done"
                            ELSE IF direct THEN "waiting" ELSE "asking",
                     !.out = IF ClientAccepts(st, e) THEN "none" ELSE "refused"]
  <1>2. q' = [q EXCEPT ![c] = r]
    BY DEF Begin
  <1>3. /\ r \in QueryState /\ r.rows = {} /\ r.stmt = st
        /\ \/ ~ClientAccepts(st, e) /\ r.pc = "done" /\ r.out = "refused"
           \/ ClientAccepts(st, e) /\ r.pc \in {"waiting", "asking"} /\ r.out = "none"
    BY IdleType DEF QueryState, PC, Outcome
  <1> HIDE DEF r
  <1>4. QueryOK(r)
    BY <1>3 DEF QueryOK
  <1>5. GetOK(c, r, snap[c])
    BY <1>1, <1>3 DEF GetOK
  <1>6. c \notin held /\ gone' \in [Calls -> BOOLEAN]
    BY <1>1 DEF InTransaction, IInv, Types, DBTypeOK
  <1> QED
    BY <1>1, <1>2, <1>3, <1>4, <1>5, <1>6, CallMoves DEF CallOK

\* A query of the query tool does not belong to a Get.
LEMMA InvQuery ==
  ASSUME IInv, NEW c \in Calls \ Getters, NEW st \in Statements,
         NEW e \in Engines \cup {"unknown"}, Query(c, st, e), UNCHANGED snap
  PROVE  IInv'
  <1>1. /\ q[c] \in QueryState /\ snap[c] \in SnapState
        /\ QueryOK(q[c]) /\ GetOK(c, q[c], snap[c]) /\ SectionsOK(snap[c])
        /\ c \in held => q[c].pc \in InTransaction
        /\ snap' = [snap EXCEPT ![c] = snap[c]]
    BY OfCall
  <1>2. /\ q[c].pc = "idle" /\ snap[c].limit = 0 /\ st \in Statement
        /\ UNCHANGED <<direct, pools, boot, held, gone>>
    BY <1>1, StatementsType DEF Query, GetOK
  <1>3. CASE Begin(c, st, e)
    BY <1>2, <1>3, InvBegin
  <1>4. CASE ~Begin(c, st, e)
    <2> DEFINE r == [q[c] EXCEPT !.stmt = st, !.engine = e]
               o == Output(r, "refused")
    <2>1. q' = [q EXCEPT ![c] = o]
      BY <1>4 DEF Query
    <2>2. o = [pc |-> "done", stmt |-> r.stmt, engine |-> r.engine, expired |-> FALSE,
               seen |-> 0, rows |-> {}, err |-> FALSE, out |-> "refused"]
      BY DEF Output
    <2>3. r.stmt = st /\ r.engine = e /\ 0 \in 0..MaxMatch
      BY <1>1, DBAssumption DEF QueryState
    <2> HIDE DEF r, o
    <2>4. o \in QueryState
      BY <1>2, <2>2, <2>3 DEF QueryState, PC, Outcome
    <2>5. QueryOK(o) /\ GetOK(c, o, snap[c])
      BY <1>1, <1>2, <2>2 DEF QueryOK, GetOK
    <2>6. c \notin held /\ gone' \in [Calls -> BOOLEAN]
      BY <1>1, <1>2 DEF InTransaction, IInv, Types, DBTypeOK
    <2> QED
      BY <1>1, <1>2, <2>1, <2>4, <2>5, <2>6, CallMoves DEF CallOK
  <1> QED
    BY <1>3, <1>4

\* querySection sends a statement that the client accepts.
LEMMA InvQuerySection ==
  ASSUME IInv, NEW c \in Calls, QuerySection(c)
  PROVE  IInv'
  <1> DEFINE name == Sections[Len(snap[c].sections) + 1]
             st == Select(QueryLimit(name, snap[c].limit))
  <1>1. snap[c] \in SnapState
    BY OfCall
  <1>2. /\ snap[c].limit \in 1..MaxLimit /\ q[c].pc = "idle"
        /\ Len(snap[c].sections) < Len(Sections) /\ Begin(c, st, "xianshi")
        /\ UNCHANGED <<direct, pools, boot, held, gone, snap>>
    BY <1>1, SnapshotAssumption DEF QuerySection, SnapState
  <1>3. QueryLimit(name, snap[c].limit) \in 1..maxRows /\ ClientAccepts(st, "xianshi")
    BY <1>2, SectionStatement
  <1>4. st \in Statement
    BY <1>3, DBAssumption DEF Select, Statement
  <1> QED
    BY <1>2, <1>3, <1>4, InvBegin, DBAssumption

\* Get begins with no section and no query.
LEMMA InvGet ==
  ASSUME IInv, NEW c \in Getters, NEW input \in 0..(MaxLimit + 1), Get(c, input)
  PROVE  IInv'
  <1> DEFINE limit == IF input = 0 THEN DefaultLimit ELSE input
             s == [snap[c] EXCEPT !.limit = limit]
  <1>1. c \in Calls
    BY SnapshotAssumption
  <1>2. /\ q[c] \in QueryState /\ snap[c] \in SnapState /\ QueryOK(q[c])
        /\ c \in held => q[c].pc \in InTransaction
    BY <1>1, OfCall
  <1>3. /\ q[c].pc = "idle" /\ snap[c] = NoGet /\ limit \in 1..MaxLimit
        /\ snap' = [snap EXCEPT ![c] = s]
        /\ UNCHANGED <<direct, pools, boot, q, held, gone>>
    BY DEF Get, ValidLimit, dbVars
  <1>4. s = [limit |-> limit, sections |-> <<>>]
    BY <1>3 DEF NoGet
  <1> HIDE DEF s
  <1>5. s \in SnapState
    <2>1. <<>> \in Seq(SectionState) /\ limit \in 0..MaxLimit
      BY <1>3, SnapshotAssumption
    <2> HIDE DEF limit
    <2> QED
      BY <1>4, <2>1 DEF SnapState
  <1>6. GetOK(c, q[c], s) /\ SectionsOK(s)
    BY <1>3, <1>4, SnapshotAssumption DEF GetOK, SectionsOK
  <1>7. q' = [q EXCEPT ![c] = q[c]] /\ gone' \in [Calls -> BOOLEAN]
    BY <1>3 DEF IInv, Types, DBTypeOK
  <1> QED
    BY <1>1, <1>2, <1>3, <1>5, <1>6, <1>7, CallMoves DEF CallOK

\* A section that querySection takes over is whole or marked, and was neither
\* refused nor too long.
LEMMA InvTakeSection ==
  ASSUME IInv, NEW c \in Calls, TakeSection(c)
  PROVE  IInv'
  <1> DEFINE i == Len(snap[c].sections) + 1
             limit == SectionLimit(Sections[i], snap[c].limit)
  <1>1. /\ q[c] \in QueryState /\ snap[c] \in SnapState
        /\ QueryOK(q[c]) /\ GetOK(c, q[c], snap[c]) /\ SectionsOK(snap[c])
        /\ c \in held => q[c].pc \in InTransaction
    BY OfCall
  <1>2. /\ snap[c].limit \in 1..MaxLimit /\ q[c].pc = "done"
        /\ q' = [q EXCEPT ![c] = Idle]
        /\ UNCHANGED <<direct, pools, boot, held, gone>>
    BY <1>1, SnapshotAssumption DEF TakeSection, SnapState
  <1>3. PICK out \in {q[c].out, "error"} :
              snap' = [snap EXCEPT ![c] = [snap[c] EXCEPT !.sections =
                                              Append(@, Section(q[c], limit, out))]]
    BY DEF TakeSection
  <1> DEFINE new == Section(q[c], limit, out)
             s == [snap[c] EXCEPT !.sections = Append(@, new)]
  <1>4. /\ q[c].out \notin {"refused", "too_many"}
        /\ i <= Len(Sections) /\ i \in Nat /\ i = Len(snap[c].sections) + 1
        /\ q[c].stmt.limit = QueryLimit(Sections[i], snap[c].limit)
    BY <1>1, <1>2, SnapshotAssumption DEF GetOK, SnapState, Select
  <1>5. /\ new.error = out /\ new.seen = q[c].seen
        /\ new.truncated = (out = "rows" /\ Cardinality(q[c].rows) > limit)
        /\ new.rows = IF out = "rows" THEN Newest(q[c].rows, limit) ELSE {}
    BY DEF Section
  <1>6. new \in SectionState
    <2>1. new.rows \in SUBSET (1..MaxMatch)
      BY <1>1, <1>5 DEF QueryState, Newest
    <2> QED
      BY <1>1, <1>3, <2>1 DEF Section, SectionState, QueryState, Outcome
  <1> HIDE DEF new
  <1>7. SectionOK(new, i, snap[c].limit)
    <2>1. new.error \notin {"refused", "too_many"}
      BY <1>3, <1>4, <1>5
    <2>2. ASSUME out = "rows", Sections[i] \notin {"user", "vip"}
          PROVE  WholeOrMarked(new, snap[c].limit)
      <3>1. limit = snap[c].limit /\ q[c].stmt.limit = snap[c].limit + 1
        BY <1>4, <2>2 DEF SectionLimit, QueryLimit
      <3>2. q[c].rows = ResultSet(q[c].seen, snap[c].limit + 1)
        BY <1>1, <1>3, <2>2, <3>1 DEF QueryOK
      <3>3. q[c].seen \in Nat /\ snap[c].limit \in Nat \ {0}
        BY <1>1, <1>2, DBAssumption, SnapshotAssumption DEF QueryState
      <3>4. /\ Newest(q[c].rows, snap[c].limit) = Newest(1..q[c].seen, snap[c].limit)
            /\ Cardinality(q[c].rows) > snap[c].limit <=> q[c].seen > snap[c].limit
        BY <3>2, <3>3, OneMoreIsEnough
      <3> HIDE DEF limit
      <3>5. new.rows = Newest(1..new.seen, snap[c].limit)
        BY <1>5, <2>2, <3>1, <3>4
      <3>6. new.truncated <=> new.seen > snap[c].limit
        BY <1>5, <2>2, <3>1, <3>4
      <3> QED
        BY <3>5, <3>6 DEF WholeOrMarked
    <2> QED
      BY <1>5, <2>1, <2>2 DEF SectionOK
  <1>8. /\ s \in SnapState /\ s.limit = snap[c].limit
        /\ s.sections = Append(snap[c].sections, new)
    <2>1. snap[c].sections \in Seq(SectionState)
      BY <1>1 DEF SnapState
    <2>2. Append(snap[c].sections, new) \in Seq(SectionState)
      BY <1>6, <2>1
    <2> QED
      BY <1>1, <2>2 DEF SnapState
  <1>9. snap' = [snap EXCEPT ![c] = s]
    BY <1>3 DEF new
  <1> HIDE DEF s
  <1>10. SectionsOK(s)
    <2> SUFFICES ASSUME NEW j \in 1..Len(s.sections)
                 PROVE  SectionOK(s.sections[j], j, s.limit)
      BY DEF SectionsOK
    <2>1. snap[c].sections \in Seq(SectionState)
      BY <1>1 DEF SnapState
    <2>2. CASE j = i
      BY <1>4, <1>6, <1>7, <1>8, <2>1, <2>2
    <2>3. CASE j # i
      BY <1>1, <1>4, <1>6, <1>8, <2>1, <2>3 DEF SectionsOK
    <2> QED
      BY <2>2, <2>3
  <1>11. GetOK(c, Idle, s)
    <2>1. snap[c].sections \in Seq(SectionState) /\ Len(s.sections) = i
      BY <1>1, <1>4, <1>6, <1>8 DEF SnapState
    <2> QED
      BY <1>1, <1>2, <1>4, <1>8, <2>1, IdleType, SnapshotAssumption DEF GetOK
  <1>12. c \notin held /\ gone' \in [Calls -> BOOLEAN]
    BY <1>1, <1>2 DEF InTransaction, IInv, Types, DBTypeOK
  <1> QED
    BY <1>2, <1>8, <1>9, <1>10, <1>11, <1>12, IdleType, CallMoves DEF CallOK

\* The tool returns when no query runs, and what it has returned is dropped.
LEMMA InvReturn ==
  ASSUME IInv, NEW c \in Calls, Return(c)
  PROVE  IInv'
  <1>1. /\ q[c] \in QueryState /\ snap[c] \in SnapState /\ GetOK(c, q[c], snap[c])
        /\ c \in held => q[c].pc \in InTransaction
    BY OfCall
  <1>2. /\ q' = [q EXCEPT ![c] = Idle] /\ snap' = [snap EXCEPT ![c] = NoGet]
        /\ UNCHANGED <<direct, pools, boot, held>> /\ gone' \in [Calls -> BOOLEAN]
    BY DEF Return, IInv, Types, DBTypeOK
  <1>3. q[c].pc \in {"done", "idle"}
    BY <1>1, SnapshotAssumption DEF Return, GetOK
  <1>4. NoGet \in SnapState
    <2>1. <<>> \in Seq(SectionState) /\ 0 \in 0..MaxLimit
      BY SnapshotAssumption
    <2> QED
      BY <2>1 DEF NoGet, SnapState
  <1>5. GetOK(c, Idle, NoGet) /\ SectionsOK(NoGet)
    BY SnapshotAssumption DEF GetOK, SectionsOK, NoGet
  <1> QED
    BY <1>1, <1>2, <1>3, <1>4, <1>5, IdleType, CallMoves DEF CallOK, InTransaction

\* Opening the pools, or failing to, concerns no call.
LEMMA InvStartup ==
  ASSUME IInv, Startup, UNCHANGED snap
  PROVE  IInv'
  <1>1. UNCHANGED <<direct, q, held, gone>>
    BY DEF Startup, OpenFails, Open
  <1>2. Types'
    BY <1>1 DEF IInv, Types, DBTypeOK, Startup, OpenFails, Open
  <1>3. CallsOK'
    BY <1>1 DEF IInv, CallsOK
  <1>4. boot' = "failed" => pools' = {}
    BY DEF Startup, OpenFails, Open
  <1>5. ConnectionsAreReturned'
    BY <1>1, <1>4 DEF IInv, ConnectionsAreReturned
  <1> QED
    BY <1>2, <1>3, <1>5 DEF IInv

\* IInv is an invariant of the two tools and their client.
THEOREM Invariant == Spec => []IInv
  <1>1. Init => IInv
    <2> SUFFICES ASSUME Init PROVE IInv
      OBVIOUS
    <2>1. NoGet \in SnapState
      <3>1. <<>> \in Seq(SectionState) /\ 0 \in 0..MaxLimit
        BY SnapshotAssumption
      <3> QED
        BY <3>1 DEF NoGet, SnapState
    <2>2. Types
      BY <2>1, IdleType DEF Init, DBInit, Types, DBTypeOK
    <2>3. \A c \in Calls : GetOK(c, Idle, NoGet) /\ SectionsOK(NoGet)
      BY SnapshotAssumption DEF GetOK, SectionsOK, NoGet
    <2>4. CallsOK
      BY <2>3, IdleType DEF Init, DBInit, CallsOK, CallOK
    <2>5. ConnectionsAreReturned
      <3>1. Cardinality({}) <= MaxOpenConns
        BY FS_EmptySet, DBAssumption
      <3>2. ASSUME NEW e \in Engines
            PROVE  Cardinality({c \in held : q[c].engine = e}) <= MaxOpenConns
        <4>1. {c \in held : q[c].engine = e} = {}
          BY DEF Init, DBInit
        <4> QED
          BY <3>1, <4>1, Zenon
      <3> QED
        BY <3>2 DEF Init, DBInit, ConnectionsAreReturned
    <2> QED
      BY <2>2, <2>4, <2>5 DEF IInv
  <1>2. IInv /\ [Next]_vars => IInv'
    <2> SUFFICES ASSUME IInv, [Next]_vars PROVE IInv'
      OBVIOUS
    <2>1. CASE UNCHANGED vars
      BY <2>1 DEF IInv, Types, DBTypeOK, CallsOK, ConnectionsAreReturned, vars, dbVars
    <2>2. CASE \E c \in Calls \ Getters, st \in Statements, e \in Engines \cup {"unknown"} :
                  Query(c, st, e) /\ UNCHANGED snap
      BY <2>2, InvQuery
    <2>3. CASE \E c \in Getters, input \in 0..(MaxLimit + 1) : Get(c, input)
      BY <2>3, InvGet
    <2>4. CASE \E c \in Calls : QueryStep(c) /\ UNCHANGED snap
      BY <2>4, InvAcquire, InvExecute, InvReadRow, InvEndOfRowsOrFail, InvConclude, InvAnswer,
         InvContext DEF QueryStep
    <2>5. CASE \E c \in Calls : QuerySection(c) \/ TakeSection(c) \/ Return(c) \/ Disconnect(c)
      BY <2>5, InvQuerySection, InvTakeSection, InvReturn, InvContext
    <2>6. CASE Startup /\ UNCHANGED snap
      BY <2>6, InvStartup
    <2> QED
      BY <2>1, <2>2, <2>3, <2>4, <2>5, <2>6 DEF Next, Exited
  <1> QED
    BY <1>1, <1>2, PTL DEF Spec

-----------------------------------------------------------------------------
(* What follows from the invariant. *)

\* Every variable has its type, and no Get has more sections than there are.
THEOREM TypeCorrect == Spec => []TypeOK
  <1>1. IInv => TypeOK
    BY DEF IInv, Types, CallsOK, CallOK, GetOK, TypeOK, SnapState
  <1> QED
    BY Invariant, <1>1, PTL

\* MySQLClient.Query gives its connection back on every path, and no engine has
\* more than MaxOpenConns of them in use.
THEOREM NoConnectionLeaks == Spec => []ConnectionsAreReturned
  <1>1. IInv => ConnectionsAreReturned
    BY DEF IInv
  <1> QED
    BY Invariant, <1>1, PTL

\* A query that succeeds has every row of its result, and a backpack section
\* that succeeds has the newest rows or says that it is truncated.
THEOREM NoSilentCut == Spec => []NothingIsCutSilently
  <1>1. IInv => NothingIsCutSilently
    <2> SUFFICES ASSUME IInv PROVE NothingIsCutSilently
      OBVIOUS
    <2>1. ResultIsWhole
      BY DEF IInv, CallsOK, CallOK, QueryOK, ResultIsWhole
    <2>2. ASSUME NEW c \in Calls, NEW i \in 1..Len(snap[c].sections),
                 snap[c].sections[i].error = "rows", Sections[i] \notin {"user", "vip"}
          PROVE  WholeOrMarked(snap[c].sections[i], snap[c].limit)
      BY <2>2 DEF IInv, CallsOK, CallOK, SectionsOK, SectionOK
    <2> QED
      BY <2>1, <2>2 DEF NothingIsCutSilently
  <1> QED
    BY Invariant, <1>1, PTL

\* No section of a snapshot fails for a statement that the client refuses or a
\* result that it finds too long, for every limit that Get accepts.
THEOREM SnapshotFitsClient == Spec => []SectionFitsClient
  <1>1. IInv => SectionFitsClient
    BY DEF IInv, CallsOK, CallOK, SectionsOK, SectionOK, SectionFitsClient
  <1> QED
    BY Invariant, <1>1, PTL
=============================================================================
