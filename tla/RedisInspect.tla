---------------------------- MODULE RedisInspect -----------------------------
(***************************************************************************)
(* internal/testredis and internal/redisinspect: the validation of Redis   *)
(* commands, a query that a user sends through it, and Inspect, which      *)
(* reads type, TTL and value of one key by three commands while other      *)
(* clients change the key.                                                 *)
(*                                                                         *)
(* A command is a record of its tokens.  An int is at most MaxInt, so that *)
(* stop - start + 1 wraps as it does in the code at 2^63.  A token that    *)
(* strconv refuses is an integer that does not fit.                        *)
(***************************************************************************)
EXTENDS Integers, Sequences

CONSTANTS
    MaxInt,        \* math.MaxInt: 2^63 - 1
    MaxItems,      \* maxRangeItems, maxScanCount and the limit of max_items: 500
    DefaultItems,  \* what max_items = 0 stands for: 100
    MaxKeys,       \* how many keys MGET accepts: 50
    MaxSize        \* bound of the size of a collection

MinInt == -MaxInt - 1

ASSUME SizesAssumption ==
    /\ MaxInt \in Nat \ {0} /\ MaxKeys \in Nat \ {0} /\ MaxSize \in Nat \ {0}
    /\ DefaultItems \in 1..MaxItems /\ MaxItems \in 1..(MaxInt - 1)

VARIABLES
    key,      \* the key in Redis: its type, size and TTL
    pc,       \* the next command of Inspect
    items,    \* the local maxItems of the latest Inspect
    output,   \* InspectOutput
    asked,    \* history: the last command of a user that was sent
    replied   \* history: how many items Redis replied with to it

vars == <<key, pc, items, output, asked, replied>>

-----------------------------------------------------------------------------
(* Commands and their validation. *)

\* Representatives of fixedArity, and how many tokens they may have.
Arity == [GET |-> 2..2, TYPE |-> 2..2, TTL |-> 2..2, HGET |-> 3..3, MGET |-> 2..(MaxKeys + 1)]
Ranges == {"LRANGE", "ZRANGE", "ZREVRANGE"}
Scans == {"SCAN", "HSCAN", "SSCAN", "ZSCAN"}

Fixed(name, tokens) == [name |-> name, tokens |-> tokens]
RangeOf(name, start, stop) == [name |-> name, start |-> start, stop |-> stop]
\* An option has a value unless it is the last token.
Option(name, given, value) == [name |-> name, given |-> given, value |-> value]
Scan(name, cursor, options) == [name |-> name, cursor |-> cursor, options |-> options]

\* strconv.Atoi accepts the token.
Atoi(x) == x \in MinInt..MaxInt
\* The value of an expression of type int, modulo 2^64.
Int64(x) == ((x - MinInt) % (2 * (MaxInt + 1))) + MinInt

\* Mutant: a negative start is let through.
validateRange_AnyStart(c) ==
    /\ Atoi(c.start)
    /\ Atoi(c.stop) /\ c.stop >= c.start
    /\ Int64(c.stop - c.start + 1) <= MaxItems

validateRange(c) ==
    /\ Atoi(c.start) /\ c.start >= 0
    /\ Atoi(c.stop) /\ c.stop >= c.start
    /\ Int64(c.stop - c.start + 1) <= MaxItems

\* MATCH and COUNT, each with its value, and COUNT exactly once.
validateScan(c) ==
    /\ c.cursor >= 0
    /\ \A i \in 1..Len(c.options) :
          LET o == c.options[i]
          IN  o.given /\ (o.name = "MATCH" \/ (o.name = "COUNT" /\ o.value \in 1..MaxItems))
    /\ \E i \in 1..Len(c.options) :
          /\ c.options[i].name = "COUNT"
          /\ \A j \in 1..Len(c.options) : c.options[j].name = "COUNT" => j = i

ValidateReadOnlyCommand(c) ==
    \/ /\ c.name \in DOMAIN Arity
       /\ c.tokens \in Arity[c.name]
    \/ /\ c.name \in Ranges
       /\ validateRange(c)
    \/ /\ c.name \in Scans
       /\ validateScan(c)

-----------------------------------------------------------------------------
(* Redis. *)

Types == {"none", "string", "list", "hash", "set", "zset", "stream"}
Keys == [type: Types, size: 1..MaxSize, ttl: {-1, 60}] \cup [type: {"none"}, size: {0}, ttl: {-2}]
IsKey(k) == k \in Keys /\ (k.type = "none" <=> k.size = 0)

\* The types of value that a command works on.
WorksOn(c) ==
    CASE c.name = "GET" -> {"string"}
      [] c.name = "HGET" -> {"hash"}
      [] c.name = "LRANGE" -> {"list"}
      [] c.name \in {"ZRANGE", "ZREVRANGE", "ZSCAN"} -> {"zset"}
      [] c.name = "HSCAN" -> {"hash"}
      [] c.name = "SSCAN" -> {"set"}
      [] OTHER -> Types

\* Redis refuses a command on a value of another type.
WrongType(c) == key.type \notin WorksOn(c) \cup {"none"}

\* An index below zero counts from the end.
FromEnd(i) == IF i >= 0 THEN i ELSE IF key.size + i < 0 THEN 0 ELSE key.size + i

\* A reply: how many items it has and whether the cursor of a scan is not yet 0.
Reply(n, more) == [size |-> n, more |-> more]

\* What Redis may reply.  A scan takes COUNT as a hint, and is complete when its
\* cursor is 0 again; SCAN finds the key itself.
Replies(c) ==
    IF c.name \in Ranges
    THEN LET last == IF FromEnd(c.stop) < key.size THEN FromEnd(c.stop) ELSE key.size - 1
             n == last - FromEnd(c.start) + 1
         IN  {Reply(IF n < 0 THEN 0 ELSE n, FALSE)}
    ELSE IF c.name \in {"HSCAN", "SSCAN", "ZSCAN"}
    THEN {Reply(key.size, FALSE)} \cup {Reply(n, TRUE) : n \in 0..key.size}
    ELSE {Reply(IF key.size = 0 THEN 0 ELSE 1, FALSE)}

-----------------------------------------------------------------------------
NoOutput == [type |-> "none", ttl |-> -2, value |-> "none", size |-> 0,
             truncated |-> FALSE, error |-> "none"]

NoQuery == Fixed("none", 0)

Init ==
    /\ key \in {k \in Keys : IsKey(k)}
    /\ pc = "idle"
    /\ items = DefaultItems
    /\ output = NoOutput
    /\ asked = NoQuery
    /\ replied = 0

\* Another client writes or removes the key, or it expires.
Write ==
    /\ key' \in {k \in Keys : IsKey(k)} \ {key}
    /\ UNCHANGED <<pc, items, output, asked, replied>>

\* Commands that a user may send.
Options == {<<>>} \cup
    LET one == {Option("MATCH", g, 0) : g \in BOOLEAN} \cup {Option("NOVALUES", TRUE, 0)}
               \cup {Option("COUNT", g, n) : g \in BOOLEAN, n \in 0..(MaxItems + 1)}
    IN  {<<o>> : o \in one} \cup {<<o, p>> : o \in {x \in one : x.given}, p \in one}
UserCommands ==
    {Fixed(n, t) : n \in DOMAIN Arity \cup {"SET", "HGETALL"}, t \in 1..(MaxKeys + 2)}
    \cup {RangeOf(n, a, b) : n \in Ranges, a, b \in MinInt..(MaxInt + 1)}
    \cup {Scan(n, c, o) : n \in Scans, c \in -1..0, o \in Options}

\* Service.Query of a user's command.  A command that is refused, or that Redis
\* fails, changes nothing.  Queries and inspections have no state in common, so
\* it is enough to let them take turns, and the histories hold the latest of them.
Query(c) ==
    /\ pc = "idle"
    /\ ValidateReadOnlyCommand(c)
    /\ ~WrongType(c)
    /\ asked' = c
    /\ \E r \in Replies(c) : replied' = r.size
    /\ output' = NoOutput
    /\ UNCHANGED <<key, pc, items>>

\* Inspect checks max_items.
Inspect(n) ==
    /\ pc = "idle"
    /\ LET maxItems == IF n = 0 THEN DefaultItems ELSE n
       IN  maxItems \in 1..MaxItems /\ items' = maxItems
    /\ pc' = "type"
    /\ output' = NoOutput
    /\ asked' = NoQuery
    /\ replied' = 0
    /\ UNCHANGED key

\* A query of TYPE or TTL fails, and Inspect with it.
InspectFails ==
    /\ pc \in {"type", "ttl"}
    /\ pc' = "idle"
    /\ output' = NoOutput
    /\ UNCHANGED <<key, items, asked, replied>>

InspectType ==
    /\ pc = "type"
    /\ ValidateReadOnlyCommand(Fixed("TYPE", 2))
    /\ output' = [output EXCEPT !.type = key.type]
    /\ pc' = "ttl"
    /\ UNCHANGED <<key, items, asked, replied>>

InspectTTL ==
    /\ pc = "ttl"
    /\ ValidateReadOnlyCommand(Fixed("TTL", 2))
    /\ output' = [output EXCEPT !.ttl = key.ttl]
    /\ pc' = "value"
    /\ UNCHANGED <<key, items, asked, replied>>

\* Mutant: stop is max_items.
valueCommand_OneMore(type) ==
    LET counted(name) == Scan(name, 0, <<Option("COUNT", TRUE, items)>>)
    IN  CASE type = "string" -> Fixed("GET", 2)
          [] type = "list" -> RangeOf("LRANGE", 0, items)
          [] type = "hash" -> counted("HSCAN")
          [] type = "set" -> counted("SSCAN")
          [] type = "zset" -> counted("ZSCAN")

\* valueCommand for a type that has one.
valueCommand(type) ==
    LET counted(name) == Scan(name, 0, <<Option("COUNT", TRUE, items)>>)
    IN  CASE type = "string" -> Fixed("GET", 2)
          [] type = "list" -> RangeOf("LRANGE", 0, items - 1)
          [] type = "hash" -> counted("HSCAN")
          [] type = "set" -> counted("SSCAN")
          [] type = "zset" -> counted("ZSCAN")

Supported == {"string", "list", "hash", "set", "zset"}

\* decodeValue: a scan is truncated when its cursor is not 0.
decodeValue(r) ==
    [output EXCEPT !.value = IF r.size = 0 THEN "none" ELSE key.type, !.size = r.size,
                   !.truncated = output.type \in {"hash", "set", "zset"} /\ r.more]

\* Mutant: an error of Redis is taken for a value.
ValueRead_AnyReply(c) ==
    \/ /\ ~ValidateReadOnlyCommand(c)
       /\ output' = [output EXCEPT !.error = "invalid"]
    \/ /\ ValidateReadOnlyCommand(c)
       /\ \E r \in Replies(c) : output' = decodeValue(r)

\* The value command is refused by the validation, fails, or has a reply.
ValueRead(c) ==
    \/ /\ ~ValidateReadOnlyCommand(c)
       /\ output' = [output EXCEPT !.error = "invalid"]
    \/ /\ ValidateReadOnlyCommand(c)
       /\ output' = [output EXCEPT !.error = "failed"]
    \/ /\ ValidateReadOnlyCommand(c) /\ ~WrongType(c)
       /\ \E r \in Replies(c) : output' = decodeValue(r)

InspectValue ==
    /\ pc = "value"
    /\ IF output.type \in Supported THEN ValueRead(valueCommand(output.type))
       ELSE output' = [output EXCEPT !.error = IF output.type = "none" THEN "none" ELSE "unsupported"]
    /\ pc' = "idle"
    /\ UNCHANGED <<key, items, asked, replied>>

Next ==
    \/ Write
    \/ \E c \in UserCommands : Query(c)
    \/ \E n \in -1..(MaxItems + 1) : Inspect(n)
    \/ InspectFails \/ InspectType \/ InspectTTL \/ InspectValue

Spec == Init /\ [][Next]_vars

-----------------------------------------------------------------------------
(* Properties. *)

\* Every command that Inspect builds passes the validation of the service that
\* it sends it through, for every max_items that it accepts.
InspectIsAccepted == output.error # "invalid"

\* Inspect never shows a value of another type than it reports, although the
\* key may be replaced between its commands: Redis refuses the mixture, or the
\* key is gone.
ValueHasType == output.value \in {output.type, "none"}

\* The only range that passes the validation with more than MaxItems items is
\* the one whose size does not fit an int.
OnlyFullRangeWraps ==
    asked.name \in Ranges =>
        replied <= MaxItems \/ (asked.start = 0 /\ asked.stop = MaxInt)

\* The error message of validateRange: a range contains at most MaxItems items.
RangesAreBounded == asked.name \in Ranges => replied <= MaxItems
=============================================================================
