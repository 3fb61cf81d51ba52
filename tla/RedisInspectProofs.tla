-------------------------- MODULE RedisInspectProofs --------------------------
(***************************************************************************)
(* Proofs about RedisInspect for any size of an int, any limits that fit   *)
(* it and a key of any size.                                               *)
(***************************************************************************)
EXTENDS RedisInspect, TLAPS

\* An inspection in progress has accepted its max_items and shows no value yet.
Inspecting ==
    /\ key.type \in Types /\ key.size \in Nat
    /\ items \in 1..MaxItems
    /\ DOMAIN output = DOMAIN NoOutput
    /\ output.type \in Types
    /\ pc # "idle" => output.value = "none"

IInv == Inspecting /\ InspectIsAccepted /\ ValueHasType /\ OnlyFullRangeWraps
-----------------------------------------------------------------------------
(* Facts about the validation. *)

\* An int that fits is its own value.
LEMMA FittingInt == \A x \in 1..MaxInt : Int64(x) = x
  BY SizesAssumption DEF Int64, MinInt

\* A range that passes validateRange is as long as its bounds say, and that is
\* at most MaxItems unless it spans all indexes, whose number is no int.
LEMMA RangeBound ==
  ASSUME NEW c, validateRange(c)
  PROVE  /\ c.start \in 0..MaxInt /\ c.stop \in c.start..MaxInt
         /\ c.stop - c.start + 1 <= MaxItems \/ (c.start = 0 /\ c.stop = MaxInt)
  <1>1. c.start \in 0..MaxInt /\ c.stop \in c.start..MaxInt
    BY DEF validateRange, Atoi
  <1>2. CASE c.stop - c.start + 1 \in 1..MaxInt
    BY <1>1, <1>2, FittingInt DEF validateRange
  <1>3. CASE c.stop - c.start + 1 \notin 1..MaxInt
    BY <1>1, <1>3, SizesAssumption
  <1> QED
    BY <1>2, <1>3

\* Redis never replies to a range with more items than its bounds span.
LEMMA RangeReply ==
  ASSUME Inspecting, NEW c, c.name \in Ranges, NEW r \in Replies(c),
         c.start \in Nat, c.stop \in Nat, c.start <= c.stop
  PROVE  r.size <= c.stop - c.start + 1
  BY DEF Inspecting, Replies, Reply, FromEnd

\* The command that Inspect builds for a type passes the validation, and Redis
\* refuses it on a value of another type.
LEMMA ValueCommand ==
  ASSUME Inspecting, NEW type \in Supported
  PROVE  /\ ValidateReadOnlyCommand(valueCommand(type))
         /\ WorksOn(valueCommand(type)) = {type}
  <1> USE SizesAssumption DEF Inspecting
  <1>1. CASE type = "string"
    <2>1. valueCommand(type) = Fixed("GET", 2)
      BY <1>1 DEF valueCommand
    <2> QED
      BY <1>1, <2>1 DEF Fixed, ValidateReadOnlyCommand, Arity, WorksOn
  <1>2. CASE type = "list"
    <2>1. valueCommand(type) = RangeOf("LRANGE", 0, items - 1)
      BY <1>2 DEF valueCommand
    <2>2. Atoi(0) /\ Atoi(items - 1)
      BY DEF Atoi, MinInt
    <2>3. Int64((items - 1) - 0 + 1) <= MaxItems
      BY FittingInt
    <2> QED
      BY <1>2, <2>1, <2>2, <2>3 DEF RangeOf, ValidateReadOnlyCommand, validateRange,
         Ranges, WorksOn
  <1>3. CASE type \in {"hash", "set", "zset"}
    <2> DEFINE name == IF type = "hash" THEN "HSCAN"
                       ELSE IF type = "set" THEN "SSCAN" ELSE "ZSCAN"
               options == <<Option("COUNT", TRUE, items)>>
    <2>1. valueCommand(type) = Scan(name, 0, options)
      BY <1>3 DEF valueCommand
    <2>2. Len(options) = 1 /\ options[1] = Option("COUNT", TRUE, items)
      OBVIOUS
    <2>3. validateScan(Scan(name, 0, options))
      BY DEF validateScan, Scan, Option
    <2>4. Scan(name, 0, options).name \in Scans /\ WorksOn(Scan(name, 0, options)) = {type}
      BY <1>3 DEF Scans, Scan, WorksOn
    <2>5. ValidateReadOnlyCommand(Scan(name, 0, options))
      BY <2>3, <2>4 DEF ValidateReadOnlyCommand
    <2> QED
      BY <2>1, <2>4, <2>5
  <1> QED
    BY <1>1, <1>2, <1>3 DEF Supported

\* valueCommand has the type that Inspect read before it, so that a reply is of
\* that type or of a key that is gone.
LEMMA InvInspectValue ==
  ASSUME IInv, InspectValue
  PROVE  IInv'
  <1>1. pc = "value" /\ pc' = "idle" /\ UNCHANGED <<key, items, asked, replied>>
    BY DEF InspectValue
  <1>2. /\ DOMAIN output' = DOMAIN NoOutput
        /\ output'.type = output.type
        /\ output'.error # "invalid"
        /\ output'.value \in {output.type, "none"}
    <2> USE DEF IInv, Inspecting, NoOutput
    <2>1. CASE output.type \notin Supported
      <3>1. output' = [output EXCEPT !.error =
                          IF output.type = "none" THEN "none" ELSE "unsupported"]
        BY <2>1 DEF InspectValue
      <3> QED
        BY <1>1, <3>1
    <2>2. CASE output.type \in Supported
      <3>1. /\ ValidateReadOnlyCommand(valueCommand(output.type))
            /\ WorksOn(valueCommand(output.type)) = {output.type}
        BY <2>2, ValueCommand
      <3>2. ValueRead(valueCommand(output.type))
        BY <2>2 DEF InspectValue
      <3>3. CASE output' = [output EXCEPT !.error = "failed"]
        BY <1>1, <3>3
      <3>4. CASE /\ ~WrongType(valueCommand(output.type))
                 /\ \E r \in Replies(valueCommand(output.type)) : output' = decodeValue(r)
        <4>1. key.type \in {output.type, "none"}
          BY <3>1, <3>4 DEF WrongType
        <4>2. PICK r : output' = decodeValue(r)
          BY <3>4
        <4>3. output.error # "invalid"
          BY DEF InspectIsAccepted
        <4> QED
          BY <4>1, <4>2, <4>3 DEF decodeValue
      <3> QED
        BY <3>1, <3>2, <3>3, <3>4 DEF ValueRead
    <2> QED
      BY <2>1, <2>2
  <1>3. Inspecting'
    BY <1>1, <1>2 DEF IInv, Inspecting
  <1>4. InspectIsAccepted' /\ ValueHasType'
    BY <1>2 DEF InspectIsAccepted, ValueHasType
  <1>5. OnlyFullRangeWraps'
    BY <1>1 DEF IInv, OnlyFullRangeWraps
  <1> QED
    BY <1>3, <1>4, <1>5 DEF IInv

\* A query that passes the validation gets a bounded reply, or spans all indexes.
LEMMA InvQuery ==
  ASSUME IInv, NEW c, Query(c)
  PROVE  IInv'
  <1>1. Inspecting'
    BY DEF IInv, Inspecting, Query, NoOutput, Types
  <1>2. InspectIsAccepted' /\ ValueHasType'
    BY DEF Query, NoOutput, InspectIsAccepted, ValueHasType
  <1>3. OnlyFullRangeWraps'
    <2> SUFFICES ASSUME c.name \in Ranges
                 PROVE  replied' <= MaxItems \/ (c.start = 0 /\ c.stop = MaxInt)
      BY DEF Query, OnlyFullRangeWraps
    <2>1. validateRange(c)
      BY DEF Query, ValidateReadOnlyCommand, Ranges, Scans, Arity
    <2>2. PICK r \in Replies(c) : replied' = r.size
      BY DEF Query
    <2>3. c.start \in 0..MaxInt /\ c.stop \in c.start..MaxInt
      BY <2>1, RangeBound
    <2>4. r.size <= c.stop - c.start + 1
      BY <2>3, RangeReply DEF IInv
    <2>5. r.size \in Int
      BY <2>3 DEF IInv, Inspecting, Replies, Reply, FromEnd
    <2> QED
      BY <2>1, <2>2, <2>4, <2>5, RangeBound, SizesAssumption
  <1> QED
    BY <1>1, <1>2, <1>3 DEF IInv

\* IInv is an invariant of queries and inspections.
THEOREM Invariant == Spec => []IInv
  <1>1. Init => IInv
    <2> SUFFICES ASSUME Init PROVE IInv
      OBVIOUS
    <2>1. Inspecting
      BY SizesAssumption DEF Init, Inspecting, NoOutput, Types, Keys
    <2> QED
      BY <2>1 DEF Init, IInv, InspectIsAccepted, ValueHasType, OnlyFullRangeWraps,
         NoOutput, NoQuery, Fixed, Ranges
  <1>2. IInv /\ [Next]_vars => IInv'
    <2> SUFFICES ASSUME IInv, [Next]_vars PROVE IInv'
      OBVIOUS
    <2> USE DEF IInv, Inspecting, InspectIsAccepted, ValueHasType, OnlyFullRangeWraps
    <2>1. CASE UNCHANGED vars
      BY <2>1 DEF vars
    <2>2. CASE Write
      BY <2>2 DEF Write, Keys, Types
    <2>3. CASE \E n \in -1..(MaxItems + 1) : Inspect(n)
      BY <2>3 DEF Inspect, NoOutput, NoQuery, Fixed, Ranges, Types
    <2>4. CASE InspectFails
      BY <2>4 DEF InspectFails, NoOutput, Types
    <2>5. CASE InspectType
      BY <2>5 DEF InspectType
    <2>6. CASE InspectTTL
      BY <2>6 DEF InspectTTL
    <2> QED
      BY <2>1, <2>2, <2>3, <2>4, <2>5, <2>6, InvQuery, InvInspectValue DEF Next
  <1> QED
    BY <1>1, <1>2, PTL DEF Spec

-----------------------------------------------------------------------------
(* What follows from the invariant. *)

\* The commands of Inspect pass ValidateReadOnlyCommand for every max_items.
THEOREM InspectPassesValidation == Spec => []InspectIsAccepted
  <1>1. IInv => InspectIsAccepted
    BY DEF IInv
  <1> QED
    BY Invariant, <1>1, PTL

\* A key that changes between the commands of Inspect is never shown with the
\* value of one type and the name of another.
THEOREM InspectIsConsistent == Spec => []ValueHasType
  <1>1. IInv => ValueHasType
    BY DEF IInv
  <1> QED
    BY Invariant, <1>1, PTL

\* Every reply to a range that validateRange accepts is bounded by MaxItems,
\* but for the one range whose size wraps to a negative int.
THEOREM RangesAreBoundedButOne == Spec => []OnlyFullRangeWraps
  <1>1. IInv => OnlyFullRangeWraps
    BY DEF IInv
  <1> QED
    BY Invariant, <1>1, PTL
=============================================================================
