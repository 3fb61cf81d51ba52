--------------------------- MODULE LogBridgeProofs ---------------------------
(***************************************************************************)
(* Proofs about LogBridge for any finite set of calls.                     *)
(*                                                                         *)
(* What makes the child unique is that Lazy connects once: mu is held over *)
(* connect, so that a second call finds the session of the first, and no   *)
(* call connects after Close.  The inductive invariant says who holds each *)
(* mutex (Locks), which session there is (OneSession) and who uses it      *)
(* (Serial).                                                               *)
(***************************************************************************)
EXTENDS LogBridge, FiniteSetTheorems, TLAPS

Place == {"idle", "get", "connecting", "call", "calling", "ok", "failed"}

\* The types, without what TypeOK says of the holders of the mutexes.
Types ==
    /\ mu \in Calls \cup {"free", "Close"}
    /\ closed \in BOOLEAN
    /\ closing \in {"no", "session", "done"}
    /\ pc \in [Calls -> Place]
    /\ session \in [Calls -> {0, connected}]
    /\ canceled \in SUBSET Calls
    /\ callMu \in [Sessions -> Calls \cup {"free"}]
    /\ connected \in {0, 1}
    /\ inFlight \in SUBSET Calls
    /\ answered \in SUBSET Calls

\* mu is with the call that connects, or with Close while it ends the session.
Locks ==
    /\ \A c \in Calls : pc[c] = "connecting" <=> mu = c
    /\ mu = "Close" <=> closing = "session"
    /\ closed <=> closing # "no"

\* Lazy connects at most once, and loses the session in Close only.
OneSession ==
    /\ service = IF closing = "done" THEN 0 ELSE connected
    /\ closing = "session" => connected = 1
    /\ connected = 1 => Calls # {}
    /\ \A c \in Calls : pc[c] = "connecting" => connected = 0 /\ closing = "no"
    /\ children \subseteq {service} \ {0}

\* A call talks to the session with its callMu, which it got from get.
Serial ==
    /\ \A c \in Calls : pc[c] \in {"call", "calling"} => connected = 1 /\ session[c] = 1
    /\ \A c \in Calls, s \in Sessions : callMu[s] = c <=> pc[c] = "calling" /\ session[c] = s

IInv == Types /\ Locks /\ OneSession /\ Serial

-----------------------------------------------------------------------------
(* Every step keeps the invariant. *)

\* With a call there is a place for the one session that Lazy connects.
LEMMA FirstSession == \A c \in Calls : 1 \in Sessions
  <1> SUFFICES ASSUME NEW c \in Calls PROVE 1 \in Sessions
    OBVIOUS
  <1>1. Cardinality(Calls) \in Nat
    BY FiniteCallsAssumption, FS_CardinalityType
  <1>2. Cardinality(Calls) # 0
    BY FiniteCallsAssumption, FS_EmptySet
  <1> QED
    BY <1>1, <1>2 DEF Sessions

\* A lazy backend that nobody has used satisfies the invariant.
LEMMA InvInit == Init => IInv
  <1> SUFFICES ASSUME Init PROVE IInv
    OBVIOUS
  <1>1. Types
    BY DEF Init, Types, Place
  <1>2. Locks
    BY CallNamesAssumption DEF Init, Locks
  <1>3. OneSession
    BY DEF Init, OneSession
  <1>4. Serial
    BY CallNamesAssumption DEF Init, Serial
  <1> QED
    BY <1>1, <1>2, <1>3, <1>4 DEF IInv

\* A call that enters holds nothing.
LEMMA InvEnter ==
  ASSUME IInv, NEW c \in Calls, Enter(c)
  PROVE  IInv'
  <1>1. Types'
    BY DEF IInv, Types, Place, Enter, Goes, lazy, downstream
  <1>2. Locks'
    BY DEF IInv, Types, Locks, Enter, Goes, lazy
  <1>3. OneSession'
    BY DEF IInv, Types, OneSession, Enter, Goes, lazy, downstream
  <1>4. Serial'
    BY DEF IInv, Types, Serial, Enter, Goes, downstream
  <1> QED
    BY <1>1, <1>2, <1>3, <1>4 DEF IInv

\* A call that get returns to has the one session, or none.
LEMMA InvGetReturns ==
  ASSUME IInv, NEW c \in Calls, GetReturns(c)
  PROVE  IInv'
  <1>1. Types'
    BY DEF IInv, Types, OneSession, Place, GetReturns, Goes, lazy, downstream
  <1>2. Locks'
    BY DEF IInv, Types, Locks, GetReturns, Goes, lazy
  <1>3. OneSession'
    BY DEF IInv, Types, OneSession, GetReturns, Goes, lazy, downstream
  <1>4. Serial'
    BY DEF IInv, Types, OneSession, Serial, GetReturns, Goes, downstream
  <1> QED
    BY <1>1, <1>2, <1>3, <1>4 DEF IInv

\* The call that connects is alone with mu, and finds no earlier session.
LEMMA InvGetConnects ==
  ASSUME IInv, NEW c \in Calls, GetConnects(c)
  PROVE  IInv'
  <1>1. Types'
    BY DEF IInv, Types, Place, GetConnects, Goes, downstream
  <1>2. Locks'
    BY CallNamesAssumption DEF IInv, Types, Locks, GetConnects, Goes
  <1>3. OneSession'
    BY DEF IInv, Types, Locks, OneSession, GetConnects, downstream
  <1>4. Serial'
    BY DEF IInv, Types, Serial, GetConnects, Goes, downstream
  <1> QED
    BY <1>1, <1>2, <1>3, <1>4 DEF IInv

\* The session that a call connects is the first one, and Lazy keeps it.
LEMMA InvConnectSucceeds ==
  ASSUME IInv, NEW c \in Calls, ConnectSucceeds(c)
  PROVE  IInv'
  <1>1. Types'
    BY DEF IInv, Types, OneSession, Place, ConnectSucceeds, Goes
  <1>2. Locks'
    BY CallNamesAssumption DEF IInv, Types, Locks, ConnectSucceeds, Goes
  <1>3. OneSession'
    BY DEF IInv, Types, Locks, OneSession, ConnectSucceeds, Goes
  <1>4. Serial'
    BY DEF IInv, Types, OneSession, Serial, ConnectSucceeds, Goes
  <1> QED
    BY <1>1, <1>2, <1>3, <1>4 DEF IInv

\* A failed connect leaves neither a session nor mu behind.
LEMMA InvConnectFails ==
  ASSUME IInv, NEW c \in Calls, ConnectFails(c)
  PROVE  IInv'
  <1>1. Types'
    BY DEF IInv, Types, Place, ConnectFails, Goes, downstream
  <1>2. Locks'
    BY CallNamesAssumption DEF IInv, Types, Locks, ConnectFails, Goes
  <1>3. OneSession'
    BY DEF IInv, Types, OneSession, ConnectFails, downstream
  <1>4. Serial'
    BY DEF IInv, Types, Serial, ConnectFails, Goes, downstream
  <1> QED
    BY <1>1, <1>2, <1>3, <1>4 DEF IInv

\* A call that starts to talk to the session is alone with its callMu.
LEMMA InvCallTool ==
  ASSUME IInv, NEW c \in Calls, CallTool(c)
  PROVE  IInv'
  <1>1. Types'
    BY DEF IInv, Types, Place, CallTool, Goes, lazy
  <1>2. Locks'
    BY DEF IInv, Types, Locks, CallTool, Goes, lazy
  <1>3. OneSession'
    BY DEF IInv, Types, OneSession, CallTool, Goes, lazy
  <1>4. Serial'
    BY CallNamesAssumption DEF IInv, Types, Serial, CallTool, Goes
  <1> QED
    BY <1>1, <1>2, <1>3, <1>4 DEF IInv

\* A call that is answered gives callMu back.
LEMMA InvCallReturns ==
  ASSUME IInv, NEW c \in Calls, CallReturns(c)
  PROVE  IInv'
  <1>1. Types'
    BY DEF IInv, Types, Place, CallReturns, Goes, lazy, downstream
  <1>2. Locks'
    BY DEF IInv, Types, Locks, CallReturns, Goes, lazy
  <1>3. OneSession'
    BY DEF IInv, Types, OneSession, CallReturns, Goes, lazy, downstream
  <1>4. Serial'
    BY CallNamesAssumption DEF IInv, Types, Serial, CallReturns, Goes, downstream
  <1> QED
    BY <1>1, <1>2, <1>3, <1>4 DEF IInv

\* A call that fails gives callMu back as well.
LEMMA InvCallFails ==
  ASSUME IInv, NEW c \in Calls, CallFails(c)
  PROVE  IInv'
  <1>1. Types'
    BY DEF IInv, Types, Place, CallFails, Goes, lazy, downstream
  <1>2. Locks'
    BY DEF IInv, Types, Locks, CallFails, Goes, lazy
  <1>3. OneSession'
    BY DEF IInv, Types, OneSession, CallFails, Goes, lazy, downstream
  <1>4. Serial'
    BY CallNamesAssumption DEF IInv, Types, Serial, CallFails, Goes, downstream
  <1> QED
    BY <1>1, <1>2, <1>3, <1>4 DEF IInv

\* The answers of the child are no concern of Lazy.
LEMMA InvChildAnswers ==
  ASSUME IInv, NEW c \in Calls, ChildAnswers(c)
  PROVE  IInv'
  <1>1. Types'
    BY DEF IInv, Types, ChildAnswers, lazy
  <1>2. Locks'
    BY DEF IInv, Types, Locks, ChildAnswers, lazy
  <1>3. OneSession'
    BY DEF IInv, Types, OneSession, ChildAnswers, lazy
  <1>4. Serial'
    BY DEF IInv, Types, Serial, ChildAnswers
  <1> QED
    BY <1>1, <1>2, <1>3, <1>4 DEF IInv

\* A client that gives up takes no mutex from its call.
LEMMA InvGiveUp ==
  ASSUME IInv, NEW c \in Calls, GiveUp(c)
  PROVE  IInv'
  <1>1. Types'
    BY DEF IInv, Types, GiveUp, lazy, downstream
  <1>2. Locks'
    BY DEF IInv, Types, Locks, GiveUp, lazy
  <1>3. OneSession'
    BY DEF IInv, Types, OneSession, GiveUp, lazy, downstream
  <1>4. Serial'
    BY DEF IInv, Types, Serial, GiveUp, downstream
  <1> QED
    BY <1>1, <1>2, <1>3, <1>4 DEF IInv

\* Close begins when no call connects.
LEMMA InvCloseBegins ==
  ASSUME IInv, CloseBegins
  PROVE  IInv'
  <1>1. Types'
    BY DEF IInv, Types, CloseBegins, downstream
  <1>2. Locks'
    BY CallNamesAssumption DEF IInv, Types, Locks, CloseBegins
  <1>3. OneSession'
    BY CallNamesAssumption DEF IInv, Types, Locks, OneSession, CloseBegins, downstream
  <1>4. Serial'
    BY DEF IInv, Types, Serial, CloseBegins, downstream
  <1> QED
    BY <1>1, <1>2, <1>3, <1>4 DEF IInv

\* Close ends the only session there is.
LEMMA InvCloseReturns ==
  ASSUME IInv, CloseReturns
  PROVE  IInv'
  <1>1. Types'
    BY DEF IInv, Types, CloseReturns, Loses
  <1>2. Locks'
    BY CallNamesAssumption DEF IInv, Types, Locks, CloseReturns
  <1>3. OneSession'
    BY DEF IInv, Types, OneSession, CloseReturns, Loses
  <1>4. Serial'
    BY DEF IInv, Types, Serial, CloseReturns, Loses
  <1> QED
    BY <1>1, <1>2, <1>3, <1>4 DEF IInv

\* The death of the child takes nothing from Lazy.
LEMMA InvChildDies ==
  ASSUME IInv, NEW s \in Sessions, ChildDies(s)
  PROVE  IInv'
  <1>1. Types'
    BY DEF IInv, Types, ChildDies, Loses, lazy
  <1>2. Locks'
    BY DEF IInv, Types, Locks, ChildDies, lazy
  <1>3. OneSession'
    BY DEF IInv, Types, OneSession, ChildDies, Loses, lazy
  <1>4. Serial'
    BY DEF IInv, Types, Serial, ChildDies, Loses
  <1> QED
    BY <1>1, <1>2, <1>3, <1>4 DEF IInv

\* IInv is an invariant of Lazy and Bridge.
THEOREM Invariant == Spec => []IInv
  <1>1. IInv /\ [Next]_vars => IInv'
    <2> SUFFICES ASSUME IInv, [Next]_vars PROVE IInv'
      OBVIOUS
    <2>1. CASE UNCHANGED vars
      BY <2>1 DEF IInv, Types, Locks, OneSession, Serial, vars, lazy, downstream
    <2>2. CASE \E c \in Calls :
                  \/ Enter(c) \/ GetReturns(c) \/ GetConnects(c)
                  \/ ConnectSucceeds(c) \/ ConnectFails(c)
      BY <2>2, InvEnter, InvGetReturns, InvGetConnects, InvConnectSucceeds,
         InvConnectFails
    <2>3. CASE \E c \in Calls :
                  \/ CallTool(c) \/ CallReturns(c) \/ CallFails(c)
                  \/ ChildAnswers(c) \/ GiveUp(c)
      BY <2>3, InvCallTool, InvCallReturns, InvCallFails, InvChildAnswers, InvGiveUp
    <2>4. CASE CloseBegins \/ CloseReturns \/ \E s \in Sessions : ChildDies(s)
      BY <2>4, InvCloseBegins, InvCloseReturns, InvChildDies
    <2> QED
      BY <2>1, <2>2, <2>3, <2>4 DEF Next
  <1> QED
    BY InvInit, <1>1, PTL DEF Spec

-----------------------------------------------------------------------------
(* What follows from the invariant. *)

\* Every variable has its type, and each mutex is with a call that is in the
\* section that the mutex guards (Lazy.get and Bridge.call).
THEOREM TypeCorrect == Spec => []TypeOK
  <1>1. IInv => TypeOK
    <2> SUFFICES ASSUME IInv PROVE TypeOK
      OBVIOUS
    <2>1. Cardinality(Calls) \in Nat
      BY FiniteCallsAssumption, FS_CardinalityType
    <2>2. connected \in 0..Cardinality(Calls)
      <3>1. connected = 1 => Cardinality(Calls) # 0
        BY FiniteCallsAssumption, FS_EmptySet DEF IInv, OneSession
      <3> QED
        BY <2>1, <3>1 DEF IInv, Types
    <2>3. mu \in {c \in Calls : pc[c] = "connecting"} \cup {"free", "Close"}
      BY DEF IInv, Types, Locks
    <2>4. callMu \in [Sessions -> {c \in Calls : pc[c] = "calling"} \cup {"free"}]
      BY DEF IInv, Types, Serial
    <2>5. service \in 0..connected /\ session \in [Calls -> 0..connected]
      BY DEF IInv, Types, OneSession
    <2>6. children \in SUBSET (1..connected)
      BY DEF IInv, Types, OneSession
    <2> QED
      BY <2>2, <2>3, <2>4, <2>5, <2>6 DEF IInv, Types, TypeOK, Place
  <1> QED
    BY Invariant, <1>1, PTL

\* However many calls race for the first use, and whatever fails, at most one
\* child runs, and it is the one that Lazy.Close will close.
THEOREM OneChild == Spec => []NoLeakedChild
  <1>1. IInv => NoLeakedChild
    BY DEF IInv, OneSession, NoLeakedChild
  <1> QED
    BY Invariant, <1>1, PTL

\* When Lazy.Close has returned no child runs and no call is connecting.
THEOREM CloseIsFinal == Spec => []ClosedStaysClosed
  <1>1. IInv => ClosedStaysClosed
    BY DEF IInv, Types, Locks, OneSession, ClosedStaysClosed
  <1> QED
    BY Invariant, <1>1, PTL

\* Bridge.callMu: no two calls talk to the same session at a time.
OneCallAtATime ==
    \A c, d \in Calls :
        pc[c] = "calling" /\ pc[d] = "calling" /\ session[c] = session[d] => c = d

\* The session sees one request after the other, whoever calls.
THEOREM SessionIsSerial == Spec => []OneCallAtATime
  <1>1. IInv => OneCallAtATime
    <2> SUFFICES ASSUME IInv, NEW c \in Calls, NEW d \in Calls,
                        pc[c] = "calling", pc[d] = "calling"
                 PROVE  c = d
      BY DEF OneCallAtATime
    <2>1. callMu[1] = c /\ callMu[1] = d
      BY FirstSession DEF IInv, Serial
    <2> QED
      BY <2>1
  <1> QED
    BY Invariant, <1>1, PTL
=============================================================================
