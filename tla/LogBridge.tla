------------------------------ MODULE LogBridge ------------------------------
(***************************************************************************)
(* internal/testlogs: concurrent log calls through Lazy, which connects to *)
(* the downstream log MCP on first use, and Bridge, which serializes the   *)
(* calls of one session.  The session and the child process behind it are  *)
(* external: the child answers, or dies, or is closed.                     *)
(***************************************************************************)
EXTENDS Naturals, FiniteSets

CONSTANT Calls   \* invocations of ListSources, Search, Trace, GetRuntime, ...

ASSUME CallNamesAssumption == Calls \cap {"free", "Close"} = {}
ASSUME FiniteCallsAssumption == IsFiniteSet(Calls)

VARIABLES
    mu,          \* who holds Lazy.mu: a call that connects, Close, or nobody
    service,     \* Lazy.service: the number of a session, 0 for nil
    closed,      \* Lazy.closed
    closing,     \* how far Lazy.Close is
    pc,          \* where a call is
    session,     \* the service that get returned to it
    canceled,    \* the calls whose context has ended
    callMu,      \* who holds Bridge.callMu of a session
    connected,   \* how many sessions have been connected; they are 1..connected
    children,    \* the sessions whose child process runs
    inFlight,    \* the calls that the child is working on
    answered     \* the calls whose answer has arrived

lazy == <<mu, service, closed, closing>>
downstream == <<connected, children, inFlight, answered>>
vars == <<lazy, pc, session, canceled, callMu, downstream>>

Sessions == 1..Cardinality(Calls)

Init ==
    /\ mu = "free"
    /\ service = 0
    /\ closed = FALSE
    /\ closing = "no"
    /\ pc = [c \in Calls |-> "idle"]
    /\ session = [c \in Calls |-> 0]
    /\ canceled = {}
    /\ callMu = [s \in Sessions |-> "free"]
    /\ connected = 0
    /\ children = {}
    /\ inFlight = {}
    /\ answered = {}

Goes(c, place) == pc' = [pc EXCEPT ![c] = place]

\* A tool calls one of the methods of Lazy.
Enter(c) ==
    /\ pc[c] = "idle"
    /\ Goes(c, "get")
    /\ UNCHANGED <<lazy, session, callMu, downstream, canceled>>

\* get finds the backend closed, or a session to reuse.
GetReturns(c) ==
    /\ pc[c] = "get" /\ mu = "free"
    /\ \/ closed /\ Goes(c, "failed") /\ UNCHANGED session
       \/ /\ ~closed /\ service # 0
          /\ Goes(c, "call")
          /\ session' = [session EXCEPT ![c] = service]
    /\ UNCHANGED <<lazy, callMu, downstream, canceled>>

\* Mutants: mu is released while get connects; closed is not looked at.
GetConnects_Unlocked(c) ==
    /\ pc[c] = "get" /\ mu = "free"
    /\ ~closed /\ service = 0
    /\ Goes(c, "connecting")
    /\ UNCHANGED <<lazy, session, callMu, downstream, canceled>>
GetConnects_Closed(c) ==
    /\ pc[c] = "get" /\ mu = "free"
    /\ service = 0
    /\ mu' = c
    /\ Goes(c, "connecting")
    /\ UNCHANGED <<service, closed, closing, session, callMu, downstream, canceled>>

\* get calls connect, and keeps mu meanwhile.
GetConnects(c) ==
    /\ pc[c] = "get" /\ mu = "free"
    /\ ~closed /\ service = 0
    /\ mu' = c
    /\ Goes(c, "connecting")
    /\ UNCHANGED <<service, closed, closing, session, callMu, downstream, canceled>>

\* Connect starts the child and initializes the session.
ConnectSucceeds(c) ==
    /\ pc[c] = "connecting"
    /\ connected' = connected + 1
    /\ children' = children \cup {connected + 1}
    /\ service' = connected + 1
    /\ session' = [session EXCEPT ![c] = connected + 1]
    /\ mu' = "free"
    /\ Goes(c, "call")
    /\ UNCHANGED <<closed, closing, callMu, inFlight, answered, canceled>>

\* Connect fails; the next call tries again.
ConnectFails(c) ==
    /\ pc[c] = "connecting"
    /\ mu' = "free"
    /\ Goes(c, "failed")
    /\ UNCHANGED <<service, closed, closing, session, callMu, downstream, canceled>>

\* call takes callMu and sends the request.
CallTool(c) ==
    /\ pc[c] = "call"
    /\ callMu[session[c]] = "free"
    /\ callMu' = [callMu EXCEPT ![session[c]] = c]
    /\ Goes(c, "calling")
    /\ inFlight' = IF session[c] \in children THEN inFlight \cup {c} ELSE inFlight
    /\ UNCHANGED <<lazy, session, connected, children, answered, canceled>>

\* CallTool returns the answer, which may be an error of the tool.
CallReturns(c) ==
    /\ pc[c] = "calling"
    /\ c \in answered
    /\ \E place \in {"ok", "failed"} : Goes(c, place)
    /\ callMu' = [callMu EXCEPT ![session[c]] = "free"]
    /\ UNCHANGED <<lazy, session, downstream, canceled>>

\* Mutant: callMu is not released on the way of an error.
CallFails_Locked(c) ==
    /\ pc[c] = "calling"
    /\ Goes(c, "failed")
    /\ UNCHANGED <<lazy, session, callMu, downstream, canceled>>

\* CallTool returns the end of the caller's context, or of the session.  The
\* child goes on with the request if it has one.
CallFails(c) ==
    /\ pc[c] = "calling"
    /\ Goes(c, "failed")
    /\ callMu' = [callMu EXCEPT ![session[c]] = "free"]
    /\ UNCHANGED <<lazy, session, downstream, canceled>>

\* The client of a call gives up or disconnects: the call's context ends.  There
\* is no deadline, and only connect and CallTool look at the context: a call that
\* waits for mu or callMu goes on waiting.
GiveUp(c) ==
    /\ pc[c] \in {"get", "connecting", "call", "calling"}
    /\ c \notin canceled
    /\ canceled' = canceled \cup {c}
    /\ UNCHANGED <<lazy, pc, session, callMu, downstream>>

\* Lazy.Close takes mu, which it does not get while a call connects.
CloseBegins ==
    /\ closing = "no" /\ mu = "free"
    /\ closed' = TRUE
    /\ IF service = 0
       THEN closing' = "done" /\ UNCHANGED mu
       ELSE closing' = "session" /\ mu' = "Close"
    /\ UNCHANGED <<service, pc, session, callMu, downstream, canceled>>

\* The sessions ss and what their child processes were working on are lost.
Loses(ss) ==
    /\ children' = children \ ss
    /\ inFlight' = {c \in inFlight : session[c] \notin ss}
    /\ UNCHANGED <<connected, answered>>

\* service.Close has ended the child.
CloseReturns ==
    /\ closing = "session"
    /\ Loses({service})
    /\ service' = 0
    /\ mu' = "free"
    /\ closing' = "done"
    /\ UNCHANGED <<closed, pc, session, callMu, canceled>>

\* The child answers a request.
ChildAnswers(c) ==
    /\ c \in inFlight
    /\ inFlight' = inFlight \ {c}
    /\ answered' = answered \cup {c}
    /\ UNCHANGED <<lazy, pc, session, callMu, connected, children, canceled>>

\* The child dies.  Nothing in Lazy notices.
ChildDies(s) ==
    /\ s \in children
    /\ Loses({s})
    /\ UNCHANGED <<lazy, pc, session, callMu, canceled>>

Next ==
    \/ \E c \in Calls :
          \/ Enter(c) \/ GetReturns(c) \/ GetConnects(c) \/ ConnectSucceeds(c)
          \/ ConnectFails(c) \/ CallTool(c) \/ CallReturns(c) \/ CallFails(c)
          \/ ChildAnswers(c) \/ GiveUp(c)
    \/ CloseBegins \/ CloseReturns
    \/ \E s \in Sessions : ChildDies(s)

Spec == Init /\ [][Next]_vars

\* The mutexes are handed to those that wait for them.  Connect ends once the
\* context of its call has ended, CallTool also with an answer or a child that is
\* gone; nothing else makes them end.
Fairness ==
    /\ \A c \in Calls :
          /\ SF_vars(GetReturns(c) \/ GetConnects(c))
          /\ WF_vars(c \in canceled /\ (ConnectSucceeds(c) \/ ConnectFails(c)))
          /\ SF_vars(CallTool(c))
          /\ WF_vars(CallReturns(c))
          /\ WF_vars((c \in canceled \/ session[c] \notin children) /\ CallFails(c))
    /\ WF_vars(CloseReturns)

FairSpec == Spec /\ Fairness

-----------------------------------------------------------------------------
(* Properties. *)

\* Every variable has its type; each mutex is with somebody who will release it.
TypeOK ==
    /\ mu \in {c \in Calls : pc[c] = "connecting"} \cup {"free", "Close"}
    /\ service \in 0..connected
    /\ closed \in BOOLEAN
    /\ closing \in {"no", "session", "done"}
    /\ pc \in [Calls -> {"idle", "get", "connecting", "call", "calling", "ok", "failed"}]
    /\ session \in [Calls -> 0..connected]
    /\ canceled \in SUBSET Calls
    /\ callMu \in [Sessions -> {c \in Calls : pc[c] = "calling"} \cup {"free"}]
    /\ connected \in 0..Cardinality(Calls)
    /\ children \in SUBSET (1..connected)
    /\ inFlight \in SUBSET Calls
    /\ answered \in SUBSET Calls

\* Whatever calls race for the first use, and whichever connects fail, there is
\* one child process at most, and it is the one that Close will close.
NoLeakedChild == children \subseteq {service}

\* Once Close has returned, no child runs and none is ever started by a call
\* that was connecting when Close began.
ClosedStaysClosed == closing = "done" => children = {} /\ mu = "free"

\* A connect or a request of c is under way and nobody has given it up.
Pending(c) == pc[c] \in {"connecting", "calling"} /\ c \notin canceled

\* If no connect and no request stays pending for good, every call returns: the
\* mutexes that are held over them, mu and callMu, are released on every way out,
\* behind a child that died, a client that gave up and Close.
CallEnds ==
    (\A c \in Calls : []<>~Pending(c)) =>
        \A c \in Calls : pc[c] = "get" ~> pc[c] \in {"ok", "failed"}
=============================================================================
