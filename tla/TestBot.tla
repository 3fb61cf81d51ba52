------------------------------- MODULE TestBot -------------------------------
(***************************************************************************)
(* internal/testbot: concurrent calls of Service.Call that share one       *)
(* cached login token and one signing timestamp, against a remote test     *)
(* environment that issues, expires and replaces tokens.                   *)
(*                                                                         *)
(* One action is one critical section of loginMu or signMu, the sending of *)
(* a request, the arrival of its answer, or a step of the remote side.     *)
(***************************************************************************)
EXTENDS Naturals, Sequences

CONSTANTS
    Calls,     \* invocations of Service.Call
    MaxClock   \* bound of the wall clock, in seconds

ASSUME MaxClockAssumption == MaxClock \in Nat \ {0}
ASSUME CallsAssumption == "free" \notin Calls

VARIABLES
    token,      \* Service.token; 0 stands for the empty string
    loginMu,    \* the call inside login that waits for the remote, or "free"
    lastSign,   \* Service.lastSignTimestamp
    pc,         \* where a call is
    endpoint,   \* what matters of its endpoint and its arguments
    force,      \* login is called a second time, with force
    held,       \* its local variable "token"
    first,      \* history: the token of its first request
    result,     \* what it returned
    wire,       \* its latest request, or the answer to it
    clock,      \* time.Now().Unix()
    issued,     \* how many tokens the remote has issued; tokens are 1..issued
    valid,      \* the tokens that the remote accepts
    executed,   \* history: how many requests of a call the remote executed
    drawn       \* history: the timestamps that this process signed with

local == <<pc, endpoint, force, held, first, result>>
signing == <<lastSign, drawn>>
remote == <<issued, valid, executed>>
vars == <<token, loginMu, local, wire, clock, remote, signing>>

Endpoint == [signed: BOOLEAN, encodable: BOOLEAN]

Init ==
    /\ token = 0
    /\ loginMu = "free"
    /\ lastSign = 0
    /\ pc = [c \in Calls |-> "idle"]
    /\ endpoint = [c \in Calls |-> [signed |-> FALSE, encodable |-> TRUE]]
    /\ force = [c \in Calls |-> FALSE]
    /\ held = [c \in Calls |-> 0]
    /\ first = [c \in Calls |-> 0]
    /\ result = [c \in Calls |-> "none"]
    /\ wire = [c \in Calls |-> <<"none", 0>>]
    /\ clock = 1
    /\ issued = 0
    /\ valid = {}
    /\ executed = [c \in Calls |-> 0]
    /\ drawn = <<>>

\* The checks in front of the first login.
Accepted(known, sideEffect, confirmed, keysAllowed) ==
    known /\ (sideEffect => confirmed) /\ keysAllowed

\* The call returns.
Returns(c, r) ==
    /\ pc' = [pc EXCEPT ![c] = "done"]
    /\ result' = [result EXCEPT ![c] = r]

\* Call looks its endpoint up and checks the input.
Call(c) ==
    /\ pc[c] = "idle"
    /\ \E known, sideEffect, confirmed, keysAllowed \in BOOLEAN :
          IF Accepted(known, sideEffect, confirmed, keysAllowed)
          THEN /\ pc' = [pc EXCEPT ![c] = "login"]
               /\ \E e \in Endpoint : endpoint' = [endpoint EXCEPT ![c] = e]
               /\ UNCHANGED result
          ELSE Returns(c, "rejected") /\ UNCHANGED endpoint
    /\ UNCHANGED <<token, loginMu, force, held, first, wire, clock, remote, signing>>

\* login returns t, and the call goes on with it.
Obtains(c, t) ==
    /\ held' = [held EXCEPT ![c] = t]
    /\ pc' = [pc EXCEPT ![c] = "calling"]

\* Mutant: force is ignored.
CachedLogin_NoForce(c) ==
    /\ pc[c] = "login" /\ loginMu = "free"
    /\ token # 0
    /\ Obtains(c, token)
    /\ UNCHANGED <<token, loginMu, endpoint, force, first, result, wire, clock, remote, signing>>

\* login finds a cached token; loginMu is held for no longer than that.
CachedLogin(c) ==
    /\ pc[c] = "login" /\ loginMu = "free"
    /\ token # 0 /\ ~force[c]
    /\ Obtains(c, token)
    /\ UNCHANGED <<token, loginMu, endpoint, force, first, result, wire, clock, remote, signing>>

\* login posts the credentials, and keeps loginMu meanwhile.
PostLogin(c) ==
    /\ pc[c] = "login" /\ loginMu = "free"
    /\ token = 0 \/ force[c]
    /\ loginMu' = c
    /\ pc' = [pc EXCEPT ![c] = "posting"]
    /\ wire' = [wire EXCEPT ![c] = <<"login", 0>>]
    /\ UNCHANGED <<token, endpoint, force, held, first, result, clock, remote, signing>>

\* Mutant: a forced login leaves the cached token alone.
LoginSucceeds_KeepsCache(c) ==
    /\ pc[c] = "posting"
    /\ wire[c][1] = "token"
    /\ token' = IF token = 0 THEN wire[c][2] ELSE token
    /\ Obtains(c, wire[c][2])
    /\ loginMu' = "free"
    /\ UNCHANGED <<endpoint, force, first, result, wire, clock, remote, signing>>

\* The answer holds a token: it is cached, and loginMu released.
LoginSucceeds(c) ==
    /\ pc[c] = "posting"
    /\ wire[c][1] = "token"
    /\ token' = wire[c][2]
    /\ Obtains(c, wire[c][2])
    /\ loginMu' = "free"
    /\ UNCHANGED <<endpoint, force, first, result, wire, clock, remote, signing>>

\* Mutant: loginMu is not released on the way of an error.
LoginFails_Locked(c) ==
    /\ pc[c] = "posting"
    /\ Returns(c, "error")
    /\ UNCHANGED <<token, loginMu, endpoint, force, held, first, wire, clock, remote, signing>>

\* Every other end of the login: the client's timeout, the end of the caller's
\* context, an answer that is not a success.  The cached token stays.
LoginFails(c) ==
    /\ pc[c] = "posting"
    /\ Returns(c, "error")
    /\ loginMu' = "free"
    /\ UNCHANGED <<token, endpoint, force, held, first, wire, clock, remote, signing>>

\* Mutant: an equal timestamp is not moved on.
NextTimestamp_Equal == IF clock < lastSign THEN lastSign + 1 ELSE clock

\* legacySignedQuery: the timestamp that the next signature uses.
NextTimestamp == IF clock <= lastSign THEN lastSign + 1 ELSE clock

\* buildURL and encodeBody accept the arguments.
Encodes(c) == endpoint[c].encodable

\* callWithToken up to the request: sign, build the URL, encode the body.  The
\* timestamp is used up even when the arguments cannot be encoded.
Send(c) ==
    /\ pc[c] = "calling"
    /\ IF endpoint[c].signed
       THEN lastSign' = NextTimestamp /\ drawn' = Append(drawn, NextTimestamp)
       ELSE UNCHANGED <<lastSign, drawn>>
    /\ IF Encodes(c)
       THEN /\ pc' = [pc EXCEPT ![c] = "sending"]
            /\ wire' = [wire EXCEPT ![c] = <<"request", held[c]>>]
            /\ first' = IF first[c] = 0 THEN [first EXCEPT ![c] = held[c]] ELSE first
            /\ UNCHANGED result
       ELSE Returns(c, "error") /\ UNCHANGED <<wire, first>>
    /\ UNCHANGED <<token, loginMu, endpoint, force, held, clock, remote>>

\* The answer of the remote.  401 and 403 are worth one more login and one more
\* request; every other answer, and the second one, is returned.
Answered(c) ==
    /\ pc[c] = "sending"
    /\ wire[c][1] \in {"executed", "refused"}
    /\ IF wire[c][1] = "refused" /\ ~force[c]
       THEN /\ pc' = [pc EXCEPT ![c] = "login"]
            /\ force' = [force EXCEPT ![c] = TRUE]
            /\ UNCHANGED result
       ELSE /\ Returns(c, IF wire[c][1] = "refused" THEN "unauthorized" ELSE "ok")
            /\ UNCHANGED force
    /\ UNCHANGED <<token, loginMu, endpoint, held, first, wire, clock, remote, signing>>

\* Mutant: an error is retried like a refusal.
CallFails_Retries(c) ==
    /\ pc[c] = "sending"
    /\ IF force[c] THEN Returns(c, "error") /\ UNCHANGED force
       ELSE /\ pc' = [pc EXCEPT ![c] = "login"]
            /\ force' = [force EXCEPT ![c] = TRUE]
            /\ UNCHANGED result
    /\ UNCHANGED <<token, loginMu, endpoint, held, first, wire, clock, remote, signing>>

\* The request ends in an error of the client, which may well come after the
\* remote has executed it, or before.
CallFails(c) ==
    /\ pc[c] = "sending"
    /\ Returns(c, "error")
    /\ UNCHANGED <<token, loginMu, endpoint, force, held, first, wire, clock, remote, signing>>

-----------------------------------------------------------------------------
(* The remote, the clock and the process. *)

\* The remote accepts the credentials.  It may let only the latest token live.
RemoteLogin(c) ==
    /\ wire[c][1] = "login"
    /\ issued' = issued + 1
    /\ wire' = [wire EXCEPT ![c] = <<"token", issued + 1>>]
    /\ \E others \in {valid, {}} : valid' = others \cup {issued + 1}
    /\ UNCHANGED <<token, loginMu, local, clock, executed, signing>>

\* The remote executes a request that carries a valid token.
RemoteExecutes(c) ==
    /\ wire[c][1] = "request"
    /\ wire[c][2] \in valid
    /\ wire' = [wire EXCEPT ![c] = <<"executed", 0>>]
    /\ executed' = [executed EXCEPT ![c] = @ + 1]
    /\ UNCHANGED <<token, loginMu, local, clock, issued, valid, signing>>

\* It answers 401, or 403, which may have reasons other than the token.
RemoteRefuses(c) ==
    /\ wire[c][1] = "request"
    /\ wire' = [wire EXCEPT ![c] = <<"refused", 0>>]
    /\ UNCHANGED <<token, loginMu, local, clock, remote, signing>>

\* Sessions of the remote expire.
Expire ==
    /\ valid # {}
    /\ valid' = {}
    /\ UNCHANGED <<token, loginMu, local, wire, clock, issued, executed, signing>>

\* The wall clock moves, or is set.
ClockMoves ==
    /\ clock' \in 1..MaxClock \ {clock}
    /\ UNCHANGED <<token, loginMu, local, wire, remote, signing>>

\* The server is restarted: NewService, and the calls of the old process are
\* gone.  Their requests may still reach the remote.
Restart ==
    /\ token' = 0
    /\ loginMu' = "free"
    /\ lastSign' = 0
    /\ pc' = [c \in Calls |-> IF pc[c] = "idle" THEN "idle" ELSE "gone"]
    /\ held' = [c \in Calls |-> 0]
    /\ first' = [c \in Calls |-> 0]
    /\ force' = [c \in Calls |-> FALSE]
    /\ result' = [c \in Calls |-> "none"]
    /\ drawn' = <<>>
    /\ UNCHANGED <<endpoint, wire, clock, remote>>

-----------------------------------------------------------------------------
Caller(c) ==
    \/ CachedLogin(c) \/ PostLogin(c) \/ LoginSucceeds(c) \/ LoginFails(c)
    \/ Send(c) \/ Answered(c) \/ CallFails(c)

Next ==
    \/ \E c \in Calls : Call(c) \/ Caller(c) \/ RemoteLogin(c) \/ RemoteExecutes(c) \/ RemoteRefuses(c)
    \/ Expire \/ ClockMoves \/ Restart

Spec == Init /\ [][Next]_vars

\* The client's timeout ends every request, whatever the remote does, and
\* loginMu is handed to those that wait for it.
Fairness == \A c \in Calls :
    /\ WF_vars(LoginSucceeds(c) \/ LoginFails(c) \/ Send(c) \/ Answered(c) \/ CallFails(c))
    /\ SF_vars(CachedLogin(c) \/ PostLogin(c))

FairSpec == Spec /\ Fairness

-----------------------------------------------------------------------------
(* Properties. *)

\* Every variable has its type; loginMu is free or with a call that posts.
TypeOK ==
    /\ token \in 0..issued
    /\ loginMu \in {c \in Calls : pc[c] = "posting"} \cup {"free"}
    /\ lastSign \in Nat
    /\ pc \in [Calls -> {"idle", "login", "posting", "calling", "sending", "done", "gone"}]
    /\ endpoint \in [Calls -> Endpoint]
    /\ force \in [Calls -> BOOLEAN]
    /\ held \in [Calls -> 0..issued]
    /\ first \in [Calls -> 0..issued]
    /\ result \in [Calls -> {"none", "ok", "unauthorized", "error", "rejected"}]
    /\ wire \in [Calls -> {"none", "login", "token", "request", "executed", "refused"} \X (0..issued)]
    /\ clock \in 1..MaxClock
    /\ issued \in Nat
    /\ valid \in SUBSET (1..issued)
    /\ executed \in [Calls -> Nat]
    /\ drawn \in Seq(Nat)

\* The retry after 401 or 403 never repeats what the remote has already done,
\* whatever is lost or late: a call is executed at most once, exactly once when
\* it returns the answer, and never when it returns that it was refused.
ExecutedOnce ==
    \A c \in Calls :
        /\ executed[c] <= 1
        /\ result[c] = "ok" => executed[c] = 1
        /\ result[c] = "unauthorized" => executed[c] = 0

\* No slow login overwrites the token of a later one: the cached token is never
\* older than one that a call uses.
CacheIsNewest == \A c \in Calls : held[c] <= token

\* A call reports 401 or 403 only after a token that the remote issued after
\* the refusal of the first was refused too: a stale cache alone is not enough.
StaleTokenIsReplaced ==
    \A c \in Calls : result[c] = "unauthorized" => first[c] < held[c]

\* The timestamps that a process signs with strictly increase, however many
\* calls sign within a second and wherever the clock is set.
TimestampsIncrease ==
    \A i, j \in 1..Len(drawn) : i < j => drawn[i] < drawn[j]

\* Every call returns as long as the process lives: loginMu is always released.
CallEnds == \A c \in Calls : pc[c] = "login" ~> pc[c] \in {"done", "gone"}
=============================================================================
