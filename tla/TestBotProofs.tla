---------------------------- MODULE TestBotProofs ----------------------------
(***************************************************************************)
(* Proofs about TestBot for any calls, any clock and any number of tokens. *)
(*                                                                         *)
(* loginMu orders the logins, so that the token on the wire is newer than  *)
(* the cached one (Tokens); a call that may still send has not been        *)
(* executed (Requests); the signing timestamp is the greatest one drawn    *)
(* (Signing).                                                              *)
(***************************************************************************)
EXTENDS TestBot, TLAPS

Place == {"idle", "login", "posting", "calling", "sending", "done", "gone"}
Result == {"none", "ok", "unauthorized", "error", "rejected"}
Message == {"none", "login", "token", "request", "executed", "refused"}

\* The types, without the bounds of tokens and the holder of loginMu.
Types ==
    /\ token \in Nat
    /\ issued \in Nat
    /\ loginMu \in Calls \cup {"free"}
    /\ pc \in [Calls -> Place]
    /\ endpoint \in [Calls -> Endpoint]
    /\ force \in [Calls -> BOOLEAN]
    /\ held \in [Calls -> Nat]
    /\ first \in [Calls -> Nat]
    /\ result \in [Calls -> Result]
    /\ wire \in [Calls -> Message \X Nat]
    /\ clock \in 1..MaxClock
    /\ executed \in [Calls -> Nat]

\* loginMu is with the one call that waits for the answer to its login.
Locks == \A c \in Calls : pc[c] = "posting" <=> loginMu = c

\* The tokens of a call: those it holds are not newer than the cached one, the
\* one that its login is about to cache is.
TokensOf(c) ==
    /\ wire[c][2] <= issued
    /\ first[c] <= held[c]
    /\ held[c] <= token
    /\ pc[c] = "posting" /\ wire[c][1] = "token" => token < wire[c][2]
    /\ pc[c] \in {"calling", "sending"} => held[c] # 0
    /\ pc[c] = "sending" \/ force[c] => first[c] # 0
    /\ force[c] /\ pc[c] \in {"calling", "sending"} => first[c] < held[c]
    /\ result[c] = "unauthorized" => first[c] < held[c]

Tokens ==
    /\ token <= issued
    /\ valid \in SUBSET (1..issued)
    /\ \A c \in Calls : TokensOf(c)

\* What the remote has done for a call, by where the call and its message are.
RequestsOf(c) ==
    /\ executed[c] = IF wire[c][1] = "executed" THEN 1 ELSE 0
    /\ pc[c] \in {"idle", "login", "calling"} => wire[c][1] \in {"none", "token", "refused"}
    /\ pc[c] = "posting" => wire[c][1] \in {"login", "token"}
    /\ result[c] # "none" => pc[c] = "done"
    /\ result[c] = "ok" => wire[c][1] = "executed"
    /\ result[c] = "unauthorized" => wire[c][1] = "refused"

Requests == \A c \in Calls : RequestsOf(c)

\* The timestamps drawn are increasing, and the last is Service.lastSignTimestamp.
Signing ==
    /\ lastSign \in Nat
    /\ drawn \in Seq(Nat)
    /\ \A i \in 1..Len(drawn) : drawn[i] <= lastSign
    /\ TimestampsIncrease

Inv == Types /\ Locks /\ Tokens /\ Requests

IInv == Inv /\ Signing

-----------------------------------------------------------------------------
(* Every step keeps the invariant. *)

\* A new process satisfies the invariant.
LEMMA InvInit == Init => IInv
  <1> SUFFICES ASSUME Init PROVE IInv
    OBVIOUS
  <1>1. Types
    BY MaxClockAssumption DEF Init, Types, Place, Result, Message, Endpoint
  <1>2. Locks
    BY CallsAssumption DEF Init, Locks
  <1>3. Tokens
    BY DEF Init, Tokens, TokensOf
  <1>4. Requests
    BY DEF Init, Requests, RequestsOf
  <1>5. Signing
    BY DEF Init, Signing, TimestampsIncrease
  <1> QED
    BY <1>1, <1>2, <1>3, <1>4, <1>5 DEF IInv, Inv

\* A call that is accepted or rejected has no token and has sent nothing.
LEMMA InvCall ==
  ASSUME Inv, NEW c \in Calls, Call(c)
  PROVE  Inv'
  <1>1. /\ pc[c] = "idle"
        /\ UNCHANGED <<token, loginMu, force, held, first, wire, clock, issued, valid, executed>>
    BY DEF Call, remote
  <1>2. \/ /\ pc' = [pc EXCEPT ![c] = "login"] /\ UNCHANGED result
           /\ \E e \in Endpoint : endpoint' = [endpoint EXCEPT ![c] = e]
        \/ /\ pc' = [pc EXCEPT ![c] = "done"] /\ UNCHANGED endpoint
           /\ result' = [result EXCEPT ![c] = "rejected"]
    BY DEF Call, Returns
  <1>3. Types'
    BY <1>1, <1>2 DEF Inv, Types, Place, Result
  <1>4. Locks'
    BY <1>1, <1>2 DEF Inv, Types, Locks
  <1>5. Tokens'
    BY <1>1, <1>2 DEF Inv, Types, Tokens, TokensOf
  <1>6. Requests'
    BY <1>1, <1>2 DEF Inv, Types, Requests, RequestsOf
  <1> QED
    BY <1>3, <1>4, <1>5, <1>6 DEF Inv

\* The cached token is as new as any that a call holds.
LEMMA InvCachedLogin ==
  ASSUME Inv, NEW c \in Calls, CachedLogin(c)
  PROVE  Inv'
  <1>1. Types'
    BY DEF Inv, Types, Place, CachedLogin, Obtains, remote
  <1>2. Locks'
    BY DEF Inv, Types, Locks, CachedLogin, Obtains
  <1>3. Tokens'
    BY DEF Inv, Types, Tokens, TokensOf, CachedLogin, Obtains, remote
  <1>4. Requests'
    BY DEF Inv, Types, Requests, RequestsOf, CachedLogin, Obtains, remote
  <1> QED
    BY <1>1, <1>2, <1>3, <1>4 DEF Inv

\* The call that posts its credentials is alone with loginMu.
LEMMA InvPostLogin ==
  ASSUME Inv, NEW c \in Calls, PostLogin(c)
  PROVE  Inv'
  <1>1. Types'
    BY DEF Inv, Types, Place, Message, PostLogin, remote
  <1>2. Locks'
    BY CallsAssumption DEF Inv, Types, Locks, PostLogin
  <1>3. Tokens'
    BY DEF Inv, Types, Tokens, TokensOf, PostLogin, remote
  <1>4. Requests'
    BY DEF Inv, Types, Requests, RequestsOf, PostLogin, remote
  <1> QED
    BY <1>1, <1>2, <1>3, <1>4 DEF Inv

\* The token that a login caches is newer than the one it replaces.
LEMMA InvLoginSucceeds ==
  ASSUME Inv, NEW c \in Calls, LoginSucceeds(c)
  PROVE  Inv'
  <1>1. Types'
    BY DEF Inv, Types, Place, LoginSucceeds, Obtains, remote
  <1>2. Locks'
    BY CallsAssumption DEF Inv, Types, Locks, LoginSucceeds, Obtains
  <1>3. Tokens'
    BY DEF Inv, Types, Locks, Tokens, TokensOf, LoginSucceeds, Obtains, remote
  <1>4. Requests'
    BY DEF Inv, Types, Requests, RequestsOf, LoginSucceeds, Obtains, remote
  <1> QED
    BY <1>1, <1>2, <1>3, <1>4 DEF Inv

\* A login that fails leaves the cached token and frees loginMu.
LEMMA InvLoginFails ==
  ASSUME Inv, NEW c \in Calls, LoginFails(c)
  PROVE  Inv'
  <1>1. Types'
    BY DEF Inv, Types, Place, Result, LoginFails, Returns, remote
  <1>2. Locks'
    BY CallsAssumption DEF Inv, Types, Locks, LoginFails, Returns
  <1>3. Tokens'
    BY DEF Inv, Types, Tokens, TokensOf, LoginFails, Returns, remote
  <1>4. Requests'
    BY DEF Inv, Types, Requests, RequestsOf, LoginFails, Returns, remote
  <1> QED
    BY <1>1, <1>2, <1>3, <1>4 DEF Inv

\* A call that sends has not been executed before.
LEMMA InvSend ==
  ASSUME Inv, NEW c \in Calls, Send(c)
  PROVE  Inv'
  <1>1. /\ pc[c] = "calling"
        /\ UNCHANGED <<token, loginMu, endpoint, force, held, clock, issued, valid, executed>>
    BY DEF Send, remote
  <1>2. CASE Encodes(c)
    <2>1. /\ pc' = [pc EXCEPT ![c] = "sending"]
          /\ wire' = [wire EXCEPT ![c] = <<"request", held[c]>>]
          /\ first' = IF first[c] = 0 THEN [first EXCEPT ![c] = held[c]] ELSE first
          /\ UNCHANGED result
      BY <1>2 DEF Send
    <2>2. /\ wire'[c][1] = "request" /\ wire'[c][2] = held[c] /\ held[c] <= issued
          /\ \A d \in Calls : d # c => wire'[d] = wire[d]
      BY <2>1 DEF Inv, Types, Tokens, TokensOf
    <2>3. Types'
      BY <1>1, <2>1 DEF Inv, Types, Place, Message
    <2>4. Locks'
      BY <1>1, <2>1 DEF Inv, Types, Locks
    <2>5. Tokens'
      <3>1. /\ first'[c] = IF first[c] = 0 THEN held[c] ELSE first[c]
            /\ \A d \in Calls : d # c => first'[d] = first[d] /\ pc'[d] = pc[d]
            /\ pc'[c] = "sending"
        BY <2>1 DEF Inv, Types
      <3>2. ASSUME NEW d \in Calls, d # c PROVE TokensOf(d)'
        BY <1>1, <2>1, <3>2 DEF Inv, Tokens, TokensOf
      <3>3. result[c] = "none" /\ held[c] \in Nat /\ first[c] \in Nat
        BY <1>1 DEF Inv, Types, Requests, RequestsOf
      <3>4. TokensOf(c)'
        BY <1>1, <2>1, <2>2, <3>1, <3>3 DEF Inv, Tokens, TokensOf
      <3> QED
        BY <1>1, <3>2, <3>4 DEF Inv, Tokens
    <2>6. Requests'
      BY <1>1, <2>1 DEF Inv, Types, Requests, RequestsOf
    <2> QED
      BY <2>3, <2>4, <2>5, <2>6 DEF Inv
  <1>3. CASE ~Encodes(c)
    <2>1. /\ pc' = [pc EXCEPT ![c] = "done"]
          /\ result' = [result EXCEPT ![c] = "error"]
          /\ UNCHANGED <<wire, first>>
      BY <1>3 DEF Send, Returns
    <2>2. Types'
      BY <1>1, <2>1 DEF Inv, Types, Place, Result
    <2>3. Locks'
      BY <1>1, <2>1 DEF Inv, Types, Locks
    <2>4. Tokens'
      BY <1>1, <2>1 DEF Inv, Types, Tokens, TokensOf
    <2>5. Requests'
      BY <1>1, <2>1 DEF Inv, Types, Requests, RequestsOf
    <2> QED
      BY <2>2, <2>3, <2>4, <2>5 DEF Inv
  <1> QED
    BY <1>2, <1>3

\* A call that was refused may retry: the remote has not executed it.
LEMMA InvAnswered ==
  ASSUME Inv, NEW c \in Calls, Answered(c)
  PROVE  Inv'
  <1>1. Types'
    BY DEF Inv, Types, Place, Result, Answered, Returns, remote
  <1>2. Locks'
    BY DEF Inv, Types, Locks, Answered, Returns
  <1>3. Tokens'
    BY DEF Inv, Types, Tokens, TokensOf, Answered, Returns, remote
  <1>4. Requests'
    BY DEF Inv, Types, Requests, RequestsOf, Answered, Returns, remote
  <1> QED
    BY <1>1, <1>2, <1>3, <1>4 DEF Inv

\* A call that fails does not retry.
LEMMA InvCallFails ==
  ASSUME Inv, NEW c \in Calls, CallFails(c)
  PROVE  Inv'
  <1>1. Types'
    BY DEF Inv, Types, Place, Result, CallFails, Returns, remote
  <1>2. Locks'
    BY DEF Inv, Types, Locks, CallFails, Returns
  <1>3. Tokens'
    BY DEF Inv, Types, Tokens, TokensOf, CallFails, Returns, remote
  <1>4. Requests'
    BY DEF Inv, Types, Requests, RequestsOf, CallFails, Returns, remote
  <1> QED
    BY <1>1, <1>2, <1>3, <1>4 DEF Inv

\* The remote issues a token newer than every other.
LEMMA InvRemoteLogin ==
  ASSUME Inv, NEW c \in Calls, RemoteLogin(c)
  PROVE  Inv'
  <1>1. Types'
    BY DEF Inv, Types, Message, RemoteLogin, local
  <1>2. Locks'
    BY DEF Inv, Types, Locks, RemoteLogin, local
  <1>3. Tokens'
    <2>1. /\ issued' = issued + 1
          /\ wire'[c][1] = "token" /\ wire'[c][2] = issued + 1
          /\ \A d \in Calls : d # c => wire'[d] = wire[d]
          /\ UNCHANGED <<token, pc, force, held, first, result>>
      BY DEF Inv, Types, RemoteLogin, local
    <2>2. token' <= issued'
      BY <2>1 DEF Inv, Types, Tokens
    <2>3. valid' \in SUBSET (1..issued')
      <3>1. valid' \subseteq valid \cup {issued + 1}
        BY DEF RemoteLogin
      <3>2. issued \in Nat /\ valid \subseteq 1..issued
        BY DEF Inv, Types, Tokens
      <3>3. 1..issued \cup {issued + 1} \subseteq 1..(issued + 1)
        BY <3>2
      <3> QED
        BY <2>1, <3>1, <3>2, <3>3
    <2>4. ASSUME NEW d \in Calls PROVE TokensOf(d)'
      BY <2>1 DEF Inv, Types, Tokens, TokensOf
    <2> QED
      BY <2>2, <2>3, <2>4 DEF Tokens
  <1>4. Requests'
    BY DEF Inv, Types, Requests, RequestsOf, RemoteLogin, local
  <1> QED
    BY <1>1, <1>2, <1>3, <1>4 DEF Inv

\* The remote executes a request that it has not executed before.
LEMMA InvRemoteExecutes ==
  ASSUME Inv, NEW c \in Calls, RemoteExecutes(c)
  PROVE  Inv'
  <1>1. Types'
    BY DEF Inv, Types, Message, RemoteExecutes, local
  <1>2. Locks'
    BY DEF Inv, Types, Locks, RemoteExecutes, local
  <1>3. Tokens'
    BY DEF Inv, Types, Tokens, TokensOf, RemoteExecutes, local
  <1>4. Requests'
    BY DEF Inv, Types, Requests, RequestsOf, RemoteExecutes, local
  <1> QED
    BY <1>1, <1>2, <1>3, <1>4 DEF Inv

\* A refusal leaves the call unexecuted.
LEMMA InvRemoteRefuses ==
  ASSUME Inv, NEW c \in Calls, RemoteRefuses(c)
  PROVE  Inv'
  <1>1. Types'
    BY DEF Inv, Types, Message, RemoteRefuses, local, remote
  <1>2. Locks'
    BY DEF Inv, Types, Locks, RemoteRefuses, local
  <1>3. Tokens'
    BY DEF Inv, Types, Tokens, TokensOf, RemoteRefuses, local, remote
  <1>4. Requests'
    BY DEF Inv, Types, Requests, RequestsOf, RemoteRefuses, local, remote
  <1> QED
    BY <1>1, <1>2, <1>3, <1>4 DEF Inv

\* That tokens expire changes nothing that the calls know.
LEMMA InvExpire ==
  ASSUME Inv, Expire
  PROVE  Inv'
  <1>1. Types'
    BY DEF Inv, Types, Expire, local
  <1>2. Locks'
    BY DEF Inv, Types, Locks, Expire, local
  <1>3. Tokens'
    BY DEF Inv, Types, Tokens, TokensOf, Expire, local
  <1>4. Requests'
    BY DEF Inv, Types, Requests, RequestsOf, Expire, local
  <1> QED
    BY <1>1, <1>2, <1>3, <1>4 DEF Inv

\* Neither does the clock.
LEMMA InvClockMoves ==
  ASSUME Inv, ClockMoves
  PROVE  Inv'
  <1>1. Types'
    BY DEF Inv, Types, ClockMoves, local, remote
  <1>2. Locks'
    BY DEF Inv, Types, Locks, ClockMoves, local
  <1>3. Tokens'
    BY DEF Inv, Types, Tokens, TokensOf, ClockMoves, local, remote
  <1>4. Requests'
    BY DEF Inv, Types, Requests, RequestsOf, ClockMoves, local, remote
  <1> QED
    BY <1>1, <1>2, <1>3, <1>4 DEF Inv

\* A restart forgets the calls and the tokens, and what the remote did stays.
LEMMA InvRestart ==
  ASSUME Inv, Restart
  PROVE  Inv'
  <1>1. Types'
    BY DEF Inv, Types, Place, Result, Restart, remote
  <1>2. Locks'
    BY CallsAssumption DEF Locks, Restart
  <1>3. Tokens'
    BY DEF Inv, Types, Tokens, TokensOf, Restart, remote
  <1>4. Requests'
    BY DEF Inv, Types, Requests, RequestsOf, Restart, remote
  <1> QED
    BY <1>1, <1>2, <1>3, <1>4 DEF Inv

\* A signature draws a timestamp after every earlier one of the process.
LEMMA SigningSend ==
  ASSUME Types, Signing, NEW c \in Calls, Send(c)
  PROVE  Signing'
  <1>1. CASE ~endpoint[c].signed
    BY <1>1 DEF Send, Signing, TimestampsIncrease
  <1>2. CASE endpoint[c].signed
    <2>1. NextTimestamp \in Nat /\ lastSign < NextTimestamp
      BY DEF Types, Signing, NextTimestamp
    <2>2. lastSign' = NextTimestamp /\ drawn' = Append(drawn, NextTimestamp)
      BY <1>2 DEF Send
    <2>3. /\ drawn' \in Seq(Nat) /\ Len(drawn') = Len(drawn) + 1
          /\ drawn'[Len(drawn) + 1] = lastSign'
          /\ \A i \in 1..Len(drawn) : drawn'[i] = drawn[i]
      BY <2>1, <2>2 DEF Signing
    <2>4. \A i \in 1..Len(drawn') : drawn'[i] <= lastSign'
      BY <2>1, <2>2 DEF Signing
    <2>5. TimestampsIncrease'
      <3> SUFFICES ASSUME NEW i \in 1..Len(drawn'), NEW j \in 1..Len(drawn'), i < j
                   PROVE  drawn'[i] < drawn'[j]
        BY DEF TimestampsIncrease
      <3>1. Len(drawn) \in Nat /\ i \in 1..Len(drawn)
        BY <2>3 DEF Signing
      <3>2. CASE j \in 1..Len(drawn)
        BY <2>3, <3>1, <3>2 DEF Signing, TimestampsIncrease
      <3>3. CASE j = Len(drawn) + 1
        <4>1. drawn'[i] \in Nat /\ drawn'[i] <= lastSign /\ drawn'[j] = NextTimestamp
          BY <2>2, <2>3, <3>1, <3>3 DEF Signing
        <4> QED
          BY <2>1, <4>1 DEF Signing
      <3> QED
        BY <2>3, <3>1, <3>2, <3>3
    <2> QED
      BY <2>3, <2>4, <2>5 DEF Signing
  <1> QED
    BY <1>1, <1>2

\* IInv is an invariant of the service and its remote.
THEOREM Invariant == Spec => []IInv
  <1>1. IInv /\ [Next]_vars => IInv'
    <2> SUFFICES ASSUME IInv, [Next]_vars PROVE IInv'
      OBVIOUS
    <2> USE DEF IInv
    <2>1. CASE UNCHANGED vars
      <3>1. Types' /\ Locks'
        BY <2>1 DEF Inv, Types, Locks, vars, local, remote
      <3>2. Tokens' /\ Requests'
        BY <2>1 DEF Inv, Types, Tokens, TokensOf, Requests, RequestsOf, vars, local, remote
      <3>3. Signing'
        BY <2>1 DEF Signing, TimestampsIncrease, vars, signing
      <3> QED
        BY <3>1, <3>2, <3>3 DEF Inv
    <2>2. CASE \E c \in Calls : Send(c)
      BY <2>2, InvSend, SigningSend DEF Inv
    <2>3. CASE Restart
      <3>1. Signing'
        BY <2>3 DEF Restart, Signing, TimestampsIncrease
      <3> QED
        BY <2>3, <3>1, InvRestart
    <2>4. CASE \/ Expire \/ ClockMoves
               \/ \E c \in Calls :
                     \/ Call(c) \/ CachedLogin(c) \/ PostLogin(c) \/ LoginSucceeds(c)
                     \/ LoginFails(c) \/ Answered(c) \/ CallFails(c)
                     \/ RemoteLogin(c) \/ RemoteExecutes(c) \/ RemoteRefuses(c)
      <3>1. Inv'
        BY <2>4, InvExpire, InvClockMoves, InvCall, InvCachedLogin, InvPostLogin,
           InvLoginSucceeds, InvLoginFails, InvAnswered, InvCallFails, InvRemoteLogin,
           InvRemoteExecutes, InvRemoteRefuses
      <3>2. UNCHANGED signing
        BY <2>4 DEF Expire, ClockMoves, Call, CachedLogin, PostLogin, LoginSucceeds,
           LoginFails, Answered, CallFails, RemoteLogin, RemoteExecutes, RemoteRefuses
      <3> QED
        BY <3>1, <3>2 DEF Signing, TimestampsIncrease, signing
    <2> QED
      BY <2>1, <2>2, <2>3, <2>4 DEF Next, Caller
  <1> QED
    BY InvInit, <1>1, PTL DEF Spec

-----------------------------------------------------------------------------
(* What follows from the invariant. *)

\* Every variable has its type: no token is one that the remote has not issued,
\* and loginMu is with a call that waits for its login.
THEOREM TypeCorrect == Spec => []TypeOK
  <1>1. IInv => TypeOK
    <2> SUFFICES ASSUME IInv PROVE TypeOK
      OBVIOUS
    <2>1. /\ token \in 0..issued
          /\ held \in [Calls -> 0..issued]
          /\ first \in [Calls -> 0..issued]
      BY DEF IInv, Inv, Types, Tokens, TokensOf
    <2>2. wire \in [Calls -> Message \X (0..issued)]
      BY DEF IInv, Inv, Types, Tokens, TokensOf
    <2>3. loginMu \in {c \in Calls : pc[c] = "posting"} \cup {"free"}
      BY DEF IInv, Inv, Types, Locks
    <2> QED
      BY <2>1, <2>2, <2>3 DEF IInv, Inv, Types, Tokens, Signing, TypeOK, Place,
         Result, Message
  <1> QED
    BY Invariant, <1>1, PTL

\* Whatever is lost, late or refused, Call never has a request executed twice,
\* and what it returns agrees with what the remote did.
THEOREM RetryIsSafe == Spec => []ExecutedOnce
  <1>1. IInv => ExecutedOnce
    <2> SUFFICES ASSUME IInv, NEW c \in Calls
                 PROVE  /\ executed[c] <= 1
                        /\ result[c] = "ok" => executed[c] = 1
                        /\ result[c] = "unauthorized" => executed[c] = 0
      BY DEF ExecutedOnce
    <2>1. RequestsOf(c)
      BY DEF IInv, Inv, Requests
    <2> QED
      BY <2>1 DEF RequestsOf
  <1> QED
    BY Invariant, <1>1, PTL

\* Service.token is never replaced by an older token.
THEOREM CacheMovesForward == Spec => []CacheIsNewest
  <1>1. IInv => CacheIsNewest
    BY DEF IInv, Inv, Tokens, TokensOf, CacheIsNewest
  <1> QED
    BY Invariant, <1>1, PTL

\* A call gives up with 401 or 403 only when a newer token was refused as well.
THEOREM RefusedTwice == Spec => []StaleTokenIsReplaced
  <1>1. IInv => StaleTokenIsReplaced
    BY DEF IInv, Inv, Tokens, TokensOf, StaleTokenIsReplaced
  <1> QED
    BY Invariant, <1>1, PTL

\* No two signatures of a process share a timestamp, and they never go back.
THEOREM SignaturesAdvance == Spec => []TimestampsIncrease
  <1>1. IInv => TimestampsIncrease
    BY DEF IInv, Signing
  <1> QED
    BY Invariant, <1>1, PTL
=============================================================================
