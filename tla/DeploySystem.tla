----------------------------- MODULE DeploySystem -----------------------------
(***************************************************************************)
(* The deployment tools as a whole: requests that pass the HTTP transport, *)
(* the tools that run the script inside the request (deploy_test_service,  *)
(* restart_test_process) beside those of the manager, the script's lock,   *)
(* and servers that drain, die and start again while scripts go on.        *)
(*                                                                         *)
(* Here the manager is its table of unfinished deployments and the script  *)
(* its phases; DeployManager and DeployScript have their details.  Calls   *)
(* that are refused (401, 429, a busy service, an invalid input) change    *)
(* nothing.                                                                *)
(***************************************************************************)
EXTENDS Naturals, FiniteSets

CONSTANTS
    Services,       \* the allowlisted services
    Clients,        \* HTTP clients, with one request at a time
    Authorized,     \* the clients that send a configured bearer token
    Runs,           \* bound: script invocations that are not forgotten
    MaxConcurrent   \* config.MaxConcurrent

ASSUME AuthorizedAssumption == Authorized \subseteq Clients
ASSUME SystemAssumption ==
    /\ MaxConcurrent \in Nat \ {0}
    /\ "none" \notin Runs \cup Clients \cup Services

VARIABLES
    req,        \* the request of a client: idle, running a tool, or answered
    semaphore,  \* the length of the channel in limitConcurrent
    run,        \* script invocations and the goroutines that wait for them
    lock,       \* who has the flock of a service
    server      \* the server process

vars == <<req, semaphore, run, lock, server>>

\* unused: no invocation; spawning: before cmd.Start; starting: before flock;
\* building; changing: the host may be changed; exited, killed: the shell is
\* gone; done: the goroutine has seen its end.
Phase == {"unused", "spawning", "starting", "building", "changing", "exited",
          "killed", "done"}
ShellLives == {"starting", "building", "changing"}
Report == {"none", "succeeded", "compile_failed", "failed", "canceled"}

\* "none" as parent: context.Background, or a server that is gone.
NoRun == [phase |-> "unused", tool |-> "none", service |-> "none", parent |-> "none",
          waited |-> FALSE, ctx |-> "live", marked |-> FALSE, touched |-> FALSE,
          ok |-> FALSE, orphan |-> FALSE, report |-> "none", acked |-> FALSE]

Init ==
    /\ req = [c \in Clients |-> "idle"]
    /\ semaphore = 0
    /\ run = [r \in Runs |-> NoRun]
    /\ lock = [s \in Services |-> "none"]
    /\ server = "serving"

-----------------------------------------------------------------------------
(* The transport. *)

\* parseBearerToken and matchToken: a missing or another token is answered with
\* 401, before limitConcurrent.
authenticate(c) == c \in Authorized

\* A request reaches its tool: it is authenticated and finds a free slot.
Admitted(c) ==
    /\ server = "serving"
    /\ req[c] = "idle"
    /\ authenticate(c)
    /\ semaphore < MaxConcurrent

\* The context of a request ends; so do the contexts derived from it.
CancelChildren(c) ==
    [r \in Runs |-> IF run[r].parent = c /\ run[r].ctx = "live"
                    THEN [run[r] EXCEPT !.ctx = "canceled"] ELSE run[r]]

\* Mutant: only a request whose client waits for it gives its slot back.
Release_IfConnected(c) ==
    semaphore' = IF \E r \in Runs : run[r].parent = c /\ run[r].ctx = "canceled"
                 THEN semaphore ELSE semaphore - 1

\* limitConcurrent's deferred function.
Release(c) == semaphore' = semaphore - 1

\* The handler returns, and net/http cancels the request's context.
Respond(c) ==
    /\ req[c] = "answered"
    /\ req' = [req EXCEPT ![c] = "idle"]
    /\ Release(c)
    /\ run' = [r \in Runs |-> IF run[r].parent = c
                              THEN [CancelChildren(c)[r] EXCEPT !.parent = "none"]
                              ELSE run[r]]
    /\ UNCHANGED <<lock, server>>

\* The client goes away; PropagateRequestCancellation ends the tool's context.
Disconnect(c) ==
    /\ req[c] = "running"
    /\ \E r \in Runs : run[r].parent = c /\ run[r].ctx = "live"
    /\ run' = CancelChildren(c)
    /\ UNCHANGED <<req, semaphore, lock, server>>

-----------------------------------------------------------------------------
(* The tools. *)

\* Mutant: Start derives the deployment's context from the request's.
Parent_Request(tool, c) == c

\* What the context of an invocation derives from: the request, except that of
\* an asynchronous deployment, which is context.Background.
Parent(tool, c) == IF tool = "start" THEN "none" ELSE c

\* A goroutine is about to run the script; the caller takes a slot.
Call(c, r, s, tool, answer) ==
    /\ Admitted(c)
    /\ run[r] = NoRun
    /\ run' = [run EXCEPT ![r] = [NoRun EXCEPT !.phase = "spawning", !.tool = tool,
                                    !.service = s, !.parent = Parent(tool, c),
                                    !.waited = TRUE]]
    /\ req' = [req EXCEPT ![c] = answer]
    /\ semaphore' = semaphore + 1
    /\ UNCHANGED <<lock, server>>

\* deploy_test_service and restart_test_process: the request waits.
Deploy(c, r, s) == Call(c, r, s, "deploy", "running")
Restart(c, r, s) == Call(c, r, s, "restart", "running")

\* start_test_deployment, unless the manager has a deployment of the service.
Start(c, r, s) ==
    /\ \A other \in Runs :
          ~(run[other].tool = "start" /\ run[other].service = s /\ run[other].waited)
    /\ Call(c, r, s, "start", "answered")

\* cancel_test_deployment of a deployment that has not ended.
Cancel(c, r) ==
    /\ Admitted(c)
    /\ run[r].tool = "start" /\ run[r].waited
    /\ run' = [run EXCEPT ![r] =
                 [run[r] EXCEPT !.acked = TRUE,
                                !.ctx = IF @ = "live" THEN "canceled" ELSE @]]
    /\ req' = [req EXCEPT ![c] = "answered"]
    /\ semaphore' = semaphore + 1
    /\ UNCHANGED <<lock, server>>

\* A tool that only reads has been called.
Reads(c, answer) ==
    /\ Admitted(c)
    /\ req' = [req EXCEPT ![c] = answer]
    /\ semaphore' = semaphore + 1
    /\ UNCHANGED <<run, lock, server>>

\* Get, Logs and Recent of the manager read its tasks.
ReadTasks(c) == Reads(c, "answered")

\* ListServices, ListProcesses, Plan and Status run the script, which takes no
\* lock for them, and wait for it.
ReadHost(c) == Reads(c, "running")

ReadHostEnds(c) ==
    /\ req[c] = "running"
    /\ \A r \in Runs : run[r].parent # c
    /\ req' = [req EXCEPT ![c] = "answered"]
    /\ UNCHANGED <<semaphore, run, lock, server>>

\* defaultDeploymentTimeout, which synchronous deployments do not have.
Deadline(r) ==
    /\ run[r].tool = "start" /\ run[r].waited
    /\ run[r].ctx = "live"
    /\ run' = [run EXCEPT ![r].ctx = "deadline"]
    /\ UNCHANGED <<req, semaphore, lock, server>>

-----------------------------------------------------------------------------
(* The script. *)

\* cmd.Start, which fails if the context has ended.
Spawn(r) ==
    /\ run[r].phase = "spawning"
    /\ \E phase \in {"exited"} \cup (IF run[r].ctx = "live" THEN {"starting"} ELSE {}) :
          run' = [run EXCEPT ![r].phase = phase]
    /\ UNCHANGED <<req, semaphore, lock, server>>

\* Mutant: a restart does not take the lock.
TakesLock_NotRestart(r) == run[r].tool # "restart"

\* The actions that open the lock file.
TakesLock(r) == run[r].tool \in {"deploy", "start", "restart"}

\* flock -n: a script that does not get the lock dies.
Lock(r) ==
    LET s == run[r].service
        free == lock[s] = "none" \/ ~TakesLock(r)
    IN  /\ run[r].phase = "starting"
        /\ run' = [run EXCEPT ![r].phase =
                     IF ~free THEN "exited"
                     ELSE IF run[r].tool = "restart" THEN "changing" ELSE "building"]
        /\ lock' = IF free /\ TakesLock(r) THEN [lock EXCEPT ![s] = r] ELSE lock
        /\ UNCHANGED <<req, semaphore, server>>

\* Mutant: the marker is printed once the release is installed.
PrintMarker_Late(r) ==
    /\ run[r].phase = "building"
    /\ run' = [run EXCEPT ![r].phase = "changing"]
    /\ UNCHANGED <<req, semaphore, lock, server>>

\* The build is done: "phase=deploying" comes before anything is changed.
PrintMarker(r) ==
    /\ run[r].phase = "building"
    /\ run' = [run EXCEPT ![r] = [run[r] EXCEPT !.phase = "changing", !.marked = TRUE]]
    /\ UNCHANGED <<req, semaphore, lock, server>>

\* The script changes the target or Supervisor.
Touch(r) ==
    /\ run[r].phase = "changing"
    /\ ~run[r].touched
    /\ run' = [run EXCEPT ![r].touched = TRUE]
    /\ UNCHANGED <<req, semaphore, lock, server>>

Unlock(r) == [s \in Services |-> IF lock[s] = r THEN "none" ELSE lock[s]]

\* The script ends, by itself or by SIGTERM.  Only all of its work is success.
Exit(r) ==
    /\ run[r].phase \in ShellLives
    /\ \E ok \in {FALSE} \cup {run[r].touched} :
          run' = [run EXCEPT ![r] = [run[r] EXCEPT !.phase = "exited", !.ok = ok]]
    /\ lock' = Unlock(r)
    /\ UNCHANGED <<req, semaphore, server>>

\* SIGKILL for the shell, WaitDelay after the context has ended.  A command in
\* progress may go on, and it has inherited the lock.
Kill(r) ==
    /\ run[r].phase \in ShellLives
    /\ run[r].ctx # "live"
    /\ \E left \in {FALSE} \cup {run[r].phase # "starting"} :
          /\ run' = [run EXCEPT ![r] = [run[r] EXCEPT !.phase = "killed", !.orphan = left]]
          /\ lock' = IF left THEN lock ELSE Unlock(r)
    /\ UNCHANGED <<req, semaphore, server>>

OrphanEnds(r) ==
    /\ run[r].orphan
    /\ run' = [run EXCEPT ![r].orphan = FALSE]
    /\ lock' = Unlock(r)
    /\ UNCHANGED <<req, semaphore, server>>

\* What Service.deploy may report; a restart only returns its error.  A script
\* that succeeded counts as failed when the deadline comes before it is reaped,
\* or when a descendant keeps its output open for longer than WaitDelay.
Reports(r) ==
    LET failure == IF run[r].marked \/ run[r].tool = "restart"
                   THEN "failed" ELSE "compile_failed"
    IN  IF run[r].ctx = "canceled" THEN {"canceled"}
        ELSE {failure} \cup (IF run[r].ok THEN {"succeeded"} ELSE {})

\* cmd.Wait has returned: the tool reports, and a waiting request is answered.
Conclude(r) ==
    /\ run[r].phase \in {"exited", "killed"}
    /\ run[r].waited
    /\ \E report \in Reports(r) :
          run' = [run EXCEPT ![r] = [run[r] EXCEPT !.phase = "done", !.report = report,
                                                   !.waited = FALSE]]
    /\ req' = [c \in Clients |->
                 IF c = run[r].parent /\ req[c] = "running" THEN "answered" ELSE req[c]]
    /\ UNCHANGED <<semaphore, lock, server>>

\* An ended invocation that nobody looks at any more; its name is used again.
Forget(r) ==
    /\ run[r].phase \in {"exited", "killed", "done"}
    /\ ~run[r].waited /\ ~run[r].orphan
    /\ run[r].parent = "none"
    /\ run' = [run EXCEPT ![r] = NoRun]
    /\ UNCHANGED <<req, semaphore, lock, server>>

-----------------------------------------------------------------------------
(* The server process. *)

\* SIGTERM or SIGINT: Shutdown lets no request in and waits for the handlers.
BeginShutdown ==
    /\ server = "serving"
    /\ server' = "draining"
    /\ UNCHANGED <<req, semaphore, run, lock>>

\* Shutdown returns nil; the deferred Manager.Close cancels.
Drained ==
    /\ server = "draining"
    /\ \A c \in Clients : req[c] = "idle"
    /\ server' = "closing"
    /\ run' = [r \in Runs |-> IF run[r].waited /\ run[r].ctx = "live"
                              THEN [run[r] EXCEPT !.ctx = "canceled"] ELSE run[r]]
    /\ UNCHANGED <<req, semaphore, lock>>

\* The process ends: Close has returned, or Shutdown or Close timed out, or it
\* is killed.  Nobody waits for the scripts any more, and nobody kills them.
Stop ==
    /\ server # "down"
    /\ server' = "down"
    /\ req' = [c \in Clients |-> "idle"]
    /\ semaphore' = 0
    /\ run' = [r \in Runs |->
                 IF run[r].phase = "spawning" THEN NoRun
                 ELSE [run[r] EXCEPT !.parent = "none", !.waited = FALSE,
                                     !.ctx = "live", !.acked = FALSE]]
    /\ UNCHANGED lock

\* The next process, with an empty manager.
Boot ==
    /\ server = "down"
    /\ server' = "serving"
    /\ UNCHANGED <<req, semaphore, run, lock>>

-----------------------------------------------------------------------------
\* What the script and the goroutine that waits for it do by themselves.
Work(r) ==
    \/ Spawn(r) \/ Lock(r) \/ PrintMarker(r) \/ Touch(r) \/ Exit(r)
    \/ OrphanEnds(r) \/ Conclude(r)

\* The deployment tools that mcpserver registers.
Tools(c) ==
    \/ \E r \in Runs, s \in Services : Deploy(c, r, s) \/ Restart(c, r, s) \/ Start(c, r, s)
    \/ \E r \in Runs : Cancel(c, r)
    \/ ReadTasks(c) \/ ReadHost(c)

Next ==
    \/ \E c \in Clients : Tools(c) \/ ReadHostEnds(c) \/ Respond(c) \/ Disconnect(c)
    \/ \E r \in Runs : Work(r) \/ Kill(r) \/ Deadline(r) \/ Forget(r)
    \/ BeginShutdown \/ Drained \/ Stop \/ Boot

\* Goroutines and handlers are scheduled, and every command of the script ends.
Fairness ==
    /\ \A r \in Runs : WF_vars(Work(r))
    /\ \A c \in Clients : WF_vars(ReadHostEnds(c) \/ Respond(c))

Spec == Init /\ [][Next]_vars /\ Fairness

-----------------------------------------------------------------------------
(* Properties. *)

\* Types of the variables; every request that is not idle has one slot.
TypeOK ==
    /\ req \in [Clients -> {"idle", "running", "answered"}]
    /\ semaphore = Cardinality({c \in Clients : req[c] # "idle"})
    /\ semaphore \in 0..MaxConcurrent
    /\ run \in [Runs -> [phase: Phase, tool: {"none", "deploy", "restart", "start"},
                         service: Services \cup {"none"}, parent: Clients \cup {"none"},
                         waited: BOOLEAN, ctx: {"live", "canceled", "deadline"},
                         marked: BOOLEAN, touched: BOOLEAN, ok: BOOLEAN,
                         orphan: BOOLEAN, report: Report, acked: BOOLEAN]]
    /\ lock \in [Services -> Runs \cup {"none"}]
    /\ server \in {"serving", "draining", "closing", "down"}

\* Works on a service: a script past its lock, or what is left of a killed one.
Works(r) == run[r].phase \in {"building", "changing"} \/ run[r].orphan

\* At most one invocation works on a service, whichever tool of whichever
\* server process started it.  The manager knows neither the synchronous tools
\* nor the scripts of an earlier process: only the script's flock keeps them
\* apart.
OneAtATime ==
    \A r, other \in Runs :
        Works(r) /\ Works(other) /\ run[r].service = run[other].service => r = other

\* A deployment reported as compile_failed ("the old service is not affected")
\* has changed nothing on the host and never will, also when it was refused by
\* the lock, ran into the deadline or lost its shell.
CompileFailedIsHarmless ==
    \A r \in Runs : run[r].report = "compile_failed" =>
        ~run[r].touched /\ run[r].phase # "changing"

\* An asynchronous deployment is only canceled by cancel_test_deployment or by
\* a server that closes: neither the end of the request that started it nor the
\* disconnection of its client reaches it.
JobsOutliveRequests ==
    \A r \in Runs :
        run[r].tool = "start" /\ run[r].ctx = "canceled" /\ run[r].waited =>
            run[r].acked \/ server = "closing"

\* A server whose slots are all taken has a free one again: no request of
\* limitConcurrent, answered or abandoned, keeps its slot for good.
FullServerRecovers == semaphore = MaxConcurrent ~> semaphore < MaxConcurrent
=============================================================================
