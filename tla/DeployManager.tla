---------------------------- MODULE DeployManager ----------------------------
(***************************************************************************)
(* The asynchronous deployment manager of internal/testdeploy: the task    *)
(* table of Manager, the goroutine that Start launches for every task      *)
(* (Manager.run, Service.deploy, commandRunner.Run), and the life of the   *)
(* server process around them (main, runHTTP, Manager.Close).              *)
(*                                                                         *)
(* One action is one critical section of m.mu, or one step of a goroutine  *)
(* between two points at which another goroutine can observe it.  The      *)
(* deployment script is external here: it prints its phase marker, exits   *)
(* with or without success, or is killed.  What it does to the host is the *)
(* subject of DeployScript.                                                *)
(***************************************************************************)
EXTENDS Naturals, Sequences

CONSTANTS
    Services,  \* the allowlisted services
    Ids,       \* deployment IDs; each is drawn at most once (64 random bits)
    Limit      \* Manager.limit, defaultHistoryLimit = 50 in the code

ASSUME LimitAssumption == Limit \in Nat \ {0}
ASSUME ServicesAssumption == Services # {}

VARIABLES
    tasks,      \* the keys of Manager.tasks
    task,       \* the managedTask of every ID
    order,      \* Manager.order
    pc,         \* where the goroutine of an ID is
    ctx,        \* what ctx.Err() says; the first reason is kept
    script,     \* the leader of the script's process group
    marked,     \* the script has printed "phase=deploying"
    deploying,  \* the local "deploying" of Service.deploy
    err,        \* the command returned an error
    event,      \* the local "status" of Service.deploy
    server,     \* the server process
    acked       \* history: IDs whose Cancel call returned Canceled: true

goroutine == <<pc, ctx, deploying, err, event>>
vars == <<tasks, task, order, goroutine, script, marked, server, acked>>

Terminal == {"succeeded", "compile_failed", "failed", "canceled"}
Status == {"compiling", "deploying"} \cup Terminal
None == ""

Task == [service: Services, status: Status, finalStatus: Terminal \cup {None},
         cancel: BOOLEAN, slack: SUBSET Status]

\* Places of a goroutine at which m.run is still to store a final status.
Working == {"notifying", "spawning", "running", "collecting", "concluding",
            "reporting", "finishing"}
\* "starting": Start has unlocked m.mu but has not called wg.Add yet.
PC == {"unused", "starting", "done", "gone"} \cup Working

\* "exited" covers every end of the process but Close returning nil.
Server == {"serving", "draining", "closing", "waiting", "closed", "exited"}

isTerminal(status) == status \in Terminal

Live(id) == pc[id] \in Working \cup {"starting"}

\* Mutants: Close does not wait; run does not call wg.Done.
wgIsZero_NoWait == TRUE
wgIsZero_NoDone == \A id \in Ids : pc[id] \notin Working \cup {"done"}

\* The counter of Manager.wg is zero.  Start calls Add(1) after it has unlocked.
wgIsZero == \A id \in Ids : pc[id] \notin Working

\* The process runs and its handlers may still be executing.
Handling == server \in {"serving", "draining"}
Running == server \notin {"closed", "exited"}

-----------------------------------------------------------------------------
\* Mutant: the zero value of the status.
NewTask_NoStatus(s) == [service |-> s, status |-> None, finalStatus |-> None,
                        cancel |-> TRUE, slack |-> {}]

NewTask(s) == [service |-> s, status |-> "compiling", finalStatus |-> None,
               cancel |-> TRUE, slack |-> {}]

\* The table entry of an ID that has no task; its service is of no consequence.
AnyService == CHOOSE s \in Services : TRUE
NoTasks == [id \in Ids |-> NewTask(AnyService)]

Init ==
    /\ tasks = {}
    /\ task = NoTasks
    /\ order = <<>>
    /\ pc = [id \in Ids |-> "unused"]
    /\ ctx = [id \in Ids |-> "live"]
    /\ script = [id \in Ids |-> "none"]
    /\ marked = [id \in Ids |-> FALSE]
    /\ deploying = [id \in Ids |-> FALSE]
    /\ err = [id \in Ids |-> FALSE]
    /\ event = [id \in Ids |-> None]
    /\ server = "serving"
    /\ acked = {}

\* Mutants: only a compiling task refuses; a canceled one no longer does.
ServiceIsFree_Compiling(s) ==
    \A id \in tasks : task[id].service = s => task[id].status # "compiling"
ServiceIsFree_Canceled(s) ==
    \A id \in tasks : task[id].service = s => isTerminal(task[id].status) \/ ctx[id] # "live"

\* Start refuses a service that has a task in a non-terminal status.
ServiceIsFree(s) ==
    \A id \in tasks : task[id].service = s => isTerminal(task[id].status)

\* Mutants: running tasks are pruned too; one task too many is kept.
Prunes_Running(k, o, known, t) ==
    /\ \A i \in 1..k : Len(o) - i + 1 > Limit
    /\ Len(o) - k <= Limit
Prunes_OneMore(k, o, known, t) ==
    LET droppable(i) == o[i] \notin known \/ isTerminal(t[o[i]].status)
    IN  /\ \A i \in 1..k : Len(o) - i > Limit /\ droppable(i)
        /\ \/ Len(o) - k <= Limit + 1
           \/ ~droppable(k + 1)

\* pruneLocked drops the k oldest entries of o: it goes on while the history
\* is over the limit and stops at a head that is still running.
Prunes(k, o, known, t) ==
    LET droppable(i) == o[i] \notin known \/ isTerminal(t[o[i]].status)
    IN  /\ \A i \in 1..k : Len(o) - i + 1 > Limit /\ droppable(i)
        /\ \/ Len(o) - k <= Limit
           \/ ~droppable(k + 1)

\* Manager.Start up to m.mu.Unlock.  A refused Start changes nothing.
Start(id, s) ==
    LET t == [task EXCEPT ![id] = NewTask(s)]
        o == Append(order, id)
        known == tasks \cup {id}
    IN  /\ Handling
        /\ pc[id] = "unused"
        /\ ServiceIsFree(s)
        /\ task' = t
        /\ \E k \in 0..Len(order) :
              /\ Prunes(k, o, known, t)
              /\ order' = SubSeq(o, k + 1, Len(o))
              /\ tasks' = known \ {o[i] : i \in 1..k}
        /\ pc' = [pc EXCEPT ![id] = "starting"]
        /\ UNCHANGED <<ctx, deploying, err, event, script, marked, server, acked>>

\* The rest of Start: wg.Add(1) and the go statement.
Launch(id) ==
    /\ Running
    /\ pc[id] = "starting"
    /\ pc' = [pc EXCEPT ![id] = "notifying"]
    /\ UNCHANGED <<tasks, task, order, ctx, deploying, err, event, script,
                   marked, server, acked>>

\* context.CancelFunc: the first reason for which a context ends is kept.
Canceled(ids) ==
    [id \in Ids |-> IF id \in ids /\ ctx[id] = "live" THEN "canceled" ELSE ctx[id]]

\* Manager.Cancel of a task that is not terminal.  The other two outcomes (no
\* such task, Canceled: false) change nothing.
Cancel(id) ==
    /\ Handling
    /\ id \in tasks
    /\ ~isTerminal(task[id].status)
    /\ ctx' = Canceled({id})
    /\ acked' = acked \cup {id}
    /\ UNCHANGED <<tasks, task, order, pc, deploying, err, event, script,
                   marked, server>>

\* defaultDeploymentTimeout expires.
Timeout(id) ==
    /\ Running
    /\ Live(id)
    /\ ctx[id] = "live"
    /\ ctx' = [ctx EXCEPT ![id] = "deadline"]
    /\ UNCHANGED <<tasks, task, order, pc, deploying, err, event, script,
                   marked, server, acked>>

-----------------------------------------------------------------------------
(* The goroutine of a task. *)

\* Mutant: the observer stores a terminal status as the status.
Observed_Status(id, e) ==
    IF id \in tasks
    THEN [task EXCEPT ![id] =
            [task[id] EXCEPT !.slack = @ \cup {e}, !.status = e,
                             !.finalStatus = IF isTerminal(e) THEN e ELSE @]]
    ELSE task

\* The observer that run hands to deploy, called once the Slack call for e has
\* returned, whatever it returned.
Observed(id, e) ==
    IF id \in tasks
    THEN [task EXCEPT ![id] =
            [task[id] EXCEPT
               !.slack = @ \cup {e},
               !.status = IF e \in {"compiling", "deploying"} THEN e ELSE @,
               !.finalStatus = IF isTerminal(e) THEN e ELSE @]]
    ELSE task

\* deploy reports "compiling".
NotifyCompiling(id) ==
    /\ Running
    /\ pc[id] = "notifying"
    /\ task' = Observed(id, "compiling")
    /\ pc' = [pc EXCEPT ![id] = "spawning"]
    /\ UNCHANGED <<tasks, order, ctx, deploying, err, event, script, marked,
                   server, acked>>

\* cmd.Start of a context that is still live runs the script.
Spawn(id) ==
    /\ Running
    /\ pc[id] = "spawning"
    /\ ctx[id] = "live"
    /\ script' = [script EXCEPT ![id] = "running"]
    /\ pc' = [pc EXCEPT ![id] = "running"]
    /\ UNCHANGED <<tasks, task, order, ctx, deploying, err, event, marked,
                   server, acked>>

\* cmd.Start returns the error of a context that has ended, or of the exec.
SpawnFails(id) ==
    /\ Running
    /\ pc[id] = "spawning"
    /\ err' = [err EXCEPT ![id] = TRUE]
    /\ pc' = [pc EXCEPT ![id] = "concluding"]
    /\ UNCHANGED <<tasks, task, order, ctx, deploying, event, script, marked,
                   server, acked>>

\* commandOutputCapture.Write finds the marker; the callback notifies and
\* observes inside the goroutine that copies the script's output.
ObserveMarker(id) ==
    /\ Running
    /\ pc[id] \in {"running", "collecting"}
    /\ marked[id] /\ ~deploying[id]
    /\ deploying' = [deploying EXCEPT ![id] = TRUE]
    /\ task' = Observed(id, "deploying")
    /\ UNCHANGED <<tasks, order, pc, ctx, err, event, script, marked, server,
                   acked>>

\* Mutant: cmd.WaitDelay is not set.
KillScript_NoWaitDelay(id) == FALSE

\* WaitDelay after ctx is done, the script's leader gets SIGKILL.
KillScript(id) ==
    /\ Running
    /\ pc[id] = "running"
    /\ ctx[id] # "live"
    /\ script[id] = "running"
    /\ script' = [script EXCEPT ![id] = "killed"]
    /\ UNCHANGED <<tasks, task, order, goroutine, marked, server, acked>>

\* cmd.Wait reaps the script.  Cancel swallows ESRCH, so a context that ended
\* before this point is an error even if the script succeeded.
Reap(id) ==
    /\ Running
    /\ pc[id] = "running"
    /\ script[id] \in {"ok", "failed", "killed"}
    /\ err' = [err EXCEPT ![id] = script[id] # "ok" \/ ctx[id] # "live"]
    /\ pc' = [pc EXCEPT ![id] = "collecting"]
    /\ UNCHANGED <<tasks, task, order, ctx, deploying, event, script, marked,
                   server, acked>>

\* Mutant: the output is read by a goroutine that nobody waits for.
Collect_NoWait(id) ==
    /\ Running
    /\ pc[id] = "collecting"
    /\ pc' = [pc EXCEPT ![id] = "concluding"]
    /\ UNCHANGED <<tasks, task, order, ctx, deploying, err, event, script,
                   marked, server, acked>>

\* cmd.Wait returns: the copying goroutine, and with it the marker's callback,
\* has ended.  An output pipe that a descendant of the script keeps open is
\* closed after WaitDelay, which is an error too.  The copying goroutine is
\* taken to read a marker within the WaitDelay that it has for it.
Collect(id) ==
    /\ Running
    /\ pc[id] = "collecting"
    /\ marked[id] => deploying[id]
    /\ \E overrun \in BOOLEAN : err' = [err EXCEPT ![id] = @ \/ overrun]
    /\ pc' = [pc EXCEPT ![id] = "concluding"]
    /\ UNCHANGED <<tasks, task, order, ctx, deploying, event, script, marked,
                   server, acked>>

\* deploy decides which terminal status to report.
Conclude(id) ==
    /\ Running
    /\ pc[id] = "concluding"
    /\ event' = [event EXCEPT ![id] =
                   IF ctx[id] = "canceled" THEN "canceled"
                   ELSE IF ~err[id] THEN "succeeded"
                   ELSE IF deploying[id] THEN "failed" ELSE "compile_failed"]
    /\ pc' = [pc EXCEPT ![id] = "reporting"]
    /\ UNCHANGED <<tasks, task, order, ctx, deploying, err, script, marked,
                   server, acked>>

\* deploy reports the terminal status.
Report(id) ==
    /\ Running
    /\ pc[id] = "reporting"
    /\ task' = Observed(id, event[id])
    /\ pc' = [pc EXCEPT ![id] = "finishing"]
    /\ UNCHANGED <<tasks, order, ctx, deploying, err, event, script, marked,
                   server, acked>>

\* Mutants: the reported status is not used; every ended context is canceled;
\* the context is not looked at.
FinalStatus_NotReported(id) ==
    IF ctx[id] = "canceled" THEN "canceled"
    ELSE IF ~err[id] THEN "succeeded" ELSE task[id].status
FinalStatus_AnyEnd(id) ==
    IF ctx[id] # "live" THEN "canceled"
    ELSE IF ~err[id] THEN "succeeded" ELSE task[id].finalStatus
FinalStatus_NoContext(id) ==
    IF ~err[id] THEN "succeeded" ELSE task[id].finalStatus

\* The status that the last critical section of run stores.
FinalStatus(id) ==
    IF ctx[id] = "canceled" THEN "canceled"
    ELSE IF ~err[id] THEN "succeeded"
    ELSE IF task[id].finalStatus # None THEN task[id].finalStatus
    ELSE task[id].status

\* Mutant: a finished task is deleted from tasks but not from order.
Finish_Deletes(id) ==
    /\ Running
    /\ pc[id] = "finishing"
    /\ tasks' = tasks \ {id}
    /\ pc' = [pc EXCEPT ![id] = "done"]
    /\ UNCHANGED <<task, order, ctx, deploying, err, event, script, marked,
                   server, acked>>

\* The last critical section of run, and wg.Done.
Finish(id) ==
    /\ Running
    /\ pc[id] = "finishing"
    /\ task' = IF id \in tasks
               THEN [task EXCEPT ![id] =
                       [task[id] EXCEPT !.status = FinalStatus(id), !.cancel = FALSE]]
               ELSE task
    /\ pc' = [pc EXCEPT ![id] = "done"]
    /\ UNCHANGED <<tasks, order, ctx, deploying, err, event, script, marked,
                   server, acked>>

-----------------------------------------------------------------------------
(* The script, which outlives the server when the server dies first. *)

PrintMarker(id) ==
    /\ script[id] = "running"
    /\ ~marked[id]
    /\ marked' = [marked EXCEPT ![id] = TRUE]
    /\ UNCHANGED <<tasks, task, order, goroutine, script, server, acked>>

\* Success is only possible past the marker.
ExitScript(id) ==
    /\ script[id] = "running"
    /\ \E result \in {"failed"} \cup (IF marked[id] THEN {"ok"} ELSE {}) :
          script' = [script EXCEPT ![id] = result]
    /\ UNCHANGED <<tasks, task, order, goroutine, marked, server, acked>>

-----------------------------------------------------------------------------
(* The server process. *)

\* SIGTERM or SIGINT: runHTTP calls httpServer.Shutdown.
BeginShutdown ==
    /\ server = "serving"
    /\ server' = "draining"
    /\ UNCHANGED <<tasks, task, order, goroutine, script, marked, acked>>

\* Shutdown returns nil once no handler runs; main's deferred Close begins.
Drained ==
    /\ server = "draining"
    /\ \A id \in Ids : pc[id] # "starting"
    /\ server' = "closing"
    /\ UNCHANGED <<tasks, task, order, goroutine, script, marked, acked>>

\* Manager.Close under m.mu: cancel every task that still runs.
CloseCancels ==
    /\ server = "closing"
    /\ ctx' = Canceled({id \in tasks : ~isTerminal(task[id].status) /\ task[id].cancel})
    /\ server' = "waiting"
    /\ UNCHANGED <<tasks, task, order, pc, deploying, err, event, script,
                   marked, acked>>

\* wg.Wait returns, Close returns nil and main returns.
CloseReturns ==
    /\ server = "waiting"
    /\ wgIsZero
    /\ server' = "closed"
    /\ UNCHANGED <<tasks, task, order, goroutine, script, marked, acked>>

\* The memory of the process is lost: every goroutine and the whole Manager.
Forget ==
    /\ pc' = [id \in Ids |-> IF pc[id] = "unused" THEN "unused" ELSE "gone"]
    /\ tasks' = {}
    /\ order' = <<>>
    /\ task' = NoTasks
    /\ ctx' = [id \in Ids |-> "live"]
    /\ deploying' = [id \in Ids |-> FALSE]
    /\ err' = [id \in Ids |-> FALSE]
    /\ event' = [id \in Ids |-> None]
    /\ acked' = {}

\* Every other end of the process: Shutdown times out and logger.Fatal skips
\* the deferred Close, Close times out, or the process is killed.  Scripts
\* outlive it.
Die ==
    /\ Running
    /\ server' = "exited"
    /\ Forget
    /\ UNCHANGED <<script, marked>>

\* Supervisor starts the next process, with an empty Manager.
NewManager ==
    /\ server \in {"closed", "exited"}
    /\ server' = "serving"
    /\ Forget
    /\ UNCHANGED <<script, marked>>

-----------------------------------------------------------------------------
Goroutine(id) ==
    \/ Launch(id) \/ NotifyCompiling(id) \/ Spawn(id) \/ SpawnFails(id)
    \/ ObserveMarker(id) \/ Reap(id) \/ Collect(id) \/ Conclude(id)
    \/ Report(id) \/ Finish(id)

Next ==
    \/ \E id \in Ids :
          \/ \E s \in Services : Start(id, s)
          \/ Cancel(id)
          \/ Timeout(id)
          \/ Goroutine(id)
          \/ KillScript(id)
          \/ PrintMarker(id)
          \/ ExitScript(id)
    \/ BeginShutdown \/ Drained \/ CloseCancels \/ CloseReturns
    \/ Die \/ NewManager

Spec == Init /\ [][Next]_vars

\* Goroutines are scheduled, the deadline expires, and a script that ignores
\* the end of its context is killed.  Nothing is assumed of the script itself.
Fairness ==
    /\ \A id \in Ids :
          /\ WF_vars(Goroutine(id))
          /\ WF_vars(Timeout(id))
          /\ WF_vars(KillScript(id))
    /\ WF_vars(CloseCancels)
    /\ WF_vars(CloseReturns)

FairSpec == Spec /\ Fairness
-----------------------------------------------------------------------------
(* Properties. *)

\* Every variable has its type.
TypeOK ==
    /\ tasks \in SUBSET Ids
    /\ task \in [Ids -> Task]
    /\ order \in Seq(Ids)
    /\ pc \in [Ids -> PC]
    /\ ctx \in [Ids -> {"live", "canceled", "deadline"}]
    /\ script \in [Ids -> {"none", "running", "ok", "failed", "killed"}]
    /\ marked \in [Ids -> BOOLEAN]
    /\ deploying \in [Ids -> BOOLEAN]
    /\ err \in [Ids -> BOOLEAN]
    /\ event \in [Ids -> Terminal \cup {None}]
    /\ server \in Server
    /\ acked \in SUBSET Ids

\* Start's refusal works across every interleaving: of two goroutines that this
\* manager has launched and that have not finished, no two deploy one service.
OneRunPerService ==
    \A i, j \in Ids :
        Live(i) /\ Live(j) /\ task[i].service = task[j].service => i = j

\* Two scripts that this process still waits for never work on one service:
\* the guard in Start already does what the script's flock does.
OneScriptPerService ==
    \A i, j \in Ids :
        /\ pc[i] # "gone" /\ script[i] = "running"
        /\ pc[j] # "gone" /\ script[j] = "running"
        /\ task[i].service = task[j].service
        => i = j

\* A goroutine that has not finished finds its task in the table, not terminal
\* and with its cancel function, however much history is pruned meanwhile: the
\* "!ok" returns of run are not taken and Cancel calls no nil function.
LiveRunIsTracked ==
    \A id \in Ids : Live(id) => /\ id \in tasks
                                /\ ~isTerminal(task[id].status)
                                /\ task[id].cancel

\* No task is left behind in a non-terminal status, which would refuse every
\* later Start of its service and block the pruning of history for good.
NoStuckTask ==
    Running => \A id \in tasks : ~isTerminal(task[id].status) => Live(id)

\* order lists the keys of tasks, each once: Recent dereferences no missing task.
HistoryMatchesTasks ==
    /\ tasks = {order[i] : i \in 1..Len(order)}
    /\ \A i, j \in 1..Len(order) : order[i] = order[j] => i = j

\* Whenever Start adds a task, the history fits the limit again unless its
\* oldest task still runs.
HistoryIsPruned ==
    [][ \A id \in Ids : id \in tasks' \ tasks =>
            (Len(order) <= Limit \/ Live(order[1]))' ]_vars

\* A task in a terminal status never changes again: no late marker callback,
\* observer or Close reopens it.
TerminalIsFinal ==
    [][ \A id \in tasks \cap tasks' :
            isTerminal(task[id].status) => task'[id] = task[id] ]_vars

\* What deploy reports to Slack is what the script did: success is a script
\* that exited with 0, compile_failed ("the old service is not affected") a
\* script that never passed its marker, failed one that did.
ReportIsTruthful ==
    \A id \in Ids :
        /\ event[id] = "succeeded" => script[id] = "ok"
        /\ event[id] = "compile_failed" => ~marked[id]
        /\ event[id] = "failed" => marked[id]

\* A finished task has reported exactly one terminal status, and ends in that
\* status unless a cancellation came between the report and the last step.
StatusAgreesWithReport ==
    \A id \in tasks : pc[id] = "done" =>
        /\ task[id].slack \cap Terminal = {event[id]}
        /\ \/ task[id].status = event[id]
           \/ task[id].status = "canceled" /\ ctx[id] = "canceled"

\* A Cancel that was answered with Canceled: true ends the task as canceled,
\* unless the deadline had already ended its context.
AckedCancelWins ==
    \A id \in acked : pc[id] = "done" =>
        task[id].status = "canceled" \/ ctx[id] = "deadline"

\* When Close has returned nil, no goroutine is left and no script of this
\* process runs.
CleanCloseLeavesNoRun ==
    server = "closed" =>
        \A id \in Ids : ~Live(id) /\ (script[id] = "running" => pc[id] = "gone")

\* Every started deployment ends, even when the script hangs, as long as the
\* process lives: the deadline and the kill after WaitDelay see to it.
RunEnds == \A id \in Ids : pc[id] = "starting" ~> pc[id] \in {"done", "gone"}

\* Close returns without the help of its own timeout.
CloseEnds == server = "closing" ~> server \in {"closed", "exited"}

=============================================================================
