# TLA+ models of ps-devtools-mcp

`ps-devtools-mcp` is an MCP server on the 004 test host. It lets users query
the test database and Redis, search logs, call registered user endpoints, and,
above all, deploy two legacy services: an in-memory manager runs
`scripts/deploy-server.sh`, which builds a release, installs it into the target
directory, registers and restarts Supervisor processes, and rolls back when
something fails. This directory holds TLA+ models of the parts of it that have
state or interleavings, TLC configurations that check them on small instances,
and TLAPS proofs of every safety property that a passing run checks, for
instances of any size.

1. [Inventory](#inventory)
2. [Modules](#modules)
3. [Runs](#runs)
4. [Fairness](#fairness)
5. [Proofs](#proofs)
6. [Where the code and its documents differ](#where-the-code-and-its-documents-differ)
7. [What is not modelled](#what-is-not-modelled)
8. [Plan](#plan)

How to run everything, from this directory:

    tlc -workers 2 -config DeployManager.cfg MCDeployManager
    tlapm DeployManagerProofs.tla
    tlapm DeploySystemProofs.tla
    tlapm DeployScriptProofs.tla
    tlapm UserSnapshotProofs.tla
    tlapm TestBotProofs.tla
    tlapm LogBridgeProofs.tla
    tlapm RedisInspectProofs.tla

## Inventory

| Component | State | Operations | What makes it correct |
|---|---|---|---|
| Deployment manager (`internal/testdeploy/manager.go`, `service.go`, `cmd/.../main.go`) | `tasks`, `order`, the context and goroutine of each task, `wg` | Start, Cancel, Get, Logs, Recent, Close; `run` and `deploy` in a goroutine; marker callback in the goroutine that copies the script's output | one deployment per service; no task stuck or lost; status, Slack reports and the script agree; Close waits |
| Deployment script (`scripts/deploy-server.sh`) | lock file, target directory, `backup.*` directories, Supervisor's configuration and processes, shell variables | deploy, restart, plan, list, processes, status; EXIT trap with rollback | a release takes effect as a whole or not at all; a backup is there while the target is in doubt; foreign configuration is left alone |
| Test bot (`internal/testbot`) | cached login token, last signing timestamp | Call (login, request, one retry after 401/403), List | a side effect happens once; a slow login does not undo a later one; timestamps do not repeat |
| Log bridge (`internal/testlogs`) | the lazily connected session with a child process | five log tools, Close | one child; none after Close; a failed connect is retried |
| Test Redis and inspector (`internal/testredis`, `internal/redisinspect`) | none (Redis itself changes) | Query, Inspect (three commands) | replies are bounded; type and value of an inspection agree |
| HTTP transport (`internal/httptransport`) | semaphore of running requests | authenticate, limitConcurrent | slots come free again, whatever becomes of a request or its client |
| Test database (`internal/testdb`) | two connection pools | Query of the service, of `MySQLClient` and of `HTTPClient`; OpenMySQLClient | connections are returned on every path; a result is whole or an error; every call ends |
| User snapshot (`internal/usersnapshot`) | none; five queries in a row | Get | a cut section says so; its statements fit the client's limits |
| Slack notifier (`internal/slacknotify`) | none | Notify | never changes the result of a deployment |
| Read-only API (`internal/testapi`) | none | allowlisted GET | limits hold |
| MCP server, configuration, operations scripts | none at run time; the environment file | registration of tools, parsing, editing the environment file | - |

Interactions. A request takes a slot of the transport and reaches a tool of the
MCP server. `start_test_deployment` returns at once; the goroutine it launches
runs the script in a process group of its own and outlives the request.
`deploy_test_service` and `restart_test_process` run the script inside the
request, beside the manager, and meet it only at the script's `flock`. Cancel
and the 15-minute deadline end the task's context: `os/exec` sends SIGTERM to
the group and, 5 seconds later, SIGKILL to the leader. The script prints
`phase=deploying` before it first touches the host, and the manager reads that
marker from its output. On SIGTERM the server drains its handlers and `main`'s
deferred `Close` cancels and waits; when draining times out `logger.Fatal`
skips that `Close`, and scripts go on alone.

Hard behaviours: Start racing Start, Cancel and Close; a Cancel or the deadline
arriving between two reads of the context; the marker's callback running
concurrently with the end of the command; history pruned while goroutines still
use its entries; the script failing or being interrupted at any of its commands,
or inside its own rollback; a command that outlives the killed shell with the
lock; a token that expires between login and call; answers that are lost or
late; concurrent first connections racing Close; a key that changes between
two reads of it; a pool that is exhausted, or a timeout in the middle of a
result; a client that disconnects while its request, or a deployment it has
started, goes on; integer limits. `PROJECT.json` lists each of them at its line
under `hazards`, with the properties that cover it.

## Modules

An operator whose name ends in `_Something` and whose comment says "Mutant" is
no part of a model. It is the same definition with a plausible mistake in it,
kept next to the original so that each property can be shown to notice one.

### DeployManager

One action is one critical section of `m.mu`, one step of `os/exec`, or one
step of the script or the server process.

- `tasks`, `order`: the map's keys and the history. `task[id]` is the
  `managedTask`: service, status, `finalStatus`, whether `cancel` is set, and
  `slack`, the stages whose delivery has been recorded.
- `pc[id]`: the goroutine of a task. `"starting"` is the gap in which Start has
  unlocked `m.mu` and has not called `wg.Add` yet; then `notifying`,
  `spawning`, `running` (cmd.Wait), `collecting` (the copying goroutine),
  `concluding`, `reporting`, `finishing` (the last critical section of `run`).
- `ctx[id]`: why the context ended; the first reason stays, as in `context`.
- `script`, `marked`: the script as the manager sees it; `deploying`, `err`,
  `event`: locals of `deploy`. `server`: serving, draining, closing, waiting,
  closed or exited. `acked`: history, the cancellations answered with true.

`Start` includes pruning (`Prunes`), because the code does both under one lock.
A notification is one step with the observer, whatever Slack answers: the
answer is recorded in the task and read by nothing. The script is nondeterministic:
it may print its marker, fail at any time, succeed after the marker, or hang.
Calls that change nothing (a refused Start, a Cancel of a finished task, the
read-only tools) are not actions. `Die` covers every end of the process other
than Close returning nil; `NewManager` is the next process with empty memory,
while scripts of the previous one may still run.

### DeployScript and AtomicRelease

`deploy-server.sh` for one service. An invocation is a program, a sequence of
commands: `DeployProgram`, `RestartProgram` or `RollbackProgram`. A command
completes, fails, or is interrupted halfway, in which case it has had its
effect, none, or has left what it writes "torn"; `install_file_atomically` is
the exception. `shell` keeps the variables that decide what happens next
(`deployed`, `new_configs`, `restart_attempt`), `target`, `supervisor` and
`backups`/`saved` what is on the host. Contents are the name of the run that
wrote them, or `"old"`, `"absent"`, `"torn"`.

Three details of the commands matter. Restarting a process is one command with
its attempts (`Retry`); after the last one only the status is judged, so a
restart that failed completes too when the process, which was not stopped, is
still RUNNING (`StillRuns`). `stale` is history: the processes for which that
happened. In a rollback, `cp -a` onto a directory that a failed `rm -rf` has left
copies into it and restores nothing (`Applies`). And `supervisorctl update` drops
a process only if its configuration file is gone; it registers one whose file it
has not read (`NewSupervisor`).

`Terminate` is SIGTERM to the process group. Bash then runs the EXIT trap with
the `$?` of the last command that had completed, which is usually 0; both are
possible. `Kill` is the SIGKILL that `os/exec` sends to the shell alone: the
command in progress goes on as an orphan and keeps the descriptor of the lock.

`AtomicRelease` is the promise in a few lines: runs take turns, and each
replaces the live release by its own in one step or leaves it. The refinement
mapping takes as live what the binaries hold while the lock is free, and what
the holder found while it is taken.

### DeploySystem

The deployment tools together. `DeployManager` and `DeployScript` look at one
process each; this module keeps of both only what they have to do with each
other: of the manager the invocations somebody waits for (`waited`, `ctx`,
`acked`), of the script its phases up to and after the lock and the marker. It
adds the transport (`req`, `semaphore`), the tools that run the script inside
the request, and scripts that outlive their server.

- `run[r]` is one invocation of the script with the goroutine that waits for
  it. `parent` is the request its context derives from; `"none"` stands for
  `context.Background`, which is what `Manager.Start` uses.
- `Deploy`, `Restart`, `Start`, `Cancel`, `ReadTasks` and `ReadHost` are the
  tools of `mcpserver` (`Tools`), each with authentication and a slot
  (`Admitted`); `Authorized` are the clients that present a token of the
  configuration. Refused calls change nothing and are not actions.
- `Disconnect` ends the context of a request
  (`PropagateRequestCancellation`), and so does `Respond`, when the handler has
  returned.
- `Lock` is `flock -n`; `Kill` leaves the command in progress as an orphan with
  the lock, or not; `Stop` is every end of the server process, after which
  nobody waits for its scripts or kills them.
- `Reports` is the status of `Service.deploy`. A script that succeeded may be
  reported as failed: the deadline may come before it is reaped, and a
  descendant may keep its output open for longer than `WaitDelay`.

### TestDB and UserSnapshot

`TestDB` has the validators, the two clients and the pools. A statement is the
record of the facts the validators ask for: its first word, its keywords, its
LIMIT, whether it qualifies an identifier, and `lexical` for everything that is
a matter of characters. A query of `MySQLClient` waits for a connection,
executes, reads row by row and concludes; each step may fail by itself or
because its context has ended, and `AwaitDone` is the rollback that
`database/sql` makes then. How many rows match is chosen when a statement is
executed. `UserSnapshot` extends it by `Get`: one query after the other, each
with a connection and a timeout of its own, over the client directly and not
through `testdb.Service`. `seen`, the number of matching rows, is kept with
each section as history for the properties.

### TestBot

Concurrent `Service.Call`s against a remote that issues tokens, may keep only
the newest one, expires them, and answers 401 or 403 for any reason. `loginMu`
is held across the login request, `signMu` only for the timestamp. Tokens are
numbered in the order in which they are issued. The client's answer may be an
error although the remote has executed the request, or will. The clock may be
set back, and the process may restart. The encoding of requests and the
redaction of answers are left out.

### LogBridge

`Lazy.get`, `Lazy.Close` and `Bridge.call` with both mutexes, several calls, a
child that answers, is slow, hangs or dies, connects that fail or hang, and
clients that give up, which ends the context of their call (`canceled`).

### RedisInspect

Validation of commands as operators on their tokens, with integers up to
`MaxInt` that wrap, `Query` of a user's command, and `Inspect` as three commands
between which other clients may replace the key. Redis is external: it refuses
a command on a value of another type, takes indexes below 0 from the end, and
treats COUNT as a hint. `fixedArity` is represented by five of its commands.

## Runs

Passing runs:

| Run | Instance | Shows |
|---|---|---|
| `deploy_manager` | 2 services, 2 IDs, limit 1; about 500 000 states | exclusion per service (`OneRunPerService`, `OneScriptPerService`), the table (`LiveRunIsTracked`, `NoStuckTask`, `HistoryMatchesTasks`, `HistoryIsPruned`, `TerminalIsFinal`), reports (`ReportIsTruthful`, `StatusAgreesWithReport`, `AckedCancelWins`), shutdown (`CleanCloseLeavesNoRun`) |
| `deploy_manager_live` | 1 service, 2 IDs | `RunEnds`, `CloseEnds` even if the script hangs |
| `deploy_script` | 2 uninterrupted invocations, 2 artifacts, 1 asset directory, 2 processes | `ImplementsAtomicRelease`, `LockIsReleased` |
| `deploy_interrupted` | 2 invocations, 1 process, SIGTERM and SIGKILL anywhere, one failing command per rollback; about 4.9 million states | `AllOrNothing` for runs that are not interrupted, `BackupIsIntact`, `Recoverable`, `UntouchedBeforeMarker`, `OldConfsSurvive` |
| `deploy_system` | 1 service, 2 clients with a token and one without, 2 slots, 2 invocations at a time; about 650 000 states | `OneAtATime`, `CompileFailedIsHarmless`, `JobsOutliveRequests`, `FullServerRecovers` |
| `user_snapshot` | a snapshot and a query at a time, both clients, pools of 1 connection, row limit 2; about 730 000 states | `ConnectionsAreReturned`, `NothingIsCutSilently`, `SectionFitsClient`, `CallEnds` |
| `testbot` | 2 calls, clock of 2 seconds | `ExecutedOnce`, `CacheIsNewest`, `StaleTokenIsReplaced`, `TimestampsIncrease`, `CallEnds` |
| `log_bridge` | 3 calls that may be given up, and Close; about 21 000 states | `NoLeakedChild`, `ClosedStaysClosed`, `CallEnds` |
| `redis_inspect` | 4-bit integers, limit 3, collections up to 4 | `InspectIsAccepted`, `ValueHasType`, `OnlyFullRangeWraps` |

Runs that show a disagreement are in the section below.

Why the bounds are enough to mean something. Two tasks and a limit of 1 make
history exceed its limit, be blocked by a running head, and be pruned; two
services make two goroutines run at once, one service makes them exclude each
other; the theorems remove the bound altogether. Two invocations of the script
let one find what the other has left behind, and with `Keep = 1` the second one
prunes the first one's backup; two artifacts and an asset directory are the
least that can be mixed; an initial process is registered, unknown, or has a
file that Supervisor has not read, and an initial asset directory or revision
file may be missing. `MaxRestarts = 2` gives one retry (5 in the code; `deploy_interrupted` has none). Two
calls with two seconds let both sign in one second and the clock go back. Four
bits hold every relation between a range, the limit and the largest integer
that 64 bits do. In `deploy_system` two invocations of one service are what can
meet at the lock; their names are used again when nobody knows them any more,
so that histories are not bounded, and two requests fill both slots. In
`user_snapshot` a pool of one connection is exhausted by one query (4 in the
code), a row limit of 2 is `MaxLimit` + 1 as narrowly as it can be (500 and 100
in the code), 3 matching rows exceed it, and the two sections are one of each
kind. Deadlock is checked in every passing run but those of the script and the
bridge, which may stop because every invocation or call has ended.

`SYMMETRY` is used where only safety is checked and the permuted set has no
order: IDs of tasks and invocations of the script.

## Fairness

- `DeployManager`: weak fairness of each goroutine (the Go scheduler), of the
  deadline timer, of the kill after `WaitDelay`, and of both halves of Close.
  None for the script, for Cancel or for shutdown: a script may hang for ever.
- `DeployScript`: weak fairness of the current command's end. Each command of
  the script ends by itself or fails; retries are counted, not assumed to end.
- `TestBot`: weak fairness of a request's end, because the HTTP client has a
  timeout (`defaultTimeout`, 12 s), and strong fairness of entering `login`,
  because a Go mutex goes to a waiter that is starved (after 1 ms).
- `DeploySystem`: weak fairness of each invocation's own steps and of handlers
  that can return. It assumes that every command of the script ends; a
  synchronous deployment has no deadline, so without that a slot may stay taken.
  None for clients, deadlines, kills or the server.
- `UserSnapshot`: weak fairness of timers (the query's or the HTTP client's
  timeout), of failing once the context has ended, and of the call's own steps.
  Nothing is assumed of the database, which may be silent for ever, and nothing
  of getting a connection.
- `LogBridge`: strong fairness of getting `mu` and `callMu`, as in `TestBot`. No
  connect and no request is assumed to end by itself: `bridge.go` sets no deadline
  (lines 29, 68, 131), over stdio a context ends only when the client cancels, and
  calls that wait for a mutex (lines 58, 123) do not look at theirs. Fair are the end
  of a connect whose call has been given up (`GiveUp`), the end of a request that
  has been given up, has been answered or whose child is gone, and Close. Clients
  need not give up; `CallEnds` therefore says that every call returns *if* no
  connect or request stays pending for ever with nobody giving it up. Without that
  condition it is false: one connect that hangs blocks every call and Close.

## Proofs

### The manager

`DeployManagerProofs` proves, for every set of services, every set of IDs and
every history limit, all safety properties that `deploy_manager` checks. It
assumes `LimitAssumption` (the limit is a positive number; 50 in the code) and
`ServicesAssumption` (there is a service), both evaluated by TLC in every run.

The properties are not inductive: that a report is true depends on what the
locals of a goroutine mean at each place of its code, and that a live goroutine
is in the table depends on which tasks pruning may drop. The inductive
invariant has layers, each preserved with the help of the earlier ones:

1. `TypeInv`: types, and that a goroutine about to report has a terminal event.
2. `Control`: per goroutine, which combinations of place, script, marker,
   `deploying`, `err` and `event` are possible. It gives `TruthfulReports`. The
   heart of it is that `Collect` waits for the copying goroutine, so that after
   it a printed marker has been observed, and that only a script that exited
   with 0 leaves `err` false.
3. `Table`: per goroutine, what its task looks like, and `OneRunPerService`
   itself, since `ServiceIsFree` keeps a service's non-terminal tasks apart only
   if live goroutines have such tasks. `PruneKeepsLive` shows that pruning drops
   no live task. It gives `ServiceExclusion`, `ScriptExclusion`,
   `LiveRunsAreTracked`, `NoTaskIsStuck`, `StatusFollowsReport`,
   `AckedCancelsWin` and the action property `TerminalStatusIsFinal`.
4. `HistoryMatchesTasks`: with lemmas on what appending and dropping do to a
   sequence (`SuffixOfAppend`, `HistoryStart`). It gives `HistoryIsConsistent`,
   and the action property `PruningIsComplete` uses the layers below it.
5. `Shutdown`: once Close runs no Start is between its unlock and `wg.Add`, and
   once Close has returned the counter is zero. It gives `CloseIsClean`, which
   would fail without the drained server: `wg.Add` is called outside the lock.

### The deployment tools together

`DeploySystemProofs` proves the three safety properties of `deploy_system` for
every number of services, clients, slots and invocations, from
`SystemAssumption` (there is a slot, and `"none"` names nothing else). Its
invariant says of each invocation, besides types, that

- who works on a service has its lock (`HasLock`), which is inductive only with
  the fact that an orphan's shell is gone;
- what has changed the host, or is about to, has printed its marker or is a
  restart, and a report comes last (`IsMarked`);
- an asynchronous deployment derives from no request (`IsDetached`).

`OneRecordChanges` and `ContextsChange` reduce a step to the records it
changes. They give `ScriptsExclude`, `CompileFailuresAreHarmless` and
`DeploymentsOutliveRequests`.

### The script

`DeployScriptProofs` is about any number of invocations, artifacts, asset
directories, processes, retries and failures of a rollback, and any signals. It
assumes what the configuration of a service guarantees (`SizesAssumption`: there
is an artifact and a process; `ArtifactOfAssumption`: each process executes one
of the artifacts) and that names of runs are no other contents
(`RunsAssumption`).

None of the script's properties is inductive: that a rollback restores the host
is a statement about its last command which depends on every command before it,
of the rollback and of the deployment that it undoes. The invariant `IInv`
therefore describes the run that holds the lock at every place of its program:

- `Locks`: the active run has the lock, so all others stand still. `Waiting`: a
  run that has not started has nothing on the host.
- `Placed`: what the place says about `deployed`, the marker and the program that
  runs. `Untouched`: until `install` the host is as it was found.
- `BackedUp`, `CanGoBack`, `Recoverable`: from `backup` to `complete` the backup
  is what was found, and a whole release is in the target or in a backup. Only a
  run that has installed a whole release prunes.
- `Supervised`: of the processes that Supervisor had, only those for which this
  run rendered a configuration may differ in more than what they execute.
- `InstalledTo`, `StartedTo` and `UndoneTo`: position by position, the work of the
  commands before it: the files that are installed, the processes that are
  registered and restarted (or stale and RUNNING), and what the rollback has
  restored. `UndoneTo` holds while no command of the rollback has failed; it
  includes that a removed directory is absent until it is copied back, without
  which the copy would restore nothing.

The proof first turns the programs, which are concatenations, into tables from
places to commands (`DeployAt`, `RollbackAt`), then says what a command may change
whether it completes or stops halfway (`FilesTouched`, `ProcessesTouched`,
`StorageTouched`) and what it has achieved when it completes (`Completed`,
`Installs`, `Undoes`), and last how a run goes on, turns back or leaves
(`Exiting`, `Cleaning`, `Advancing`, `Moves`). It gives `BackupSurvives`,
`AlwaysRecoverable`, `QuietUntilMarker`, `OldConfsAreKept` and, with lemmas on how
a run ends (`CompleteEnds`, `FailEnds`, `RollbackEnds`), `ReleaseIsAtomic`: the
files take effect all together or not at all, every selected process runs in the
end, and the only process that may still execute what it did before is one whose
last restart failed while it was RUNNING. That exception is the code's
(see the observations below), and the theorem says that there is no other.

`ScriptIsAtomic` is the refinement of `AtomicRelease`, under the hypotheses
`Signals = {}` and `RollbackFaults = 0`: with either the script does not implement
it, which is what `deploy_terminated` shows for a signal. Taking the lock is
`Begin`, the step in which a run leaves is `End`, and every other step leaves
`live`, `holder` and `turns` alone; that the live release is then the old one or
the run's own comes from the same lemmas on how a run ends.

### The other services

- `UserSnapshotProofs`, over `TestDB`: any calls, engines, pool sizes, sections
  and tables. `SnapshotAssumption` says that the limits of the statements fit the
  client's (20 and 100 + 1 rows against 500 in the code); `SectionFitsClient` is
  false without it. The invariant keeps for each query that its rows are part of
  its result and all of it once it succeeds (`QueryOK`), and for each `Get` that the
  query in progress is the one of its next section (`GetOK`).
- `TestBotProofs`: any calls and clock. `Tokens` orders the tokens a call holds,
  the cached one and the one an unfinished login will cache, which is the newest
  because `loginMu` is held across the request; `Requests` says that what may still
  be sent has not been executed.
- `LogBridgeProofs`: any finite set of calls. Lazy connects once (`OneSession`),
  because `mu` is held across connect and no call connects after Close; it also
  gives that a session serves one request at a time (`SessionIsSerial`).
- `RedisInspectProofs`: every size of an int, every limit below it, keys of any
  size. `RangeBound` is the arithmetic of `validateRange`: the only range that
  passes with more than the limit is the one from 0 to the largest int.
  `SizesAssumption` asks that the limits are smaller than `MaxInt` (2^63 - 1 in
  the code).

### How the proofs are written

A step that changes several fields of one record is written
`[f EXCEPT ![x] = [f[x] EXCEPT !.a = ..., !.b = ...]]`. The SMT backend of
tlapm 1.4.5 takes `[f EXCEPT ![x].a = ..., ![x].b = ...]` for two simultaneous
updates and derives a contradiction from it. It does not get along with
strings that contain spaces either, so the names of commands have none. Each leaf
of the proofs has been tried with its goal replaced by FALSE, and fails, except
where a step's hypotheses really exclude each other (a dying process leaves no
task behind for `TerminalStatusIsFinal`; a case of a command that the surrounding
case excludes).

Only model-checked: liveness (`RunEnds`, `CloseEnds`, `LockIsReleased`,
`CallEnds`, `FullServerRecovers`), which is beyond the prover because of
fairness.

## Where the code and its documents differ

Each is a run that TLC ends with a counterexample:

- `deploy_terminated`: the message of a canceled deployment says that the old
  version is protected; SIGTERM in the middle of an installation can end the
  script without a rollback, or in the middle of one.
- `deploy_retention`: the documentation speaks of the last 3 backups of
  successful deployments; backups of failed ones count too and push them out.
- `redis_range`: `stop-start+1` overflows for the range from 0 to the largest
  integer, which passes as if it were small; `OnlyFullRangeWraps` shows that it
  is the only one.

Observations that no run is spent on, though the models have them:
when the last `supervisorctl restart` of a process fails and the process was never
stopped, its status is RUNNING, which is all that is judged
(`src/scripts/deploy-server.sh:471`), so the deployment ends with status 0 and is
announced as live (`src/internal/slacknotify/webhook.go:69`) while that process
goes on with the old binary (`StillRuns`);
a Cancel between the last report and the last critical section of `run` stores
"canceled" for a deployment that was announced live
(`src/internal/testdeploy/manager.go:240`); when only the pruning of old backups
fails, a deployment is reported as failed with the old version protected while
the new release is live (`src/scripts/deploy-server.sh:587`); a script that the
lock refuses has not been compiled and is reported as `compile_failed`;
`SHOW CREATE TABLE` is on the list of the direct mode
(`src/internal/testdb/mysql_client.go:30`) but `CREATE` is a forbidden keyword,
so it never gets there; more than 20 VIP records are cut without a mark; a
synchronous deployment has no deadline; a restart of the server may repeat
a signing timestamp if it ran ahead of the clock; a canceled log call leaves
its request with the child while the next one is sent; a connect to the log MCP
that hangs keeps every other log call, canceled or not, and Close waiting until
its own caller gives up (`src/internal/testlogs/bridge.go:123`); the session of a child
that died is never replaced; a scan may return more than `max_items` items; a
script killed between copying a configuration and `supervisorctl update` leaves
a file that makes later registrations of that process fail.

## What is not modelled

- `parseDeploymentOutput`, `conciseDeployError` and the lines of the task's log:
  functions of text; no transition reads what they produce.
- The after-copy hook, which is outside the repository, the temporary
  worktree and git; failing there is a failing command of the model.
- The scanning of SQL and Redis text character by character. The models start
  from the facts and tokens that scanning finds.
- Read-only API: one stateless GET; nothing is kept between two calls.
- Slack notifier: one request whose result is recorded and read by nothing.
- Configuration parsing, and the tools of the MCP server other than those for
  deployments, which only forward to the modelled services.
- The operations scripts: run by hand, they edit the environment file and start
  the server.

## Plan

Done: all modules, each written before the next that composes it
(`UserSnapshot` over `TestDB`, `DeploySystem` over what `DeployManager` and
`DeployScript` establish), and proofs of every safety property that their
passing runs check and of the refinement of `AtomicRelease`.

Next:

1. `DeploySystem` keeps of the manager and the script only what they have to do
   with each other. What it assumes of them (a script changes the host only after
   its marker, one task per service) is proved of the detailed modules; a
   refinement mapping would state the connection in one formula.
2. Facts on which the liveness arguments rest that are safety: that the retries
   of a restart and the commands left of a run decrease, that somebody who holds
   a mutex can always take a step.
