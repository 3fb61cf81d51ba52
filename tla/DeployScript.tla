---------------------------- MODULE DeployScript -----------------------------
(***************************************************************************)
(* scripts/deploy-server.sh on the test host, for one service: several     *)
(* invocations of "deploy" and "restart" that share the flock, the target  *)
(* directory, the backups and Supervisor.                                  *)
(*                                                                         *)
(* An invocation is a program, a sequence of commands <<name, index>>, that *)
(* runs under "set -e": a command completes and the next one follows, or   *)
(* it fails and the EXIT trap (cleanup) runs, which may run the rollback   *)
(* program, in which failures are ignored.  SIGTERM and SIGKILL interrupt  *)
(* either program between or inside commands.                              *)
(***************************************************************************)
EXTENDS Naturals, Sequences, FiniteSets

CONSTANTS
    Runs,              \* invocations of the script
    NArtifacts,        \* artifact_names
    NAssets,           \* asset_directories
    NProcesses,        \* processes of the service, in the order of "sort"
    ArtifactOf,        \* the artifact that a process executes
    Keep,              \* keep_backups
    MaxRestarts,       \* max_restart_attempts, 5 in the code
    Signals,           \* which of "TERM" and "KILL" may arrive
    RollbackFaults     \* how many commands of a rollback may fail

Artifacts == 1..NArtifacts
Assets == 1..NAssets
Processes == 1..NProcesses

ASSUME SizesAssumption ==
    /\ NArtifacts \in Nat \ {0} /\ NAssets \in Nat /\ NProcesses \in Nat \ {0}
    /\ Keep \in Nat \ {0} /\ MaxRestarts \in Nat \ {0}
ASSUME ArtifactOfAssumption == ArtifactOf \in [Processes -> Artifacts]
ASSUME SignalsAssumption == Signals \subseteq {"TERM", "KILL"} /\ RollbackFaults \in Nat
ASSUME RunsAssumption == Runs \cap {"old", "absent", "torn", "free"} = {}

\* What a file or directory holds: the release of a run, the one that was
\* there before all of them, nothing, or the remains of an interrupted copy.
Content == Runs \cup {"old", "absent", "torn"}

Files == [bin: [Artifacts -> Content], assets: [Assets -> Content], revision: Content]
Supervisor == [conf: [Processes -> Content], registered: [Processes -> BOOLEAN],
               proc: [Processes -> Content]]

VARIABLES
    target,      \* the target directory
    supervisor,  \* its configuration directory, its groups, what they execute
    backups,     \* the backup.* directories, oldest first
    saved,       \* what the backup directory of a run holds
    lock,        \* who holds the flock
    kind,        \* "deploy" or "restart"
    selected,    \* the processes of a run
    mode,        \* which program runs, and whether its shell still does
    shell,       \* the variables of the shell, and its place in the program
    marked,      \* "phase=deploying" has been printed
    outcome,     \* how the run ended
    before,      \* history: target and supervisor when the lock was last taken
    stale,       \* history: the processes whose last restart of the holder failed
                 \* and that were found RUNNING nevertheless
    impaired     \* history: how many commands of the rollback failed

host == <<target, supervisor>>
storage == <<backups, saved>>
arguments == <<kind, selected>>
history == <<before, stale>>
vars == <<host, storage, lock, arguments, mode, shell, marked, outcome, history, impaired>>

\* The actions that take the lock; the others of parse_args only print.
Kind == {"deploy", "restart"}
\* What selectors can resolve to, which is never nothing.
Selections == (SUBSET Processes) \ {{}}

\* restart_attempt is counted from 0.
Shell == [at: Nat \ {0}, deployed: BOOLEAN, newConfs: SUBSET Processes,
          attempts: 0..(MaxRestarts - 1)]
FreshShell == [at |-> 1, deployed |-> FALSE, newConfs |-> {}, attempts |-> 0]

EmptyFiles == [bin |-> [a \in Artifacts |-> "absent"], assets |-> [a \in Assets |-> "absent"],
               revision |-> "absent"]

-----------------------------------------------------------------------------
(* The programs. *)

Each(name, n) == [i \in 1..n |-> <<name, i>>]

\* main for "deploy", from prepare_source on, and for "restart".
RestartProgram == Each("restart", NProcesses)
\* Mutants: the target is marked as changed, and changed, before the backup;
\* the marker is printed after the files are installed.
DeployProgram_LateBackup ==
    << <<"source", 1>>, <<"build", 1>>, <<"marker", 1>>, <<"install", 1>> >>
    \o Each("artifact", NArtifacts) \o << <<"backup", 1>> >> \o Each("asset", NAssets)
    \o << <<"revision", 1>>, <<"hook", 1>> >>
    \o Each("render", NProcesses) \o Each("conf", NProcesses) \o Each("update", NProcesses)
    \o RestartProgram
    \o << <<"complete", 1>>, <<"prune", 1>> >>
DeployProgram_LateMarker ==
    << <<"source", 1>>, <<"build", 1>>, <<"backup", 1>>, <<"install", 1>> >>
    \o Each("artifact", NArtifacts) \o << <<"marker", 1>> >> \o Each("asset", NAssets)
    \o << <<"revision", 1>>, <<"hook", 1>> >>
    \o Each("render", NProcesses) \o Each("conf", NProcesses) \o Each("update", NProcesses)
    \o RestartProgram
    \o << <<"complete", 1>>, <<"prune", 1>> >>

DeployProgram ==
    << <<"source", 1>>, <<"build", 1>>, <<"marker", 1>>, <<"backup", 1>>, <<"install", 1>> >>
    \o Each("artifact", NArtifacts) \o Each("asset", NAssets)
    \o << <<"revision", 1>>, <<"hook", 1>> >>
    \o Each("render", NProcesses) \o Each("conf", NProcesses) \o Each("update", NProcesses)
    \o RestartProgram
    \o << <<"complete", 1>>, <<"prune", 1>> >>

\* rollback: each directory is removed and then copied back.
RollbackProgram ==
    << <<"rm_bin", 1>>, <<"cp_bin", 1>> >>
    \o [i \in 1..(2 * NAssets) |-> <<IF i % 2 = 1 THEN "rm_asset" ELSE "cp_asset", (i + 1) \div 2>>]
    \o << <<"cp_revision", 1>> >>
    \o Each("rm_conf", NProcesses) \o Each("drop", NProcesses) \o Each("restart_old", NProcesses)

Program(r) ==
    IF mode[r] \in {"rollback", "orphaned_rollback"} THEN RollbackProgram
    ELSE IF kind[r] = "restart" THEN RestartProgram ELSE DeployProgram

Command(r) == Program(r)[shell[r].at][1]
Index(r) == Program(r)[shell[r].at][2]

\* What Supervisor executes when it starts process p.
Load(p) == target.bin[ArtifactOf[p]]

-----------------------------------------------------------------------------
(* The effect of the current command of r on the host. *)

\* The directory bin is there.
HasBin(files) == \E a \in Artifacts : files.bin[a] # "absent"

\* A process that Supervisor does not know is rendered a configuration.
Unknown(r, p) == p \in selected[r] /\ ~supervisor.registered[p]

\* The command is executed, not skipped by the condition in front of it, and is
\* not a "cp -a" onto a directory that "rm -rf" has left: that makes a copy inside
\* the directory and restores nothing.
Applies(r) ==
    LET i == Index(r)
    IN  CASE Command(r) \in {"restart", "restart_old"} -> i \in selected[r]
          [] Command(r) = "render" -> Unknown(r, i)
          [] Command(r) \in {"conf", "update", "rm_conf", "drop"} -> i \in shell[r].newConfs
          [] Command(r) = "rm_bin" -> HasBin(saved[r])
          [] Command(r) = "cp_bin" -> HasBin(saved[r]) /\ ~HasBin(target)
          [] Command(r) = "rm_asset" -> saved[r].assets[i] # "absent"
          [] Command(r) = "cp_asset" -> saved[r].assets[i] # "absent" /\ target.assets[i] = "absent"
          [] OTHER -> TRUE

NewTarget(r) ==
    LET i == Index(r)
    IN  CASE Command(r) = "artifact" /\ HasBin(target) -> [target EXCEPT !.bin[i] = r]
          [] Command(r) = "asset" -> [target EXCEPT !.assets[i] = r]
          [] Command(r) = "revision" -> [target EXCEPT !.revision = r]
          [] Command(r) = "rm_bin" -> [target EXCEPT !.bin = [a \in Artifacts |-> "absent"]]
          [] Command(r) = "cp_bin" -> [target EXCEPT !.bin = saved[r].bin]
          [] Command(r) = "rm_asset" -> [target EXCEPT !.assets[i] = "absent"]
          [] Command(r) = "cp_asset" -> [target EXCEPT !.assets[i] = saved[r].assets[i]]
          [] Command(r) = "cp_revision" -> [target EXCEPT !.revision = saved[r].revision]
          [] OTHER -> target

\* supervisorctl restarts only what is registered; update registers a process
\* whose configuration file is there, starts it, and drops one whose file is not.
NewSupervisor(r) ==
    LET p == Index(r)
        unread == supervisor.conf[p] = r /\ ~supervisor.registered[p]
    IN  CASE Command(r) = "conf" -> [supervisor EXCEPT !.conf[p] = r]
          [] Command(r) \in {"update", "drop"} /\ unread ->
                [supervisor EXCEPT !.registered[p] = TRUE, !.proc[p] = Load(p)]
          [] Command(r) \in {"restart", "restart_old"} /\ supervisor.registered[p] ->
                [supervisor EXCEPT !.proc[p] = Load(p)]
          [] Command(r) = "rm_conf" -> [supervisor EXCEPT !.conf[p] = "absent"]
          [] Command(r) = "drop" /\ supervisor.conf[p] = "absent" ->
                [supervisor EXCEPT !.registered[p] = FALSE, !.proc[p] = "absent"]
          [] OTHER -> supervisor

\* The command has its effect, if it is executed at all.
Happens(r) ==
    IF Applies(r) THEN target' = NewTarget(r) /\ supervisor' = NewSupervisor(r)
                  ELSE UNCHANGED host

\* The command stops halfway: it has had its effect, or none, or has left what
\* it works on in pieces.  install_file_atomically has no third case.
StopsHalfway(r) ==
    LET i == Index(r)
        torn == CASE Command(r) \in {"asset", "rm_asset", "cp_asset"} ->
                       {[target EXCEPT !.assets[i] = "torn"]}
                  [] Command(r) \in {"revision", "cp_revision"} ->
                       {[target EXCEPT !.revision = "torn"]}
                  [] Command(r) \in {"rm_bin", "cp_bin"} ->
                       {[target EXCEPT !.bin = [a \in Artifacts |-> "torn"]]}
                  [] OTHER -> {}
        stopped == CASE Command(r) \in {"restart", "restart_old"} ->
                          {[supervisor EXCEPT !.proc[i] = "absent"]}
                     [] Command(r) = "conf" -> {[supervisor EXCEPT !.conf[i] = "torn"]}
                     [] OTHER -> {}
    IN  IF Applies(r)
        THEN /\ target' \in {target, NewTarget(r)} \cup torn
             /\ supervisor' \in {supervisor, NewSupervisor(r)} \cup stopped
        ELSE UNCHANGED host

\* How many of the oldest backups are more than keep_backups.
Expired == IF Len(backups) > Keep THEN Len(backups) - Keep ELSE 0

\* prepare_backup makes the newest backup; a failed one is incomplete.
\* prune_old_backups removes the newest of the expired backups first.
StorageChanges(r, whole) ==
    CASE Command(r) = "backup" ->
           /\ backups' = Append(backups, r)
           /\ saved' = IF whole THEN [saved EXCEPT ![r] = target] ELSE saved
      [] Command(r) = "prune" ->
           \E left \in IF whole THEN {0} ELSE 0..Expired :
              /\ backups' = SubSeq(backups, 1, left)
                            \o SubSeq(backups, Expired + 1, Len(backups))
              /\ saved' = [q \in Runs |-> IF \E i \in (left + 1)..Expired : backups[i] = q
                                         THEN EmptyFiles ELSE saved[q]]
      [] OTHER -> UNCHANGED storage

-----------------------------------------------------------------------------
\* A process is registered with its configuration file, is unknown, or has a
\* file that Supervisor has not read.
InitialProcess == {<<"old", TRUE, "old">>, <<"absent", FALSE, "absent">>, <<"old", FALSE, "absent">>}

Init ==
    /\ target \in [bin: {[a \in Artifacts |-> "old"]},
                   assets: [Assets -> {"old", "absent"}], revision: {"old", "absent"}]
    /\ \E f \in [Processes -> InitialProcess] :
          supervisor = [conf |-> [p \in Processes |-> f[p][1]],
                        registered |-> [p \in Processes |-> f[p][2]],
                        proc |-> [p \in Processes |-> f[p][3]]]
    /\ backups = <<>>
    /\ saved = [r \in Runs |-> EmptyFiles]
    /\ lock = "free"
    /\ kind = [r \in Runs |-> "deploy"]
    /\ selected = [r \in Runs |-> {}]
    /\ mode = [r \in Runs |-> "idle"]
    /\ shell = [r \in Runs |-> FreshShell]
    /\ marked = [r \in Runs |-> FALSE]
    /\ outcome = [r \in Runs |-> "none"]
    /\ before = <<target, supervisor>>
    /\ stale = {}
    /\ impaired = [r \in Runs |-> 0]

\* flock -n takes the free lock.
TakeLock(r) ==
    /\ mode[r] = "idle"
    /\ lock = "free"
    /\ lock' = r
    /\ mode' = [mode EXCEPT ![r] = "main"]
    /\ \E k \in Kind : kind' = [kind EXCEPT ![r] = k]
    /\ \E ps \in Selections : selected' = [selected EXCEPT ![r] = ps]
    /\ before' = <<target, supervisor>>
    /\ stale' = {}
    /\ UNCHANGED <<host, storage, shell, marked, outcome, impaired>>

\* flock -n finds the lock taken: "another deployment is running".
Refused(r) ==
    /\ mode[r] = "idle"
    /\ lock # "free"
    /\ mode' = [mode EXCEPT ![r] = "exited"]
    /\ outcome' = [outcome EXCEPT ![r] = "failed"]
    /\ UNCHANGED <<host, storage, lock, arguments, shell, marked, history, impaired>>

\* Mutant: a daemon that the script starts inherits the descriptor of the lock.
Exits_Locked(r, result) ==
    /\ mode' = [mode EXCEPT ![r] = "exited"]
    /\ shell' = [shell EXCEPT ![r] = FreshShell]
    /\ outcome' = [outcome EXCEPT ![r] = result]
    /\ UNCHANGED lock

\* The invocation ends; the kernel releases its lock.
Exits(r, result) ==
    /\ mode' = [mode EXCEPT ![r] = "exited"]
    /\ shell' = [shell EXCEPT ![r] = FreshShell]
    /\ outcome' = [outcome EXCEPT ![r] = result]
    /\ lock' = "free"

\* cleanup: there is nothing to undo unless exit_code is not zero and the
\* target may have been changed.
Cleanup(r, exitCode, result) ==
    IF exitCode # 0 /\ shell[r].deployed
    THEN /\ mode' = [mode EXCEPT ![r] = "rollback"]
         /\ shell' = [shell EXCEPT ![r].at = 1]
         /\ outcome' = [outcome EXCEPT ![r] = result]
         /\ UNCHANGED lock
    ELSE Exits(r, result)

\* On to the next command with the shell's variables sh, or to the end.
Advance(r, sh, result) ==
    IF sh.at < Len(Program(r))
    THEN /\ shell' = [shell EXCEPT ![r] = [sh EXCEPT !.at = @ + 1]]
         /\ UNCHANGED <<mode, outcome, lock>>
    ELSE Exits(r, result)

\* Mutant: an existing configuration file is overwritten.
Blocked_NoConfCheck(r) ==
    /\ Applies(r)
    /\ \/ Command(r) = "artifact" /\ ~HasBin(target)
       \/ Command(r) = "restart" /\ ~supervisor.registered[Index(r)]

\* A file in the way of a new configuration, a target without bin and a process
\* that Supervisor does not know leave the command nothing but to fail.
Blocked(r) ==
    /\ Applies(r)
    /\ \/ Command(r) = "render" /\ supervisor.conf[Index(r)] # "absent"
       \/ Command(r) = "artifact" /\ ~HasBin(target)
       \/ Command(r) = "restart" /\ ~supervisor.registered[Index(r)]

\* Mutant: deployed is set when install_release has returned.
NextShell_LateDeployed(r) ==
    [shell[r] EXCEPT
        !.newConfs = IF Command(r) = "render" /\ Applies(r) THEN @ \cup {Index(r)} ELSE @,
        !.deployed = (@ \/ Command(r) = "revision") /\ Command(r) # "complete",
        !.attempts = 0]

\* The assignments to the shell's variables that come with a completed command.
NextShell(r) ==
    [shell[r] EXCEPT
        !.newConfs = IF Command(r) = "render" /\ Applies(r) THEN @ \cup {Index(r)} ELSE @,
        !.deployed = (@ \/ Command(r) = "install") /\ Command(r) # "complete",
        !.attempts = 0]

\* restart_attempt < max_restart_attempts holds for another attempt.
AttemptsLeft(r) == shell[r].attempts + 1 < MaxRestarts

\* Mutant: a failed last restart passes without a look at the status.
StillRuns_NoStatus(r) ==
    /\ Command(r) = "restart" /\ Applies(r)
    /\ ~AttemptsLeft(r)

\* The last restart fails, and the status that is read after it, the only thing
\* that is judged, says that the process, which was not stopped, is RUNNING.
StillRuns(r) ==
    /\ Command(r) = "restart" /\ Applies(r)
    /\ ~AttemptsLeft(r)
    /\ supervisor.proc[Index(r)] # "absent"

\* The current command completes.
Complete(r) ==
    /\ mode[r] = "main"
    /\ ~Blocked(r)
    /\ \/ Happens(r) /\ UNCHANGED stale
       \/ Command(r) = "asset" /\ UNCHANGED <<host, stale>>  \* the release does not have it
       \/ StillRuns(r) /\ stale' = stale \cup {Index(r)} /\ UNCHANGED host
    /\ StorageChanges(r, TRUE)
    /\ marked' = [marked EXCEPT ![r] = @ \/ Command(r) = "marker"]
    /\ Advance(r, NextShell(r), "ok")
    /\ UNCHANGED <<arguments, before, impaired>>

\* An attempt to restart that supervisorctl reports as failed, whatever the status
\* is then, or after which the process does not reach RUNNING, is followed by
\* another one.
Retry(r) ==
    /\ mode[r] = "main"
    /\ Command(r) = "restart" /\ Applies(r)
    /\ AttemptsLeft(r)
    /\ shell' = [shell EXCEPT ![r].attempts = @ + 1]
    /\ StopsHalfway(r)
    /\ UNCHANGED <<storage, lock, arguments, mode, marked, outcome, history, impaired>>

\* The current command fails, "set -e" or die ends the program.  "install" and
\* "complete" only assign the variable deployed.
Fail(r) ==
    /\ mode[r] = "main"
    /\ Command(r) \notin {"install", "complete"} /\ Applies(r)
    /\ Command(r) = "restart" => ~AttemptsLeft(r)
    /\ StopsHalfway(r)
    /\ StorageChanges(r, FALSE)
    /\ Cleanup(r, 1, "failed")
    /\ UNCHANGED <<arguments, marked, history, impaired>>

\* A command of the rollback; "set +e" and "|| true" ignore its failure.
Rollback(r) ==
    /\ mode[r] = "rollback"
    /\ \/ Happens(r) /\ UNCHANGED impaired
       \/ /\ impaired[r] < RollbackFaults
          /\ StopsHalfway(r)
          /\ impaired' = [impaired EXCEPT ![r] = @ + 1]
    /\ Advance(r, shell[r], outcome[r])
    /\ UNCHANGED <<storage, arguments, marked, history>>

\* SIGTERM to the process group: the command in progress dies.  Outside cleanup
\* the EXIT trap runs, and finds in $? the status of the last command that had
\* completed, which is seldom an error; inside cleanup the trap is gone.
Terminate(r) ==
    /\ "TERM" \in Signals
    /\ mode[r] \in {"main", "rollback"}
    /\ StopsHalfway(r)
    /\ StorageChanges(r, FALSE) \/ UNCHANGED storage
    /\ UNCHANGED <<arguments, marked, history, impaired>>
    /\ \/ mode[r] = "main" /\ \E exitCode \in {0, 1} : Cleanup(r, exitCode, "terminated")
       \/ mode[r] = "rollback" /\ Exits(r, "terminated")

\* SIGKILL to the shell alone: no trap runs, and the command in progress goes
\* on with the descriptor of the lock.
Kill(r) ==
    /\ "KILL" \in Signals
    /\ \/ mode[r] = "main" /\ mode' = [mode EXCEPT ![r] = "orphaned_main"]
       \/ mode[r] = "rollback" /\ mode' = [mode EXCEPT ![r] = "orphaned_rollback"]
    /\ UNCHANGED <<host, storage, lock, arguments, shell, marked, outcome, history, impaired>>

\* The orphaned command, if one was running, ends and with it the lock.
OrphanEnds(r) ==
    /\ mode[r] \in {"orphaned_main", "orphaned_rollback"}
    /\ \/ Happens(r) /\ StorageChanges(r, FALSE)
       \/ UNCHANGED <<host, storage>>
    /\ Exits(r, "killed")
    /\ UNCHANGED <<arguments, marked, history, impaired>>

Next == \E r \in Runs :
    \/ TakeLock(r) \/ Refused(r) \/ Complete(r) \/ Retry(r) \/ Fail(r) \/ Rollback(r)
    \/ Terminate(r) \/ Kill(r) \/ OrphanEnds(r)

Spec == Init /\ [][Next]_vars
\* Every command ends, one way or another; the lock is nobody's to wait for.
Step(r) == Complete(r) \/ Retry(r) \/ Fail(r) \/ Rollback(r) \/ OrphanEnds(r)
FairSpec == Spec /\ \A r \in Runs : WF_vars(Step(r))

-----------------------------------------------------------------------------
(* Properties. *)

Mode == {"idle", "main", "rollback", "orphaned_main", "orphaned_rollback", "exited"}

\* Every variable has its type.
TypeOK ==
    /\ target \in Files
    /\ supervisor \in Supervisor
    /\ backups \in Seq(Runs)
    /\ saved \in [Runs -> Files]
    /\ lock \in Runs \cup {"free"}
    /\ kind \in [Runs -> Kind]
    /\ selected \in [Runs -> Selections \cup {{}}]
    /\ mode \in [Runs -> Mode]
    /\ shell \in [Runs -> Shell]
    /\ marked \in [Runs -> BOOLEAN]
    /\ outcome \in [Runs -> {"none", "ok", "failed", "terminated", "killed"}]
    /\ before \in Files \X Supervisor
    /\ stale \in SUBSET Processes
    /\ impaired \in [Runs -> 0..RollbackFaults]

Active(r) == mode[r] \notin {"idle", "exited"}
Backups == {backups[i] : i \in 1..Len(backups)}

\* r, which held the lock, ends in this step with the given outcome.
Ends(r, result) == Active(r) /\ mode'[r] = "exited" /\ outcome'[r] = result

\* Process p of r executes the release of r; or, only if its last restart failed
\* and it was RUNNING nevertheless, what it executed when r took the lock.
Executes(r, p) ==
    \/ supervisor.proc[p] = r
    \/ p \in stale /\ supervisor.proc[p] = before[2].proc[p] /\ supervisor.proc[p] # "absent"

\* The release of r is installed as a whole and its processes execute it.
IsReleased(r) ==
    /\ \A a \in Artifacts : target.bin[a] = r
    /\ target.revision = r
    /\ \A p \in selected[r] : supervisor.registered[p] /\ Executes(r, p)

\* The host is as r found it, but for asset directories that did not exist and
\* for processes that were restarted with the binaries that were restored.
IsRestored(r) ==
    LET files == before[1]
        sup == before[2]
    IN  /\ target.bin = files.bin /\ target.revision = files.revision
        /\ \A a \in Assets : files.assets[a] \in {"absent", target.assets[a]}
        /\ supervisor.conf = sup.conf /\ supervisor.registered = sup.registered
        /\ \A p \in Processes :
              \/ supervisor.proc[p] = sup.proc[p]
              \/ p \in selected[r] /\ sup.registered[p] /\ supervisor.proc[p] = Load(p)

\* A deployment that is not interrupted takes effect as a whole or not at all:
\* it ends with status 0 and its release live, or, once Supervisor reports the
\* release healthy, with a failure to prune and its release live, or with a
\* failure and the host as it was.  Live means that the files are all there and
\* that every process runs, with the new files unless its last restart failed.
AllOrNothing ==
    [][ \A r \in Runs : kind[r] = "deploy" /\ impaired'[r] = 0 =>
            /\ Ends(r, "ok") => IsReleased(r)'
            /\ Ends(r, "failed") => IF mode[r] = "main" /\ Command(r) = "prune"
                                    THEN IsReleased(r)' ELSE IsRestored(r)' ]_vars

\* The message for a canceled deployment says that the old version is protected.
TerminatedMeansRestored ==
    [][ \A r \in Runs : kind[r] = "deploy" /\ Ends(r, "terminated") => IsRestored(r)' ]_vars

\* While the target may differ from what it was, the backup of it exists and is
\* complete, whatever other invocations do and whenever signals arrive.
BackupIsIntact ==
    \A r \in Runs : Active(r) /\ shell[r].deployed => r \in Backups /\ saved[r] = before[1]

\* Nothing on the host changes before the marker, so a deployment that is
\* reported as compile_failed has not touched the running service.
UntouchedBeforeMarker ==
    [][ \A r \in Runs : lock = r /\ kind[r] = "deploy" /\ ~marked'[r] => UNCHANGED host ]_vars

\* A Supervisor configuration that no run created is never written or removed.
OldConfsSurvive ==
    [][ \A p \in Processes : supervisor.conf[p] = "old" => supervisor'.conf[p] = "old" ]_vars

Whole(files) == files.bin[1] \notin {"absent", "torn"} /\ \A a \in Artifacts : files.bin[a] = files.bin[1]

\* Whatever is interrupted or fails, a target that holds no whole release can be
\* repaired from a backup that does: only deployments that have installed a
\* whole release prune, and no backup of another run is ever overwritten.
Recoverable == Whole(target) \/ \E r \in Backups : Whole(saved[r])

\* The documentation: the backups of the last Keep successful deployments stay.
RetainsSuccessful ==
    LET ok == {r \in Runs : kind[r] = "deploy" /\ outcome[r] = "ok"}
    IN  Cardinality(ok \cap Backups) >= IF Cardinality(ok) < Keep THEN Cardinality(ok) ELSE Keep

\* The one release that the binaries are from.
Installed(files) ==
    IF \A a \in Artifacts : files.bin[a] = files.bin[1] THEN files.bin[1] ELSE "torn"

Release == INSTANCE AtomicRelease WITH
    live <- IF lock = "free" THEN Installed(target) ELSE Installed(before[1]),
    holder <- lock,
    turns <- {r \in Runs : selected[r] # {}}

\* Without signals the script implements AtomicRelease: while a run holds the
\* lock, what counts as live is what it found, although the target changes
\* file by file.
ImplementsAtomicRelease == Release!Spec

\* An invocation does not keep the lock for ever: its restarts are bounded.
LockIsReleased == \A r \in Runs : lock = r ~> lock # r
=============================================================================
