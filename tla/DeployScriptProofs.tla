-------------------------- MODULE DeployScriptProofs --------------------------
(***************************************************************************)
(* Proofs about DeployScript, for any number of invocations, artifacts,    *)
(* assets and processes, any signals and any failures of a rollback.       *)
(*                                                                         *)
(* The inductive invariant says of the run that holds the lock how far it  *)
(* has come: what its place in the program it executes says about the      *)
(* shell's variables, the backup and the host.  InstalledTo and StartedTo  *)
(* are the progress of a deployment, in files and processes, and UndoneTo  *)
(* that of its rollback, position by position; Supervised is what keeps a  *)
(* rollback possible meanwhile.                                            *)
(***************************************************************************)
EXTENDS DeployScript, SequenceTheorems, TLAPS

\* The places of the deployment program: artifact a is installed at 5 + a, asset
\* a at AssetAt + a, process p is rendered at RenderAt + p, and so on.
AssetAt == 5 + NArtifacts
RevisionAt == AssetAt + NAssets
RenderAt == RevisionAt + 2
ConfAt == RenderAt + NProcesses
UpdateAt == ConfAt + NProcesses
RestartAt == UpdateAt + NProcesses
CompleteAt == RestartAt + NProcesses

\* The places of the rollback program: asset a is removed at 1 + 2a and copied
\* at 2 + 2a.
OldRevisionAt == 2 + 2 * NAssets
RmConfAt == OldRevisionAt + 1
DropAt == RmConfAt + NProcesses
RestartOldAt == DropAt + NProcesses
LastUndone == RestartOldAt + NProcesses

InMain(r) == mode[r] \in {"main", "orphaned_main"}
InRollback(r) == mode[r] \in {"rollback", "orphaned_rollback"}
Deploys(r) == kind[r] = "deploy"

\* The lock is held by the one run that is active.
Locks == \A r \in Runs : Active(r) <=> lock = r

\* A run that has not started has no backup and no selection.
Waiting ==
    \A r \in Runs : mode[r] = "idle" =>
        selected[r] = {} /\ shell[r] = FreshShell /\ saved[r] = EmptyFiles

\* What a run's place says about its variables.  Only a deployment that may have
\* changed the target is rolled back.
Placed(r) ==
    /\ InRollback(r) =>
          /\ Deploys(r) /\ shell[r].deployed /\ outcome[r] \in {"failed", "terminated"}
          /\ shell[r].at <= LastUndone
    /\ InMain(r) /\ Deploys(r) =>
          /\ shell[r].at <= CompleteAt + 2
          /\ shell[r].deployed <=> shell[r].at \in 6..(CompleteAt + 1)
    /\ InMain(r) /\ ~Deploys(r) =>
          shell[r].at <= NProcesses /\ ~shell[r].deployed /\ shell[r].newConfs = {}
    /\ Deploys(r) /\ (InRollback(r) \/ shell[r].at > 3) => marked[r]

\* The host before the installation, the files during a restart.
Untouched(r) ==
    /\ InMain(r) /\ Deploys(r) /\ shell[r].at <= 5 =>
          before = <<target, supervisor>> /\ shell[r].newConfs = {}
    /\ InMain(r) /\ Deploys(r) /\ shell[r].at <= 4 => saved[r] = EmptyFiles
    /\ ~Deploys(r) => target = before[1]

\* The backup is complete from its command until the deployment is.
BackedUp(r) ==
    Deploys(r) /\ (InRollback(r) \/ shell[r].at \in 5..(CompleteAt + 1)) =>
        r \in Backups /\ saved[r] = before[1]

\* There is a release to go back to while the target may be in pieces.
SomeWhole == \E r \in Backups : Whole(saved[r])
CanGoBack(r) == shell[r].deployed => SomeWhole

\* Without a bin directory nothing is ever installed in it.
NoBin(r) == ~HasBin(before[1]) => target.bin = before[1].bin

\* Of the processes that Supervisor had, old, only the ones with a configuration
\* from this run, which it did not know, differ in more than what they execute.
Supervised(old, sup, sel, confs) ==
    \A p \in Processes :
        /\ p \in confs =>
              /\ p \in sel /\ sup.conf[p] # "old"
              /\ old.conf[p] = "absent" /\ ~old.registered[p]
        /\ p \notin confs =>
              /\ sup.conf[p] = old.conf[p] /\ sup.registered[p] = old.registered[p]
              /\ p \notin sel \/ ~old.registered[p] => sup.proc[p] = old.proc[p]

\* What Supervisor does not know it does not execute.
Registered(sup) == \A p \in Processes : ~sup.registered[p] => sup.proc[p] = "absent"

\* The deployment of r has completed the commands before place n.
InstalledTo(r, files, n) ==
    /\ \A a \in Artifacts : n > 5 + a => files.bin[a] = r
    /\ n > RevisionAt + 1 => files.revision = r

\* Its processes execute the release, what they executed before it, or nothing;
\* the ones that it has restarted the release, but for those that still run, st.
StartedTo(r, old, sup, sel, st, n) ==
    /\ \A p \in Processes : sup.proc[p] \in {r, old.proc[p], "absent"}
    /\ \A p \in sel : n > RestartAt + p =>
          /\ sup.registered[p]
          /\ sup.proc[p] = r \/ (p \in st /\ sup.proc[p] = old.proc[p] /\ sup.proc[p] # "absent")

\* A rollback to old has completed the commands before place n; a directory
\* that was there is gone just before it is copied.
UndoneTo(old, files, sup, sel, confs, n) ==
    /\ n = 2 /\ HasBin(old) => ~HasBin(files)
    /\ n > 2 => files.bin = old.bin
    /\ \A a \in Assets : n = 2 + 2 * a /\ old.assets[a] # "absent" => files.assets[a] = "absent"
    /\ \A a \in Assets : n > 2 + 2 * a => old.assets[a] \in {"absent", files.assets[a]}
    /\ n > RmConfAt => files.revision = old.revision
    /\ \A p \in confs : n > RmConfAt + p => sup.conf[p] = "absent"
    /\ \A p \in confs : n > DropAt + p => ~sup.registered[p] /\ sup.proc[p] = "absent"
    /\ \A p \in sel \ confs : n > RestartOldAt + p /\ sup.registered[p] =>
          sup.proc[p] = old.bin[ArtifactOf[p]]

\* What holds of the run that has the lock.
Holds(r) ==
    /\ Placed(r) /\ Untouched(r) /\ BackedUp(r) /\ CanGoBack(r) /\ NoBin(r)
    /\ Supervised(before[2], supervisor, selected[r], shell[r].newConfs)
    /\ InMain(r) /\ Deploys(r) =>
          /\ InstalledTo(r, target, shell[r].at)
          /\ StartedTo(r, before[2], supervisor, selected[r], stale, shell[r].at)
    /\ InRollback(r) /\ impaired[r] = 0 =>
          UndoneTo(before[1], target, supervisor, selected[r], shell[r].newConfs, shell[r].at)

Holder == \A r \in Runs : Active(r) => Holds(r)

IInv ==
    /\ TypeOK /\ Locks /\ Waiting /\ Holder /\ Recoverable
    /\ Registered(supervisor) /\ Registered(before[2])
-----------------------------------------------------------------------------
(* The programs, place by place. *)

Names == {"source", "build", "marker", "backup", "install", "artifact", "asset", "revision", "hook",
          "render", "conf", "update", "restart", "complete", "prune", "rm_bin", "cp_bin",
          "rm_asset", "cp_asset", "cp_revision", "rm_conf", "drop", "restart_old"}

Commands == Names \X Nat

LEMMA IsCommand ==
  ASSUME NEW name \in Names, NEW i \in Nat
  PROVE  <<name, i>> \in Commands
  BY DEF Commands

\* s is a program of k commands.
IsProgram(s, k) == s \in Seq(Commands) /\ k \in Nat /\ Len(s) = k

\* t is the program s of k commands and then those of u.
IsThen(t, s, k, u, n) ==
    /\ \A i \in 1..k : t[i] = s[i]
    /\ \A i \in (k + 1)..(k + n) : t[i] = u[i - k]

LEMMA Then ==
  ASSUME NEW s, NEW k, IsProgram(s, k), NEW u, NEW n, IsProgram(u, n)
  PROVE  IsProgram(s \o u, k + n) /\ IsThen(s \o u, s, k, u, n)
<1>1. /\ s \in Seq(Commands) /\ u \in Seq(Commands)
      /\ Len(s) = k /\ Len(u) = n /\ k \in Nat /\ n \in Nat
  BY DEF IsProgram
<1>2. s \o u \in Seq(Commands) /\ Len(s \o u) = k + n
  BY <1>1
<1>3. \A i \in 1..k : (s \o u)[i] = s[i]
  BY <1>1
<1>4. \A i \in (k + 1)..(k + n) : (s \o u)[i] = u[i - k]
  BY <1>1
<1>5. k + n \in Nat
  BY <1>1
<1>6. QED
  BY <1>2, <1>3, <1>4, <1>5, Zenon DEF IsProgram, IsThen

\* t is the program s of k commands and then the command name for 1..n.
IsThenEach(t, s, k, name, n) ==
    /\ \A i \in 1..k : t[i] = s[i]
    /\ \A i \in (k + 1)..(k + n) : t[i] = <<name, i - k>>

LEMMA ThenEach ==
  ASSUME NEW s, NEW k, IsProgram(s, k), NEW name \in Names, NEW n \in Nat
  PROVE  IsProgram(s \o Each(name, n), k + n) /\ IsThenEach(s \o Each(name, n), s, k, name, n)
<1> DEFINE u == Each(name, n)
<1>1. IsProgram(u, n) /\ \A i \in 1..n : u[i] = <<name, i>>
  BY IsCommand DEF Each, IsProgram
<1> HIDE DEF u
<1> DEFINE t == s \o u
<1>2. IsProgram(t, k + n) /\ IsThen(t, s, k, u, n)
  BY <1>1, Then
<1>k. k \in Nat
  BY DEF IsProgram
<1> HIDE DEF t
<1>3. IsThenEach(t, s, k, name, n)
  BY <1>1, <1>2, <1>k DEF IsThen, IsThenEach
<1>4. QED
  BY <1>2, <1>3 DEF t, u

\* The deployment program, place by place.
LEMMA DeployAt ==
  /\ Len(DeployProgram) = CompleteAt + 2
  /\ DeployProgram[1] = <<"source", 1>> /\ DeployProgram[2] = <<"build", 1>>
  /\ DeployProgram[3] = <<"marker", 1>> /\ DeployProgram[4] = <<"backup", 1>>
  /\ DeployProgram[5] = <<"install", 1>>
  /\ \A j \in 6..AssetAt : DeployProgram[j] = <<"artifact", j - 5>>
  /\ \A j \in (AssetAt + 1)..RevisionAt : DeployProgram[j] = <<"asset", j - AssetAt>>
  /\ DeployProgram[RevisionAt + 1] = <<"revision", 1>>
  /\ DeployProgram[RenderAt] = <<"hook", 1>>
  /\ \A j \in (RenderAt + 1)..ConfAt : DeployProgram[j] = <<"render", j - RenderAt>>
  /\ \A j \in (ConfAt + 1)..UpdateAt : DeployProgram[j] = <<"conf", j - ConfAt>>
  /\ \A j \in (UpdateAt + 1)..RestartAt : DeployProgram[j] = <<"update", j - UpdateAt>>
  /\ \A j \in (RestartAt + 1)..CompleteAt : DeployProgram[j] = <<"restart", j - RestartAt>>
  /\ DeployProgram[CompleteAt + 1] = <<"complete", 1>>
  /\ DeployProgram[CompleteAt + 2] = <<"prune", 1>>
<1> DEFINE P0 == << <<"source", 1>>, <<"build", 1>>, <<"marker", 1>>, <<"backup", 1>>,
                    <<"install", 1>> >>
           P1 == P0 \o Each("artifact", NArtifacts)
           P2 == P1 \o Each("asset", NAssets)
           Q3 == << <<"revision", 1>>, <<"hook", 1>> >>
           P3 == P2 \o Q3
           P4 == P3 \o Each("render", NProcesses)
           P5 == P4 \o Each("conf", NProcesses)
           P6 == P5 \o Each("update", NProcesses)
           P7 == P6 \o Each("restart", NProcesses)
           Q8 == << <<"complete", 1>>, <<"prune", 1>> >>
           P8 == P7 \o Q8
<1>n. NArtifacts \in Nat \ {0} /\ NAssets \in Nat /\ NProcesses \in Nat \ {0}
  BY SizesAssumption
<1>s. /\ "source" \in Names /\ "build" \in Names /\ "marker" \in Names /\ "backup" \in Names
      /\ "install" \in Names /\ "artifact" \in Names /\ "asset" \in Names /\ "revision" \in Names
      /\ "hook" \in Names /\ "render" \in Names /\ "conf" \in Names /\ "update" \in Names
      /\ "restart" \in Names /\ "complete" \in Names /\ "prune" \in Names
  BY DEF Names
<1>p. DeployProgram = P8
  BY DEF DeployProgram, RestartProgram
<1>0. /\ IsProgram(P0, 5)
      /\ P0[1] = <<"source", 1>> /\ P0[2] = <<"build", 1>> /\ P0[3] = <<"marker", 1>>
      /\ P0[4] = <<"backup", 1>> /\ P0[5] = <<"install", 1>>
  BY <1>s, IsCommand DEF IsProgram
<1>q. /\ IsProgram(Q3, 2) /\ Q3[1] = <<"revision", 1>> /\ Q3[2] = <<"hook", 1>>
      /\ IsProgram(Q8, 2) /\ Q8[1] = <<"complete", 1>> /\ Q8[2] = <<"prune", 1>>
  BY <1>s, IsCommand DEF IsProgram
<1> HIDE DEF P0, Q3, Q8
<1>1. IsProgram(P1, AssetAt) /\ IsThenEach(P1, P0, 5, "artifact", NArtifacts)
  BY <1>0, <1>s, <1>n, ThenEach DEF AssetAt
<1> HIDE DEF P1
<1>2. IsProgram(P2, RevisionAt) /\ IsThenEach(P2, P1, AssetAt, "asset", NAssets)
  BY <1>1, <1>s, <1>n, ThenEach DEF RevisionAt
<1> HIDE DEF P2
<1>3. IsProgram(P3, RenderAt) /\ IsThen(P3, P2, RevisionAt, Q3, 2)
  BY <1>2, <1>q, <1>n, Then DEF RenderAt
<1> HIDE DEF P3
<1>4. IsProgram(P4, ConfAt) /\ IsThenEach(P4, P3, RenderAt, "render", NProcesses)
  BY <1>3, <1>s, <1>n, ThenEach DEF ConfAt
<1> HIDE DEF P4
<1>5. IsProgram(P5, UpdateAt) /\ IsThenEach(P5, P4, ConfAt, "conf", NProcesses)
  BY <1>4, <1>s, <1>n, ThenEach DEF UpdateAt
<1> HIDE DEF P5
<1>6. IsProgram(P6, RestartAt) /\ IsThenEach(P6, P5, UpdateAt, "update", NProcesses)
  BY <1>5, <1>s, <1>n, ThenEach DEF RestartAt
<1> HIDE DEF P6
<1>7. IsProgram(P7, CompleteAt) /\ IsThenEach(P7, P6, RestartAt, "restart", NProcesses)
  BY <1>6, <1>s, <1>n, ThenEach DEF CompleteAt
<1> HIDE DEF P7
<1>8. IsProgram(P8, CompleteAt + 2) /\ IsThen(P8, P7, CompleteAt, Q8, 2)
  BY <1>7, <1>q, <1>n, Then DEF IsThenEach, CompleteAt
<1> HIDE DEF P8
<1>m. /\ AssetAt \in Nat /\ RevisionAt \in Nat /\ RenderAt \in Nat /\ ConfAt \in Nat
      /\ UpdateAt \in Nat /\ RestartAt \in Nat /\ CompleteAt \in Nat
      /\ 5 < AssetAt /\ AssetAt <= RevisionAt /\ RenderAt = RevisionAt + 2 /\ RenderAt < ConfAt
      /\ ConfAt < UpdateAt /\ UpdateAt < RestartAt /\ RestartAt < CompleteAt
  BY <1>n DEF AssetAt, RevisionAt, RenderAt, ConfAt, UpdateAt, RestartAt, CompleteAt
<1>c7. \A i \in 1..CompleteAt : P8[i] = P7[i]
  BY <1>8, <1>m DEF IsThen
<1>c6. \A i \in 1..RestartAt : P8[i] = P6[i]
  BY <1>c7, <1>7, <1>m DEF IsThenEach
<1>c5. \A i \in 1..UpdateAt : P8[i] = P5[i]
  BY <1>c6, <1>6, <1>m DEF IsThenEach
<1>c4. \A i \in 1..ConfAt : P8[i] = P4[i]
  BY <1>c5, <1>5, <1>m DEF IsThenEach
<1>c3. \A i \in 1..RenderAt : P8[i] = P3[i]
  BY <1>c4, <1>4, <1>m DEF IsThenEach
<1>c2. \A i \in 1..RevisionAt : P8[i] = P2[i]
  BY <1>c3, <1>3, <1>m DEF IsThen
<1>c1. \A i \in 1..AssetAt : P8[i] = P1[i]
  BY <1>c2, <1>2, <1>m DEF IsThenEach
<1>c0. \A i \in 1..5 : P8[i] = P0[i]
  BY <1>c1, <1>1, <1>m DEF IsThenEach
<1>d0. /\ P8[1] = <<"source", 1>> /\ P8[2] = <<"build", 1>> /\ P8[3] = <<"marker", 1>>
       /\ P8[4] = <<"backup", 1>> /\ P8[5] = <<"install", 1>>
  BY <1>c0, <1>0
<1>d1. \A j \in 6..AssetAt : P8[j] = <<"artifact", j - 5>>
  BY <1>c1, <1>1, <1>m DEF IsThenEach, AssetAt
<1>d2. \A j \in (AssetAt + 1)..RevisionAt : P8[j] = <<"asset", j - AssetAt>>
  BY <1>c2, <1>2, <1>m DEF IsThenEach, RevisionAt
<1>d4. \A j \in (RenderAt + 1)..ConfAt : P8[j] = <<"render", j - RenderAt>>
  BY <1>c4, <1>4, <1>m DEF IsThenEach, ConfAt
<1>d5. \A j \in (ConfAt + 1)..UpdateAt : P8[j] = <<"conf", j - ConfAt>>
  BY <1>c5, <1>5, <1>m DEF IsThenEach, UpdateAt
<1>d6. \A j \in (UpdateAt + 1)..RestartAt : P8[j] = <<"update", j - UpdateAt>>
  BY <1>c6, <1>6, <1>m DEF IsThenEach, RestartAt
<1>d7. \A j \in (RestartAt + 1)..CompleteAt : P8[j] = <<"restart", j - RestartAt>>
  BY <1>c7, <1>7, <1>m DEF IsThenEach, CompleteAt
<1>d3. P8[RevisionAt + 1] = <<"revision", 1>> /\ P8[RenderAt] = <<"hook", 1>>
  BY <1>c3, <1>3, <1>q, <1>m DEF IsThen
<1>d8. P8[CompleteAt + 1] = <<"complete", 1>> /\ P8[CompleteAt + 2] = <<"prune", 1>>
  BY <1>8, <1>q, <1>m DEF IsThen
<1>9. QED
  BY <1>p, <1>8, <1>d0, <1>d1, <1>d2, <1>d3, <1>d4, <1>d5, <1>d6, <1>d7, <1>d8, Zenon DEF IsProgram

\* The rollback program, place by place.
LEMMA RollbackAt ==
  /\ Len(RollbackProgram) = LastUndone
  /\ RollbackProgram[1] = <<"rm_bin", 1>> /\ RollbackProgram[2] = <<"cp_bin", 1>>
  /\ \A j \in 3..OldRevisionAt :
        RollbackProgram[j] = <<IF j % 2 = 1 THEN "rm_asset" ELSE "cp_asset", (j - 1) \div 2>>
  /\ RollbackProgram[RmConfAt] = <<"cp_revision", 1>>
  /\ \A j \in (RmConfAt + 1)..DropAt : RollbackProgram[j] = <<"rm_conf", j - RmConfAt>>
  /\ \A j \in (DropAt + 1)..RestartOldAt : RollbackProgram[j] = <<"drop", j - DropAt>>
  /\ \A j \in (RestartOldAt + 1)..LastUndone :
        RollbackProgram[j] = <<"restart_old", j - RestartOldAt>>
<1> DEFINE P0 == << <<"rm_bin", 1>>, <<"cp_bin", 1>> >>
           Q1 == [i \in 1..(2 * NAssets) |->
                    <<IF i % 2 = 1 THEN "rm_asset" ELSE "cp_asset", (i + 1) \div 2>>]
           P1 == P0 \o Q1
           Q2 == << <<"cp_revision", 1>> >>
           P2 == P1 \o Q2
           P3 == P2 \o Each("rm_conf", NProcesses)
           P4 == P3 \o Each("drop", NProcesses)
           P5 == P4 \o Each("restart_old", NProcesses)
<1>n. NAssets \in Nat /\ NProcesses \in Nat \ {0}
  BY SizesAssumption
<1>s. /\ "rm_bin" \in Names /\ "cp_bin" \in Names /\ "rm_asset" \in Names /\ "cp_asset" \in Names
      /\ "cp_revision" \in Names /\ "rm_conf" \in Names /\ "drop" \in Names
      /\ "restart_old" \in Names
  BY DEF Names
<1>p. RollbackProgram = P5
  BY DEF RollbackProgram
<1>0. IsProgram(P0, 2) /\ P0[1] = <<"rm_bin", 1>> /\ P0[2] = <<"cp_bin", 1>>
  BY <1>s, IsCommand DEF IsProgram
<1>t. IsProgram(Q2, 1) /\ Q2[1] = <<"cp_revision", 1>>
  BY <1>s, IsCommand DEF IsProgram
<1>q. /\ IsProgram(Q1, 2 * NAssets)
      /\ \A i \in 1..(2 * NAssets) :
            Q1[i] = <<IF i % 2 = 1 THEN "rm_asset" ELSE "cp_asset", (i + 1) \div 2>>
  <2>1. \A i \in 1..(2 * NAssets) : (i + 1) \div 2 \in Nat
    BY <1>n
  <2>2. \A i \in 1..(2 * NAssets) :
           <<IF i % 2 = 1 THEN "rm_asset" ELSE "cp_asset", (i + 1) \div 2>> \in Commands
    BY <2>1, <1>s, IsCommand
  <2>3. Q1 \in [1..(2 * NAssets) -> Commands] /\ 2 * NAssets \in Nat
    BY <2>2, <1>n
  <2>4. \A i \in 1..(2 * NAssets) :
           Q1[i] = <<IF i % 2 = 1 THEN "rm_asset" ELSE "cp_asset", (i + 1) \div 2>>
    OBVIOUS
  <2> HIDE DEF Q1
  <2>5. QED
    BY <2>3, <2>4 DEF IsProgram
<1> HIDE DEF P0, Q1, Q2
<1>1. IsProgram(P1, OldRevisionAt) /\ IsThen(P1, P0, 2, Q1, 2 * NAssets)
  BY <1>0, <1>q, Then DEF OldRevisionAt
<1> HIDE DEF P1
<1>2. IsProgram(P2, RmConfAt) /\ IsThen(P2, P1, OldRevisionAt, Q2, 1)
  BY <1>t, <1>1, Then DEF RmConfAt
<1> HIDE DEF P2
<1>3. IsProgram(P3, DropAt) /\ IsThenEach(P3, P2, RmConfAt, "rm_conf", NProcesses)
  BY <1>2, <1>s, <1>n, ThenEach DEF DropAt
<1> HIDE DEF P3
<1>4. IsProgram(P4, RestartOldAt) /\ IsThenEach(P4, P3, DropAt, "drop", NProcesses)
  BY <1>3, <1>s, <1>n, ThenEach DEF RestartOldAt
<1> HIDE DEF P4
<1>5. IsProgram(P5, LastUndone) /\ IsThenEach(P5, P4, RestartOldAt, "restart_old", NProcesses)
  BY <1>4, <1>s, <1>n, ThenEach DEF LastUndone
<1> HIDE DEF P5
<1>m. /\ OldRevisionAt \in Nat /\ RmConfAt \in Nat /\ DropAt \in Nat /\ RestartOldAt \in Nat
      /\ 2 <= OldRevisionAt /\ RmConfAt = OldRevisionAt + 1 /\ RmConfAt < DropAt
      /\ DropAt < RestartOldAt /\ RestartOldAt < LastUndone
  BY <1>n DEF OldRevisionAt, RmConfAt, DropAt, RestartOldAt, LastUndone
<1>c4. \A i \in 1..RestartOldAt : P5[i] = P4[i]
  BY <1>5, <1>m DEF IsThenEach
<1>c3. \A i \in 1..DropAt : P5[i] = P3[i]
  BY <1>c4, <1>4, <1>m DEF IsThenEach
<1>c2. \A i \in 1..RmConfAt : P5[i] = P2[i]
  BY <1>c3, <1>3, <1>m DEF IsThenEach
<1>c1. \A i \in 1..OldRevisionAt : P5[i] = P1[i]
  BY <1>c2, <1>2, <1>m DEF IsThen
<1>c0. \A i \in 1..2 : P5[i] = P0[i]
  BY <1>c1, <1>1, <1>m DEF IsThen
<1>d0. P5[1] = <<"rm_bin", 1>> /\ P5[2] = <<"cp_bin", 1>>
  BY <1>c0, <1>0
<1>d1. ASSUME NEW j \in 3..OldRevisionAt
       PROVE  P5[j] = <<IF j % 2 = 1 THEN "rm_asset" ELSE "cp_asset", (j - 1) \div 2>>
  <2>1. P5[j] = Q1[j - 2] /\ j - 2 \in 1..(2 * NAssets)
    BY <1>c1, <1>1, <1>m, <1>n DEF IsThen, OldRevisionAt
  <2>2. (j - 2) % 2 = j % 2 /\ ((j - 2) + 1) \div 2 = (j - 1) \div 2
    BY <1>m
  <2>3. QED
    BY <2>1, <2>2, <1>q
<1>d2. P5[RmConfAt] = <<"cp_revision", 1>>
  BY <1>c2, <1>2, <1>t, <1>m DEF IsThen
<1>d3. \A j \in (RmConfAt + 1)..DropAt : P5[j] = <<"rm_conf", j - RmConfAt>>
  BY <1>c3, <1>3, <1>m DEF IsThenEach, DropAt
<1>d4. \A j \in (DropAt + 1)..RestartOldAt : P5[j] = <<"drop", j - DropAt>>
  BY <1>c4, <1>4, <1>m DEF IsThenEach, RestartOldAt
<1>d5. \A j \in (RestartOldAt + 1)..LastUndone : P5[j] = <<"restart_old", j - RestartOldAt>>
  BY <1>5, <1>m DEF IsThenEach, LastUndone
<1>6. QED
  BY <1>p, <1>5, <1>d0, <1>d1, <1>d2, <1>d3, <1>d4, <1>d5, Zenon DEF IsProgram

-----------------------------------------------------------------------------
(* The current command of a run. *)

\* Command c with index i is at place n of the deployment program.
AtDeploy(c, i, n) ==
    \/ n = 1 /\ c = "source"
    \/ n = 2 /\ c = "build"
    \/ n = 3 /\ c = "marker"
    \/ n = 4 /\ c = "backup"
    \/ n = 5 /\ c = "install"
    \/ c = "artifact" /\ i \in Artifacts /\ n = 5 + i
    \/ c = "asset" /\ i \in Assets /\ n = AssetAt + i
    \/ c = "revision" /\ n = RevisionAt + 1
    \/ c = "hook" /\ n = RenderAt
    \/ c = "render" /\ i \in Processes /\ n = RenderAt + i
    \/ c = "conf" /\ i \in Processes /\ n = ConfAt + i
    \/ c = "update" /\ i \in Processes /\ n = UpdateAt + i
    \/ c = "restart" /\ i \in Processes /\ n = RestartAt + i
    \/ c = "complete" /\ n = CompleteAt + 1
    \/ c = "prune" /\ n = CompleteAt + 2

\* Command c with index i is at place n of the rollback program.
AtRollback(c, i, n) ==
    \/ n = 1 /\ c = "rm_bin"
    \/ n = 2 /\ c = "cp_bin"
    \/ c = "rm_asset" /\ i \in Assets /\ n = 1 + 2 * i
    \/ c = "cp_asset" /\ i \in Assets /\ n = 2 + 2 * i
    \/ c = "cp_revision" /\ n = RmConfAt
    \/ c = "rm_conf" /\ i \in Processes /\ n = RmConfAt + i
    \/ c = "drop" /\ i \in Processes /\ n = DropAt + i
    \/ c = "restart_old" /\ i \in Processes /\ n = RestartOldAt + i

LEMMA Places ==
  /\ AssetAt \in Nat /\ RevisionAt \in Nat /\ RenderAt \in Nat /\ ConfAt \in Nat
  /\ UpdateAt \in Nat /\ RestartAt \in Nat /\ CompleteAt \in Nat
  /\ 5 < AssetAt /\ AssetAt <= RevisionAt /\ RenderAt = RevisionAt + 2 /\ RenderAt < ConfAt
  /\ ConfAt < UpdateAt /\ UpdateAt < RestartAt /\ RestartAt < CompleteAt
  /\ OldRevisionAt \in Nat /\ RmConfAt \in Nat /\ DropAt \in Nat /\ RestartOldAt \in Nat
  /\ LastUndone \in Nat
  /\ 2 <= OldRevisionAt /\ RmConfAt = OldRevisionAt + 1 /\ RmConfAt < DropAt
  /\ DropAt < RestartOldAt /\ RestartOldAt < LastUndone
  BY SizesAssumption
     DEF AssetAt, RevisionAt, RenderAt, ConfAt, UpdateAt, RestartAt, CompleteAt,
         OldRevisionAt, RmConfAt, DropAt, RestartOldAt, LastUndone

LEMMA DeployCommand ==
  ASSUME NEW r \in Runs, InMain(r), Deploys(r), shell[r].at \in 1..(CompleteAt + 2)
  PROVE  /\ Len(Program(r)) = CompleteAt + 2
         /\ AtDeploy(Command(r), Index(r), shell[r].at)
<1> DEFINE n == shell[r].at
           d == DeployProgram[n]
<1>1. Program(r) = DeployProgram
  BY DEF Program, InMain, Deploys
<1>2. AtDeploy(d[1], d[2], n)
  <2>1. CASE n <= 5
    <3>1. n \in {1, 2, 3, 4, 5}
      BY <2>1
    <3>2. QED
      BY <3>1, DeployAt DEF AtDeploy
  <2>2. CASE n \in 6..AssetAt
    <3>1. d = <<"artifact", n - 5>>
      BY <2>2, DeployAt
    <3>2. n - 5 \in Artifacts /\ n = 5 + (n - 5)
      BY <2>2, SizesAssumption DEF AssetAt, Artifacts
    <3>3. QED
      BY <3>1, <3>2 DEF AtDeploy
  <2>3. CASE n \in (AssetAt + 1)..RevisionAt
    <3>1. d = <<"asset", n - AssetAt>>
      BY <2>3, DeployAt
    <3>2. n - AssetAt \in Assets /\ n = AssetAt + (n - AssetAt)
      BY <2>3, SizesAssumption, Places DEF RevisionAt, Assets
    <3>3. QED
      BY <3>1, <3>2 DEF AtDeploy
  <2>4. CASE n \in {RevisionAt + 1, RenderAt, CompleteAt + 1, CompleteAt + 2}
    BY <2>4, DeployAt DEF AtDeploy
  <2>5. CASE n \in (RenderAt + 1)..ConfAt
    <3>1. d = <<"render", n - RenderAt>>
      BY <2>5, DeployAt
    <3>2. n - RenderAt \in Processes /\ n = RenderAt + (n - RenderAt)
      BY <2>5, SizesAssumption, Places DEF ConfAt, Processes
    <3>3. QED
      BY <3>1, <3>2 DEF AtDeploy
  <2>6. CASE n \in (ConfAt + 1)..UpdateAt
    <3>1. d = <<"conf", n - ConfAt>>
      BY <2>6, DeployAt
    <3>2. n - ConfAt \in Processes /\ n = ConfAt + (n - ConfAt)
      BY <2>6, SizesAssumption, Places DEF UpdateAt, Processes
    <3>3. QED
      BY <3>1, <3>2 DEF AtDeploy
  <2>7. CASE n \in (UpdateAt + 1)..RestartAt
    <3>1. d = <<"update", n - UpdateAt>>
      BY <2>7, DeployAt
    <3>2. n - UpdateAt \in Processes /\ n = UpdateAt + (n - UpdateAt)
      BY <2>7, SizesAssumption, Places DEF RestartAt, Processes
    <3>3. QED
      BY <3>1, <3>2 DEF AtDeploy
  <2>8. CASE n \in (RestartAt + 1)..CompleteAt
    <3>1. d = <<"restart", n - RestartAt>>
      BY <2>8, DeployAt
    <3>2. n - RestartAt \in Processes /\ n = RestartAt + (n - RestartAt)
      BY <2>8, SizesAssumption, Places DEF CompleteAt, Processes
    <3>3. QED
      BY <3>1, <3>2 DEF AtDeploy
  <2>9. QED
    BY <2>1, <2>2, <2>3, <2>4, <2>5, <2>6, <2>7, <2>8, Places
<1>3. QED
  BY <1>1, <1>2, DeployAt DEF Command, Index

LEMMA RestartCommand ==
  ASSUME NEW r \in Runs, InMain(r), ~Deploys(r), kind[r] \in Kind, shell[r].at \in 1..NProcesses
  PROVE  /\ Len(Program(r)) = NProcesses
         /\ Command(r) = "restart" /\ Index(r) \in Processes
<1>1. Program(r) = RestartProgram
  BY DEF Program, InMain, Deploys, Kind
<1>2. /\ Len(RestartProgram) = NProcesses
      /\ \A i \in 1..NProcesses : RestartProgram[i] = <<"restart", i>>
  BY SizesAssumption DEF RestartProgram, Each
<1>3. QED
  BY <1>1, <1>2 DEF Command, Index, Processes

LEMMA RollbackCommand ==
  ASSUME NEW r \in Runs, InRollback(r), shell[r].at \in 1..LastUndone
  PROVE  /\ Len(Program(r)) = LastUndone
         /\ AtRollback(Command(r), Index(r), shell[r].at)
<1> DEFINE n == shell[r].at
           d == RollbackProgram[n]
<1>1. Program(r) = RollbackProgram
  BY DEF Program, InRollback
<1>2. AtRollback(d[1], d[2], n)
  <2>1. CASE n <= 2
    <3>1. n \in {1, 2}
      BY <2>1
    <3>2. QED
      BY <3>1, RollbackAt DEF AtRollback
  <2>2. CASE n \in 3..OldRevisionAt
    <3> DEFINE a == (n - 1) \div 2
    <3>1. d = <<IF n % 2 = 1 THEN "rm_asset" ELSE "cp_asset", a>>
      BY <2>2, RollbackAt
    <3>2. a \in Assets /\ n = IF n % 2 = 1 THEN 1 + 2 * a ELSE 2 + 2 * a
      BY <2>2, SizesAssumption DEF OldRevisionAt, Assets
    <3> HIDE DEF a
    <3>3. QED
      BY <3>1, <3>2 DEF AtRollback
  <2>3. CASE n = RmConfAt
    BY <2>3, RollbackAt DEF AtRollback
  <2>4. CASE n \in (RmConfAt + 1)..DropAt
    <3>1. d = <<"rm_conf", n - RmConfAt>>
      BY <2>4, RollbackAt
    <3>2. n - RmConfAt \in Processes /\ n = RmConfAt + (n - RmConfAt)
      BY <2>4, SizesAssumption, Places DEF DropAt, Processes
    <3>3. QED
      BY <3>1, <3>2 DEF AtRollback
  <2>5. CASE n \in (DropAt + 1)..RestartOldAt
    <3>1. d = <<"drop", n - DropAt>>
      BY <2>5, RollbackAt
    <3>2. n - DropAt \in Processes /\ n = DropAt + (n - DropAt)
      BY <2>5, SizesAssumption, Places DEF RestartOldAt, Processes
    <3>3. QED
      BY <3>1, <3>2 DEF AtRollback
  <2>6. CASE n \in (RestartOldAt + 1)..LastUndone
    <3>1. d = <<"restart_old", n - RestartOldAt>>
      BY <2>6, RollbackAt
    <3>2. n - RestartOldAt \in Processes /\ n = RestartOldAt + (n - RestartOldAt)
      BY <2>6, SizesAssumption, Places DEF LastUndone, Processes
    <3>3. QED
      BY <3>1, <3>2 DEF AtRollback
  <2>7. QED
    BY <2>1, <2>2, <2>3, <2>4, <2>5, <2>6, Places
<1>3. QED
  BY <1>1, <1>2, RollbackAt DEF Command, Index
-----------------------------------------------------------------------------
(* What a command does to the host. *)

FileCommands == {"artifact", "asset", "revision", "rm_bin", "cp_bin", "rm_asset", "cp_asset",
                 "cp_revision"}
ProcessCommands == {"render", "conf", "update", "restart", "rm_conf", "drop", "restart_old"}

\* The index of the current command is one of what the command works on.
Indexed(r) ==
    /\ Command(r) = "artifact" => Index(r) \in Artifacts
    /\ Command(r) \in {"asset", "rm_asset", "cp_asset"} => Index(r) \in Assets
    /\ Command(r) \in ProcessCommands => Index(r) \in Processes

\* The current command of r has happened, in part, or not at all.
Works(r) == Happens(r) \/ StopsHalfway(r) \/ UNCHANGED host

\* Whether it completes or not, what the command may change of the files.
TouchesFiles(r) ==
    /\ target' \in Files
    /\ Command(r) \notin FileCommands => target' = target
    /\ Command(r) \notin {"artifact", "rm_bin", "cp_bin"} => target'.bin = target.bin
    /\ Command(r) = "artifact" /\ ~HasBin(target) => target'.bin = target.bin
    /\ Command(r) \in {"rm_bin", "cp_bin"} /\ ~HasBin(saved[r]) => target'.bin = target.bin
    /\ Command(r) \notin {"revision", "cp_revision"} => target'.revision = target.revision
    /\ \A a \in Assets :
          \/ target'.assets[a] = target.assets[a]
          \/ Command(r) \in {"asset", "rm_asset", "cp_asset"} /\ a = Index(r)

\* Whether it completes or not, what the command may change of Supervisor: no
\* configuration that another made, and what others execute only by a restart.
TouchesProcesses(r) ==
    /\ supervisor' \in Supervisor
    /\ Command(r) \notin ProcessCommands \/ Command(r) = "render" => supervisor' = supervisor
    /\ \A p \in Processes :
          \/ supervisor'.conf[p] = supervisor.conf[p]
          \/ /\ Command(r) \in {"conf", "rm_conf"} /\ p = Index(r) /\ p \in shell[r].newConfs
             /\ supervisor'.conf[p] # "old"
    /\ \A p \in Processes :
          \/ supervisor'.registered[p] = supervisor.registered[p]
          \/ Command(r) \in {"update", "drop"} /\ p = Index(r) /\ p \in shell[r].newConfs
    /\ \A p \in Processes :
          \/ supervisor'.proc[p] = supervisor.proc[p]
          \/ Command(r) \in {"update", "drop"} /\ p = Index(r) /\ p \in shell[r].newConfs
          \/ /\ Command(r) \in {"restart", "restart_old"} /\ p = Index(r) /\ p \in selected[r]
             /\ supervisor.registered[p]
    /\ \A p \in Processes : supervisor'.proc[p] \in {supervisor.proc[p], Load(p), "absent"}
    /\ Registered(supervisor')

LEMMA FilesTouched ==
  ASSUME TypeOK, NEW r \in Runs, Indexed(r), Works(r)
  PROVE  TouchesFiles(r)
<1>t. /\ target \in Files /\ saved[r] \in Files /\ r \in Content
      /\ "absent" \in Content /\ "torn" \in Content
  BY DEF TypeOK, Content
<1>1. CASE target' = target
  BY <1>1, <1>t DEF TouchesFiles
<1>2. CASE Applies(r) /\ target' # target
  <2>1. CASE Command(r) = "artifact"
    <3>1. HasBin(target) /\ target' = [target EXCEPT !.bin[Index(r)] = r]
      BY <1>2, <2>1 DEF Works, Happens, StopsHalfway, NewTarget, host
    <3>2. QED
      BY <1>t, <2>1, <3>1 DEF TouchesFiles, Files, FileCommands, Indexed
  <2>2. CASE Command(r) \in {"asset", "rm_asset", "cp_asset"}
    <3>0. Index(r) \in Assets
      BY <2>2 DEF Indexed
    <3>1. \E x \in Content : target' = [target EXCEPT !.assets[Index(r)] = x]
      <4>1. saved[r].assets[Index(r)] \in Content
        BY <1>t, <3>0 DEF Files
      <4>2. QED
        BY <1>2, <1>t, <2>2, <4>1 DEF Works, Happens, StopsHalfway, NewTarget, host
    <3>2. QED
      BY <1>t, <2>2, <3>0, <3>1 DEF TouchesFiles, Files, FileCommands
  <2>3. CASE Command(r) \in {"revision", "cp_revision"}
    <3>1. \E x \in Content : target' = [target EXCEPT !.revision = x]
      <4>1. saved[r].revision \in Content
        BY <1>t DEF Files
      <4>2. QED
        BY <1>2, <1>t, <2>3, <4>1 DEF Works, Happens, StopsHalfway, NewTarget, host
    <3>2. QED
      BY <1>t, <2>3, <3>1 DEF TouchesFiles, Files, FileCommands
  <2>4. CASE Command(r) \in {"rm_bin", "cp_bin"}
    <3>1. HasBin(saved[r])
      BY <1>2, <2>4 DEF Applies
    <3>2. \E x \in [Artifacts -> Content] : target' = [target EXCEPT !.bin = x]
      <4>1. saved[r].bin \in [Artifacts -> Content]
        BY <1>t DEF Files
      <4>2. /\ [a \in Artifacts |-> "absent"] \in [Artifacts -> Content]
            /\ [a \in Artifacts |-> "torn"] \in [Artifacts -> Content]
        BY <1>t
      <4>3. QED
        BY <1>2, <2>4, <4>1, <4>2 DEF Works, Happens, StopsHalfway, NewTarget, host
    <3>3. QED
      BY <1>t, <2>4, <3>1, <3>2 DEF TouchesFiles, Files, FileCommands
  <2>5. CASE Command(r) \notin FileCommands
    BY <1>2, <2>5 DEF Works, Happens, StopsHalfway, NewTarget, host, FileCommands
  <2>6. QED
    BY <2>1, <2>2, <2>3, <2>4, <2>5 DEF FileCommands
<1>3. QED
  BY <1>1, <1>2 DEF Works, Happens, StopsHalfway, host

LEMMA ProcessesTouched ==
  ASSUME TypeOK, NEW r \in Runs, Indexed(r), Works(r), Registered(supervisor)
  PROVE  TouchesProcesses(r)
<1>t. /\ supervisor \in Supervisor /\ target \in Files /\ r \in Content /\ r # "old"
      /\ "absent" \in Content /\ "torn" \in Content
  BY RunsAssumption DEF TypeOK, Content
<1>1. CASE supervisor' = supervisor
  BY <1>1, <1>t DEF TouchesProcesses
<1>2. CASE Applies(r) /\ supervisor' # supervisor
  <2> DEFINE p == Index(r)
  <2>0. Command(r) \in ProcessCommands /\ Command(r) # "render"
    BY <1>2 DEF Works, Happens, StopsHalfway, NewSupervisor, host, ProcessCommands
  <2>i. p \in Processes
    BY <2>0 DEF Indexed
  <2>l. Load(p) \in Content
    BY <1>t, <2>i, ArtifactOfAssumption DEF Load, Files
  <2> HIDE DEF p
  <2>1. CASE Command(r) \in {"conf", "rm_conf"}
    <3>1. p \in shell[r].newConfs
      BY <1>2, <2>1 DEF Applies, p
    <3>2. \E x \in Content : x # "old" /\ supervisor' = [supervisor EXCEPT !.conf[p] = x]
      BY <1>2, <1>t, <2>1 DEF Works, Happens, StopsHalfway, NewSupervisor, host, p
    <3>3. QED
      BY <1>t, <2>0, <2>1, <2>i, <3>1, <3>2 DEF TouchesProcesses, Supervisor, Registered, p
  <2>2. CASE Command(r) = "update"
    <3>1. p \in shell[r].newConfs
      BY <1>2, <2>2 DEF Applies, p
    <3>2. supervisor' = [supervisor EXCEPT !.registered[p] = TRUE, !.proc[p] = Load(p)]
      BY <1>2, <2>2 DEF Works, Happens, StopsHalfway, NewSupervisor, host, p
    <3>3. QED
      BY <1>t, <2>0, <2>2, <2>i, <2>l, <3>1, <3>2 DEF TouchesProcesses, Supervisor, Registered, p
  <2>3. CASE Command(r) = "drop"
    <3>1. p \in shell[r].newConfs
      BY <1>2, <2>3 DEF Applies, p
    <3>2. \/ supervisor' = [supervisor EXCEPT !.registered[p] = FALSE, !.proc[p] = "absent"]
          \/ supervisor' = [supervisor EXCEPT !.registered[p] = TRUE, !.proc[p] = Load(p)]
      BY <1>2, <2>3 DEF Works, Happens, StopsHalfway, NewSupervisor, host, p
    <3>3. CASE supervisor' = [supervisor EXCEPT !.registered[p] = FALSE, !.proc[p] = "absent"]
      BY <1>t, <2>0, <2>3, <2>i, <3>1, <3>3 DEF TouchesProcesses, Supervisor, Registered, p
    <3>4. CASE supervisor' = [supervisor EXCEPT !.registered[p] = TRUE, !.proc[p] = Load(p)]
      BY <1>t, <2>0, <2>3, <2>i, <2>l, <3>1, <3>4 DEF TouchesProcesses, Supervisor, Registered, p
    <3>5. QED
      BY <3>2, <3>3, <3>4
  <2>4. CASE Command(r) \in {"restart", "restart_old"}
    <3>1. p \in selected[r]
      BY <1>2, <2>4 DEF Applies, p
    <3>2. \E x \in Content :
             /\ supervisor' = [supervisor EXCEPT !.proc[p] = x]
             /\ supervisor.registered[p] \/ x = "absent"
             /\ x \in {Load(p), "absent"}
      BY <1>2, <1>t, <2>4, <2>l DEF Works, Happens, StopsHalfway, NewSupervisor, host, p
    <3>3. QED
      BY <1>t, <2>0, <2>4, <2>i, <3>1, <3>2 DEF TouchesProcesses, Supervisor, Registered, p
  <2>5. QED
    BY <2>0, <2>1, <2>2, <2>3, <2>4 DEF ProcessCommands
<1>3. QED
  BY <1>1, <1>2 DEF Works, Happens, StopsHalfway, host

\* What a command does that happens as a whole.
CompletesFiles(r) ==
    LET i == Index(r)
    IN  /\ Command(r) = "artifact" /\ HasBin(target) =>
              target'.bin[i] = r /\ \A a \in Artifacts \ {i} : target'.bin[a] = target.bin[a]
        /\ Command(r) = "revision" => target'.revision = r
        /\ Command(r) = "rm_bin" /\ HasBin(saved[r]) => ~HasBin(target')
        /\ Command(r) = "cp_bin" /\ HasBin(saved[r]) /\ ~HasBin(target) => target'.bin = saved[r].bin
        /\ Command(r) = "rm_asset" /\ saved[r].assets[i] # "absent" => target'.assets[i] = "absent"
        /\ /\ Command(r) = "cp_asset" /\ saved[r].assets[i] # "absent"
           /\ target.assets[i] = "absent"
           => target'.assets[i] = saved[r].assets[i]
        /\ Command(r) \in {"rm_asset", "cp_asset"} /\ saved[r].assets[i] = "absent" =>
              target'.assets = target.assets
        /\ Command(r) = "cp_revision" => target'.revision = saved[r].revision

CompletesProcesses(r) ==
    LET p == Index(r)
    IN  /\ Command(r) \in {"restart", "restart_old"} /\ p \in selected[r] /\ supervisor.registered[p] =>
              supervisor'.proc[p] = Load(p)
        /\ Command(r) = "rm_conf" /\ p \in shell[r].newConfs => supervisor'.conf[p] = "absent"
        /\ Command(r) = "drop" /\ p \in shell[r].newConfs /\ supervisor.conf[p] = "absent" =>
              ~supervisor'.registered[p] /\ supervisor'.proc[p] = "absent"

LEMMA Completed ==
  ASSUME TypeOK, NEW r \in Runs, Indexed(r), Happens(r)
  PROVE  CompletesFiles(r) /\ CompletesProcesses(r)
<1>t. target \in Files /\ supervisor \in Supervisor /\ saved[r] \in Files
  BY DEF TypeOK
<1>1. CompletesFiles(r)
  <2>1. CASE Command(r) = "artifact" /\ HasBin(target)
    <3>1. target' = [target EXCEPT !.bin[Index(r)] = r] /\ Index(r) \in Artifacts
      BY <2>1 DEF Happens, Applies, NewTarget, Indexed
    <3>2. QED
      BY <1>t, <2>1, <3>1 DEF CompletesFiles, Files
  <2>2. CASE Command(r) = "revision"
    BY <1>t, <2>2 DEF CompletesFiles, Happens, Applies, NewTarget, Files
  <2>3. CASE Command(r) = "cp_bin"
    BY <1>t, <2>3 DEF CompletesFiles, Happens, Applies, NewTarget, Files
  <2>4. CASE Command(r) = "cp_asset"
    BY <1>t, <2>4 DEF CompletesFiles, Happens, Applies, NewTarget, Files, Indexed, host
  <2>5. CASE Command(r) = "rm_asset"
    BY <1>t, <2>5 DEF CompletesFiles, Happens, Applies, NewTarget, Files, Indexed, host
  <2>6. CASE Command(r) = "cp_revision"
    BY <1>t, <2>6 DEF CompletesFiles, Happens, Applies, NewTarget, Files
  <2>7. CASE Command(r) = "rm_bin"
    BY <1>t, <2>7 DEF CompletesFiles, Happens, Applies, NewTarget, Files, HasBin
  <2>8. QED
    BY <2>1, <2>2, <2>3, <2>4, <2>5, <2>6, <2>7 DEF CompletesFiles
<1>2. CompletesProcesses(r)
  <2>1. CASE Command(r) \in {"restart", "restart_old"}
    <3>1. Index(r) \in selected[r] /\ supervisor.registered[Index(r)] =>
             supervisor' = [supervisor EXCEPT !.proc[Index(r)] = Load(Index(r))]
      BY <2>1 DEF Happens, Applies, NewSupervisor
    <3>2. QED
      BY <1>t, <2>1, <3>1 DEF CompletesProcesses, Supervisor, Indexed, ProcessCommands
  <2>2. CASE Command(r) = "rm_conf"
    BY <1>t, <2>2
       DEF CompletesProcesses, Happens, Applies, NewSupervisor, Supervisor, Indexed, ProcessCommands
  <2>3. CASE Command(r) = "drop"
    <3>1. Index(r) \in shell[r].newConfs /\ supervisor.conf[Index(r)] = "absent" =>
             supervisor' = [supervisor EXCEPT !.registered[Index(r)] = FALSE, !.proc[Index(r)] = "absent"]
      <4>1. Applies(r) <=> Index(r) \in shell[r].newConfs
        BY <2>3 DEF Applies
      <4>2. supervisor.conf[Index(r)] = "absent" =>
               NewSupervisor(r) =
               [supervisor EXCEPT !.registered[Index(r)] = FALSE, !.proc[Index(r)] = "absent"]
        BY <2>3, RunsAssumption DEF NewSupervisor
      <4>3. QED
        BY <4>1, <4>2 DEF Happens
    <3>2. Index(r) \in Processes /\ DOMAIN supervisor.registered = Processes
             /\ DOMAIN supervisor.proc = Processes
      BY <1>t, <2>3 DEF Supervisor, Indexed, ProcessCommands
    <3>3. Index(r) \in shell[r].newConfs /\ supervisor.conf[Index(r)] = "absent" =>
             ~supervisor'.registered[Index(r)] /\ supervisor'.proc[Index(r)] = "absent"
      <4>1. SUFFICES ASSUME supervisor' = [supervisor EXCEPT !.registered[Index(r)] = FALSE,
                                                           !.proc[Index(r)] = "absent"]
                     PROVE  ~supervisor'.registered[Index(r)] /\ supervisor'.proc[Index(r)] = "absent"
        BY <3>1
      <4>2. QED
        BY <1>t, <3>2, <4>1 DEF Supervisor
    <3>4. QED
      BY <2>3, <3>3 DEF CompletesProcesses
  <2>4. QED
    BY <2>1, <2>2, <2>3 DEF CompletesProcesses
<1>3. QED
  BY <1>1, <1>2
-----------------------------------------------------------------------------
(* What a command does to the backups. *)

Stores(r) == StorageChanges(r, TRUE) \/ StorageChanges(r, FALSE) \/ UNCHANGED storage

\* Whether it completes or not, what the command may change of the backups.
TouchesStorage(r) ==
    /\ backups' \in Seq(Runs) /\ saved' \in [Runs -> Files]
    /\ Command(r) \notin {"backup", "prune"} => UNCHANGED storage
    /\ Command(r) = "backup" =>
          Backups \subseteq Backups' /\ \A q \in Runs \ {r} : saved'[q] = saved[q]
    /\ \A q \in Runs \ {r} : saved[q] = EmptyFiles => saved'[q] = EmptyFiles

LEMMA EmptyIsFiles == EmptyFiles \in Files
  BY DEF EmptyFiles, Files, Content

LEMMA StorageTouched ==
  ASSUME TypeOK, NEW r \in Runs, Stores(r)
  PROVE  TouchesStorage(r)
<1>t. backups \in Seq(Runs) /\ saved \in [Runs -> Files] /\ target \in Files
  BY DEF TypeOK
<1>1. CASE UNCHANGED storage
  BY <1>1, <1>t DEF TouchesStorage, storage, Backups
<1>2. CASE Command(r) = "backup" /\ ~UNCHANGED storage
  <2>1. backups' = Append(backups, r) /\ (saved' = saved \/ saved' = [saved EXCEPT ![r] = target])
    BY <1>2 DEF Stores, StorageChanges
  <2>2. Backups \subseteq Backups'
    <3>1. Len(backups') = Len(backups) + 1 /\ \A i \in 1..Len(backups) : backups'[i] = backups[i]
      BY <1>t, <2>1
    <3>2. Len(backups) \in Nat
      BY <1>t
    <3>3. QED
      BY <3>1, <3>2 DEF Backups
  <2>3. QED
    BY <1>t, <1>2, <2>1, <2>2 DEF TouchesStorage
<1>3. CASE Command(r) = "prune" /\ ~UNCHANGED storage
  <2>1. PICK left \in 0..Expired :
           /\ backups' = SubSeq(backups, 1, left) \o SubSeq(backups, Expired + 1, Len(backups))
           /\ saved' = [q \in Runs |-> IF \E i \in (left + 1)..Expired : backups[i] = q
                                       THEN EmptyFiles ELSE saved[q]]
    <3>1. 0 \in 0..Expired
      BY <1>t, SizesAssumption DEF Expired
    <3> DEFINE Prunes(left) ==
           /\ backups' = SubSeq(backups, 1, left) \o SubSeq(backups, Expired + 1, Len(backups))
           /\ saved' = [q \in Runs |-> IF \E i \in (left + 1)..Expired : backups[i] = q
                                       THEN EmptyFiles ELSE saved[q]]
    <3>2. StorageChanges(r, TRUE) => \E left \in {0} : Prunes(left)
      BY <1>3 DEF StorageChanges
    <3>3. StorageChanges(r, FALSE) => \E left \in 0..Expired : Prunes(left)
      BY <1>3 DEF StorageChanges
    <3> HIDE DEF Prunes
    <3>4. \E left \in 0..Expired : Prunes(left)
      BY <1>3, <3>1, <3>2, <3>3 DEF Stores
    <3>5. QED
      BY <3>4, Zenon DEF Prunes
  <2>2. backups' \in Seq(Runs)
    <3>1. Expired \in 0..Len(backups) /\ Len(backups) \in Nat
      BY <1>t, SizesAssumption DEF Expired
    <3>2. SubSeq(backups, 1, left) \in Seq(Runs)
      BY <1>t, <3>1
    <3>3. SubSeq(backups, Expired + 1, Len(backups)) \in Seq(Runs)
      BY <1>t, <3>1
    <3>4. QED
      BY <2>1, <3>2, <3>3
  <2>3. QED
    BY <1>3, <1>t, <2>1, <2>2, EmptyIsFiles DEF TouchesStorage
<1>4. QED
  BY <1>1, <1>2, <1>3 DEF Stores, StorageChanges

LEMMA BackupMade ==
  ASSUME TypeOK, NEW r \in Runs, Command(r) = "backup", StorageChanges(r, TRUE)
  PROVE  r \in Backups' /\ saved'[r] = target
<1>1. backups' = Append(backups, r) /\ saved' = [saved EXCEPT ![r] = target]
  BY DEF StorageChanges
<1>2. Len(backups') \in 1..Len(backups') /\ backups'[Len(backups')] = r
  BY <1>1 DEF TypeOK
<1>3. r \in Backups'
  BY <1>2, Zenon DEF Backups
<1>4. QED
  BY <1>1, <1>3 DEF TypeOK
-----------------------------------------------------------------------------
(* How a command preserves what holds of its run. *)

LEMMA StaysSupervised ==
  ASSUME TypeOK, NEW r \in Runs, TouchesProcesses(r),
         Supervised(before[2], supervisor, selected[r], shell[r].newConfs)
  PROVE  Supervised(before[2], supervisor', selected[r], shell[r].newConfs)
<1> DEFINE old == before[2]
           confs == shell[r].newConfs
           sel == selected[r]
<1> SUFFICES ASSUME NEW p \in Processes
             PROVE  /\ p \in confs => /\ p \in sel /\ supervisor'.conf[p] # "old"
                                      /\ old.conf[p] = "absent" /\ ~old.registered[p]
                    /\ p \notin confs =>
                         /\ supervisor'.conf[p] = old.conf[p]
                         /\ supervisor'.registered[p] = old.registered[p]
                         /\ p \notin sel \/ ~old.registered[p] => supervisor'.proc[p] = old.proc[p]
  BY DEF Supervised
<1>1. /\ p \in confs => /\ p \in sel /\ supervisor.conf[p] # "old"
                        /\ old.conf[p] = "absent" /\ ~old.registered[p]
      /\ p \notin confs => /\ supervisor.conf[p] = old.conf[p]
                           /\ supervisor.registered[p] = old.registered[p]
                           /\ p \notin sel \/ ~old.registered[p] => supervisor.proc[p] = old.proc[p]
  BY DEF Supervised
<1>2. QED
  BY <1>1 DEF TouchesProcesses

\* A rendered configuration is of a process that Supervisor did not know, and
\* no file was in its way.
LEMMA Renders ==
  ASSUME TypeOK, NEW r \in Runs, Indexed(r), Command(r) = "render", Applies(r), ~Blocked(r),
         Supervised(before[2], supervisor, selected[r], shell[r].newConfs)
  PROVE  Supervised(before[2], supervisor, selected[r], shell[r].newConfs \cup {Index(r)})
<1>1. /\ Index(r) \in Processes /\ Index(r) \in selected[r]
      /\ ~supervisor.registered[Index(r)] /\ supervisor.conf[Index(r)] = "absent"
  BY DEF Indexed, ProcessCommands, Applies, Unknown, Blocked
<1>2. QED
  BY <1>1 DEF Supervised

\* What a completed command of the main program has done.
Effective(r) ==
    \/ Happens(r) /\ UNCHANGED stale
    \/ Command(r) = "asset" /\ UNCHANGED <<host, stale>>
    \/ StillRuns(r) /\ stale' = stale \cup {Index(r)} /\ UNCHANGED host

LEMMA Installs ==
  ASSUME TypeOK, NEW r \in Runs, NEW n \in Nat, AtDeploy(Command(r), Index(r), n), Indexed(r),
         ~Blocked(r), Effective(r), TouchesFiles(r), TouchesProcesses(r),
         InstalledTo(r, target, n), StartedTo(r, before[2], supervisor, selected[r], stale, n)
  PROVE  /\ InstalledTo(r, target', n + 1)
         /\ StartedTo(r, before[2], supervisor', selected[r], stale', n + 1)
<1> DEFINE i == Index(r)
<1>s. NArtifacts \in Nat /\ NAssets \in Nat /\ NProcesses \in Nat /\ selected[r] \subseteq Processes
  BY SizesAssumption DEF TypeOK, Selections
<1>c. Command(r) \notin {"rm_bin", "cp_bin", "cp_revision", "restart_old", "drop"}
  BY DEF AtDeploy
<1>h. Command(r) \notin {"asset", "restart"} => Happens(r)
  BY DEF Effective, StillRuns
<1>1. ASSUME NEW a \in Artifacts, n + 1 > 5 + a
      PROVE  target'.bin[a] = r
  <2>1. CASE Command(r) = "artifact"
    <3>1. HasBin(target)
      BY <2>1 DEF Blocked, Applies
    <3>2. target'.bin[i] = r /\ \A b \in Artifacts \ {i} : target'.bin[b] = target.bin[b]
      BY <2>1, <3>1, <1>h, Completed DEF CompletesFiles
    <3>3. n = 5 + i /\ i \in Artifacts
      BY <2>1 DEF AtDeploy
    <3>4. QED
      BY <1>1, <3>2, <3>3, <1>s DEF InstalledTo, Artifacts
  <2>2. CASE Command(r) # "artifact"
    <3>1. target'.bin = target.bin
      BY <2>2, <1>c DEF TouchesFiles
    <3>2. n # 5 + a
      BY <2>2, <1>s, Places DEF AtDeploy, Artifacts, Assets, Processes, AssetAt
    <3>3. QED
      BY <1>1, <3>1, <3>2, <1>s DEF InstalledTo, Artifacts
  <2>3. QED
    BY <2>1, <2>2
<1>2. ASSUME n + 1 > RevisionAt + 1
      PROVE  target'.revision = r
  <2>1. CASE Command(r) = "revision"
    BY <2>1, <1>h, Completed DEF CompletesFiles
  <2>2. CASE Command(r) # "revision"
    <3>1. target'.revision = target.revision
      BY <2>2, <1>c DEF TouchesFiles
    <3>2. n # RevisionAt + 1
      BY <2>2, <1>s, Places DEF AtDeploy, Artifacts, Assets, Processes, AssetAt, RevisionAt
    <3>3. QED
      BY <1>2, <3>1, <3>2, Places DEF InstalledTo
  <2>3. QED
    BY <2>1, <2>2
<1>l. ASSUME NEW p \in Processes, n > RenderAt
      PROVE  Load(p) = r
  <2>1. ArtifactOf[p] \in Artifacts /\ n > 5 + ArtifactOf[p]
    BY <1>l, <1>s, ArtifactOfAssumption, Places DEF Artifacts, AssetAt
  <2>2. QED
    BY <2>1 DEF InstalledTo, Load
<1>3. ASSUME NEW p \in Processes
      PROVE  supervisor'.proc[p] \in {r, before[2].proc[p], "absent"}
  <2>1. CASE Command(r) \in {"update", "restart"}
    <3>1. n > RenderAt
      BY <2>1, <1>s, Places DEF AtDeploy, Processes, ConfAt, UpdateAt, RestartAt
    <3>2. QED
      BY <3>1, <1>l DEF TouchesProcesses, StartedTo
  <2>2. CASE Command(r) \notin {"update", "restart"}
    BY <2>2, <1>c DEF TouchesProcesses, StartedTo
  <2>3. QED
    BY <2>1, <2>2
<1>4. ASSUME NEW p \in selected[r], n + 1 > RestartAt + p
      PROVE  /\ supervisor'.registered[p]
             /\ \/ supervisor'.proc[p] = r
                \/ /\ p \in stale' /\ supervisor'.proc[p] = before[2].proc[p]
                   /\ supervisor'.proc[p] # "absent"
  <2>0. p \in Processes
    BY <1>s
  <2>u. Command(r) \notin {"update", "drop"}
    BY <1>4, <2>0, <1>s, Places DEF AtDeploy, Processes, RestartAt
  <2>r. supervisor'.registered[p] = supervisor.registered[p]
    BY <2>0, <2>u DEF TouchesProcesses
  <2>1. CASE Command(r) = "restart" /\ p = i
    <3>1. supervisor.registered[p]
      BY <2>1 DEF Blocked, Applies
    <3>2. CASE Happens(r)
      <4>1. supervisor'.proc[p] = Load(p)
        BY <2>1, <3>1, <3>2, Completed DEF CompletesProcesses
      <4>2. n > RenderAt
        BY <2>1, <1>s, Places DEF AtDeploy, Processes, ConfAt, UpdateAt, RestartAt
      <4>3. QED
        BY <2>0, <2>r, <3>1, <4>1, <4>2, <1>l
    <3>3. CASE ~Happens(r)
      <4>1. /\ p \in stale' /\ supervisor'.proc[p] = supervisor.proc[p]
            /\ supervisor.proc[p] # "absent"
        BY <2>1, <3>3 DEF Effective, StillRuns, host
      <4>2. QED
        BY <2>0, <2>r, <3>1, <4>1 DEF StartedTo
    <3>4. QED
      BY <3>2, <3>3
  <2>2. CASE ~(Command(r) = "restart" /\ p = i)
    <3>1. supervisor'.proc[p] = supervisor.proc[p]
      BY <2>0, <2>2, <2>u, <1>c DEF TouchesProcesses
    <3>2. n # RestartAt + p
      BY <2>0, <2>2, <1>s, Places
         DEF AtDeploy, Artifacts, Assets, Processes, AssetAt, RevisionAt, ConfAt, UpdateAt,
             RestartAt, CompleteAt
    <3>3. n > RestartAt + p
      BY <1>4, <2>0, <3>2, Places DEF Processes
    <3>4. stale \subseteq stale'
      BY DEF Effective
    <3>5. QED
      BY <2>r, <3>1, <3>3, <3>4 DEF StartedTo
  <2>3. QED
    BY <2>1, <2>2
<1>5. InstalledTo(r, target', n + 1)
  BY <1>1, <1>2 DEF InstalledTo
<1>6. StartedTo(r, before[2], supervisor', selected[r], stale', n + 1)
  BY <1>3, <1>4 DEF StartedTo
<1>7. QED
  BY <1>5, <1>6

LEMMA Undoes ==
  ASSUME TypeOK, NEW r \in Runs, NEW n \in Nat, AtRollback(Command(r), Index(r), n), Indexed(r),
         Happens(r), TouchesFiles(r), TouchesProcesses(r), saved[r] = before[1], NoBin(r),
         UndoneTo(before[1], target, supervisor, selected[r], shell[r].newConfs, n)
  PROVE  UndoneTo(before[1], target', supervisor', selected[r], shell[r].newConfs, n + 1)
<1> DEFINE i == Index(r)
           old == before[1]
           confs == shell[r].newConfs
<1>s. /\ NAssets \in Nat /\ NProcesses \in Nat
      /\ selected[r] \subseteq Processes /\ confs \subseteq Processes
  BY SizesAssumption DEF TypeOK, Selections, Shell
<1>c. Command(r) \notin {"artifact", "asset", "revision", "update", "conf", "restart"}
  BY DEF AtRollback
<1>e. CompletesFiles(r) /\ CompletesProcesses(r)
  BY Completed
<1>1. ASSUME n + 1 > 2
      PROVE  target'.bin = old.bin
  <2>1. CASE Command(r) = "cp_bin"
    <3>1. n = 2
      BY <2>1 DEF AtRollback
    <3>2. HasBin(old) => ~HasBin(target)
      BY <3>1 DEF UndoneTo
    <3>3. QED
      BY <2>1, <3>2, <1>e DEF CompletesFiles, TouchesFiles, NoBin
  <2>2. CASE Command(r) # "cp_bin"
    <3>1. n > 2
      BY <1>1, <2>2, <1>s, Places DEF AtRollback, Assets, Processes
    <3>2. Command(r) # "rm_bin"
      BY <3>1 DEF AtRollback
    <3>3. QED
      BY <2>2, <3>1, <3>2, <1>c DEF TouchesFiles, UndoneTo
  <2>3. QED
    BY <2>1, <2>2
<1>2. ASSUME NEW a \in Assets, n + 1 > 2 + 2 * a
      PROVE  old.assets[a] \in {"absent", target'.assets[a]}
  <2>1. CASE Command(r) = "cp_asset" /\ a = i
    <3>1. n = 2 + 2 * a
      BY <2>1 DEF AtRollback
    <3>2. old.assets[a] # "absent" => target.assets[a] = "absent"
      BY <3>1 DEF UndoneTo
    <3>3. QED
      BY <2>1, <3>2, <1>e DEF CompletesFiles
  <2>2. CASE ~(Command(r) = "cp_asset" /\ a = i)
    <3>1. n > 2 + 2 * a
      BY <1>2, <2>2, <1>s, Places DEF AtRollback, Assets, Processes, RmConfAt, OldRevisionAt
    <3>2. ~(Command(r) = "rm_asset" /\ a = i)
      BY <3>1 DEF AtRollback, Assets
    <3>3. target'.assets[a] = target.assets[a]
      BY <2>2, <3>2, <1>c DEF TouchesFiles
    <3>4. QED
      BY <3>1, <3>3 DEF UndoneTo
  <2>3. QED
    BY <2>1, <2>2
<1>3. ASSUME n + 1 > RmConfAt
      PROVE  target'.revision = old.revision
  <2>1. CASE Command(r) = "cp_revision"
    BY <2>1, <1>e DEF CompletesFiles
  <2>2. CASE Command(r) # "cp_revision"
    <3>1. n > RmConfAt
      BY <1>3, <2>2, <1>s, Places DEF AtRollback, Assets, Processes, RmConfAt, OldRevisionAt
    <3>2. QED
      BY <2>2, <3>1, <1>c DEF TouchesFiles, UndoneTo
  <2>3. QED
    BY <2>1, <2>2
<1>4. ASSUME NEW p \in confs, n + 1 > RmConfAt + p
      PROVE  supervisor'.conf[p] = "absent"
  <2>1. CASE Command(r) = "rm_conf" /\ p = i
    BY <2>1, <1>e DEF CompletesProcesses
  <2>2. CASE ~(Command(r) = "rm_conf" /\ p = i)
    <3>1. p \in Processes /\ n > RmConfAt + p
      BY <1>4, <2>2, <1>s, Places DEF AtRollback, Assets, Processes, RmConfAt, OldRevisionAt, DropAt
    <3>2. supervisor'.conf[p] = supervisor.conf[p]
      BY <2>2, <3>1, <1>c DEF TouchesProcesses
    <3>3. QED
      BY <3>1, <3>2 DEF UndoneTo
  <2>3. QED
    BY <2>1, <2>2
<1>5. ASSUME NEW p \in confs, n + 1 > DropAt + p
      PROVE  ~supervisor'.registered[p] /\ supervisor'.proc[p] = "absent"
  <2>1. CASE Command(r) = "drop" /\ p = i
    <3>1. n > RmConfAt + p
      BY <2>1, <1>s, Places DEF AtRollback, Processes, DropAt
    <3>2. supervisor.conf[p] = "absent"
      BY <3>1 DEF UndoneTo
    <3>3. QED
      BY <2>1, <3>2, <1>e DEF CompletesProcesses
  <2>2. CASE ~(Command(r) = "drop" /\ p = i)
    <3>1. p \in Processes /\ n > DropAt + p
      BY <1>5, <2>2, <1>s, Places
         DEF AtRollback, Assets, Processes, RmConfAt, OldRevisionAt, DropAt, RestartOldAt
    <3>2. ~supervisor.registered[p] /\ supervisor.proc[p] = "absent"
      BY <3>1 DEF UndoneTo
    <3>3. QED
      BY <2>2, <3>1, <3>2, <1>c DEF TouchesProcesses
  <2>3. QED
    BY <2>1, <2>2
<1>6. ASSUME NEW p \in selected[r] \ confs, n + 1 > RestartOldAt + p, supervisor'.registered[p]
      PROVE  supervisor'.proc[p] = old.bin[ArtifactOf[p]]
  <2>0. p \in Processes
    BY <1>s
  <2>r. supervisor.registered[p]
    BY <1>6, <2>0 DEF TouchesProcesses
  <2>1. CASE Command(r) = "restart_old" /\ p = i
    <3>1. supervisor'.proc[p] = Load(p)
      BY <2>1, <2>r, <1>e DEF CompletesProcesses
    <3>2. n > 2
      BY <2>0, <1>6, Places DEF Processes
    <3>3. QED
      BY <3>1, <3>2 DEF UndoneTo, Load
  <2>2. CASE ~(Command(r) = "restart_old" /\ p = i)
    <3>1. n > RestartOldAt + p
      BY <1>6, <2>0, <2>2, <1>s, Places
         DEF AtRollback, Assets, Processes, RmConfAt, OldRevisionAt, DropAt, RestartOldAt, LastUndone
    <3>2. supervisor'.proc[p] = supervisor.proc[p]
      BY <2>0, <2>2, <1>6, <1>c DEF TouchesProcesses
    <3>3. QED
      BY <1>6, <2>r, <3>1, <3>2 DEF UndoneTo
  <2>3. QED
    BY <2>1, <2>2
<1>7. ASSUME n + 1 = 2, HasBin(old)
      PROVE  ~HasBin(target')
  <2>1. Command(r) = "rm_bin"
    BY <1>7, <1>s, Places DEF AtRollback, Assets, Processes
  <2>2. QED
    BY <2>1, <1>7, <1>e DEF CompletesFiles
<1>8. ASSUME NEW a \in Assets, n + 1 = 2 + 2 * a, old.assets[a] # "absent"
      PROVE  target'.assets[a] = "absent"
  <2>1. Command(r) = "rm_asset" /\ i = a
    BY <1>8, <1>s, Places DEF AtRollback, Assets, Processes, RmConfAt, OldRevisionAt
  <2>2. QED
    BY <2>1, <1>8, <1>e DEF CompletesFiles
<1>9. QED
  BY <1>1, <1>2, <1>3, <1>4, <1>5, <1>6, <1>7, <1>8 DEF UndoneTo

\* The place of an active run and its command.
LEMMA Here ==
  ASSUME IInv, NEW r \in Runs, Active(r)
  PROVE  /\ Holds(r) /\ lock = r /\ Indexed(r)
         /\ InMain(r) /\ Deploys(r) =>
               /\ Len(Program(r)) = CompleteAt + 2
               /\ AtDeploy(Command(r), Index(r), shell[r].at)
         /\ InMain(r) /\ ~Deploys(r) => Len(Program(r)) = NProcesses /\ Command(r) = "restart"
         /\ InRollback(r) =>
               /\ Len(Program(r)) = LastUndone /\ Deploys(r)
               /\ AtRollback(Command(r), Index(r), shell[r].at)
         /\ (InMain(r) /\ ~InRollback(r)) \/ (InRollback(r) /\ ~InMain(r))
<1>1. Holds(r) /\ lock = r
  BY DEF IInv, Holder, Locks
<1>2. shell[r].at \in Nat \ {0} /\ kind[r] \in Kind /\ mode[r] \in Mode
  BY DEF IInv, TypeOK, Shell
<1>3. (InMain(r) /\ ~InRollback(r)) \/ (InRollback(r) /\ ~InMain(r))
  BY <1>2 DEF InMain, InRollback, Active, Mode
<1>4. ASSUME InMain(r), Deploys(r)
      PROVE  /\ Len(Program(r)) = CompleteAt + 2
             /\ AtDeploy(Command(r), Index(r), shell[r].at)
  BY <1>1, <1>2, <1>4, DeployCommand, Places DEF Holds, Placed
<1>5. ASSUME InMain(r), ~Deploys(r)
      PROVE  Len(Program(r)) = NProcesses /\ Command(r) = "restart" /\ Index(r) \in Processes
  BY <1>1, <1>2, <1>5, RestartCommand, SizesAssumption DEF Holds, Placed
<1>6. ASSUME InRollback(r)
      PROVE  /\ Len(Program(r)) = LastUndone /\ Deploys(r)
             /\ AtRollback(Command(r), Index(r), shell[r].at)
  BY <1>1, <1>2, <1>6, RollbackCommand, Places DEF Holds, Placed
<1>7. Indexed(r)
  <2>1. CASE InMain(r) /\ Deploys(r)
    BY <2>1, <1>4 DEF AtDeploy, Indexed, ProcessCommands
  <2>2. CASE InMain(r) /\ ~Deploys(r)
    BY <2>2, <1>5 DEF Indexed, ProcessCommands
  <2>3. CASE InRollback(r)
    BY <2>3, <1>6 DEF AtRollback, Indexed, ProcessCommands
  <2>4. QED
    BY <1>3, <2>1, <2>2, <2>3
<1>8. QED
  BY <1>1, <1>3, <1>4, <1>5, <1>6, <1>7

\* The steps in which a command of r is at work.
Acts(r) == Complete(r) \/ Retry(r) \/ Fail(r) \/ Rollback(r) \/ Terminate(r) \/ OrphanEnds(r)

LEMMA Acting ==
  ASSUME IInv, NEW r \in Runs, Acts(r)
  PROVE  /\ Active(r)
         /\ TouchesFiles(r) /\ TouchesProcesses(r) /\ TouchesStorage(r)
         /\ UNCHANGED <<arguments, before>> /\ stale' \in SUBSET Processes
<1>1. Active(r)
  BY DEF Acts, Complete, Retry, Fail, Rollback, Terminate, OrphanEnds, Active
<1>2. Works(r)
  BY DEF Acts, Complete, Retry, Fail, Rollback, Terminate, OrphanEnds, Works
<1>3. Stores(r)
  BY DEF Acts, Complete, Retry, Fail, Rollback, Terminate, OrphanEnds, Stores, storage
<1>4. UNCHANGED <<arguments, before>>
  BY DEF Acts, Complete, Retry, Fail, Rollback, Terminate, OrphanEnds, history
<1>5. Indexed(r)
  BY <1>1, Here
<1>6. stale' \in SUBSET Processes
  <2>1. stale' = stale \/ (Command(r) = "restart" /\ stale' = stale \cup {Index(r)})
    BY DEF Acts, Complete, StillRuns, Retry, Fail, Rollback, Terminate, OrphanEnds, history
  <2>2. QED
    BY <1>5, <2>1 DEF IInv, TypeOK, Indexed, ProcessCommands
<1>7. QED
  BY <1>1, <1>2, <1>3, <1>4, <1>5, <1>6, FilesTouched, ProcessesTouched, StorageTouched DEF IInv

\* Whatever a command does, a whole release is left, in the target or in a backup.
LEMMA StaysRecoverable ==
  ASSUME IInv, NEW r \in Runs, Acts(r)
  PROVE  /\ Recoverable'
         /\ shell[r].deployed \/ Command(r) = "install" => SomeWhole'
<1>a. /\ Active(r) /\ TouchesFiles(r) /\ TouchesStorage(r) /\ Holds(r)
      /\ UNCHANGED <<arguments, before>>
  BY Acting, Here
<1>t. target \in Files /\ saved \in [Runs -> Files] /\ shell[r].at \in Nat \ {0} /\ backups \in Seq(Runs)
  BY DEF IInv, TypeOK, Shell
<1>s. 1 \in Artifacts /\ NArtifacts \in Nat
  BY SizesAssumption DEF Artifacts
<1>r. r \notin {"absent", "torn"}
  BY RunsAssumption
<1>e. ~Whole(EmptyFiles)
  BY <1>s DEF Whole, EmptyFiles
<1>1. CASE Command(r) \notin {"backup", "prune"}
  <2>1. UNCHANGED storage
    BY <1>1, <1>a DEF TouchesStorage
  <2>2. SomeWhole => SomeWhole'
    BY <2>1 DEF SomeWhole, storage, Backups
  <2>3. CASE shell[r].deployed
    BY <2>2, <2>3, <1>a DEF Holds, CanGoBack, SomeWhole, Recoverable
  <2>4. CASE Command(r) = "install"
    <3>1. target' = target /\ Recoverable
      BY <2>4, <1>a DEF TouchesFiles, FileCommands, IInv
    <3>2. r \in Backups /\ saved[r] = target
      <4>1. InMain(r) /\ Deploys(r) /\ shell[r].at = 5
        BY <1>a, <2>4, Here DEF AtDeploy, AtRollback
      <4>2. QED
        BY <4>1, <1>a, Places DEF Holds, BackedUp, Untouched
    <3>3. SomeWhole
      BY <3>1, <3>2 DEF Recoverable, SomeWhole
    <3>4. QED
      BY <2>2, <3>1, <3>3 DEF Recoverable, SomeWhole
  <2>5. CASE ~shell[r].deployed /\ Command(r) # "install"
    <3>1. target' = target
      <4>1. CASE InMain(r) /\ Deploys(r)
        <5>1. AtDeploy(Command(r), Index(r), shell[r].at) /\ shell[r].at \notin 6..(CompleteAt + 1)
          BY <4>1, <2>5, <1>a, Here DEF Holds, Placed
        <5>2. Command(r) \notin FileCommands
          BY <5>1, <1>s, Places, SizesAssumption
             DEF AtDeploy, FileCommands, Artifacts, Assets, Processes, AssetAt, RevisionAt
        <5>3. QED
          BY <5>2, <1>a DEF TouchesFiles
      <4>2. CASE InMain(r) /\ ~Deploys(r)
        BY <4>2, <1>a, Here DEF TouchesFiles, FileCommands
      <4>3. CASE InRollback(r)
        BY <4>3, <2>5, <1>a DEF Holds, Placed
      <4>4. QED
        BY <4>1, <4>2, <4>3, <1>a, Here
    <3>2. Whole(target) => Whole(target)'
      BY <3>1 DEF Whole
    <3>3. Recoverable
      BY DEF IInv
    <3>4. QED
      BY <2>2, <2>5, <3>2, <3>3 DEF Recoverable, SomeWhole
  <2>6. QED
    BY <2>3, <2>4, <2>5
<1>2. CASE Command(r) = "backup"
  <2>1. target' = target /\ Recoverable
    BY <1>2, <1>a DEF TouchesFiles, FileCommands, IInv
  <2>2. InMain(r) /\ Deploys(r) /\ shell[r].at = 4
    BY <1>a, <1>2, Here DEF AtDeploy, AtRollback
  <2>3. saved[r] = EmptyFiles /\ ~shell[r].deployed
    BY <2>2, <1>a DEF Holds, Untouched, Placed
  <2>4. Backups \subseteq Backups' /\ \A q \in Runs \ {r} : saved'[q] = saved[q]
    BY <1>2, <1>a DEF TouchesStorage
  <2>5. Backups \subseteq Runs
    BY <1>t DEF Backups
  <2>6. SomeWhole => SomeWhole'
    BY <2>3, <2>4, <2>5, <1>e DEF SomeWhole
  <2>7. QED
    BY <1>2, <2>1, <2>3, <2>6 DEF Recoverable, SomeWhole, Whole
<1>3. CASE Command(r) = "prune"
  <2>1. target' = target
    BY <1>3, <1>a DEF TouchesFiles, FileCommands
  <2>2. InMain(r) /\ Deploys(r) /\ shell[r].at = CompleteAt + 2
    BY <1>a, <1>3, Here DEF AtDeploy, AtRollback
  <2>3. InstalledTo(r, target, shell[r].at) /\ ~shell[r].deployed
    BY <2>2, <1>a, Places DEF Holds, Placed
  <2>4. \A a \in Artifacts : target.bin[a] = r
    BY <2>2, <2>3, <1>s, Places DEF InstalledTo, Artifacts, AssetAt
  <2>5. Whole(target)'
    BY <2>1, <2>4, <1>r, <1>s DEF Whole
  <2>6. QED
    BY <1>3, <2>3, <2>5 DEF Recoverable
<1>4. QED
  BY <1>1, <1>2, <1>3
-----------------------------------------------------------------------------
(* Where a run goes from its command. *)

\* The invocation ends.
Leaves(r) ==
    mode'[r] = "exited" /\ lock' = "free" /\ shell'[r] = FreshShell

\* It goes on in the same program, at place n.
GoesOn(r, n) ==
    /\ UNCHANGED <<mode, outcome, lock>>
    /\ shell'[r] \in Shell /\ shell'[r].at = n

\* The EXIT trap starts the rollback.
TurnsBack(r) ==
    /\ mode'[r] = "rollback" /\ lock' = lock /\ outcome'[r] \in {"failed", "terminated"}
    /\ mode[r] = "main" /\ shell[r].deployed
    /\ shell'[r] \in Shell /\ shell'[r].at = 1
    /\ shell'[r].deployed = shell[r].deployed /\ shell'[r].newConfs = shell[r].newConfs

\* Only r moves.
Alone(r) ==
    /\ mode' \in [Runs -> Mode] /\ shell' \in [Runs -> Shell]
    /\ outcome' \in [Runs -> {"none", "ok", "failed", "terminated", "killed"}]
    /\ \A q \in Runs \ {r} : mode'[q] = mode[q] /\ shell'[q] = shell[q]

LEMMA FreshIsShell == FreshShell \in Shell
  BY SizesAssumption DEF FreshShell, Shell

LEMMA Exiting ==
  ASSUME TypeOK, NEW r \in Runs, NEW result \in {"ok", "failed", "terminated", "killed"},
         Exits(r, result)
  PROVE  Leaves(r) /\ Alone(r) /\ outcome'[r] = result
<1> USE FreshIsShell DEF TypeOK
<1>1. mode' \in [Runs -> Mode] /\ mode'[r] = "exited" /\ \A q \in Runs \ {r} : mode'[q] = mode[q]
  BY DEF Exits, Mode
<1>2. shell' \in [Runs -> Shell] /\ shell'[r] = FreshShell /\ \A q \in Runs \ {r} : shell'[q] = shell[q]
  BY DEF Exits
<1>3. /\ outcome' \in [Runs -> {"none", "ok", "failed", "terminated", "killed"}]
      /\ outcome'[r] = result
  BY DEF Exits
<1>4. QED
  BY <1>1, <1>2, <1>3 DEF Leaves, Alone, Exits

LEMMA Cleaning ==
  ASSUME TypeOK, NEW r \in Runs, NEW result \in {"failed", "terminated"}, NEW exitCode,
         mode[r] = "main", Cleanup(r, exitCode, result)
  PROVE  /\ Alone(r)
         /\ TurnsBack(r) \/ (Leaves(r) /\ outcome'[r] = result /\ (exitCode # 0 => ~shell[r].deployed))
<1>1. CASE exitCode # 0 /\ shell[r].deployed
  <2>1. /\ mode' = [mode EXCEPT ![r] = "rollback"]
        /\ shell' = [shell EXCEPT ![r].at = 1]
        /\ outcome' = [outcome EXCEPT ![r] = result] /\ lock' = lock
    BY <1>1 DEF Cleanup
  <2>0. shell[r] \in Shell /\ shell'[r] = [shell[r] EXCEPT !.at = 1]
    BY <2>1 DEF TypeOK
  <2>2. /\ shell'[r] \in Shell /\ shell'[r].at = 1 /\ shell'[r].deployed = shell[r].deployed
        /\ shell'[r].newConfs = shell[r].newConfs
    BY <2>0 DEF Shell
  <2>3. shell' \in [Runs -> Shell] /\ \A q \in Runs \ {r} : shell'[q] = shell[q]
    BY <2>1, <2>2 DEF TypeOK
  <2>4. QED
    BY <1>1, <2>1, <2>2, <2>3 DEF TypeOK, Alone, TurnsBack, Mode
<1>2. CASE ~(exitCode # 0 /\ shell[r].deployed)
  BY <1>2, Exiting DEF Cleanup
<1>3. QED
  BY <1>1, <1>2

LEMMA Advancing ==
  ASSUME TypeOK, NEW r \in Runs, NEW sh \in Shell,
         NEW result \in {"ok", "failed", "terminated", "killed"}, Advance(r, sh, result)
  PROVE  /\ Alone(r)
         /\ \/ /\ GoesOn(r, sh.at + 1) /\ sh.at < Len(Program(r))
               /\ shell'[r].deployed = sh.deployed /\ shell'[r].newConfs = sh.newConfs
            \/ Leaves(r) /\ outcome'[r] = result /\ ~(sh.at < Len(Program(r)))
<1>1. CASE sh.at < Len(Program(r))
  <2>1. shell' = [shell EXCEPT ![r] = [sh EXCEPT !.at = @ + 1]] /\ UNCHANGED <<mode, outcome, lock>>
    BY <1>1 DEF Advance
  <2>2. /\ [sh EXCEPT !.at = @ + 1] \in Shell /\ [sh EXCEPT !.at = @ + 1].at = sh.at + 1
        /\ [sh EXCEPT !.at = @ + 1].deployed = sh.deployed
        /\ [sh EXCEPT !.at = @ + 1].newConfs = sh.newConfs
    BY DEF Shell
  <2>3. /\ shell' \in [Runs -> Shell] /\ shell'[r] = [sh EXCEPT !.at = @ + 1]
        /\ \A q \in Runs \ {r} : shell'[q] = shell[q]
    BY <2>1, <2>2 DEF TypeOK
  <2>4. QED
    BY <1>1, <2>1, <2>2, <2>3 DEF Alone, GoesOn, TypeOK
<1>2. CASE ~(sh.at < Len(Program(r)))
  BY <1>2, Exiting DEF Advance
<1>3. QED
  BY <1>1, <1>2

\* A completed command of the main program.
LEMMA Completing ==
  ASSUME IInv, NEW r \in Runs, Complete(r)
  PROVE  /\ Alone(r) /\ mode[r] = "main"
         /\ \/ /\ GoesOn(r, shell[r].at + 1) /\ shell[r].at < Len(Program(r))
               /\ shell'[r].deployed =
                     ((shell[r].deployed \/ Command(r) = "install") /\ Command(r) # "complete")
               /\ shell'[r].newConfs = IF Command(r) = "render" /\ Applies(r)
                                       THEN shell[r].newConfs \cup {Index(r)}
                                       ELSE shell[r].newConfs
            \/ Leaves(r) /\ outcome'[r] = "ok" /\ ~(shell[r].at < Len(Program(r)))
<1> DEFINE sh == NextShell(r)
<1>1. mode[r] = "main" /\ Advance(r, sh, "ok")
  BY DEF Complete
<1>2. Active(r)
  BY <1>1 DEF Active
<1>3. Command(r) = "render" => Index(r) \in Processes
  BY <1>2, Here DEF Indexed, ProcessCommands
<1>4. shell[r] \in Shell /\ TypeOK
  BY DEF IInv, TypeOK
<1>5. /\ sh \in Shell /\ sh.at = shell[r].at
      /\ sh.deployed = ((shell[r].deployed \/ Command(r) = "install") /\ Command(r) # "complete")
      /\ sh.newConfs = IF Command(r) = "render" /\ Applies(r)
                       THEN shell[r].newConfs \cup {Index(r)} ELSE shell[r].newConfs
  <2> DEFINE confs == IF Command(r) = "render" /\ Applies(r)
                      THEN shell[r].newConfs \cup {Index(r)} ELSE shell[r].newConfs
             deployed == (shell[r].deployed \/ Command(r) = "install") /\ Command(r) # "complete"
  <2>1. confs \in SUBSET Processes /\ deployed \in BOOLEAN
    BY <1>3, <1>4 DEF Shell
  <2> DEFINE s1 == [shell[r] EXCEPT !.newConfs = confs]
             s2 == [s1 EXCEPT !.deployed = deployed]
             s3 == [s2 EXCEPT !.attempts = 0]
  <2>2. sh = s3
    BY DEF NextShell
  <2> HIDE DEF confs, deployed, sh
  <2>3. s1 \in Shell /\ s1.at = shell[r].at /\ s1.newConfs = confs
    BY <1>4, <2>1 DEF Shell
  <2> HIDE DEF s1
  <2>4. s2 \in Shell /\ s2.at = shell[r].at /\ s2.newConfs = confs /\ s2.deployed = deployed
    BY <2>1, <2>3 DEF Shell
  <2> HIDE DEF s2
  <2>5. s3 \in Shell /\ s3.at = shell[r].at /\ s3.newConfs = confs /\ s3.deployed = deployed
    BY <2>4, SizesAssumption DEF Shell
  <2> HIDE DEF s3
  <2>6. QED
    BY <2>2, <2>5, Zenon DEF confs, deployed
<1> HIDE DEF sh
<1>6. QED
  BY <1>1, <1>4, <1>5, Advancing

LEMMA Retrying ==
  ASSUME TypeOK, NEW r \in Runs, Retry(r)
  PROVE  /\ Alone(r) /\ GoesOn(r, shell[r].at) /\ mode[r] = "main" /\ Command(r) = "restart"
         /\ shell'[r].deployed = shell[r].deployed /\ shell'[r].newConfs = shell[r].newConfs
<1>1. /\ mode[r] = "main" /\ Command(r) = "restart" /\ UNCHANGED <<mode, outcome, lock>>
      /\ shell[r].attempts + 1 < MaxRestarts
      /\ shell' = [shell EXCEPT ![r].attempts = @ + 1]
  BY DEF Retry, AttemptsLeft
<1>2. shell[r] \in Shell
  BY DEF TypeOK
<1>3. /\ shell'[r] = [shell[r] EXCEPT !.attempts = @ + 1]
      /\ \A q \in Runs \ {r} : shell'[q] = shell[q]
  BY <1>1 DEF TypeOK
<1>4. /\ shell'[r] \in Shell /\ shell'[r].at = shell[r].at
      /\ shell'[r].deployed = shell[r].deployed /\ shell'[r].newConfs = shell[r].newConfs
  BY <1>1, <1>2, <1>3, SizesAssumption DEF Shell
<1>5. shell' \in [Runs -> Shell]
  BY <1>1, <1>3, <1>4 DEF TypeOK
<1>6. QED
  BY <1>1, <1>3, <1>4, <1>5 DEF Alone, GoesOn, TypeOK

LEMMA RollingBack ==
  ASSUME IInv, NEW r \in Runs, Rollback(r)
  PROVE  /\ Alone(r) /\ mode[r] = "rollback"
         /\ \/ /\ GoesOn(r, shell[r].at + 1) /\ shell[r].at < Len(Program(r))
               /\ shell'[r].deployed = shell[r].deployed /\ shell'[r].newConfs = shell[r].newConfs
            \/ Leaves(r) /\ outcome'[r] = outcome[r] /\ ~(shell[r].at < Len(Program(r)))
         /\ impaired'[r] = 0 => impaired[r] = 0 /\ Happens(r)
<1>1. mode[r] = "rollback" /\ Advance(r, shell[r], outcome[r])
  BY DEF Rollback
<1>2. Active(r) /\ InRollback(r)
  BY <1>1 DEF Active, InRollback
<1>3. outcome[r] \in {"failed", "terminated"} /\ shell[r] \in Shell /\ TypeOK
  BY <1>2, Here DEF IInv, TypeOK, Holds, Placed
<1>4. impaired'[r] = 0 => impaired[r] = 0 /\ Happens(r)
  BY <1>3, SignalsAssumption DEF Rollback, TypeOK
<1>5. QED
  BY <1>1, <1>3, <1>4, Advancing
-----------------------------------------------------------------------------
(* What holds of a run holds of it after its step. *)

\* What any command of r, whether it completes or not, leaves true.
LEMMA Keeping ==
  ASSUME IInv, NEW r \in Runs, Acts(r)
  PROVE  /\ kind' = kind /\ selected' = selected /\ before' = before
         /\ NoBin(r)'
         /\ Supervised(before[2], supervisor', selected[r], shell[r].newConfs)
         /\ Deploys(r) /\ (InRollback(r) \/ shell[r].at \in 5..(CompleteAt + 1)) =>
               r \in Backups' /\ saved'[r] = before[1]
         /\ ~Deploys(r) => target' = before[1]
<1>a. /\ Active(r) /\ TouchesFiles(r) /\ TouchesProcesses(r) /\ TouchesStorage(r) /\ Holds(r)
      /\ UNCHANGED <<arguments, before>>
  BY Acting, Here
<1>t. TypeOK
  BY DEF IInv
<1>1. kind' = kind /\ selected' = selected /\ before' = before
  BY <1>a DEF arguments
<1>2. NoBin(r)'
  <2>1. SUFFICES ASSUME ~HasBin(before[1])
                 PROVE  target'.bin = before[1].bin
    BY <1>1 DEF NoBin
  <2>2. target.bin = before[1].bin
    BY <2>1, <1>a DEF Holds, NoBin
  <2>3. ~HasBin(target)
    BY <2>1, <2>2 DEF HasBin
  <2>4. Command(r) \in {"rm_bin", "cp_bin"} => saved[r] = before[1]
    BY <1>a, Here DEF AtDeploy, Holds, BackedUp
  <2>5. QED
    BY <2>1, <2>2, <2>3, <2>4, <1>a DEF TouchesFiles
<1>3. Supervised(before[2], supervisor', selected[r], shell[r].newConfs)
  BY <1>a, <1>t, StaysSupervised DEF Holds
<1>4. ASSUME Deploys(r), InRollback(r) \/ shell[r].at \in 5..(CompleteAt + 1)
      PROVE  r \in Backups' /\ saved'[r] = before[1]
  <2>1. r \in Backups /\ saved[r] = before[1]
    BY <1>4, <1>a DEF Holds, BackedUp
  <2>2. Command(r) \notin {"backup", "prune"}
    <3>1. CASE InRollback(r)
      BY <3>1, <1>a, Here DEF AtRollback
    <3>2. CASE InMain(r)
      BY <3>2, <1>4, <1>a, Here, Places DEF AtDeploy
    <3>3. QED
      BY <3>1, <3>2, <1>a, Here
  <2>3. QED
    BY <2>1, <2>2, <1>a DEF TouchesStorage, storage, Backups
<1>5. ASSUME ~Deploys(r)
      PROVE  target' = before[1]
  <2>1. Command(r) = "restart" /\ target = before[1]
    BY <1>5, <1>a, Here DEF Holds, Untouched
  <2>2. QED
    BY <2>1, <1>a DEF TouchesFiles, FileCommands
<1>6. QED
  BY <1>1, <1>2, <1>3, <1>4, <1>5

LEMMA HoldsOn ==
  ASSUME IInv, NEW r \in Runs, Complete(r), mode'[r] # "exited"
  PROVE  Holds(r)'
<1> DEFINE n == shell[r].at
           c == Command(r)
<1>0. Acts(r)
  BY DEF Acts
<1>a. /\ Active(r) /\ TouchesFiles(r) /\ TouchesProcesses(r) /\ TouchesStorage(r) /\ Holds(r)
      /\ Indexed(r)
  BY <1>0, Acting, Here
<1>b. /\ mode[r] = "main" /\ GoesOn(r, n + 1) /\ n < Len(Program(r))
      /\ shell'[r].deployed = ((shell[r].deployed \/ c = "install") /\ c # "complete")
      /\ shell'[r].newConfs = IF c = "render" /\ Applies(r)
                              THEN shell[r].newConfs \cup {Index(r)} ELSE shell[r].newConfs
  BY Completing DEF Leaves
<1>m. mode'[r] = "main" /\ shell'[r].at = n + 1
  BY <1>b DEF GoesOn
<1>k. /\ kind' = kind /\ selected' = selected /\ before' = before /\ NoBin(r)'
      /\ Supervised(before[2], supervisor', selected[r], shell[r].newConfs)
      /\ Deploys(r) /\ n \in 5..(CompleteAt + 1) => r \in Backups' /\ saved'[r] = before[1]
      /\ ~Deploys(r) => target' = before[1]
  BY <1>0, Keeping
<1>t. TypeOK /\ n \in Nat \ {0} /\ shell[r].deployed \in BOOLEAN /\ CompleteAt \in Nat
  BY Places DEF IInv, TypeOK, Shell
<1>i. InMain(r) /\ InMain(r)' /\ ~InRollback(r)' /\ (Deploys(r)' <=> Deploys(r))
  BY <1>b, <1>m, <1>k DEF InMain, InRollback, Deploys
<1>d. Deploys(r) => AtDeploy(c, Index(r), n) /\ n < CompleteAt + 2
  BY <1>a, <1>b, <1>i, Here
<1>p. ASSUME Deploys(r)
      PROVE  /\ n <= 5 <=> c \in {"source", "build", "marker", "backup", "install"}
             /\ c = "install" <=> n = 5
             /\ c = "complete" <=> n = CompleteAt + 1
             /\ c = "marker" <=> n = 3
             /\ c = "backup" <=> n = 4
             /\ c # "prune"
  <2>1. AtDeploy(c, Index(r), n) /\ n < CompleteAt + 2
    BY <1>p, <1>d
  <2>2. \A p \in Processes : p \in 1..NProcesses /\ NProcesses \in Nat
    BY SizesAssumption DEF Processes
  <2>3. \A a \in Artifacts : a \in 1..NArtifacts /\ NArtifacts \in Nat
    BY SizesAssumption DEF Artifacts
  <2>4. \A a \in Assets : a \in 1..NAssets /\ NAssets \in Nat
    BY SizesAssumption DEF Assets
  <2>5. QED
    BY <2>1, <2>2, <2>3, <2>4, <1>t, Places
       DEF AtDeploy, AssetAt, RevisionAt, ConfAt, UpdateAt, RestartAt, CompleteAt
<1>r. ~Deploys(r) => c = "restart" /\ n < NProcesses
  BY <1>a, <1>b, <1>i, Here
<1>1. Placed(r)'
  <2>0. Deploys(r) => (shell[r].deployed <=> n \in 6..(CompleteAt + 1)) /\ (n > 3 => marked[r])
    BY <1>a, <1>i DEF Holds, Placed
  <2>1. ASSUME Deploys(r)
        PROVE  /\ shell'[r].at <= CompleteAt + 2
               /\ shell'[r].deployed <=> shell'[r].at \in 6..(CompleteAt + 1)
    <3>1. n < CompleteAt + 2 /\ CompleteAt > 5
      BY <2>1, <1>d, Places
    <3>2. CASE n = 5
      <4>1. Command(r) = "install" /\ Command(r) # "complete"
        BY <2>1, <3>2, <1>p
      <4>2. shell'[r].deployed
        BY <4>1, <1>b
      <4>3. QED
        BY <3>1, <3>2, <4>2, <1>m, <1>t
    <3>3. CASE n = CompleteAt + 1
      <4>1. Command(r) = "complete"
        BY <2>1, <3>3, <1>p
      <4>2. ~shell'[r].deployed
        BY <4>1, <1>b
      <4>3. QED
        BY <3>1, <3>3, <4>2, <1>m, <1>t
    <3>4. CASE n # 5 /\ n # CompleteAt + 1
      <4>1. Command(r) # "install" /\ Command(r) # "complete"
        BY <2>1, <3>4, <1>p
      <4>2. shell'[r].deployed <=> shell[r].deployed
        BY <4>1, <1>b
      <4>3. QED
        BY <2>0, <2>1, <3>1, <3>4, <4>2, <1>m, <1>t
    <3>5. QED
      BY <3>2, <3>3, <3>4
  <2>2. ~Deploys(r) => /\ shell'[r].at <= NProcesses /\ ~shell'[r].deployed
                       /\ shell'[r].newConfs = {}
    BY <1>a, <1>b, <1>m, <1>i, <1>r, <1>t, SizesAssumption DEF Holds, Placed
  <2>3. ASSUME Deploys(r), shell'[r].at > 3
        PROVE  marked'[r]
    <3>1. marked'[r] = (marked[r] \/ Command(r) = "marker")
      BY <1>t DEF Complete, TypeOK
    <3>2. n = 3 \/ n > 3
      BY <2>3, <1>m, <1>t
    <3>3. CASE n = 3
      <4>1. Command(r) = "marker"
        BY <2>3, <3>3, <1>p
      <4>2. QED
        BY <3>1, <4>1
    <3>4. CASE n > 3
      BY <2>0, <2>3, <3>1, <3>4
    <3>5. QED
      BY <3>2, <3>3, <3>4
  <2>4. QED
    BY <1>i, <2>1, <2>2, <2>3 DEF Placed
<1>2. Untouched(r)'
  <2>1. ASSUME Deploys(r), n <= 4
        PROVE  before' = <<target', supervisor'>> /\ shell'[r].newConfs = {}
    <3>1. before = <<target, supervisor>> /\ shell[r].newConfs = {}
      BY <2>1, <1>a, <1>i, <1>t DEF Holds, Untouched
    <3>2. target' = target /\ supervisor' = supervisor /\ c # "render"
      BY <2>1, <1>a, <1>p, <1>t DEF TouchesFiles, TouchesProcesses, FileCommands, ProcessCommands
    <3>3. QED
      BY <3>1, <3>2, <1>b, <1>k
  <2>2. ASSUME Deploys(r), n <= 3
        PROVE  saved'[r] = EmptyFiles
    BY <2>2, <1>a, <1>i, <1>p, <1>t DEF Holds, Untouched, TouchesStorage, storage
  <2>3. QED
    BY <1>i, <1>k, <1>m, <1>t, <2>1, <2>2 DEF Untouched
<1>3. BackedUp(r)'
  <2>1. ASSUME Deploys(r), n = 4
        PROVE  r \in Backups' /\ saved'[r] = before[1]
    <3>1. StorageChanges(r, TRUE)
      BY DEF Complete
    <3>2. target = before[1]
      BY <2>1, <1>a, <1>i DEF Holds, Untouched
    <3>3. QED
      BY <2>1, <3>1, <3>2, <1>p, <1>t, BackupMade
  <2>2. QED
    BY <1>i, <1>k, <1>m, <1>t, <2>1 DEF BackedUp
<1>4. CanGoBack(r)'
  BY <1>0, <1>b, StaysRecoverable DEF CanGoBack, SomeWhole
<1>5. Supervised(before[2], supervisor', selected[r], shell'[r].newConfs)
  <2>1. CASE c = "render" /\ Applies(r)
    <3>1. supervisor' = supervisor
      BY <2>1, <1>a DEF TouchesProcesses
    <3>2. ~Blocked(r)
      BY DEF Complete
    <3>3. Supervised(before[2], supervisor, selected[r], shell[r].newConfs \cup {Index(r)})
      BY <2>1, <3>2, <1>a, <1>t, Renders DEF Holds
    <3>4. QED
      BY <2>1, <3>1, <3>3, <1>b
  <2>2. CASE ~(c = "render" /\ Applies(r))
    BY <2>2, <1>b, <1>k
  <2>3. QED
    BY <2>1, <2>2
<1>6. Deploys(r) => /\ InstalledTo(r, target', n + 1)
                    /\ StartedTo(r, before[2], supervisor', selected[r], stale', n + 1)
  <2>1. ~Blocked(r) /\ Effective(r)
    BY DEF Complete, Effective
  <2>2. QED
    BY <2>1, <1>a, <1>d, <1>i, <1>t, Installs DEF Holds
<1>7. QED
  BY <1>1, <1>2, <1>3, <1>4, <1>5, <1>6, <1>i, <1>k, <1>m DEF Holds

LEMMA HoldsAgain ==
  ASSUME IInv, NEW r \in Runs, Retry(r)
  PROVE  Holds(r)'
<1> DEFINE n == shell[r].at
<1>0. Acts(r)
  BY DEF Acts
<1>a. /\ Active(r) /\ TouchesFiles(r) /\ TouchesProcesses(r) /\ TouchesStorage(r) /\ Holds(r)
  BY <1>0, Acting, Here
<1>t. TypeOK /\ n \in Nat \ {0} /\ CompleteAt \in Nat
  BY Places DEF IInv, TypeOK, Shell
<1>b. /\ mode[r] = "main" /\ mode' = mode /\ outcome' = outcome /\ Command(r) = "restart"
      /\ shell'[r].at = n /\ shell'[r].deployed = shell[r].deployed
      /\ shell'[r].newConfs = shell[r].newConfs /\ marked' = marked /\ backups' = backups
      /\ saved' = saved /\ target' = target /\ stale' = stale
  BY <1>a, <1>t, Retrying DEF GoesOn, Retry, storage, history, TouchesFiles, FileCommands
<1>k. /\ kind' = kind /\ selected' = selected /\ before' = before /\ NoBin(r)'
      /\ Supervised(before[2], supervisor', selected[r], shell[r].newConfs)
  BY <1>0, Keeping
<1>i. InMain(r) /\ InMain(r)' /\ ~InRollback(r)' /\ (Deploys(r)' <=> Deploys(r))
  BY <1>b, <1>k DEF InMain, InRollback, Deploys
<1>d. Deploys(r) => AtDeploy("restart", Index(r), n) /\ n > RestartAt
  BY <1>a, <1>b, <1>i, <1>t, Here, Places DEF AtDeploy, Processes
<1>1. Placed(r)'
  BY <1>a, <1>b, <1>i DEF Holds, Placed
<1>2. Untouched(r)'
  BY <1>a, <1>b, <1>d, <1>i, <1>k, <1>t, Places DEF Holds, Untouched
<1>3. BackedUp(r)' /\ CanGoBack(r)'
  BY <1>a, <1>b, <1>i, <1>k DEF Holds, BackedUp, CanGoBack, SomeWhole, Backups
<1>4. ASSUME Deploys(r)
      PROVE  /\ InstalledTo(r, target', n)
             /\ StartedTo(r, before[2], supervisor', selected[r], stale', n)
  <2>1. /\ InstalledTo(r, target, n)
        /\ StartedTo(r, before[2], supervisor, selected[r], stale, n)
    BY <1>4, <1>a, <1>i DEF Holds
  <2>2. n = RestartAt + Index(r) /\ Index(r) \in Processes
    BY <1>4, <1>d, <1>t, Places DEF AtDeploy
  <2>3. selected[r] \subseteq Processes
    BY <1>t DEF TypeOK, Selections
  <2>4. ASSUME NEW p \in selected[r], n > RestartAt + p
        PROVE  /\ supervisor'.registered[p]
               /\ \/ supervisor'.proc[p] = r
                  \/ /\ p \in stale' /\ supervisor'.proc[p] = before[2].proc[p]
                     /\ supervisor'.proc[p] # "absent"
    <3>1. p \in Processes /\ p # Index(r)
      BY <2>2, <2>3, <2>4, Places DEF Processes
    <3>2. supervisor'.registered[p] = supervisor.registered[p] /\ supervisor'.proc[p] = supervisor.proc[p]
      BY <3>1, <1>a DEF TouchesProcesses
    <3>3. QED
      BY <2>1, <2>4, <3>2, <1>b DEF StartedTo
  <2>5. ASSUME NEW p \in Processes
        PROVE  supervisor'.proc[p] \in {r, before[2].proc[p], "absent"}
    <3>1. ArtifactOf[p] \in Artifacts /\ n > 5 + ArtifactOf[p]
      BY <1>4, <1>d, <1>t, SizesAssumption, ArtifactOfAssumption, Places DEF Artifacts, AssetAt
    <3>2. Load(p) = r
      BY <2>1, <3>1 DEF InstalledTo, Load
    <3>3. QED
      BY <2>1, <3>2, <1>a DEF TouchesProcesses, StartedTo
  <2>6. StartedTo(r, before[2], supervisor', selected[r], stale', n)
    BY <2>4, <2>5 DEF StartedTo
  <2>7. QED
    BY <2>1, <2>6, <1>b
<1>5. QED
  BY <1>1, <1>2, <1>3, <1>4, <1>b, <1>i, <1>k DEF Holds

LEMMA HoldsBack ==
  ASSUME IInv, NEW r \in Runs, Fail(r) \/ Terminate(r), TurnsBack(r)
  PROVE  Holds(r)'
<1>0. Acts(r)
  BY DEF Acts
<1>a. Active(r) /\ Holds(r)
  BY <1>0, Acting, Here
<1>t. TypeOK /\ shell[r].at \in Nat \ {0}
  BY DEF IInv, TypeOK, Shell
<1>k. /\ kind' = kind /\ selected' = selected /\ before' = before /\ NoBin(r)'
      /\ Supervised(before[2], supervisor', selected[r], shell[r].newConfs)
      /\ Deploys(r) /\ shell[r].at \in 5..(CompleteAt + 1) => r \in Backups' /\ saved'[r] = before[1]
  BY <1>0, Keeping
<1>b. /\ InMain(r) /\ InRollback(r)' /\ ~InMain(r)' /\ (Deploys(r)' <=> Deploys(r))
      /\ shell'[r].at = 1 /\ shell[r].deployed /\ shell'[r].deployed
      /\ shell'[r].newConfs = shell[r].newConfs
      /\ outcome'[r] \in {"failed", "terminated"} /\ marked' = marked
  BY <1>k DEF TurnsBack, InMain, InRollback, Deploys, Fail, Terminate
<1>d. Deploys(r) /\ shell[r].at \in 6..(CompleteAt + 1) /\ marked[r]
  BY <1>a, <1>b, <1>t, Places DEF Holds, Placed
<1>1. Placed(r)' /\ Untouched(r)' /\ BackedUp(r)'
  BY <1>b, <1>d, <1>k, Places DEF Placed, Untouched, BackedUp
<1>2. CanGoBack(r)'
  BY <1>0, <1>b, StaysRecoverable DEF CanGoBack, SomeWhole
<1>3. UndoneTo(before[1], target', supervisor', selected[r], shell[r].newConfs, 1)
  <2>1. selected[r] \subseteq Processes /\ shell[r].newConfs \subseteq Processes
    BY <1>t DEF TypeOK, Selections, Shell
  <2>2. QED
    BY <2>1, Places DEF UndoneTo, Assets, Processes
<1>4. QED
  BY <1>1, <1>2, <1>3, <1>b, <1>k DEF Holds

LEMMA HoldsUndoing ==
  ASSUME IInv, NEW r \in Runs, Rollback(r), mode'[r] # "exited"
  PROVE  Holds(r)'
<1> DEFINE n == shell[r].at
<1>0. Acts(r)
  BY DEF Acts
<1>a. /\ Active(r) /\ TouchesFiles(r) /\ TouchesProcesses(r) /\ Holds(r) /\ Indexed(r)
  BY <1>0, Acting, Here
<1>t. TypeOK /\ n \in Nat \ {0}
  BY DEF IInv, TypeOK, Shell
<1>k. /\ kind' = kind /\ selected' = selected /\ before' = before /\ NoBin(r)'
      /\ Supervised(before[2], supervisor', selected[r], shell[r].newConfs)
      /\ Deploys(r) /\ InRollback(r) => r \in Backups' /\ saved'[r] = before[1]
  BY <1>0, Keeping
<1>b. /\ mode[r] = "rollback" /\ mode' = mode /\ outcome' = outcome
      /\ shell'[r].at = n + 1 /\ n < Len(Program(r)) /\ shell'[r].deployed = shell[r].deployed
      /\ shell'[r].newConfs = shell[r].newConfs /\ marked' = marked
      /\ impaired'[r] = 0 => impaired[r] = 0 /\ Happens(r)
  BY RollingBack DEF Leaves, GoesOn, Rollback
<1>i. /\ InRollback(r) /\ InRollback(r)' /\ ~InMain(r)' /\ Deploys(r) /\ Deploys(r)'
      /\ n < LastUndone /\ AtRollback(Command(r), Index(r), n)
  BY <1>a, <1>b, <1>k, Here DEF InMain, InRollback, Deploys
<1>1. Placed(r)' /\ Untouched(r)' /\ BackedUp(r)'
  BY <1>a, <1>b, <1>i, <1>k, <1>t, Places DEF Holds, Placed, Untouched, BackedUp
<1>2. CanGoBack(r)'
  BY <1>0, <1>b, StaysRecoverable DEF CanGoBack, SomeWhole
<1>3. ASSUME impaired'[r] = 0
      PROVE  UndoneTo(before[1], target', supervisor', selected[r], shell[r].newConfs, n + 1)
  <2>1. /\ UndoneTo(before[1], target, supervisor, selected[r], shell[r].newConfs, n)
        /\ Happens(r) /\ saved[r] = before[1] /\ NoBin(r)
    BY <1>3, <1>a, <1>b, <1>i DEF Holds, BackedUp
  <2>2. QED
    BY <2>1, <1>a, <1>i, <1>t, Undoes
<1>4. QED
  BY <1>1, <1>2, <1>3, <1>b, <1>i, <1>k DEF Holds
-----------------------------------------------------------------------------
(* The inductive invariant. *)

LEMMA Moves ==
  ASSUME IInv, NEW r \in Runs, Acts(r)
  PROVE  /\ Alone(r)
         /\ Leaves(r) \/ (lock' = lock /\ mode'[r] \in {"main", "rollback"} /\ Holds(r)')
<1>t. TypeOK
  BY DEF IInv
<1>1. CASE Complete(r)
  BY <1>1, Completing, HoldsOn DEF GoesOn
<1>2. CASE Retry(r)
  BY <1>2, <1>t, Retrying, HoldsAgain DEF GoesOn
<1>3. CASE Fail(r)
  <2>1. mode[r] = "main" /\ Cleanup(r, 1, "failed")
    BY <1>3 DEF Fail
  <2>2. Alone(r) /\ (TurnsBack(r) \/ Leaves(r))
    BY <2>1, <1>t, Cleaning
  <2>3. QED
    BY <1>3, <2>2, HoldsBack DEF TurnsBack
<1>4. CASE Rollback(r)
  BY <1>4, RollingBack, HoldsUndoing DEF GoesOn
<1>5. CASE Terminate(r)
  <2>1. \/ mode[r] = "main" /\ \E exitCode \in {0, 1} : Cleanup(r, exitCode, "terminated")
        \/ Exits(r, "terminated")
    BY <1>5 DEF Terminate
  <2>2. Alone(r) /\ (TurnsBack(r) \/ Leaves(r))
    BY <2>1, <1>t, Cleaning, Exiting
  <2>3. QED
    BY <1>5, <2>2, HoldsBack DEF TurnsBack
<1>6. CASE OrphanEnds(r)
  BY <1>6, <1>t, Exiting DEF OrphanEnds
<1>7. QED
  BY <1>1, <1>2, <1>3, <1>4, <1>5, <1>6 DEF Acts

LEMMA ActsKeep ==
  ASSUME IInv, NEW r \in Runs, Acts(r)
  PROVE  IInv'
<1>t. TypeOK /\ Locks /\ Waiting
  BY DEF IInv
<1>a. /\ Active(r) /\ TouchesFiles(r) /\ TouchesProcesses(r) /\ TouchesStorage(r)
      /\ UNCHANGED <<arguments, before>> /\ stale' \in SUBSET Processes /\ lock = r
  BY Acting, Here
<1>m. /\ Alone(r)
      /\ Leaves(r) \/ (lock' = lock /\ mode'[r] \in {"main", "rollback"} /\ Holds(r)')
  BY Moves
<1>f. r # "free"
  BY RunsAssumption
<1>1. TypeOK'
  <2>1. marked' \in [Runs -> BOOLEAN]
    BY <1>t DEF TypeOK, Acts, Complete, Retry, Fail, Rollback, Terminate, OrphanEnds
  <2>2. impaired' \in [Runs -> 0..RollbackFaults]
    <3>1. CASE Rollback(r)
      <4>1. impaired \in [Runs -> 0..RollbackFaults] /\ RollbackFaults \in Nat
        BY <1>t, SignalsAssumption DEF TypeOK
      <4>2. \/ impaired' = impaired
            \/ impaired[r] < RollbackFaults /\ impaired' = [impaired EXCEPT ![r] = @ + 1]
        BY <3>1 DEF Rollback
      <4>3. QED
        BY <4>1, <4>2
    <3>2. CASE ~Rollback(r)
      BY <3>2, <1>t DEF TypeOK, Acts, Complete, Retry, Fail, Terminate, OrphanEnds
    <3>3. QED
      BY <3>1, <3>2
  <2>3. lock' \in Runs \cup {"free"}
    BY <1>a, <1>m DEF Leaves
  <2>4. QED
    BY <1>t, <1>a, <1>m, <2>1, <2>2, <2>3
       DEF TypeOK, arguments, Alone, TouchesFiles, TouchesProcesses, TouchesStorage
<1>2. Locks'
  <2>1. ASSUME NEW q \in Runs
        PROVE  Active(q)' <=> lock' = q
    <3>1. CASE q # r
      BY <3>1, <1>t, <1>a, <1>m, RunsAssumption DEF Locks, Active, Alone, Leaves
    <3>2. CASE q = r
      BY <3>2, <1>a, <1>m, <1>f DEF Active, Leaves
    <3>3. QED
      BY <3>1, <3>2
  <2>2. QED
    BY <2>1 DEF Locks
<1>3. Waiting'
  <2>1. ASSUME NEW q \in Runs, mode'[q] = "idle"
        PROVE  selected'[q] = {} /\ shell'[q] = FreshShell /\ saved'[q] = EmptyFiles
    <3>1. q # r
      BY <2>1, <1>m DEF Leaves
    <3>2. mode[q] = "idle" /\ shell'[q] = shell[q] /\ selected'[q] = selected[q]
      BY <2>1, <3>1, <1>a, <1>m DEF Alone, arguments
    <3>3. QED
      BY <3>1, <3>2, <1>t, <1>a DEF Waiting, TouchesStorage
  <2>2. QED
    BY <2>1 DEF Waiting
<1>4. Holder'
  <2>1. ASSUME NEW q \in Runs, Active(q)'
        PROVE  Holds(q)'
    <3>1. lock' = q
      BY <1>2, <2>1 DEF Locks
    <3>2. q = r /\ ~Leaves(r)
      BY <3>1, <1>a, <1>m, RunsAssumption DEF Leaves
    <3>3. QED
      BY <3>2, <1>m
  <2>2. QED
    BY <2>1 DEF Holder
<1>5. Recoverable'
  BY StaysRecoverable
<1>6. Registered(supervisor)' /\ Registered(before[2])'
  BY <1>a DEF TouchesProcesses, Registered, IInv
<1>7. QED
  BY <1>1, <1>2, <1>3, <1>4, <1>5, <1>6 DEF IInv

LEMMA TakeLockKeeps ==
  ASSUME IInv, NEW r \in Runs, TakeLock(r)
  PROVE  IInv'
<1>t. TypeOK /\ Locks /\ Waiting
  BY DEF IInv
<1>1. /\ mode[r] = "idle" /\ lock = "free" /\ lock' = r
      /\ mode' = [mode EXCEPT ![r] = "main"] /\ before' = <<target, supervisor>>
      /\ stale' = {} /\ target' = target /\ supervisor' = supervisor /\ backups' = backups /\ saved' = saved
      /\ shell' = shell /\ marked' = marked /\ outcome' = outcome /\ impaired' = impaired
  BY DEF TakeLock, host, storage
<1>2. PICK k \in Kind : kind' = [kind EXCEPT ![r] = k]
  BY DEF TakeLock
<1>3. PICK ps \in Selections : selected' = [selected EXCEPT ![r] = ps]
  BY DEF TakeLock
<1>4. TypeOK'
  <2>1. mode' \in [Runs -> Mode]
    BY <1>1, <1>t DEF TypeOK, Mode
  <2>2. kind' \in [Runs -> Kind]
    BY <1>2, <1>t DEF TypeOK
  <2>3. selected' \in [Runs -> Selections \cup {{}}]
    BY <1>3, <1>t DEF TypeOK
  <2>4. QED
    BY <1>1, <1>t, <2>1, <2>2, <2>3 DEF TypeOK
<1>5. \A q \in Runs : Active(q)' <=> q = r
  BY <1>1, <1>t, RunsAssumption DEF TypeOK, Locks, Active
<1>6. Locks'
  BY <1>1, <1>5 DEF Locks
<1>7. Waiting'
  <2>1. ASSUME NEW q \in Runs, mode'[q] = "idle"
        PROVE  selected'[q] = {} /\ shell'[q] = FreshShell /\ saved'[q] = EmptyFiles
    <3>1. q # r /\ mode[q] = "idle"
      BY <1>1, <1>t, <2>1 DEF TypeOK
    <3>2. QED
      BY <1>1, <1>3, <1>t, <3>1 DEF TypeOK, Waiting
  <2>2. QED
    BY <2>1 DEF Waiting
<1>8. Holds(r)'
  <2>1. /\ shell'[r].at = 1 /\ ~shell'[r].deployed /\ shell'[r].newConfs = {}
        /\ saved'[r] = EmptyFiles
    BY <1>1, <1>t DEF Waiting, FreshShell
  <2>2. InMain(r)' /\ ~InRollback(r)'
    BY <1>1, <1>t DEF TypeOK, InMain, InRollback
  <2>3. Placed(r)' /\ Untouched(r)' /\ BackedUp(r)' /\ CanGoBack(r)' /\ NoBin(r)'
    BY <1>1, <2>1, <2>2, SizesAssumption, Places
       DEF Placed, Untouched, BackedUp, CanGoBack, NoBin
  <2>4. Supervised(before'[2], supervisor', selected'[r], shell'[r].newConfs)
    BY <1>1, <2>1 DEF Supervised
  <2>5. /\ InstalledTo(r, target', shell'[r].at)
        /\ StartedTo(r, before'[2], supervisor', selected'[r], stale', shell'[r].at)
    <3>1. selected'[r] \subseteq Processes
      BY <1>4 DEF TypeOK, Selections
    <3>2. QED
      BY <1>1, <2>1, <3>1, SizesAssumption, Places DEF InstalledTo, StartedTo, Artifacts, Processes
  <2>6. QED
    BY <2>2, <2>3, <2>4, <2>5 DEF Holds
<1>9. Holder'
  BY <1>5, <1>8 DEF Holder
<1>10. Recoverable'
  BY <1>1 DEF IInv, Recoverable, Backups, Whole
<1>11. Registered(supervisor)' /\ Registered(before[2])'
  BY <1>1 DEF IInv, Registered
<1>12. QED
  BY <1>4, <1>6, <1>7, <1>9, <1>10, <1>11 DEF IInv

\* A step that leaves everything alone but the modes and outcomes of runs that
\* stay as active or inactive as they were.
LEMMA SameKeeps ==
  ASSUME IInv, TypeOK',
         UNCHANGED <<host, storage, lock, arguments, shell, marked, history, impaired>>,
         \A q \in Runs :
            /\ Active(q)' <=> Active(q)
            /\ Active(q) => /\ InMain(q)' <=> InMain(q)
                            /\ InRollback(q)' <=> InRollback(q)
                            /\ outcome'[q] = outcome[q]
            /\ mode'[q] = "idle" => mode[q] = "idle"
  PROVE  IInv'
<1>u. /\ target' = target /\ supervisor' = supervisor /\ backups' = backups /\ saved' = saved
      /\ lock' = lock /\ kind' = kind /\ selected' = selected /\ shell' = shell
      /\ marked' = marked /\ before' = before /\ stale' = stale /\ impaired' = impaired
  BY DEF host, storage, arguments, history
<1>1. Locks' /\ Waiting'
  BY <1>u DEF IInv, Locks, Waiting
<1>2. ASSUME NEW q \in Runs, Active(q)'
      PROVE  Holds(q)'
  <2>1. /\ Holds(q) /\ (InMain(q)' <=> InMain(q)) /\ (InRollback(q)' <=> InRollback(q))
        /\ outcome'[q] = outcome[q] /\ (Deploys(q)' <=> Deploys(q))
    BY <1>u, <1>2 DEF IInv, Holder, Deploys
  <2>2. Placed(q)'
    BY <1>u, <2>1 DEF Holds, Placed
  <2>3. Untouched(q)' /\ BackedUp(q)' /\ CanGoBack(q)' /\ NoBin(q)'
    BY <1>u, <2>1 DEF Holds, Untouched, BackedUp, CanGoBack, NoBin, SomeWhole, Backups
  <2>4. QED
    BY <1>u, <2>1, <2>2, <2>3 DEF Holds
<1>3. Recoverable' /\ Registered(supervisor)' /\ Registered(before[2])'
  BY <1>u DEF IInv, Recoverable, Registered, Backups, Whole
<1>4. QED
  BY <1>1, <1>2, <1>3 DEF IInv, Holder

LEMMA NextKeeps ==
  ASSUME IInv, Next
  PROVE  IInv'
<1>t. TypeOK
  BY DEF IInv
<1>1. ASSUME NEW r \in Runs, Refused(r)
      PROVE  IInv'
  <2>1. /\ mode[r] = "idle" /\ mode' = [mode EXCEPT ![r] = "exited"]
        /\ outcome' = [outcome EXCEPT ![r] = "failed"]
        /\ UNCHANGED <<host, storage, lock, arguments, shell, marked, history, impaired>>
    BY <1>1 DEF Refused
  <2>2. TypeOK'
    BY <2>1, <1>t DEF TypeOK, Mode, host, storage, arguments, history
  <2>3. ASSUME NEW q \in Runs
        PROVE  /\ Active(q)' <=> Active(q)
               /\ Active(q) => /\ InMain(q)' <=> InMain(q)
                               /\ InRollback(q)' <=> InRollback(q)
                               /\ outcome'[q] = outcome[q]
               /\ mode'[q] = "idle" => mode[q] = "idle"
    BY <2>1, <1>t DEF TypeOK, Active, InMain, InRollback
  <2>4. QED
    BY <2>1, <2>2, <2>3, SameKeeps
<1>2. ASSUME NEW r \in Runs, Kill(r)
      PROVE  IInv'
  <2>1. /\ \/ mode[r] = "main" /\ mode' = [mode EXCEPT ![r] = "orphaned_main"]
           \/ mode[r] = "rollback" /\ mode' = [mode EXCEPT ![r] = "orphaned_rollback"]
        /\ UNCHANGED <<host, storage, lock, arguments, shell, marked, outcome, history, impaired>>
    BY <1>2 DEF Kill
  <2>2. TypeOK'
    BY <2>1, <1>t DEF TypeOK, Mode, host, storage, arguments, history
  <2>3. ASSUME NEW q \in Runs
        PROVE  /\ Active(q)' <=> Active(q)
               /\ Active(q) => /\ InMain(q)' <=> InMain(q)
                               /\ InRollback(q)' <=> InRollback(q)
                               /\ outcome'[q] = outcome[q]
               /\ mode'[q] = "idle" => mode[q] = "idle"
    BY <2>1, <1>t DEF TypeOK, Active, InMain, InRollback
  <2>4. QED
    BY <2>1, <2>2, <2>3, SameKeeps
<1>3. QED
  BY <1>1, <1>2, TakeLockKeeps, ActsKeep DEF Next, Acts

LEMMA StutterKeeps ==
  ASSUME IInv, UNCHANGED vars
  PROVE  IInv'
<1>u. /\ target' = target /\ supervisor' = supervisor /\ backups' = backups /\ saved' = saved
      /\ lock' = lock /\ kind' = kind /\ selected' = selected /\ mode' = mode /\ shell' = shell
      /\ marked' = marked /\ outcome' = outcome /\ before' = before /\ stale' = stale
      /\ impaired' = impaired
  BY DEF vars, host, storage, arguments, history
<1>1. TypeOK'
  BY <1>u DEF IInv, TypeOK
<1>2. \A q \in Runs : /\ Active(q)' <=> Active(q)
                      /\ Active(q) => /\ InMain(q)' <=> InMain(q)
                                      /\ InRollback(q)' <=> InRollback(q)
                                      /\ outcome'[q] = outcome[q]
                      /\ mode'[q] = "idle" => mode[q] = "idle"
  BY <1>u DEF Active, InMain, InRollback
<1>3. QED
  BY <1>u, <1>1, <1>2, SameKeeps DEF host, storage, arguments, history

LEMMA InitHolds ==
  ASSUME Init
  PROVE  IInv
<1>1. PICK f \in [Processes -> InitialProcess] :
         supervisor = [conf |-> [p \in Processes |-> f[p][1]],
                       registered |-> [p \in Processes |-> f[p][2]],
                       proc |-> [p \in Processes |-> f[p][3]]]
  BY DEF Init
<1>2. \A p \in Processes : f[p] \in InitialProcess
  BY <1>1
<1>3. \A x \in InitialProcess :
         /\ x[1] \in Content /\ x[2] \in BOOLEAN /\ x[3] \in Content
         /\ ~x[2] => x[3] = "absent"
  <2>1. "old" \in Content /\ "absent" \in Content
    BY DEF Content
  <2>2. ASSUME NEW x \in InitialProcess
        PROVE  /\ x[1] \in Content /\ x[2] \in BOOLEAN /\ x[3] \in Content
               /\ ~x[2] => x[3] = "absent"
    <3>1. CASE x = <<"old", TRUE, "old">>
      BY <3>1, <2>1
    <3>2. CASE x = <<"absent", FALSE, "absent">>
      BY <3>2, <2>1
    <3>3. CASE x = <<"old", FALSE, "absent">>
      BY <3>3, <2>1
    <3>4. QED
      BY <3>1, <3>2, <3>3, Zenon DEF InitialProcess
  <2>3. QED
    BY <2>2
<1>4. supervisor \in Supervisor /\ Registered(supervisor)
  <2>1. \A p \in Processes : /\ f[p][1] \in Content /\ f[p][2] \in BOOLEAN /\ f[p][3] \in Content
                             /\ ~f[p][2] => f[p][3] = "absent"
    BY <1>2, <1>3
  <2>2. /\ [p \in Processes |-> f[p][1]] \in [Processes -> Content]
        /\ [p \in Processes |-> f[p][2]] \in [Processes -> BOOLEAN]
        /\ [p \in Processes |-> f[p][3]] \in [Processes -> Content]
    BY <2>1
  <2>3. supervisor \in Supervisor
    BY <1>1, <2>2 DEF Supervisor
  <2>4. Registered(supervisor)
    BY <1>1, <2>1 DEF Registered
  <2>5. QED
    BY <2>3, <2>4
<1>5. target \in Files /\ target.bin = [a \in Artifacts |-> "old"]
  BY DEF Init, Files, Content
<1>6. TypeOK
  <2>1. backups \in Seq(Runs) /\ saved \in [Runs -> Files] /\ shell \in [Runs -> Shell]
    BY EmptyIsFiles, FreshIsShell DEF Init
  <2>2. /\ kind \in [Runs -> Kind] /\ selected \in [Runs -> Selections \cup {{}}]
        /\ mode \in [Runs -> Mode] /\ marked \in [Runs -> BOOLEAN]
        /\ outcome \in [Runs -> {"none", "ok", "failed", "terminated", "killed"}]
    BY DEF Init, Kind, Mode
  <2>3. impaired \in [Runs -> 0..RollbackFaults]
    BY SignalsAssumption DEF Init
  <2>4. before \in Files \X Supervisor /\ stale \in SUBSET Processes /\ lock = "free"
    BY <1>4, <1>5 DEF Init
  <2>5. QED
    BY <1>4, <1>5, <2>1, <2>2, <2>3, <2>4 DEF TypeOK
<1>7. Locks /\ Waiting /\ Holder
  BY RunsAssumption DEF Init, Locks, Waiting, Holder, Active
<1>8. Recoverable
  BY <1>5, SizesAssumption DEF Recoverable, Whole, Artifacts
<1>9. Registered(before[2])
  BY <1>4 DEF Init
<1>10. QED
  BY <1>4, <1>6, <1>7, <1>8, <1>9 DEF IInv
-----------------------------------------------------------------------------
(* How a run ends. *)

\* A step that ends an active run is one of its own.
LEMMA EndsByItself ==
  ASSUME IInv, [Next]_vars, NEW r \in Runs, Active(r), mode'[r] = "exited"
  PROVE  Acts(r)
<1>1. lock = r /\ mode[r] # "exited" /\ mode[r] # "idle" /\ TypeOK
  BY DEF IInv, Locks, Active
<1>2. mode' # mode
  BY <1>1
<1>3. Next
  BY <1>2 DEF vars
<1>4. PICK q \in Runs : TakeLock(q) \/ Refused(q) \/ Kill(q) \/ Acts(q)
  BY <1>3 DEF Next, Acts
<1>5. CASE Acts(q)
  <2>1. lock = q
    BY <1>5, Acting DEF IInv, Locks
  <2>2. QED
    BY <1>1, <1>5, <2>1
<1>6. CASE TakeLock(q)
  BY <1>1, <1>6, RunsAssumption DEF TakeLock
<1>7. CASE Refused(q)
  BY <1>1, <1>2, <1>7 DEF Refused, TypeOK
<1>8. CASE Kill(q)
  BY <1>1, <1>8 DEF Kill, TypeOK
<1>9. QED
  BY <1>4, <1>5, <1>6, <1>7, <1>8

\* A deployment that has completed all its commands has released.
LEMMA Released ==
  ASSUME TypeOK, NEW r \in Runs, NEW n \in Nat, n > CompleteAt,
         selected' = selected, before' = before, InstalledTo(r, target', n),
         StartedTo(r, before[2], supervisor', selected[r], stale', n)
  PROVE  IsReleased(r)'
<1>1. \A a \in Artifacts : n > 5 + a
  BY SizesAssumption, Places DEF Artifacts, AssetAt
<1>2. n > RevisionAt + 1
  BY Places
<1>3. \A p \in selected[r] : n > RestartAt + p
  <2>1. \A p \in selected[r] : p \in Nat /\ p <= NProcesses
    <3>1. selected[r] \subseteq Processes
      BY DEF TypeOK, Selections
    <3>2. QED
      BY <3>1, SizesAssumption DEF Processes
  <2>2. QED
    BY <2>1, SizesAssumption, Places DEF CompleteAt
<1>4. QED
  BY <1>1, <1>2, <1>3 DEF IsReleased, Executes, InstalledTo, StartedTo

\* A rollback that has completed all its commands has restored the host.
LEMMA Restored ==
  ASSUME TypeOK, TypeOK', NEW r \in Runs, NEW confs \in SUBSET Processes,
         selected' = selected, before' = before,
         Registered(before[2]),
         Supervised(before[2], supervisor', selected[r], confs),
         UndoneTo(before[1], target', supervisor', selected[r], confs, LastUndone + 1)
  PROVE  IsRestored(r)'
<1> DEFINE files == before[1]
           sup == before[2]
           n == LastUndone + 1
<1>t. /\ files \in Files /\ sup \in Supervisor /\ target' \in Files /\ supervisor' \in Supervisor
      /\ selected[r] \subseteq Processes
  BY DEF TypeOK, Selections
<1>n. /\ n \in Nat /\ n > 2 /\ n > RmConfAt
      /\ \A a \in Assets : n > 2 + 2 * a
      /\ \A p \in Processes : n > RmConfAt + p /\ n > DropAt + p /\ n > RestartOldAt + p
  BY SizesAssumption, Places
     DEF Assets, Processes, OldRevisionAt, RmConfAt, DropAt, RestartOldAt, LastUndone
<1> HIDE DEF n
<1>u. UndoneTo(files, target', supervisor', selected[r], confs, n)
  BY DEF n
<1>1. target'.bin = files.bin /\ target'.revision = files.revision
  BY <1>n, <1>u DEF UndoneTo
<1>2. \A a \in Assets : files.assets[a] \in {"absent", target'.assets[a]}
  BY <1>n, <1>u DEF UndoneTo
<1>3. ASSUME NEW p \in Processes
      PROVE  /\ supervisor'.conf[p] = sup.conf[p]
             /\ supervisor'.registered[p] = sup.registered[p]
             /\ \/ supervisor'.proc[p] = sup.proc[p]
                \/ /\ p \in selected[r] /\ sup.registered[p]
                   /\ supervisor'.proc[p] = target'.bin[ArtifactOf[p]]
  <2>1. CASE p \in confs
    <3>1. sup.conf[p] = "absent" /\ ~sup.registered[p] /\ sup.proc[p] = "absent"
      BY <2>1 DEF Supervised, Registered
    <3>2. supervisor'.conf[p] = "absent" /\ ~supervisor'.registered[p] /\ supervisor'.proc[p] = "absent"
      BY <2>1, <1>n, <1>u DEF UndoneTo
    <3>3. supervisor'.registered[p] \in BOOLEAN /\ sup.registered[p] \in BOOLEAN
      BY <1>t DEF Supervisor
    <3>4. QED
      BY <3>1, <3>2, <3>3
  <2>2. CASE p \notin confs
    <3>1. /\ supervisor'.conf[p] = sup.conf[p] /\ supervisor'.registered[p] = sup.registered[p]
          /\ p \notin selected[r] \/ ~sup.registered[p] => supervisor'.proc[p] = sup.proc[p]
      BY <2>2 DEF Supervised
    <3>2. p \in selected[r] /\ supervisor'.registered[p] =>
             supervisor'.proc[p] = files.bin[ArtifactOf[p]]
      BY <2>2, <1>n, <1>u DEF UndoneTo
    <3>3. QED
      BY <3>1, <3>2, <1>1
  <2>3. QED
    BY <2>1, <2>2
<1>4. supervisor'.conf = sup.conf /\ supervisor'.registered = sup.registered
  <2>1. /\ supervisor'.conf \in [Processes -> Content] /\ sup.conf \in [Processes -> Content]
        /\ supervisor'.registered \in [Processes -> BOOLEAN] /\ sup.registered \in [Processes -> BOOLEAN]
    BY <1>t DEF Supervisor
  <2>2. QED
    BY <2>1, <1>3
<1>5. QED
  BY <1>1, <1>2, <1>3, <1>4 DEF IsRestored, Load

\* What the last step of a deployment that nothing interrupts leaves behind.
LEMMA CompleteEnds ==
  ASSUME IInv, NEW r \in Runs, Complete(r), mode'[r] = "exited", Deploys(r)
  PROVE  IsReleased(r)' /\ outcome'[r] = "ok"
<1> DEFINE n == shell[r].at
<1>0. Acts(r)
  BY DEF Acts
<1>a. /\ Active(r) /\ TouchesFiles(r) /\ TouchesProcesses(r) /\ Holds(r) /\ Indexed(r)
      /\ selected' = selected /\ before' = before
  BY <1>0, Acting, Here DEF arguments
<1>b. mode[r] = "main" /\ ~(n < Len(Program(r))) /\ outcome'[r] = "ok"
  BY Completing DEF GoesOn
<1>c. InMain(r) /\ TypeOK /\ n \in Nat \ {0}
  BY <1>b DEF InMain, IInv, TypeOK, Shell
<1>d. AtDeploy(Command(r), Index(r), n) /\ n >= CompleteAt + 2
  BY <1>a, <1>b, <1>c, Here, Places
<1>1. /\ InstalledTo(r, target', n + 1)
      /\ StartedTo(r, before[2], supervisor', selected[r], stale', n + 1)
  <2>1. ~Blocked(r) /\ Effective(r)
    BY DEF Complete, Effective
  <2>2. QED
    BY <2>1, <1>a, <1>c, <1>d, Installs DEF Holds
<1>2. n + 1 \in Nat /\ n + 1 > CompleteAt
  BY <1>c, <1>d, Places
<1>3. QED
  BY <1>1, <1>2, <1>a, <1>b, <1>c, Released

LEMMA FailEnds ==
  ASSUME IInv, NEW r \in Runs, Fail(r), mode'[r] = "exited", Deploys(r)
  PROVE  IF Command(r) = "prune" THEN IsReleased(r)' ELSE IsRestored(r)'
<1> DEFINE n == shell[r].at
<1>0. Acts(r)
  BY DEF Acts
<1>a. /\ Active(r) /\ TouchesFiles(r) /\ TouchesProcesses(r) /\ Holds(r)
      /\ selected' = selected /\ before' = before
  BY <1>0, Acting, Here DEF arguments
<1>b. /\ mode[r] = "main" /\ Command(r) \notin {"install", "complete"} /\ Cleanup(r, 1, "failed")
      /\ TypeOK /\ n \in Nat \ {0}
  BY DEF Fail, IInv, TypeOK, Shell
<1>s. stale' = stale
  BY DEF Fail, history
<1>c. ~shell[r].deployed
  BY <1>b, Cleaning DEF TurnsBack
<1>d. /\ InMain(r) /\ AtDeploy(Command(r), Index(r), n)
      /\ n \notin 6..(CompleteAt + 1) /\ n <= CompleteAt + 2
  <2>1. InMain(r)
    BY <1>b DEF InMain
  <2>2. QED
    BY <2>1, <1>a, <1>c, Here DEF Holds, Placed
<1>1. CASE n <= 5
  <2>1. before = <<target, supervisor>>
    BY <1>1, <1>a, <1>d DEF Holds, Untouched
  <2>2. Command(r) \in {"source", "build", "marker", "backup", "install"}
    BY <1>1, <1>b, <1>d, SizesAssumption, Places DEF AtDeploy, Artifacts, Assets, Processes
  <2>3. target' = target /\ supervisor' = supervisor
    BY <2>2, <1>a DEF TouchesFiles, TouchesProcesses, FileCommands, ProcessCommands
  <2>4. IsRestored(r)'
    BY <2>1, <2>3, <1>a DEF IsRestored
  <2>5. QED
    BY <2>2, <2>4
<1>2. CASE n > 5
  <2>1. n = CompleteAt + 2
    BY <1>2, <1>b, <1>d, Places
  <2>2. Command(r) = "prune"
    BY <2>1, <1>d, SizesAssumption, Places
       DEF AtDeploy, Artifacts, Assets, Processes, AssetAt, RevisionAt, ConfAt, UpdateAt,
           RestartAt, CompleteAt
  <2>3. target' = target /\ supervisor' = supervisor
    BY <2>2, <1>a DEF TouchesFiles, TouchesProcesses, FileCommands, ProcessCommands
  <2>4. /\ InstalledTo(r, target', n) /\ n > CompleteAt
        /\ StartedTo(r, before[2], supervisor', selected[r], stale', n)
    BY <2>1, <2>3, <1>a, <1>d, <1>s, Places DEF Holds
  <2>5. QED
    BY <2>2, <2>4, <1>a, <1>b, Released
<1>3. QED
  BY <1>1, <1>2, <1>b

LEMMA RollbackEnds ==
  ASSUME IInv, NEW r \in Runs, Rollback(r), mode'[r] = "exited", impaired'[r] = 0
  PROVE  IsRestored(r)' /\ outcome'[r] = outcome[r] /\ outcome[r] \in {"failed", "terminated"}
<1> DEFINE n == shell[r].at
<1>0. Acts(r)
  BY DEF Acts
<1>a. /\ Active(r) /\ TouchesFiles(r) /\ TouchesProcesses(r) /\ Holds(r) /\ Indexed(r)
      /\ selected' = selected /\ before' = before
  BY <1>0, Acting, Here DEF arguments
<1>t. TypeOK /\ TypeOK' /\ n \in Nat \ {0} /\ Registered(before[2]) /\ shell[r].newConfs \in SUBSET Processes
  BY <1>0, ActsKeep DEF IInv, TypeOK, Shell
<1>b. mode[r] = "rollback" /\ impaired[r] = 0 /\ Happens(r) /\ ~(n < Len(Program(r)))
      /\ outcome'[r] = outcome[r]
  BY RollingBack DEF GoesOn
<1>i. InRollback(r)
  BY <1>b DEF InRollback
<1>d. AtRollback(Command(r), Index(r), n) /\ n = LastUndone /\ Deploys(r)
  BY <1>a, <1>b, <1>i, <1>t, Here, Places DEF Holds, Placed
<1>1. UndoneTo(before[1], target', supervisor', selected[r], shell[r].newConfs, n + 1)
  BY <1>a, <1>b, <1>d, <1>i, <1>t, Undoes DEF Holds, BackedUp
<1>2. Supervised(before[2], supervisor', selected[r], shell[r].newConfs)
  BY <1>0, Keeping
<1>3. IsRestored(r)'
  BY <1>1, <1>2, <1>a, <1>d, <1>t, Restored
<1>4. QED
  BY <1>3, <1>a, <1>b, <1>i DEF Holds, Placed
-----------------------------------------------------------------------------
(* The theorems. *)

\* The inductive invariant of the script: whatever fails and whichever signals
\* arrive, the place of the run that holds the lock tells what it has done to
\* the host and what it can still undo.
THEOREM Invariant == Spec => []IInv
<1>1. Init => IInv
  BY InitHolds
<1>2. IInv /\ [Next]_vars => IInv'
  BY NextKeeps, StutterKeeps
<1>3. QED
  BY <1>1, <1>2, PTL DEF Spec

\* Every variable of the script keeps its type.
THEOREM TypeCorrect == Spec => []TypeOK
<1>1. IInv => TypeOK
  BY DEF IInv
<1>2. QED
  BY <1>1, Invariant, PTL

\* While the variable deployed of a run is set, the backup of the target that it
\* found exists and is complete: neither a concurrent invocation nor
\* prune_old_backups nor a signal takes it away.
THEOREM BackupSurvives == Spec => []BackupIsIntact
<1>1. ASSUME IInv, NEW r \in Runs, Active(r), shell[r].deployed
      PROVE  r \in Backups /\ saved[r] = before[1]
  <2>1. Placed(r) /\ BackedUp(r) /\ (InMain(r) \/ InRollback(r))
    BY <1>1, Here DEF Holds
  <2>2. Deploys(r) /\ (InRollback(r) \/ shell[r].at \in 5..(CompleteAt + 1))
    BY <1>1, <2>1, Places DEF Placed
  <2>3. QED
    BY <2>1, <2>2 DEF BackedUp
<1>2. IInv => BackupIsIntact
  BY <1>1 DEF BackupIsIntact
<1>3. QED
  BY <1>2, Invariant, PTL

\* Whatever fails or is interrupted, the host keeps a whole release, in the
\* target directory or in a backup.
THEOREM AlwaysRecoverable == Spec => []Recoverable
<1>1. IInv => Recoverable
  BY DEF IInv
<1>2. QED
  BY <1>1, Invariant, PTL

\* A step leaves the host alone or is a command of the run that has the lock.
LEMMA Steps ==
  ASSUME IInv, [Next]_vars
  PROVE  UNCHANGED host \/ \E r \in Runs : Acts(r) /\ lock = r
<1>1. CASE UNCHANGED vars
  BY <1>1 DEF vars
<1>2. CASE Next
  <2>1. PICK r \in Runs : TakeLock(r) \/ Refused(r) \/ Kill(r) \/ Acts(r)
    BY <1>2 DEF Next, Acts
  <2>2. CASE Acts(r)
    BY <2>2, Acting, Here
  <2>3. QED
    BY <2>1, <2>2 DEF TakeLock, Refused, Kill
<1>3. QED
  BY <1>1, <1>2

\* A deployment that ends before it has printed phase=deploying has changed
\* neither the target directory nor Supervisor.
THEOREM QuietUntilMarker == Spec => UntouchedBeforeMarker
<1>1. ASSUME IInv, [Next]_vars, NEW r \in Runs, lock = r, Deploys(r), ~marked'[r]
      PROVE  UNCHANGED host
  <2>1. CASE UNCHANGED host
    BY <2>1
  <2>2. CASE Acts(r)
    <3>1. Active(r) /\ TouchesFiles(r) /\ TouchesProcesses(r)
      BY <1>1, <2>2, Acting
    <3>2. ~marked[r]
      <4>1. marked \in [Runs -> BOOLEAN]
        BY <1>1 DEF IInv, TypeOK
      <4>2. QED
        BY <1>1, <2>2, <4>1 DEF Acts, Complete, Retry, Fail, Rollback, Terminate, OrphanEnds
    <3>3. InMain(r) /\ ~(shell[r].at > 3) /\ AtDeploy(Command(r), Index(r), shell[r].at)
      BY <1>1, <3>1, <3>2, Here DEF Holds, Placed
    <3>4. shell[r].at \in Nat
      BY <1>1 DEF IInv, TypeOK, Shell
    <3>5. Command(r) \in {"source", "build", "marker"}
      BY <3>3, <3>4, SizesAssumption, Places
         DEF AtDeploy, Artifacts, Assets, Processes
    <3>6. QED
      BY <3>1, <3>5 DEF TouchesFiles, TouchesProcesses, FileCommands, ProcessCommands, host
  <2>3. QED
    BY <1>1, <2>1, <2>2, Steps
<1>2. IInv /\ [Next]_vars =>
        [\A r \in Runs : lock = r /\ kind[r] = "deploy" /\ ~marked'[r] => UNCHANGED host]_vars
  BY <1>1 DEF Deploys
<1>3. QED
  BY <1>2, Invariant, PTL DEF Spec, UntouchedBeforeMarker

\* Neither a deployment nor its rollback writes or removes a Supervisor
\* configuration that was there before.
THEOREM OldConfsAreKept == Spec => OldConfsSurvive
<1>1. ASSUME IInv, [Next]_vars, NEW p \in Processes, supervisor.conf[p] = "old"
      PROVE  supervisor'.conf[p] = "old"
  <2>1. CASE UNCHANGED host
    BY <1>1, <2>1 DEF host
  <2>2. CASE \E r \in Runs : Acts(r)
    <3>1. PICK r \in Runs : Acts(r)
      BY <2>2
    <3>2. TouchesProcesses(r) /\ Supervised(before[2], supervisor, selected[r], shell[r].newConfs)
      BY <1>1, <3>1, Acting, Here DEF Holds
    <3>3. p \notin shell[r].newConfs
      BY <1>1, <3>2 DEF Supervised
    <3>4. QED
      BY <1>1, <3>2, <3>3 DEF TouchesProcesses
  <2>3. QED
    BY <1>1, <2>1, <2>2, Steps
<1>2. IInv /\ [Next]_vars =>
        [\A p \in Processes : supervisor.conf[p] = "old" => supervisor'.conf[p] = "old"]_vars
  BY <1>1
<1>3. QED
  BY <1>2, Invariant, PTL DEF Spec, OldConfsSurvive

\* How a deployment that nothing interrupts ends.
LEMMA Ending ==
  ASSUME IInv, [Next]_vars, NEW r \in Runs, Active(r), mode'[r] = "exited", Deploys(r),
         impaired'[r] = 0
  PROVE  \/ /\ outcome'[r] = "ok"
            /\ IsReleased(r)'
         \/ /\ outcome'[r] = "failed"
            /\ IF mode[r] = "main" /\ Command(r) = "prune" THEN IsReleased(r)' ELSE IsRestored(r)'
         \/ outcome'[r] \in {"terminated", "killed"}
<1>1. Acts(r) /\ TypeOK
  BY EndsByItself DEF IInv
<1>2. CASE Complete(r)
  BY <1>2, CompleteEnds
<1>3. CASE Retry(r)
  <2>1. mode' = mode /\ mode[r] = "main"
    BY <1>3 DEF Retry
  <2>2. QED
    BY <2>1
<1>4. CASE Fail(r)
  <2>1. mode[r] = "main" /\ Cleanup(r, 1, "failed")
    BY <1>4 DEF Fail
  <2>2. outcome'[r] = "failed"
    BY <1>1, <2>1, Cleaning DEF TurnsBack
  <2>3. IF Command(r) = "prune" THEN IsReleased(r)' ELSE IsRestored(r)'
    BY <1>4, FailEnds
  <2>4. QED
    BY <2>1, <2>2, <2>3
<1>5. CASE Rollback(r)
  <2>1. mode[r] = "rollback"
    BY <1>5 DEF Rollback
  <2>2. QED
    BY <1>5, <2>1, RollbackEnds
<1>6. CASE Terminate(r)
  <2>1. CASE mode[r] = "main"
    <3>1. PICK exitCode \in {0, 1} : Cleanup(r, exitCode, "terminated")
      BY <1>6, <2>1 DEF Terminate
    <3>2. QED
      BY <1>1, <2>1, <3>1, Cleaning DEF TurnsBack
  <2>2. CASE mode[r] # "main"
    <3>1. Exits(r, "terminated")
      BY <1>6, <2>2 DEF Terminate
    <3>2. QED
      BY <1>1, <3>1, Exiting
  <2>3. QED
    BY <2>1, <2>2
<1>7. CASE OrphanEnds(r)
  <2>1. Exits(r, "killed")
    BY <1>7 DEF OrphanEnds
  <2>2. QED
    BY <1>1, <2>1, Exiting
<1>8. QED
  BY <1>1, <1>2, <1>3, <1>4, <1>5, <1>6, <1>7 DEF Acts

\* A deployment whose rollback, if it comes to one, does not fail itself ends
\* with its release live or with the host as it found it, and its exit status
\* says which, whatever the other invocations do.  A process of a live release
\* executes it unless its last restart failed and its status was RUNNING.
THEOREM ReleaseIsAtomic == Spec => AllOrNothing
<1>1. ASSUME IInv, [Next]_vars, NEW r \in Runs, kind[r] = "deploy", impaired'[r] = 0
      PROVE  /\ Ends(r, "ok") => IsReleased(r)'
             /\ Ends(r, "failed") => IF mode[r] = "main" /\ Command(r) = "prune"
                                     THEN IsReleased(r)' ELSE IsRestored(r)'
  BY <1>1, Ending DEF Ends, Deploys
<1>2. IInv /\ [Next]_vars =>
        [ \A r \in Runs : kind[r] = "deploy" /\ impaired'[r] = 0 =>
            /\ Ends(r, "ok") => IsReleased(r)'
            /\ Ends(r, "failed") => IF mode[r] = "main" /\ Command(r) = "prune"
                                    THEN IsReleased(r)' ELSE IsRestored(r)' ]_vars
  BY <1>1
<1>3. QED
  BY <1>2, Invariant, PTL DEF Spec, AllOrNothing
-----------------------------------------------------------------------------
(* The refinement of AtomicRelease. *)

\* Without SIGKILL no run is orphaned.
NoOrphan == \A r \in Runs : mode[r] \notin {"orphaned_main", "orphaned_rollback"}

\* What a run that ends has left as the live release.
LEMMA LeavesLive ==
  ASSUME IInv, NoOrphan, Signals = {}, RollbackFaults = 0, NEW r \in Runs, Acts(r), Leaves(r)
  PROVE  Installed(target)' \in {Installed(before[1]), r}
<1>t. TypeOK /\ TypeOK' /\ Active(r) /\ before' = before /\ Next
  BY ActsKeep, Acting DEF IInv, Next, Acts
<1>o. 1 \in Artifacts
  BY SizesAssumption DEF Artifacts
<1>1. CASE ~Deploys(r)
  <2>1. target' = before[1]
    BY <1>1, Keeping
  <2>2. QED
    BY <2>1 DEF Installed
<1>2. CASE Deploys(r)
  <2>1. impaired'[r] = 0
    BY <1>t DEF TypeOK
  <2>2. Complete(r) \/ Retry(r) \/ Fail(r) \/ Rollback(r)
    BY DEF Acts, NoOrphan, Terminate, OrphanEnds
  <2>3. IsReleased(r)' \/ IsRestored(r)'
    <3>1. ~Retry(r)
      BY <1>t, Retrying DEF Leaves, GoesOn
    <3>2. QED
      BY <1>2, <2>1, <2>2, <3>1, CompleteEnds, FailEnds, RollbackEnds DEF Leaves
  <2>4. CASE IsReleased(r)'
    BY <2>4, <1>o DEF IsReleased, Installed
  <2>5. CASE IsRestored(r)'
    <3>1. target'.bin = before[1].bin
      BY <2>5, <1>t DEF IsRestored
    <3>2. QED
      BY <3>1 DEF Installed
  <2>6. QED
    BY <2>3, <2>4, <2>5
<1>3. QED
  BY <1>1, <1>2

\* Only Kill leaves an orphan.
LEMMA NoOrphanKept ==
  ASSUME IInv, NoOrphan, Signals = {}, [Next]_vars
  PROVE  NoOrphan'
<1>1. CASE UNCHANGED vars
  BY <1>1 DEF vars, NoOrphan
<1>2. CASE Next
  <2>1. PICK r \in Runs : TakeLock(r) \/ Refused(r) \/ Acts(r)
    BY <1>2 DEF Next, Acts, Kill
  <2>2. mode \in [Runs -> Mode]
    BY DEF IInv, TypeOK
  <2>3. CASE Acts(r)
    BY <2>3, Moves DEF NoOrphan, Leaves, Alone
  <2>4. CASE TakeLock(r)
    BY <2>2, <2>4 DEF TakeLock, NoOrphan
  <2>5. CASE Refused(r)
    BY <2>2, <2>5 DEF Refused, NoOrphan
  <2>6. QED
    BY <2>1, <2>3, <2>4, <2>5
<1>3. QED
  BY <1>1, <1>2

\* The refinement mapping.
live == IF lock = "free" THEN Installed(target) ELSE Installed(before[1])
turns == {r \in Runs : selected[r] # {}}

\* Taking the lock is a beginning.
LEMMA Begins ==
  ASSUME IInv, NEW r \in Runs, TakeLock(r)
  PROVE  /\ lock = "free" /\ lock' = r
         /\ r \notin turns /\ turns' = turns \cup {r}
         /\ live' = live
<1>1. lock = "free" /\ lock' = r /\ target' = target /\ before' = <<target, supervisor>>
  BY DEF TakeLock, host
<1>2. selected[r] = {}
  BY DEF IInv, Waiting, TakeLock
<1>3. PICK ps \in Selections : selected' = [selected EXCEPT ![r] = ps]
  BY DEF TakeLock
<1>4. selected \in [Runs -> Selections \cup {{}}] /\ ps # {}
  <2>1. ps # {}
    BY <1>3 DEF Selections
  <2>2. QED
    BY <2>1 DEF IInv, TypeOK
<1>5. \A q \in Runs : selected'[q] # {} <=> (selected[q] # {} \/ q = r)
  BY <1>2, <1>3, <1>4
<1>6. r \notin turns /\ turns' = turns \cup {r}
  BY <1>2, <1>5 DEF turns
<1>7. lock' # "free"
  BY <1>1, RunsAssumption
<1>8. live' = live
  BY <1>1, <1>7 DEF live, Installed
<1>9. QED
  BY <1>1, <1>6, <1>8

\* A command that ends the run is an end, any other a stutter.
LEMMA Finishes ==
  ASSUME IInv, NoOrphan, Signals = {}, RollbackFaults = 0, NEW r \in Runs, Acts(r)
  PROVE  /\ turns' = turns
         /\ \/ lock = r /\ lock' = "free" /\ live' \in {live, r}
            \/ lock' = lock /\ live' = live
<1>1. lock = r /\ r # "free" /\ selected' = selected /\ before' = before
  BY Acting, Here, Keeping, RunsAssumption
<1>2. live = Installed(before[1])
  BY <1>1 DEF live
<1>3. CASE Leaves(r)
  <2>1. lock' = "free" /\ Installed(target)' \in {Installed(before[1]), r}
    BY <1>3, LeavesLive DEF Leaves
  <2>2. live' = Installed(target)'
    BY <2>1 DEF live
  <2>3. QED
    BY <1>1, <1>2, <2>1, <2>2 DEF turns
<1>4. CASE ~Leaves(r)
  <2>1. lock' = lock
    BY <1>4, Moves
  <2>2. live' = live
    BY <1>1, <2>1 DEF live, Installed
  <2>3. QED
    BY <1>1, <2>1, <2>2 DEF turns
<1>5. QED
  BY <1>3, <1>4

\* Without signals and failures of the rollback itself the script implements
\* AtomicRelease: to whoever looks while the lock is free, the runs replace the
\* release in the target directory one after the other, each in one step.
THEOREM ScriptIsAtomic ==
  ASSUME Signals = {}, RollbackFaults = 0
  PROVE  Spec => ImplementsAtomicRelease
<1>1. Init => NoOrphan
  BY DEF Init, NoOrphan
<1>2. IInv /\ NoOrphan /\ [Next]_vars => NoOrphan'
  BY NoOrphanKept
<1>3. Init => Release!Init
  <2>1. ASSUME Init
        PROVE  Installed(target) = "old" /\ lock = "free" /\ turns = {}
    <3>1. 1 \in Artifacts
      BY SizesAssumption DEF Artifacts
    <3>2. \A a \in Artifacts : target.bin[a] = "old"
      BY <2>1 DEF Init
    <3>3. Installed(target) = "old"
      BY <3>1, <3>2 DEF Installed
    <3>4. lock = "free" /\ turns = {}
      BY <2>1 DEF Init, turns
    <3>5. QED
      BY <3>3, <3>4
  <2>2. QED
    BY <2>1 DEF Release!Init, turns
<1>4. IInv /\ NoOrphan /\ [Next]_vars => [Release!Next]_<<live, lock, turns>>
  <2>1. CASE UNCHANGED vars
    BY <2>1 DEF vars, host, arguments, history, live, turns, Installed
  <2>2. ASSUME IInv, NoOrphan, Next
        PROVE  Release!Next \/ UNCHANGED <<live, lock, turns>>
    <3>1. PICK r \in Runs : TakeLock(r) \/ Refused(r) \/ Acts(r)
      BY <2>2 DEF Next, Acts, Kill
    <3>2. CASE TakeLock(r)
      <4>1. Release!Begin(r)
        BY <2>2, <3>2, Begins DEF Release!Begin, live, turns
      <4>2. QED
        BY <4>1 DEF Release!Next
    <3>3. CASE Refused(r)
      BY <3>3 DEF Refused, host, arguments, history, live, turns, Installed
    <3>4. CASE Acts(r)
      <4>1. CASE lock = r /\ lock' = "free" /\ live' \in {live, r}
        <5>1. Release!End(r)
          BY <2>2, <3>4, <4>1, Finishes DEF Release!End, live, turns
        <5>2. QED
          BY <5>1 DEF Release!Next
      <4>2. CASE lock' = lock /\ live' = live
        BY <2>2, <3>4, <4>2, Finishes
      <4>3. QED
        BY <2>2, <3>4, <4>1, <4>2, Finishes
    <3>5. QED
      BY <3>1, <3>2, <3>3, <3>4
  <2>3. QED
    BY <2>1, <2>2
<1>5. QED
  BY <1>1, <1>2, <1>3, <1>4, Invariant, PTL
     DEF Spec, ImplementsAtomicRelease, Release!Spec, live, turns
=============================================================================
