-------------------------- MODULE DeploySystemProofs --------------------------
(***************************************************************************)
(* Proofs about DeploySystem for any number of services, clients, slots    *)
(* and invocations.                                                        *)
(***************************************************************************)
EXTENDS DeploySystem, TLAPS

\* The types of the two variables that the argument is about.
RunRecord ==
    [phase: Phase, tool: {"none", "deploy", "restart", "start"},
     service: Services \cup {"none"}, parent: Clients \cup {"none"},
     waited: BOOLEAN, ctx: {"live", "canceled", "deadline"},
     marked: BOOLEAN, touched: BOOLEAN, ok: BOOLEAN,
     orphan: BOOLEAN, report: Report, acked: BOOLEAN]

RunsTyped ==
    /\ run \in [Runs -> RunRecord]
    /\ lock \in [Services -> Runs \cup {"none"}]

\* Who works on a service has its lock, the rest of a killed script too.
HasLock(r) ==
    /\ run[r].phase # "unused" => run[r].service \in Services /\ run[r].tool # "none"
    /\ run[r].orphan => run[r].phase \in {"killed", "done"}
    /\ Works(r) => lock[run[r].service] = r

\* Nothing is changed before the marker, and the report comes last.
IsMarked(r) ==
    /\ run[r].touched \/ run[r].phase = "changing" =>
          run[r].marked \/ run[r].tool = "restart"
    /\ run[r].report # "none" => run[r].phase = "done"
    /\ run[r].report = "compile_failed" => ~run[r].marked /\ run[r].tool # "restart"

\* An asynchronous deployment derives from no request.
IsDetached(r) ==
    /\ run[r].tool = "start" => run[r].parent = "none"
    /\ run[r].tool = "start" /\ run[r].ctx = "canceled" /\ run[r].waited =>
          run[r].acked \/ server = "closing"

Invariant ==
    /\ RunsTyped
    /\ \A r \in Runs : HasLock(r) /\ IsMarked(r) /\ IsDetached(r)
-----------------------------------------------------------------------------
(* Steps that change the record of one invocation, or of none. *)

\* The record of an invocation that does not exist.
LEMMA NoRunType == NoRun \in RunRecord
  BY DEF NoRun, RunRecord, Phase, Report

\* A step that replaces one record by a record that fits the lock keeps the
\* invariant, if it takes no lock away from anyone else.
LEMMA OneRecordChanges ==
  ASSUME Invariant,
         NEW r \in Runs, NEW rec \in RunRecord,
         run' = [run EXCEPT ![r] = rec],
         server' = server,
         lock' \in [Services -> Runs \cup {"none"}],
         \A s \in Services : lock[s] \in Runs \ {r} => lock'[s] = lock[s],
         HasLock(r)', IsMarked(r)', IsDetached(r)'
  PROVE  Invariant'
  <1>1. RunsTyped'
    BY DEF Invariant, RunsTyped
  <1>2. ASSUME NEW o \in Runs, o # r
        PROVE  HasLock(o)' /\ IsMarked(o)' /\ IsDetached(o)'
    <2>1. run'[o] = run[o] /\ run[o] \in RunRecord
      BY <1>2 DEF Invariant, RunsTyped
    <2>2. HasLock(o) /\ IsMarked(o) /\ IsDetached(o)
      BY DEF Invariant
    <2>3. Works(o) => run[o].service \in Services
      BY <2>2 DEF HasLock, Works
    <2>4. Works(o) => lock'[run[o].service] = o
      BY <1>2, <2>2, <2>3 DEF HasLock
    <2>5. HasLock(o)'
      BY <2>1, <2>2, <2>4 DEF HasLock, Works
    <2> QED
      BY <2>1, <2>2, <2>5 DEF IsMarked, IsDetached
  <1> QED
    BY <1>1, <1>2 DEF Invariant

\* A step that leaves the invocations, the lock and the server alone.
LEMMA NothingChanges ==
  ASSUME Invariant, run' = run, lock' = lock,
         server' = server \/ server # "closing"
  PROVE  Invariant'
  BY DEF Invariant, RunsTyped, HasLock, IsMarked, IsDetached, Works
-----------------------------------------------------------------------------
(* Every step keeps the invariant. *)

\* The script and its goroutine.
LEMMA WorkStep ==
  ASSUME Invariant, NEW r \in Runs, Work(r) \/ Kill(r) \/ Deadline(r) \/ Forget(r)
  PROVE  Invariant'
  <1> USE SystemAssumption
  <1>1. run[r] \in RunRecord /\ run \in [Runs -> RunRecord]
    BY DEF Invariant, RunsTyped
  <1>2. lock \in [Services -> Runs \cup {"none"}]
    BY DEF Invariant, RunsTyped
  <1>3. HasLock(r) /\ IsMarked(r) /\ IsDetached(r)
    BY DEF Invariant
  <1>4. Unlock(r) \in [Services -> Runs \cup {"none"}]
        /\ \A s \in Services : lock[s] \in Runs \ {r} => Unlock(r)[s] = lock[s]
    BY <1>2 DEF Unlock
  <1>5. CASE Spawn(r)
    <2>1. PICK phase \in {"exited", "starting"} : run' = [run EXCEPT ![r].phase = phase]
      BY <1>5 DEF Spawn
    <2> DEFINE rec == [run[r] EXCEPT !.phase = phase]
    <2>2. rec \in RunRecord /\ run' = [run EXCEPT ![r] = rec] /\ run'[r] = rec
      BY <1>1, <2>1 DEF RunRecord, Phase
    <2>3. HasLock(r)' /\ IsMarked(r)' /\ IsDetached(r)'
      <3>1. HasLock(r)'
        BY <1>1, <1>3, <1>5, <2>2
        DEF Spawn, HasLock, Works, RunRecord
      <3>2. IsMarked(r)'
        BY <1>1, <1>3, <1>5, <2>2
        DEF Spawn, IsMarked, RunRecord
      <3>3. IsDetached(r)'
        BY <1>1, <1>3, <1>5, <2>2
        DEF Spawn, IsDetached, RunRecord
      <3> QED
        BY <3>1, <3>2, <3>3
    <2> HIDE DEF rec
    <2> QED
      BY <1>2, <1>5, <2>2, <2>3, OneRecordChanges DEF Spawn
  <1>6. CASE Lock(r)
    <2> DEFINE s == run[r].service
               free == lock[s] = "none" \/ ~TakesLock(r)
               rec == [run[r] EXCEPT !.phase =
                         IF ~free THEN "exited"
                         ELSE IF run[r].tool = "restart" THEN "changing" ELSE "building"]
    <2>1. run[r].phase = "starting" /\ s \in Services /\ server' = server
      BY <1>3, <1>6 DEF HasLock, Lock
    <2>2. rec \in RunRecord /\ run' = [run EXCEPT ![r] = rec] /\ run'[r] = rec
      BY <1>1, <1>6 DEF Lock, RunRecord, Phase
    <2>3. lock' = IF free /\ TakesLock(r) THEN [lock EXCEPT ![s] = r] ELSE lock
      BY <1>6 DEF Lock
    <2>4. lock' \in [Services -> Runs \cup {"none"}]
          /\ \A t \in Services : lock[t] \in Runs \ {r} => lock'[t] = lock[t]
      BY <1>2, <2>1, <2>3
    <2>5. TakesLock(r)
      BY <1>1, <1>3, <2>1 DEF TakesLock, RunRecord, HasLock
    <2>6. HasLock(r)' /\ IsMarked(r)' /\ IsDetached(r)'
      <3>1. HasLock(r)'
        BY <1>1, <1>2, <1>3, <1>6, <2>1, <2>2, <2>3, <2>5
        DEF HasLock, Works, RunRecord
      <3>2. IsMarked(r)'
        BY <1>1, <1>2, <1>3, <1>6, <2>1, <2>2, <2>3, <2>5
        DEF IsMarked, RunRecord
      <3>3. IsDetached(r)'
        BY <1>1, <1>2, <1>3, <1>6, <2>1, <2>2, <2>3, <2>5
        DEF IsDetached, RunRecord
      <3> QED
        BY <3>1, <3>2, <3>3
    <2> HIDE DEF rec
    <2> QED
      BY <2>1, <2>2, <2>4, <2>6, OneRecordChanges
  <1>7. CASE PrintMarker(r)
    <2> DEFINE rec == [run[r] EXCEPT !.phase = "changing", !.marked = TRUE]
    <2>1. rec \in RunRecord /\ run' = [run EXCEPT ![r] = rec] /\ run'[r] = rec
      BY <1>1, <1>7 DEF PrintMarker, RunRecord, Phase
    <2>2. HasLock(r)' /\ IsMarked(r)' /\ IsDetached(r)'
      <3>1. HasLock(r)'
        BY <1>1, <1>2, <1>3, <1>7, <2>1
        DEF PrintMarker, HasLock, Works, RunRecord
      <3>2. IsMarked(r)'
        BY <1>1, <1>2, <1>3, <1>7, <2>1
        DEF PrintMarker, IsMarked, RunRecord
      <3>3. IsDetached(r)'
        BY <1>1, <1>2, <1>3, <1>7, <2>1
        DEF PrintMarker, IsDetached, RunRecord
      <3> QED
        BY <3>1, <3>2, <3>3
    <2> HIDE DEF rec
    <2> QED
      BY <1>2, <1>7, <2>1, <2>2, OneRecordChanges DEF PrintMarker
  <1>8. CASE Touch(r)
    <2> DEFINE rec == [run[r] EXCEPT !.touched = TRUE]
    <2>1. rec \in RunRecord /\ run' = [run EXCEPT ![r] = rec] /\ run'[r] = rec
      BY <1>1, <1>8 DEF Touch, RunRecord, Phase
    <2>2. HasLock(r)' /\ IsMarked(r)' /\ IsDetached(r)'
      <3>1. HasLock(r)'
        BY <1>1, <1>2, <1>3, <1>8, <2>1
        DEF Touch, HasLock, Works, RunRecord
      <3>2. IsMarked(r)'
        BY <1>1, <1>2, <1>3, <1>8, <2>1
        DEF Touch, IsMarked, RunRecord
      <3>3. IsDetached(r)'
        BY <1>1, <1>2, <1>3, <1>8, <2>1
        DEF Touch, IsDetached, RunRecord
      <3> QED
        BY <3>1, <3>2, <3>3
    <2> HIDE DEF rec
    <2> QED
      BY <1>2, <1>8, <2>1, <2>2, OneRecordChanges DEF Touch
  <1>9. CASE Exit(r)
    <2>0. run[r].touched \in BOOLEAN
      BY <1>1 DEF RunRecord
    <2>1. PICK ok \in BOOLEAN :
             run' = [run EXCEPT ![r] = [run[r] EXCEPT !.phase = "exited", !.ok = ok]]
      BY <1>9, <2>0, Zenon DEF Exit
    <2> DEFINE rec == [run[r] EXCEPT !.phase = "exited", !.ok = ok]
    <2>2. rec \in RunRecord /\ run' = [run EXCEPT ![r] = rec] /\ run'[r] = rec
      BY <1>1, <1>9, <2>1 DEF Exit, RunRecord, Phase
    <2>3. HasLock(r)' /\ IsMarked(r)' /\ IsDetached(r)'
      <3>1. HasLock(r)'
        BY <1>1, <1>2, <1>3, <1>9, <2>1, <2>2
        DEF Exit, ShellLives, HasLock, Works, RunRecord
      <3>2. IsMarked(r)'
        BY <1>1, <1>2, <1>3, <1>9, <2>1, <2>2
        DEF Exit, ShellLives, IsMarked, RunRecord
      <3>3. IsDetached(r)'
        BY <1>1, <1>2, <1>3, <1>9, <2>1, <2>2
        DEF Exit, ShellLives, IsDetached, RunRecord
      <3> QED
        BY <3>1, <3>2, <3>3
    <2> HIDE DEF rec
    <2> QED
      BY <1>2, <1>4, <1>9, <2>1, <2>2, <2>3, OneRecordChanges DEF Exit
  <1>10. CASE OrphanEnds(r)
    <2> DEFINE rec == [run[r] EXCEPT !.orphan = FALSE]
    <2>1. rec \in RunRecord /\ run' = [run EXCEPT ![r] = rec] /\ run'[r] = rec
      BY <1>1, <1>10 DEF OrphanEnds, RunRecord, Phase
    <2>2. HasLock(r)' /\ IsMarked(r)' /\ IsDetached(r)'
      <3>1. HasLock(r)'
        BY <1>1, <1>2, <1>3, <1>10, <2>1
        DEF OrphanEnds, HasLock, Works, RunRecord
      <3>2. IsMarked(r)'
        BY <1>1, <1>2, <1>3, <1>10, <2>1
        DEF OrphanEnds, IsMarked, RunRecord
      <3>3. IsDetached(r)'
        BY <1>1, <1>2, <1>3, <1>10, <2>1
        DEF OrphanEnds, IsDetached, RunRecord
      <3> QED
        BY <3>1, <3>2, <3>3
    <2> HIDE DEF rec
    <2> QED
      BY <1>2, <1>4, <1>10, <2>1, <2>2, OneRecordChanges DEF OrphanEnds
  <1>11. CASE Conclude(r)
    <2>1. PICK report \in Reports(r) :
             run' = [run EXCEPT ![r] =
                       [run[r] EXCEPT !.phase = "done", !.report = report, !.waited = FALSE]]
      BY <1>1, <1>11 DEF Conclude
    <2> DEFINE rec == [run[r] EXCEPT !.phase = "done", !.report = report, !.waited = FALSE]
    <2>2. rec \in RunRecord /\ run' = [run EXCEPT ![r] = rec] /\ run'[r] = rec
      <3> DEFINE r1 == [run[r] EXCEPT !.phase = "done"]
                 r2 == [r1 EXCEPT !.report = report]
                 r3 == [r2 EXCEPT !.waited = FALSE]
      <3>1. report \in Report
        BY <2>1 DEF Reports, Report
      <3>2. rec = r3
        OBVIOUS
      <3>3. r1 \in RunRecord
        BY <1>1 DEF RunRecord, Phase
      <3> HIDE DEF r1
      <3>4. r2 \in RunRecord
        BY <3>1, <3>3 DEF RunRecord
      <3> HIDE DEF r2
      <3>5. r3 \in RunRecord
        BY <3>4 DEF RunRecord
      <3> HIDE DEF r3
      <3>6. rec \in RunRecord
        BY <3>2, <3>5, Zenon
      <3>7. run' = [run EXCEPT ![r] = rec]
        BY <2>1
      <3> HIDE DEF rec
      <3> QED
        BY <1>1, <3>6, <3>7
    <2>3. HasLock(r)' /\ IsMarked(r)' /\ IsDetached(r)'
      <3>1. HasLock(r)'
        BY <1>1, <1>2, <1>3, <1>11, <2>1, <2>2
        DEF Conclude, Reports, HasLock, Works, RunRecord
      <3>2. IsMarked(r)'
        BY <1>1, <1>2, <1>3, <1>11, <2>1, <2>2
        DEF Conclude, Reports, IsMarked, RunRecord
      <3>3. IsDetached(r)'
        BY <1>1, <1>2, <1>3, <1>11, <2>1, <2>2
        DEF Conclude, Reports, IsDetached, RunRecord
      <3> QED
        BY <3>1, <3>2, <3>3
    <2> HIDE DEF rec
    <2> QED
      BY <1>2, <1>11, <2>1, <2>2, <2>3, OneRecordChanges DEF Conclude
  <1>12. CASE Kill(r)
    <2>1. PICK left \in BOOLEAN :
             /\ run' = [run EXCEPT ![r] = [run[r] EXCEPT !.phase = "killed", !.orphan = left]]
             /\ left => run[r].phase # "starting"
             /\ lock' = IF left THEN lock ELSE Unlock(r)
      BY <1>1, <1>12 DEF Kill, RunRecord
    <2> DEFINE rec == [run[r] EXCEPT !.phase = "killed", !.orphan = left]
    <2>2. rec \in RunRecord /\ run' = [run EXCEPT ![r] = rec] /\ run'[r] = rec
      BY <1>1, <1>12, <2>1 DEF Kill, RunRecord, Phase
    <2>3. HasLock(r)' /\ IsMarked(r)' /\ IsDetached(r)'
      <3>1. HasLock(r)'
        <4>1. /\ rec.phase = "killed" /\ rec.orphan = left
              /\ rec.service = run[r].service /\ rec.tool = run[r].tool
          BY <1>1 DEF RunRecord
        <4>2. run[r].phase \in ShellLives
          BY <1>12 DEF Kill
        <4>3. left => Works(r)
          BY <2>1, <4>2 DEF Works, ShellLives
        <4>4. HasLock(r) /\ run'[r] = rec
          BY <1>3, <2>2
        <4> HIDE DEF rec
        <4> QED
          BY <2>1, <4>1, <4>2, <4>3, <4>4 DEF HasLock, Works, ShellLives
      <3>2. IsMarked(r)'
        BY <1>1, <1>2, <1>3, <1>12, <2>1, <2>2
        DEF Kill, ShellLives, IsMarked, RunRecord
      <3>3. IsDetached(r)'
        BY <1>1, <1>2, <1>3, <1>12, <2>1, <2>2
        DEF Kill, ShellLives, IsDetached, RunRecord
      <3> QED
        BY <3>1, <3>2, <3>3
    <2> HIDE DEF rec
    <2> QED
      BY <1>2, <1>4, <1>12, <2>1, <2>2, <2>3, OneRecordChanges DEF Kill
  <1>13. CASE Deadline(r)
    <2> DEFINE rec == [run[r] EXCEPT !.ctx = "deadline"]
    <2>1. rec \in RunRecord /\ run' = [run EXCEPT ![r] = rec] /\ run'[r] = rec
      BY <1>1, <1>13 DEF Deadline, RunRecord, Phase
    <2>2. HasLock(r)' /\ IsMarked(r)' /\ IsDetached(r)'
      <3>1. HasLock(r)'
        BY <1>1, <1>2, <1>3, <1>13, <2>1
        DEF Deadline, HasLock, Works, RunRecord
      <3>2. IsMarked(r)'
        BY <1>1, <1>2, <1>3, <1>13, <2>1
        DEF Deadline, IsMarked, RunRecord
      <3>3. IsDetached(r)'
        BY <1>1, <1>2, <1>3, <1>13, <2>1
        DEF Deadline, IsDetached, RunRecord
      <3> QED
        BY <3>1, <3>2, <3>3
    <2> HIDE DEF rec
    <2> QED
      BY <1>2, <1>13, <2>1, <2>2, OneRecordChanges DEF Deadline
  <1>14. CASE Forget(r)
    <2> DEFINE rec == NoRun
    <2>1. rec \in RunRecord /\ run' = [run EXCEPT ![r] = rec] /\ run'[r] = rec
      BY <1>1, <1>14, NoRunType DEF Forget, RunRecord, Phase
    <2>2. HasLock(r)' /\ IsMarked(r)' /\ IsDetached(r)'
      <3>1. HasLock(r)'
        BY <1>1, <1>2, <1>3, <1>14, <2>1
        DEF Forget, NoRun, HasLock, Works, RunRecord
      <3>2. IsMarked(r)'
        BY <1>1, <1>2, <1>3, <1>14, <2>1
        DEF Forget, NoRun, IsMarked, RunRecord
      <3>3. IsDetached(r)'
        BY <1>1, <1>2, <1>3, <1>14, <2>1
        DEF Forget, NoRun, IsDetached, RunRecord
      <3> QED
        BY <3>1, <3>2, <3>3
    <2> HIDE DEF rec
    <2> QED
      BY <1>2, <1>14, <2>1, <2>2, OneRecordChanges DEF Forget
  <1> QED
    BY <1>5, <1>6, <1>7, <1>8, <1>9, <1>10, <1>11, <1>12, <1>13, <1>14 DEF Work

\* The requests that run the script.
LEMMA RequestStep ==
  ASSUME Invariant, NEW c \in Clients, NEW r \in Runs, NEW s \in Services,
         Deploy(c, r, s) \/ Restart(c, r, s) \/ Start(c, r, s)
  PROVE  Invariant'
  <1> USE SystemAssumption
  <1>1. run[r] \in RunRecord /\ run \in [Runs -> RunRecord]
    BY DEF Invariant, RunsTyped
  <1>2. lock \in [Services -> Runs \cup {"none"}]
    BY DEF Invariant, RunsTyped
  <1>3. HasLock(r) /\ IsMarked(r) /\ IsDetached(r)
    BY DEF Invariant
  <1>4. ASSUME NEW tool \in {"deploy", "restart", "start"}, NEW answer, Call(c, r, s, tool, answer)
        PROVE  Invariant'
    <2> DEFINE rec == [NoRun EXCEPT !.phase = "spawning", !.tool = tool, !.service = s,
                                    !.parent = Parent(tool, c), !.waited = TRUE]
    <2>1. Parent(tool, c) \in Clients \cup {"none"}
      BY DEF Parent
    <2>2. rec \in RunRecord
      BY <1>4, <2>1 DEF NoRun, RunRecord, Phase, Report
    <2>3. run' = [run EXCEPT ![r] = rec] /\ run'[r] = rec
      BY <1>1, <1>4 DEF Call
    <2>4. HasLock(r)' /\ IsMarked(r)' /\ IsDetached(r)'
      BY <1>4, <2>1, <2>3
      DEF Call, NoRun, Parent, HasLock, IsMarked, IsDetached, Works
    <2> HIDE DEF rec
    <2> QED
      BY <1>2, <1>4, <2>2, <2>3, <2>4, OneRecordChanges DEF Call
  <1> QED
    BY <1>4 DEF Deploy, Restart, Start

\* cancel_test_deployment.
LEMMA CancelStep ==
  ASSUME Invariant, NEW c \in Clients, NEW r \in Runs, Cancel(c, r)
  PROVE  Invariant'
  <1> DEFINE rec == [run[r] EXCEPT !.acked = TRUE,
                                   !.ctx = IF @ = "live" THEN "canceled" ELSE @]
  <1>1. run[r] \in RunRecord /\ lock \in [Services -> Runs \cup {"none"}]
    BY DEF Invariant, RunsTyped
  <1>2. HasLock(r) /\ IsMarked(r) /\ IsDetached(r)
    BY DEF Invariant
  <1>3. rec \in RunRecord /\ run' = [run EXCEPT ![r] = rec] /\ run'[r] = rec
    BY <1>1 DEF Cancel, RunRecord, Invariant, RunsTyped
  <1>4. HasLock(r)' /\ IsMarked(r)' /\ IsDetached(r)'
    BY <1>1, <1>2, <1>3 DEF Cancel, HasLock, IsMarked, IsDetached, Works, RunRecord
  <1> HIDE DEF rec
  <1> QED
    BY <1>1, <1>3, <1>4, OneRecordChanges DEF Cancel

\* Two records of an invocation that differ at most in its context, its parent
\* and who waits.
SameWork(old, new) ==
    /\ new.phase = old.phase /\ new.service = old.service /\ new.orphan = old.orphan
    /\ new.tool = old.tool /\ new.touched = old.touched /\ new.marked = old.marked
    /\ new.report = old.report

\* Ending a context or forgetting the request does not change the work.
LEMMA SameWorkUpdates ==
  ASSUME NEW rec \in RunRecord
  PROVE  /\ [rec EXCEPT !.ctx = "canceled"] \in RunRecord
         /\ SameWork(rec, [rec EXCEPT !.ctx = "canceled"])
         /\ [rec EXCEPT !.ctx = "canceled"].parent = rec.parent
         /\ [rec EXCEPT !.parent = "none"] \in RunRecord
         /\ SameWork(rec, [rec EXCEPT !.parent = "none"])
  BY DEF RunRecord, SameWork

\* The end of a context reaches only the invocations derived from its request.
LEMMA CancelChildrenKeeps ==
  ASSUME Invariant, NEW c \in Clients, NEW r \in Runs
  PROVE  /\ CancelChildren(c)[r] \in RunRecord
         /\ SameWork(run[r], CancelChildren(c)[r])
         /\ run[r].tool = "start" => run[r].parent # c /\ CancelChildren(c)[r] = run[r]
         /\ CancelChildren(c)[r].parent = run[r].parent
  <1>1. run[r] \in RunRecord /\ (run[r].tool = "start" => run[r].parent # c)
    BY SystemAssumption DEF Invariant, RunsTyped, IsDetached
  <1>2. CancelChildren(c)[r] = run[r] \/ CancelChildren(c)[r] = [run[r] EXCEPT !.ctx = "canceled"]
    BY DEF CancelChildren
  <1>3. run[r].tool = "start" => CancelChildren(c)[r] = run[r]
    BY <1>1 DEF CancelChildren
  <1>4. SameWork(run[r], run[r])
    BY DEF SameWork
  <1> QED
    BY <1>1, <1>2, <1>3, <1>4, SameWorkUpdates

\* A step that changes contexts, parents and who waits, in any number of
\* records.
LEMMA ContextsChange ==
  ASSUME Invariant, lock' = lock, DOMAIN run' = Runs,
         run' = [r \in Runs |-> run'[r]],
         \A r \in Runs : run'[r] \in RunRecord /\ SameWork(run[r], run'[r]) /\ IsDetached(r)'
  PROVE  Invariant'
  <1>1. RunsTyped'
    BY DEF Invariant, RunsTyped
  <1>2. ASSUME NEW r \in Runs PROVE HasLock(r)' /\ IsMarked(r)'
    BY DEF Invariant, HasLock, IsMarked, Works, SameWork
  <1> QED
    BY <1>1, <1>2 DEF Invariant

\* The steps of the transport and of the server process.
LEMMA ServerStep ==
  ASSUME Invariant,
         \/ \E c \in Clients : Respond(c) \/ Disconnect(c)
         \/ BeginShutdown \/ Drained \/ Stop \/ Boot
  PROVE  Invariant'
  <1> USE SystemAssumption
  <1>1. \A r \in Runs : run[r] \in RunRecord /\ HasLock(r) /\ IsMarked(r) /\ IsDetached(r)
    BY DEF Invariant, RunsTyped
  <1>2. ASSUME NEW c \in Clients, Disconnect(c)
        PROVE  Invariant'
    <2>1. ASSUME NEW r \in Runs
          PROVE  run'[r] \in RunRecord /\ SameWork(run[r], run'[r]) /\ IsDetached(r)'
      <3>1. run'[r] = CancelChildren(c)[r] /\ server' = server
        BY <1>2 DEF Disconnect
      <3>2. IsDetached(r)'
        BY <1>1, <3>1, CancelChildrenKeeps DEF IsDetached, SameWork
      <3> QED
        BY <3>1, <3>2, CancelChildrenKeeps
    <2>2. run' = [r \in Runs |-> run'[r]] /\ DOMAIN run' = Runs
      BY <1>2 DEF Disconnect, CancelChildren
    <2> QED
      BY <1>2, <2>1, <2>2, ContextsChange DEF Disconnect
  <1>3. ASSUME NEW c \in Clients, Respond(c)
        PROVE  Invariant'
    <2>1. ASSUME NEW r \in Runs
          PROVE  run'[r] \in RunRecord /\ SameWork(run[r], run'[r]) /\ IsDetached(r)'
      <3>1. CASE run[r].parent = c
        <4>1. run'[r] = [CancelChildren(c)[r] EXCEPT !.parent = "none"]
          BY <1>3, <3>1 DEF Respond
        <4>2. run'[r] \in RunRecord /\ SameWork(CancelChildren(c)[r], run'[r])
          <5>1. CancelChildren(c)[r] \in RunRecord
            BY CancelChildrenKeeps
          <5>2. /\ [CancelChildren(c)[r] EXCEPT !.parent = "none"] \in RunRecord
                /\ SameWork(CancelChildren(c)[r], [CancelChildren(c)[r] EXCEPT !.parent = "none"])
            BY <5>1, SameWorkUpdates
          <5> QED
            BY <4>1, <5>2, Zenon
        <4>3. SameWork(run[r], run'[r]) /\ run'[r].tool # "start"
          BY <3>1, <4>2, CancelChildrenKeeps DEF SameWork
        <4> QED
          BY <4>2, <4>3 DEF IsDetached
      <3>2. CASE run[r].parent # c
        <4>1. run'[r] = run[r] /\ server' = server
          BY <1>3, <3>2 DEF Respond
        <4> QED
          BY <1>1, <4>1 DEF IsDetached, SameWork
      <3> QED
        BY <3>1, <3>2
    <2>2. run' = [r \in Runs |-> run'[r]] /\ DOMAIN run' = Runs
      BY <1>3 DEF Respond
    <2> QED
      BY <1>3, <2>1, <2>2, ContextsChange DEF Respond
  <1>4. CASE Drained
    <2>1. ASSUME NEW r \in Runs
          PROVE  run'[r] \in RunRecord /\ SameWork(run[r], run'[r]) /\ IsDetached(r)'
      <3>1. run'[r] = run[r] \/ run'[r] = [run[r] EXCEPT !.ctx = "canceled"]
        BY <1>4 DEF Drained
      <3>0. SameWork(run[r], run[r])
        BY DEF SameWork
      <3>2. run'[r] \in RunRecord /\ SameWork(run[r], run'[r]) /\ run'[r].parent = run[r].parent
        BY <1>1, <3>0, <3>1, SameWorkUpdates
      <3>3. server' = "closing"
        BY <1>4 DEF Drained
      <3> QED
        BY <1>1, <3>2, <3>3 DEF IsDetached, SameWork
    <2>2. run' = [r \in Runs |-> run'[r]] /\ DOMAIN run' = Runs
      BY <1>4 DEF Drained
    <2> QED
      BY <1>4, <2>1, <2>2, ContextsChange DEF Drained
  <1>5. CASE Stop
    <2>1. ASSUME NEW r \in Runs
          PROVE  /\ run'[r] \in RunRecord
                 /\ HasLock(r)' /\ IsMarked(r)' /\ IsDetached(r)'
      <3>1. CASE run[r].phase = "spawning"
        <4>1. run'[r] = NoRun
          BY <1>5, <3>1 DEF Stop
        <4>2. run'[r] \in RunRecord
          BY <4>1, NoRunType
        <4>3. HasLock(r)' /\ IsMarked(r)' /\ IsDetached(r)'
          BY <4>1 DEF NoRun, HasLock, IsMarked, IsDetached, Works
        <4> QED
          BY <4>2, <4>3
      <3>2. CASE run[r].phase # "spawning"
        <4>1. run'[r] = [run[r] EXCEPT !.parent = "none", !.waited = FALSE,
                                       !.ctx = "live", !.acked = FALSE]
          BY <1>5, <3>2 DEF Stop
        <4>2. /\ run'[r] \in RunRecord /\ SameWork(run[r], run'[r])
              /\ run'[r].parent = "none" /\ ~run'[r].waited
          <5> DEFINE r1 == [run[r] EXCEPT !.parent = "none"]
                     r2 == [r1 EXCEPT !.waited = FALSE]
                     r3 == [r2 EXCEPT !.ctx = "live"]
                     r4 == [r3 EXCEPT !.acked = FALSE]
          <5>1. run'[r] = r4
            BY <4>1
          <5>2. r1 \in RunRecord /\ SameWork(run[r], r1) /\ r1.parent = "none"
            BY <1>1 DEF RunRecord, SameWork
          <5> HIDE DEF r1
          <5>3. r2 \in RunRecord /\ SameWork(run[r], r2) /\ r2.parent = "none" /\ ~r2.waited
            BY <5>2 DEF RunRecord, SameWork
          <5> HIDE DEF r2
          <5>4. r3 \in RunRecord /\ SameWork(run[r], r3) /\ r3.parent = "none" /\ ~r3.waited
            BY <5>3 DEF RunRecord, SameWork
          <5> HIDE DEF r3
          <5>5. r4 \in RunRecord /\ SameWork(run[r], r4) /\ r4.parent = "none" /\ ~r4.waited
            BY <5>4 DEF RunRecord, SameWork
          <5> HIDE DEF r4
          <5> QED
            BY <5>1, <5>5, Zenon
        <4>3. lock' = lock
          BY <1>5 DEF Stop
        <4> QED
          BY <1>1, <4>2, <4>3 DEF SameWork, HasLock, IsMarked, IsDetached, Works
      <3> QED
        BY <3>1, <3>2
    <2>2. RunsTyped'
      BY <1>5, <2>1 DEF Stop, Invariant, RunsTyped
    <2> QED
      BY <2>1, <2>2 DEF Invariant
  <1>6. CASE BeginShutdown \/ Boot
    BY <1>6, NothingChanges DEF BeginShutdown, Boot
  <1> QED
    BY <1>2, <1>3, <1>4, <1>5, <1>6
-----------------------------------------------------------------------------
(* The theorems. *)

\* The invariant holds of every state that the deployment tools can reach.
THEOREM Inductive == Spec => []Invariant
  <1>1. Init => Invariant
    <2> SUFFICES ASSUME Init PROVE Invariant
      OBVIOUS
    <2>1. \A r \in Runs : run[r] = NoRun
      BY DEF Init
    <2>2. \A r \in Runs : HasLock(r) /\ IsMarked(r) /\ IsDetached(r)
      BY <2>1 DEF NoRun, HasLock, IsMarked, IsDetached, Works
    <2> QED
      BY <2>1, <2>2, NoRunType DEF Init, Invariant, RunsTyped
  <1>2. Invariant /\ [Next]_vars => Invariant'
    <2>1. ASSUME Invariant, UNCHANGED vars PROVE Invariant'
      BY <2>1, NothingChanges DEF vars
    <2>2. ASSUME Invariant, Next PROVE Invariant'
      <3>1. ASSUME NEW r \in Runs, Work(r) \/ Kill(r) \/ Deadline(r) \/ Forget(r)
            PROVE  Invariant'
        BY <2>2, <3>1, WorkStep
      <3>2. ASSUME NEW c \in Clients, NEW r \in Runs, NEW s \in Services,
                   Deploy(c, r, s) \/ Restart(c, r, s) \/ Start(c, r, s)
            PROVE  Invariant'
        BY <2>2, <3>2, RequestStep
      <3>3. ASSUME NEW c \in Clients, NEW r \in Runs, Cancel(c, r)
            PROVE  Invariant'
        BY <2>2, <3>3, CancelStep
      <3>4. ASSUME \/ \E c \in Clients : Respond(c) \/ Disconnect(c)
                   \/ BeginShutdown \/ Drained \/ Stop \/ Boot
            PROVE  Invariant'
        BY <2>2, <3>4, ServerStep
      <3>5. ASSUME NEW c \in Clients, ReadTasks(c) \/ ReadHost(c) \/ ReadHostEnds(c)
            PROVE  Invariant'
        BY <2>2, <3>5, NothingChanges DEF ReadTasks, ReadHost, ReadHostEnds, Reads
      <3> QED
        BY <2>2, <3>1, <3>2, <3>3, <3>4, <3>5 DEF Next, Tools
    <2> QED
      BY <2>1, <2>2
  <1> QED
    BY <1>1, <1>2, PTL DEF Spec

\* The flock of the script keeps apart the invocations of all tools and of all
\* server processes, what is left of killed ones included.
THEOREM ScriptsExclude == Spec => []OneAtATime
  <1>1. Invariant => OneAtATime
    BY DEF Invariant, HasLock, OneAtATime
  <1> QED
    BY <1>1, Inductive, PTL

\* Service.deploy reports compile_failed only of a script that has not reached
\* its first change of the host and never will.
THEOREM CompileFailuresAreHarmless == Spec => []CompileFailedIsHarmless
  <1>1. Invariant => CompileFailedIsHarmless
    BY DEF Invariant, IsMarked, CompileFailedIsHarmless
  <1> QED
    BY <1>1, Inductive, PTL

\* No end of a request cancels the deployment that it started.
THEOREM DeploymentsOutliveRequests == Spec => []JobsOutliveRequests
  <1>1. Invariant => JobsOutliveRequests
    BY DEF Invariant, IsDetached, JobsOutliveRequests
  <1> QED
    BY <1>1, Inductive, PTL
=============================================================================
