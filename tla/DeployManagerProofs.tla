------------------------- MODULE DeployManagerProofs -------------------------
(***************************************************************************)
(* Proofs about DeployManager for any services, IDs and history limit.     *)
(*                                                                         *)
(* The inductive invariant is built in layers, each proved with the help   *)
(* of the ones before it: the types, the control state of one goroutine    *)
(* (Control), the task table against the goroutines (Table), the history   *)
(* (HistoryMatchesTasks) and the shutdown (Shutdown).                      *)
(***************************************************************************)
EXTENDS DeployManager, TLAPS

\* What the locals of one goroutine and its script say at each of its places.
ControlOf(id) ==
    /\ pc[id] \in {"unused", "starting", "notifying", "spawning"} =>
          script[id] = "none" /\ ~deploying[id] /\ ~err[id]
    /\ script[id] = "none" => ~marked[id]
    /\ deploying[id] => marked[id]
    /\ pc[id] \in {"collecting", "concluding", "reporting", "finishing", "done"} =>
          script[id] # "running" /\ (~err[id] => script[id] = "ok")
    /\ pc[id] \in {"concluding", "reporting", "finishing", "done"} =>
          (marked[id] => deploying[id])
    /\ pc[id] \notin {"reporting", "finishing", "done"} => event[id] = None
    /\ pc[id] \in {"reporting", "finishing", "done"} =>
          /\ event[id] \in Terminal
          /\ event[id] = "canceled" => ctx[id] = "canceled"
          /\ event[id] = "succeeded" => ~err[id]
          /\ event[id] = "failed" => err[id] /\ deploying[id]
          /\ event[id] = "compile_failed" => err[id] /\ ~deploying[id]

Control == \A id \in Ids : ControlOf(id)

\* What the task table says of a goroutine at each of its places.
TableOf(id) ==
    /\ id \in tasks => Live(id) \/ pc[id] = "done"
    /\ pc[id] = "unused" => id \notin acked
    /\ Live(id) => /\ id \in tasks
                   /\ ~isTerminal(task[id].status)
                   /\ task[id].cancel
                   /\ id \in acked => ctx[id] # "live"
    /\ Live(id) /\ pc[id] # "finishing" => task[id].slack \cap Terminal = {}
    /\ pc[id] \in {"finishing", "done"} =>
          /\ task[id].slack \cap Terminal = {event[id]}
          /\ task[id].finalStatus = event[id]
    /\ pc[id] = "done" =>
          /\ \/ task[id].status = event[id]
             \/ task[id].status = "canceled" /\ ctx[id] = "canceled"
          /\ id \in acked => task[id].status = "canceled" \/ ctx[id] = "deadline"

Table == (\A id \in Ids : TableOf(id)) /\ OneRunPerService

\* No handler is left once Close runs, no goroutine once it has returned.
Shutdown ==
    /\ server \in {"closing", "waiting", "closed"} => \A id \in Ids : pc[id] # "starting"
    /\ server = "closed" => wgIsZero
    /\ server = "exited" => \A id \in Ids : ~Live(id)
-----------------------------------------------------------------------------
(* Types. *)

\* A new managedTask is a Task.
LEMMA NewTaskType == \A s \in Services : NewTask(s) \in Task
  BY DEF NewTask, Task, Status, Terminal, None

\* The observer keeps the table's type for every event that deploy reports.
LEMMA ObservedType ==
  ASSUME TypeOK, NEW id \in Ids, NEW e \in Status
  PROVE  Observed(id, e) \in [Ids -> Task]
  <1>1. CASE id \in tasks
    <2>1. task[id] \in Task
      BY DEF TypeOK
    <2>2. [task[id] EXCEPT !.slack = @ \cup {e},
                           !.status = IF e \in {"compiling", "deploying"} THEN e ELSE @,
                           !.finalStatus = IF isTerminal(e) THEN e ELSE @] \in Task
      BY <2>1 DEF Task, isTerminal, Status
    <2> QED
      BY <1>1, <2>2 DEF Observed, TypeOK
  <1>2. CASE id \notin tasks
    BY <1>2 DEF Observed, TypeOK
  <1> QED
    BY <1>1, <1>2

\* The suffix that pruning keeps is a sequence of IDs.
LEMMA PrunedOrderType ==
  ASSUME TypeOK, NEW id \in Ids, NEW k \in 0..Len(order)
  PROVE  SubSeq(Append(order, id), k + 1, Len(Append(order, id))) \in Seq(Ids)
  BY DEF TypeOK

\* The empty table is a table.
LEMMA NoTasksType == NoTasks \in [Ids -> Task]
  <1>1. AnyService \in Services
    BY ServicesAssumption DEF AnyService
  <1> QED
    BY <1>1, NewTaskType DEF NoTasks

\* TypeOK is not inductive alone: the event that Report records must be one.
TypeInv == TypeOK /\ \A id \in Ids : pc[id] = "reporting" => event[id] \in Terminal

\* A new manager is well typed.
LEMMA TypeInit == Init => TypeInv
  <1> SUFFICES ASSUME Init PROVE TypeInv
    OBVIOUS
  <1>1. order \in Seq(Ids) /\ tasks \in SUBSET Ids /\ acked \in SUBSET Ids
    BY DEF Init
  <1>2. /\ marked \in [Ids -> BOOLEAN]
        /\ deploying \in [Ids -> BOOLEAN]
        /\ err \in [Ids -> BOOLEAN]
    BY DEF Init
  <1>3. /\ pc \in [Ids -> PC]
        /\ ctx \in [Ids -> {"live", "canceled", "deadline"}]
        /\ script \in [Ids -> {"none", "running", "ok", "failed", "killed"}]
        /\ event \in [Ids -> Terminal \cup {None}]
        /\ server \in Server
    BY DEF Init, PC, Server
  <1>4. task \in [Ids -> Task]
    BY NoTasksType DEF Init
  <1>5. \A id \in Ids : pc[id] # "reporting"
    BY DEF Init
  <1> QED
    BY <1>1, <1>2, <1>3, <1>4, <1>5 DEF TypeInv, TypeOK

\* Every step keeps the types.
LEMMA TypeStep == TypeInv /\ [Next]_vars => TypeInv'
  <1> SUFFICES ASSUME TypeInv, [Next]_vars PROVE TypeInv'
    OBVIOUS
  <1> USE DEF TypeInv
  <1>1. ASSUME NEW id \in Ids, NEW s \in Services, Start(id, s) PROVE TypeInv'
    <2>1. task' \in [Ids -> Task]
      BY <1>1, NewTaskType DEF Start, TypeOK
    <2>2. order' \in Seq(Ids) /\ tasks' \in SUBSET Ids
      BY <1>1, PrunedOrderType DEF Start, TypeOK
    <2> QED
      BY <1>1, <2>1, <2>2 DEF Start, TypeOK, PC
  <1>2. ASSUME NEW id \in Ids, Cancel(id) \/ Timeout(id) PROVE TypeInv'
    BY <1>2 DEF Cancel, Timeout, Canceled, TypeOK
  <1>3. ASSUME NEW id \in Ids, Goroutine(id) PROVE TypeInv'
    <2>1. CASE Launch(id)
      BY <2>1 DEF Launch, TypeOK, PC, Working
    <2>2. CASE NotifyCompiling(id)
      BY <2>2, ObservedType DEF NotifyCompiling, TypeOK, PC, Working, Status
    <2>3. CASE Spawn(id) \/ SpawnFails(id)
      BY <2>3 DEF Spawn, SpawnFails, TypeOK, PC, Working
    <2>4. CASE ObserveMarker(id)
      BY <2>4, ObservedType DEF ObserveMarker, TypeOK, Status
    <2>5. CASE Reap(id) \/ Collect(id)
      BY <2>5 DEF Reap, Collect, TypeOK, PC, Working
    <2>6. CASE Conclude(id)
      BY <2>6 DEF Conclude, TypeOK, PC, Working, Terminal
    <2>7. CASE Report(id)
      <3>1. Observed(id, event[id]) \in [Ids -> Task]
        BY <2>7, ObservedType DEF Report, Status
      <3> QED
        BY <2>7, <3>1 DEF Report, TypeOK, PC, Working
    <2>8. CASE Finish(id)
      <3>1. FinalStatus(id) \in Status
        BY DEF FinalStatus, TypeOK, Task, Status, Terminal
      <3>2. [task[id] EXCEPT !.status = FinalStatus(id), !.cancel = FALSE] \in Task
        BY <3>1 DEF TypeOK, Task
      <3>3. task' \in [Ids -> Task]
        BY <2>8, <3>2 DEF Finish, TypeOK
      <3> QED
        BY <2>8, <3>3 DEF Finish, TypeOK, PC
    <2> QED
      BY <1>3, <2>1, <2>2, <2>3, <2>4, <2>5, <2>6, <2>7, <2>8 DEF Goroutine
  <1>4. ASSUME NEW id \in Ids, KillScript(id) \/ PrintMarker(id) \/ ExitScript(id)
        PROVE  TypeInv'
    BY <1>4 DEF KillScript, PrintMarker, ExitScript, goroutine, TypeOK
  <1>5. ASSUME BeginShutdown \/ Drained \/ CloseReturns PROVE TypeInv'
    BY <1>5 DEF BeginShutdown, Drained, CloseReturns, goroutine, TypeOK, Server
  <1>6. ASSUME CloseCancels PROVE TypeInv'
    BY <1>6 DEF CloseCancels, Canceled, TypeOK, Server
  <1>7. ASSUME Die \/ NewManager PROVE TypeInv'
    <2>1. Forget /\ UNCHANGED <<script, marked>> /\ server' \in Server
      BY <1>7 DEF Die, NewManager, Server
    <2>2. deploying' \in [Ids -> BOOLEAN] /\ err' \in [Ids -> BOOLEAN]
      BY <2>1 DEF Forget
    <2>3. /\ pc' \in [Ids -> PC]
          /\ ctx' \in [Ids -> {"live", "canceled", "deadline"}]
          /\ event' \in [Ids -> Terminal \cup {None}]
          /\ \A id \in Ids : pc'[id] # "reporting"
      BY <2>1 DEF Forget, PC
    <2>4. tasks' \in SUBSET Ids /\ order' \in Seq(Ids) /\ acked' \in SUBSET Ids
      BY <2>1 DEF Forget
    <2> QED
      BY <2>1, <2>2, <2>3, <2>4, NoTasksType DEF Forget, TypeOK
  <1>8. CASE UNCHANGED vars
    BY <1>8 DEF vars, goroutine, TypeOK
  <1> QED
    BY <1>1, <1>2, <1>3, <1>4, <1>5, <1>6, <1>7, <1>8 DEF Next

\* Every behaviour of the manager is well typed; in particular the status of a
\* task is always one of the six the API documents.
THEOREM TypeCorrect == Spec => []TypeOK
  <1>1. Spec => []TypeInv
    BY TypeInit, TypeStep, PTL DEF Spec
  <1>2. TypeInv => TypeOK
    BY DEF TypeInv
  <1> QED
    BY <1>1, <1>2, PTL
-----------------------------------------------------------------------------
(* The control state of one goroutine. *)

\* No goroutine has started.
LEMMA ControlInit == Init => Control
  BY DEF Init, Control, ControlOf, None

\* Every step keeps each goroutine's control state consistent.
LEMMA ControlStep == TypeOK /\ Control /\ [Next]_vars => Control'
  <1> SUFFICES ASSUME TypeOK, Control, [Next]_vars, NEW j \in Ids PROVE ControlOf(j)'
    BY DEF Control
  <1>0. ControlOf(j)
    BY DEF Control
  <1>1. ASSUME NEW id \in Ids, NEW s \in Services, Start(id, s) PROVE ControlOf(j)'
    BY <1>0, <1>1 DEF Start, ControlOf, TypeOK
  <1>2. ASSUME NEW id \in Ids, Cancel(id) \/ Timeout(id) PROVE ControlOf(j)'
    BY <1>0, <1>2 DEF Cancel, Timeout, Canceled, ControlOf, TypeOK
  <1>3. ASSUME NEW id \in Ids, Goroutine(id) PROVE ControlOf(j)'
    <2>1. CASE Launch(id) \/ NotifyCompiling(id)
      BY <1>0, <2>1 DEF Launch, NotifyCompiling, ControlOf, TypeOK
    <2>2. CASE Spawn(id) \/ SpawnFails(id)
      BY <1>0, <2>2 DEF Spawn, SpawnFails, ControlOf, TypeOK
    <2>3. CASE ObserveMarker(id)
      BY <1>0, <2>3 DEF ObserveMarker, ControlOf, TypeOK
    <2>4. CASE Reap(id)
      BY <1>0, <2>4 DEF Reap, ControlOf, TypeOK
    <2>5. CASE Collect(id)
      BY <1>0, <2>5 DEF Collect, ControlOf, TypeOK
    <2>6. CASE Conclude(id)
      BY <1>0, <2>6 DEF Conclude, ControlOf, TypeOK, Terminal
    <2>7. CASE Report(id) \/ Finish(id)
      BY <1>0, <2>7 DEF Report, Finish, ControlOf, TypeOK
    <2> QED
      BY <1>3, <2>1, <2>2, <2>3, <2>4, <2>5, <2>6, <2>7 DEF Goroutine
  <1>4. ASSUME NEW id \in Ids, KillScript(id) \/ PrintMarker(id) \/ ExitScript(id)
        PROVE  ControlOf(j)'
    BY <1>0, <1>4 DEF KillScript, PrintMarker, ExitScript, goroutine, ControlOf, TypeOK
  <1>5. ASSUME BeginShutdown \/ Drained \/ CloseReturns PROVE ControlOf(j)'
    BY <1>0, <1>5 DEF BeginShutdown, Drained, CloseReturns, goroutine, ControlOf
  <1>6. ASSUME CloseCancels PROVE ControlOf(j)'
    BY <1>0, <1>6 DEF CloseCancels, Canceled, ControlOf
  <1>7. ASSUME Die \/ NewManager PROVE ControlOf(j)'
    BY <1>0, <1>7 DEF Die, NewManager, Forget, ControlOf, TypeOK
  <1>8. CASE UNCHANGED vars
    BY <1>0, <1>8 DEF vars, goroutine, ControlOf
  <1> QED
    BY <1>1, <1>2, <1>3, <1>4, <1>5, <1>6, <1>7, <1>8 DEF Next

\* Control holds in every behaviour.
LEMMA ControlInvariant == Spec => []Control
  BY TypeCorrect, ControlInit, ControlStep, PTL DEF Spec

\* Every report to Slack is true of the script, in every interleaving of the
\* script, the pipe reader, cancellations, the deadline and the kill.
THEOREM TruthfulReports == Spec => []ReportIsTruthful
  <1>1. Control => ReportIsTruthful
    BY DEF Control, ControlOf, ReportIsTruthful, None
  <1> QED
    BY <1>1, ControlInvariant, PTL
-----------------------------------------------------------------------------
(* The task table against the goroutines. *)

\* The empty table matches the goroutines.
LEMMA TableInit == Init => Table
  BY DEF Init, Table, TableOf, OneRunPerService, Live, Working

\* Pruning removes finished tasks only: a goroutine that lives keeps its entry.
LEMMA PruneKeepsLive ==
  ASSUME TypeOK, Table, NEW id \in Ids, NEW s \in Services, Start(id, s),
         NEW j \in Ids, Live(j) \/ j = id
  PROVE  j \in tasks'
  <1> DEFINE t == [task EXCEPT ![id] = NewTask(s)]
             o == Append(order, id)
             known == tasks \cup {id}
  <1>1. PICK k \in 0..Len(order) :
           Prunes(k, o, known, t) /\ tasks' = known \ {o[i] : i \in 1..k}
    BY DEF Start
  <1>2. j \in known /\ ~isTerminal(t[j].status)
    BY DEF Table, TableOf, Start, Live, NewTask, isTerminal, Terminal, TypeOK
  <1>3. ASSUME NEW i \in 1..k PROVE o[i] # j
    BY <1>1, <1>2 DEF Prunes
  <1> QED
    BY <1>1, <1>2, <1>3

\* What an observed event changes in the table, and what it leaves alone.
LEMMA ObservedFields ==
  ASSUME TypeOK, NEW id \in tasks, NEW e \in Status
  PROVE  LET o == Observed(id, e) IN
         /\ \A j \in Ids \ {id} : o[j] = task[j]
         /\ o[id].service = task[id].service
         /\ o[id].cancel = task[id].cancel
         /\ o[id].slack = task[id].slack \cup {e}
         /\ e \in {"compiling", "deploying"} =>
               o[id].status = e /\ o[id].finalStatus = task[id].finalStatus
         /\ e \in Terminal =>
               o[id].status = task[id].status /\ o[id].finalStatus = e
  <1>1. id \in Ids /\ task[id] \in Task
    BY DEF TypeOK
  <1> QED
    BY <1>1 DEF Observed, TypeOK, Task, isTerminal, Terminal, Status

\* Every step keeps the table and the goroutines in agreement.
LEMMA TableStep == TypeOK /\ Control /\ Table /\ [Next]_vars => Table'
  <1> SUFFICES ASSUME TypeOK, Control, Table, [Next]_vars PROVE Table'
    OBVIOUS
  <1>0. \A j \in Ids : TableOf(j) /\ ControlOf(j)
    BY DEF Table, Control
  \* Of the tasks in the table, those that are not terminal have a goroutine.
  <1>b. \A j \in tasks : ~isTerminal(task[j].status) => Live(j)
    BY <1>0 DEF TableOf, ControlOf, isTerminal, Terminal, TypeOK
  \* A step that starts no goroutine and changes no service leaves the second
  \* conjunct alone.
  <1>a. ASSUME \A j \in Ids : TableOf(j)',
               \A j \in Ids : Live(j)' => Live(j) /\ task'[j].service = task[j].service
        PROVE  Table'
    BY <1>a DEF Table, OneRunPerService, Live
  <1>1. ASSUME NEW id \in Ids, NEW s \in Services, Start(id, s) PROVE Table'
    <2>1. ASSUME NEW j \in Ids PROVE TableOf(j)'
      <3>1. CASE j = id
        <4>1. id \notin acked
          BY <1>0, <1>1 DEF Start, TableOf
        <4> QED
          BY <1>1, <3>1, <4>1, PruneKeepsLive DEF Start, TableOf, Live, NewTask, TypeOK, Working, isTerminal, Terminal
      <3>2. CASE j # id
        <4>1. j \in tasks' => j \in tasks
          BY <1>1, <3>2 DEF Start
        <4>2. Live(j)' <=> Live(j)
          BY <1>1, <3>2 DEF Start, Live, TypeOK
        <4>3. Live(j) => j \in tasks'
          BY <1>1, PruneKeepsLive
        <4> QED
          BY <1>0, <1>1, <3>2, <4>1, <4>2, <4>3 DEF Start, TableOf, TypeOK, isTerminal
      <3> QED
        BY <3>1, <3>2
    <2>2. OneRunPerService'
      <3> SUFFICES ASSUME NEW i \in Ids, NEW j \in Ids, Live(i)', Live(j)',
                          task'[i].service = task'[j].service
                   PROVE  i = j
        BY DEF OneRunPerService, Live
      <3>1. \A h \in Ids \ {id} : Live(h)' => /\ Live(h) /\ task'[h] = task[h]
                                              /\ task[h].service # s
        BY <1>0, <1>1 DEF Start, ServiceIsFree, Live, TableOf, TypeOK
      <3>2. task'[id].service = s
        BY <1>1 DEF Start, NewTask, TypeOK
      <3> QED
        BY <3>1, <3>2 DEF Table, OneRunPerService
    <2> QED
      BY <2>1, <2>2 DEF Table
  <1>2. ASSUME NEW id \in Ids, Cancel(id) \/ Timeout(id) PROVE Table'
    <2>1. CASE Cancel(id)
      <3>1. Live(id) /\ pc[id] # "done" /\ pc[id] # "unused"
        BY <1>b, <2>1 DEF Cancel, Live, Working
      <3>2. \A j \in Ids : TableOf(j)'
        BY <1>0, <2>1, <3>1 DEF Cancel, Canceled, TableOf, Live, TypeOK
      <3> QED
        BY <1>a, <2>1, <3>2 DEF Cancel, Live
    <2>2. CASE Timeout(id)
      <3>1. pc[id] # "done"
        BY <2>2 DEF Timeout, Live, Working
      <3> QED
        BY <1>0, <1>a, <2>2, <3>1 DEF Timeout, TableOf, Live, TypeOK
    <2> QED
      BY <1>2, <2>1, <2>2
  <1>3. ASSUME NEW id \in Ids, Goroutine(id) PROVE Table'
    <2>0. Live(id) => id \in tasks
      BY <1>0 DEF TableOf
    <2>1. CASE Launch(id) \/ Spawn(id) \/ SpawnFails(id) \/ Reap(id) \/ Collect(id)
      BY <1>0, <1>a, <2>1 DEF Launch, Spawn, SpawnFails, Reap, Collect, TableOf, Live, TypeOK, Working
    <2>2. CASE NotifyCompiling(id)
      <3>1. id \in tasks /\ "compiling" \in Status
        BY <2>0, <2>2 DEF NotifyCompiling, Live, Working, Status
      <3> QED
        BY <1>0, <1>a, <2>2, <3>1, ObservedFields
        DEF NotifyCompiling, TableOf, Live, TypeOK, Working, isTerminal, Terminal
    <2>3. CASE ObserveMarker(id)
      <3>1. id \in tasks /\ "deploying" \in Status
        BY <2>0, <2>3 DEF ObserveMarker, Live, Working, Status
      <3>2. pc' = pc /\ task' = Observed(id, "deploying")
        BY <2>3 DEF ObserveMarker
      <3>3. \A j \in Ids : TableOf(j)'
        BY <1>0, <2>3, <3>1, <3>2, ObservedFields
        DEF ObserveMarker, TableOf, Live, isTerminal, Terminal
      <3> QED
        BY <1>a, <3>1, <3>2, <3>3, ObservedFields DEF Live
    <2>4. CASE Conclude(id)
      BY <1>0, <1>a, <2>4 DEF Conclude, TableOf, Live, TypeOK, Working
    <2>5. CASE Report(id)
      <3>1. id \in tasks /\ event[id] \in Terminal /\ event[id] \in Status
        BY <1>0, <2>0, <2>5 DEF Report, Live, Working, Status, ControlOf
      <3>2. task' = Observed(id, event[id]) /\ pc' = [pc EXCEPT ![id] = "finishing"]
        BY <2>5 DEF Report
      <3>3. \A j \in Ids \ {id} : TableOf(j)'
        BY <1>0, <2>5, <3>1, <3>2, ObservedFields DEF Report, TableOf, Live, TypeOK
      <3>4. TableOf(id)'
        BY <1>0, <2>5, <3>1, <3>2, ObservedFields
        DEF Report, TableOf, Live, TypeOK, Working, isTerminal
      <3> QED
        BY <1>a, <2>5, <3>1, <3>2, <3>3, <3>4, ObservedFields DEF Report, Live, Working, TypeOK
    <2>6. CASE Finish(id)
      <3>1. id \in tasks /\ task[id] \in Task /\ task[id].finalStatus = event[id]
        BY <1>0, <2>0, <2>6 DEF Finish, Live, Working, TableOf, TypeOK
      <3>2. task' = [task EXCEPT ![id] =
                       [task[id] EXCEPT !.status = FinalStatus(id), !.cancel = FALSE]]
        BY <2>6, <3>1 DEF Finish
      <3>3. \/ FinalStatus(id) = event[id] /\ ctx[id] # "canceled"
            \/ FinalStatus(id) = "canceled" /\ ctx[id] = "canceled"
        BY <1>0, <2>6, <3>1 DEF Finish, FinalStatus, ControlOf, Terminal, None
      <3>4. \A j \in Ids \ {id} : TableOf(j)'
        BY <1>0, <2>6, <3>2 DEF Finish, TableOf, Live, TypeOK
      <3>5. TableOf(id)'
        BY <1>0, <2>6, <3>1, <3>2, <3>3 DEF Finish, TableOf, Live, TypeOK, Task, Working
      <3> QED
        BY <1>a, <2>6, <3>2, <3>4, <3>5 DEF Finish, Live, Working, TypeOK
    <2> QED
      BY <1>3, <2>1, <2>2, <2>3, <2>4, <2>5, <2>6 DEF Goroutine
  <1>4. ASSUME NEW id \in Ids, KillScript(id) \/ PrintMarker(id) \/ ExitScript(id)
        PROVE  Table'
    BY <1>0, <1>a, <1>4 DEF KillScript, PrintMarker, ExitScript, goroutine, TableOf, Live
  <1>5. ASSUME BeginShutdown \/ Drained \/ CloseReturns PROVE Table'
    BY <1>0, <1>a, <1>5 DEF BeginShutdown, Drained, CloseReturns, goroutine, TableOf, Live
  <1>6. ASSUME CloseCancels PROVE Table'
    BY <1>0, <1>a, <1>6 DEF CloseCancels, Canceled, TableOf, Live
  <1>7. ASSUME Die \/ NewManager PROVE Table'
    BY <1>0, <1>a, <1>7 DEF Die, NewManager, Forget, TableOf, Live, TypeOK, Working
  <1>8. CASE UNCHANGED vars
    BY <1>0, <1>a, <1>8 DEF vars, goroutine, TableOf, Live
  <1> QED
    BY <1>1, <1>2, <1>3, <1>4, <1>5, <1>6, <1>7, <1>8 DEF Next

\* Table holds in every behaviour.
LEMMA TableInvariant == Spec => []Table
  BY TypeCorrect, ControlInvariant, TableInit, TableStep, PTL DEF Spec

\* Start's refusal keeps deployments of one service apart, for any number of
\* tasks, cancellations, deadlines and restarts of the server.
THEOREM ServiceExclusion == Spec => []OneRunPerService
  <1>1. Table => OneRunPerService
    BY DEF Table
  <1> QED
    BY <1>1, TableInvariant, PTL

\* Hence at most one script that this process waits for works on a service.
THEOREM ScriptExclusion == Spec => []OneScriptPerService
  <1>1. TypeOK /\ Control /\ Table => OneScriptPerService
    <2> SUFFICES ASSUME TypeOK, Control, Table, NEW i \in Ids,
                        pc[i] # "gone", script[i] = "running"
                 PROVE  Live(i)
      BY DEF Table, OneRunPerService, OneScriptPerService
    <2>1. ControlOf(i) /\ pc[i] \in PC
      BY DEF Control, TypeOK
    <2> QED
      BY <2>1 DEF ControlOf, PC, Working, Live
  <1> QED
    BY <1>1, TypeCorrect, ControlInvariant, TableInvariant, PTL

\* However much history is pruned, a running goroutine finds its entry.
THEOREM LiveRunsAreTracked == Spec => []LiveRunIsTracked
  <1>1. Table => LiveRunIsTracked
    BY DEF Table, TableOf, LiveRunIsTracked
  <1> QED
    BY <1>1, TableInvariant, PTL

\* No task stays in a non-terminal status without a goroutine that ends it.
THEOREM NoTaskIsStuck == Spec => []NoStuckTask
  <1>1. TypeOK /\ Control /\ Table => NoStuckTask
    BY DEF Table, TableOf, Control, ControlOf, NoStuckTask, isTerminal, Terminal, TypeOK
  <1> QED
    BY <1>1, TypeCorrect, ControlInvariant, TableInvariant, PTL

\* The status of a finished task is the one Slack was told, or canceled.
THEOREM StatusFollowsReport == Spec => []StatusAgreesWithReport
  <1>1. TypeOK /\ Table => StatusAgreesWithReport
    BY DEF Table, TableOf, StatusAgreesWithReport, TypeOK
  <1> QED
    BY <1>1, TypeCorrect, TableInvariant, PTL

\* An acknowledged cancellation is never lost.
THEOREM AckedCancelsWin == Spec => []AckedCancelWins
  <1>1. TypeOK /\ Table => AckedCancelWins
    BY DEF Table, TableOf, AckedCancelWins, TypeOK
  <1> QED
    BY <1>1, TypeCorrect, TableInvariant, PTL

\* No step reopens or rewrites a task that is in a terminal status.
THEOREM TerminalStatusIsFinal == Spec => TerminalIsFinal
  <1> DEFINE Final == \A id \in tasks \cap tasks' :
                         isTerminal(task[id].status) => task'[id] = task[id]
  <1>1. TypeOK /\ Control /\ Table /\ [Next]_vars => [Final]_vars
    <2> SUFFICES ASSUME TypeOK, Control, Table, [Next]_vars, NEW j \in tasks \cap tasks',
                        isTerminal(task[j].status)
                 PROVE  task'[j] = task[j]
      OBVIOUS
    <2>0. j \in Ids /\ ~Live(j) /\ pc[j] # "unused"
      BY DEF Table, TableOf, TypeOK, Live, Working
    <2>1. ASSUME NEW id \in Ids, NEW s \in Services, Start(id, s) PROVE task'[j] = task[j]
      BY <2>0, <2>1 DEF Start, TypeOK
    <2>2. ASSUME NEW id \in Ids, NEW e \in Status, Live(id), task' = Observed(id, e)
          PROVE  task'[j] = task[j]
      BY <2>0, <2>2 DEF Observed, TypeOK
    <2>3. ASSUME NEW id \in Ids, Goroutine(id) PROVE task'[j] = task[j]
      <3>1. CASE NotifyCompiling(id) \/ ObserveMarker(id)
        BY <2>2, <3>1 DEF NotifyCompiling, ObserveMarker, Live, Working, Status
      <3>2. CASE Report(id)
        <4>1. event[id] \in Status
          BY <3>2 DEF Control, ControlOf, Report, Status
        <4> QED
          BY <2>2, <3>2, <4>1 DEF Report, Live, Working
      <3>3. CASE Finish(id)
        <4>1. j # id
          BY <2>0, <3>3 DEF Finish, Live, Working
        <4> QED
          BY <2>0, <3>3, <4>1 DEF Finish, TypeOK
      <3> QED
        BY <2>3, <3>1, <3>2, <3>3
        DEF Goroutine, Launch, Spawn, SpawnFails, Reap, Collect, Conclude
    <2>4. ASSUME Die \/ NewManager PROVE task'[j] = task[j]
      BY <2>4 DEF Die, NewManager, Forget
    <2> QED
      BY <2>1, <2>3, <2>4
      DEF Next, vars, Cancel, Timeout, KillScript, PrintMarker, ExitScript, BeginShutdown,
          Drained, CloseCancels, CloseReturns
  <1> QED
    BY <1>1, TypeCorrect, ControlInvariant, TableInvariant, PTL DEF Spec, TerminalIsFinal
-----------------------------------------------------------------------------
(* The history. *)

\* The empty history lists the empty table.
LEMMA HistoryInit == Init => HistoryMatchesTasks
  BY DEF Init, HistoryMatchesTasks

\* The sequence that remains of q when x is appended and k entries are dropped.
LEMMA SuffixOfAppend ==
  ASSUME NEW S, NEW q \in Seq(S), NEW x \in S, NEW k \in 0..Len(q)
  PROVE  LET o == Append(q, x)
             r == SubSeq(o, k + 1, Len(o))
         IN  /\ Len(q) \in Nat /\ Len(o) = Len(q) + 1
             /\ o[Len(q) + 1] = x /\ \A i \in 1..Len(q) : o[i] = q[i]
             /\ \A i \in 1..Len(o) : o[i] \in S
             /\ Len(r) = Len(q) + 1 - k /\ \A i \in 1..Len(r) : r[i] = o[i + k]
  <1> DEFINE o == Append(q, x)
             r == SubSeq(o, k + 1, Len(o))
  <1>1. /\ Len(q) \in Nat /\ o \in Seq(S) /\ Len(o) = Len(q) + 1
        /\ o[Len(q) + 1] = x /\ \A i \in 1..Len(q) : o[i] = q[i]
    OBVIOUS
  <1>2. \A i \in 1..Len(o) : o[i] \in S
    BY <1>1
  <1> HIDE DEF o
  <1>3. Len(r) = Len(q) + 1 - k /\ \A i \in 1..Len(r) : r[i] = o[i + k]
    BY <1>1, <1>2
  <1> QED
    BY <1>1, <1>2, <1>3 DEF o

\* Appending a new ID and dropping the k oldest entries keeps order and the
\* keys of the table in step.
LEMMA HistoryStart ==
  ASSUME TypeOK, Table, HistoryMatchesTasks,
         NEW id \in Ids, NEW s \in Services, Start(id, s)
  PROVE  HistoryMatchesTasks'
  <1> DEFINE n == Len(order)
             o == Append(order, id)
             r == order'
  <1>1. PICK k \in 0..n : /\ r = SubSeq(o, k + 1, Len(o))
                          /\ tasks' = (tasks \cup {id}) \ {o[i] : i \in 1..k}
    BY DEF Start
  <1>2. id \notin tasks
    BY DEF Start, Table, TableOf, Live, Working
  <1>3. /\ n \in Nat /\ Len(o) = n + 1
        /\ o[n + 1] = id /\ \A i \in 1..n : o[i] = order[i]
        /\ Len(r) = n + 1 - k /\ \A i \in 1..Len(r) : r[i] = o[i + k]
    <2>1. order \in Seq(Ids)
      BY DEF TypeOK
    <2>2. LET q == SubSeq(o, k + 1, Len(o))
          IN  /\ n \in Nat /\ Len(o) = n + 1
              /\ o[n + 1] = id /\ \A i \in 1..n : o[i] = order[i]
              /\ Len(q) = n + 1 - k /\ \A i \in 1..Len(q) : q[i] = o[i + k]
      BY <2>1, SuffixOfAppend
    <2> QED
      BY <1>1, <2>2
  <1>4. tasks = {order[i] : i \in 1..n} /\ \A i, j \in 1..n : order[i] = order[j] => i = j
    BY DEF HistoryMatchesTasks
  <1> HIDE DEF n, o, r
  <1>5. \A i, j \in 1..(n + 1) : o[i] = o[j] => i = j
    BY <1>2, <1>3, <1>4
  <1>6. tasks \cup {id} = {o[i] : i \in 1..(n + 1)}
    <2>1. \A i \in 1..(n + 1) : i \in 1..n \/ i = n + 1
      BY <1>3
    <2>2. n + 1 \in 1..(n + 1) /\ \A i \in 1..n : i \in 1..(n + 1)
      BY <1>3
    <2>3. ASSUME NEW x \in tasks \cup {id} PROVE \E i \in 1..(n + 1) : x = o[i]
      BY <1>3, <1>4, <2>2
    <2>4. ASSUME NEW i \in 1..(n + 1) PROVE o[i] \in tasks \cup {id}
      BY <1>3, <1>4, <2>1
    <2> QED
      BY <2>3, <2>4
  <1>7. \A i, j \in 1..Len(r) : r[i] = r[j] => i = j
    BY <1>3, <1>5
  <1>8. tasks' = {r[i] : i \in 1..Len(r)}
    <2>1. ASSUME NEW x \in tasks' PROVE \E i \in 1..Len(r) : x = r[i]
      <3>1. PICK i \in 1..(n + 1) : x = o[i] /\ ~(i \in 1..k)
        BY <1>1, <1>6, <2>1
      <3>2. i - k \in 1..Len(r) /\ (i - k) + k = i
        BY <1>3, <3>1
      <3> QED
        BY <1>3, <3>1, <3>2
    <2>2. ASSUME NEW i \in 1..Len(r) PROVE r[i] \in tasks'
      <3>1. i + k \in 1..(n + 1) /\ ~(i + k \in 1..k) /\ r[i] = o[i + k]
        BY <1>3
      <3> QED
        BY <1>1, <1>3, <1>5, <1>6, <3>1
    <2> QED
      BY <2>1, <2>2
  <1> QED
    BY <1>7, <1>8 DEF HistoryMatchesTasks, r

\* Every step keeps order and tasks in step; only Start changes both.
LEMMA HistoryStep ==
  TypeOK /\ Table /\ HistoryMatchesTasks /\ [Next]_vars => HistoryMatchesTasks'
  <1> SUFFICES ASSUME TypeOK, Table, HistoryMatchesTasks, [Next]_vars
               PROVE  HistoryMatchesTasks'
    OBVIOUS
  <1>1. ASSUME NEW id \in Ids, NEW s \in Services, Start(id, s) PROVE HistoryMatchesTasks'
    BY <1>1, HistoryStart
  <1>2. ASSUME Die \/ NewManager PROVE HistoryMatchesTasks'
    BY <1>2 DEF Die, NewManager, Forget, HistoryMatchesTasks
  <1>3. CASE UNCHANGED <<tasks, order>>
    BY <1>3 DEF HistoryMatchesTasks
  <1> QED
    BY <1>1, <1>2, <1>3
    DEF Next, vars, Cancel, Timeout, KillScript, PrintMarker, ExitScript, BeginShutdown,
        Drained, CloseCancels, CloseReturns, Goroutine, Launch, NotifyCompiling, Spawn,
        SpawnFails, ObserveMarker, Reap, Collect, Conclude, Report, Finish

\* Recent never meets an ID without a task, and lists none twice.
THEOREM HistoryIsConsistent == Spec => []HistoryMatchesTasks
  BY TypeCorrect, TableInvariant, HistoryInit, HistoryStep, PTL DEF Spec

\* Every Start leaves a history that fits the limit or begins with a task that
\* still runs.
THEOREM PruningIsComplete == Spec => HistoryIsPruned
  <1> DEFINE Pruned == \A id \in Ids : id \in tasks' \ tasks =>
                          (Len(order) <= Limit \/ Live(order[1]))'
  <1>1. TypeOK /\ Control /\ Table /\ Table' /\ TypeOK' /\ Control' /\ [Next]_vars => [Pruned]_vars
    <2> SUFFICES ASSUME TypeOK, Table, TypeOK', Table', Control', [Next]_vars,
                        NEW j \in Ids, j \in tasks' \ tasks
                 PROVE  Len(order') <= Limit \/ Live(order[1])'
      OBVIOUS
    <2>1. PICK id \in Ids, s \in Services : Start(id, s)
      BY DEF Next, vars, Cancel, Timeout, KillScript, PrintMarker, ExitScript, BeginShutdown,
             Drained, CloseCancels, CloseReturns, Goroutine, Launch, NotifyCompiling, Spawn,
             SpawnFails, ObserveMarker, Reap, Collect, Conclude, Report, Finish, Die,
             NewManager, Forget
    <2> DEFINE n == Len(order)
               o == Append(order, id)
    <2>2. PICK k \in 0..n : /\ Prunes(k, o, tasks \cup {id}, task')
                            /\ order' = SubSeq(o, k + 1, Len(o))
                            /\ tasks' = (tasks \cup {id}) \ {o[i] : i \in 1..k}
      BY <2>1 DEF Start
    <2>3. /\ n \in Nat /\ Len(o) = n + 1 /\ k + 1 \in 1..Len(o) /\ o[k + 1] \in Ids
          /\ Len(order') = n + 1 - k /\ order'[1] = o[1 + k]
      BY <2>2, SuffixOfAppend DEF TypeOK
    <2>4. PICK x \in Ids : x = o[k + 1] /\ x = order'[1]
      BY <2>3
    <2>5. CASE Len(o) - k <= Limit
      BY <2>3, <2>5
    <2>6. CASE x \in tasks \cup {id} /\ ~isTerminal(task'[x].status)
      <3>1. \A i \in 1..k : o[i] # x
        BY <2>2, <2>6 DEF Prunes
      <3>2. x \in tasks'
        BY <2>2, <2>6, <3>1
      <3>3. TableOf(x)' /\ ControlOf(x)'
        BY DEF Table, Control
      <3>4. Live(x)'
        BY <2>6, <3>2, <3>3 DEF TableOf, ControlOf, isTerminal, Terminal
      <3> QED
        BY <2>4, <3>4 DEF Live
    <2> QED
      BY <2>2, <2>4, <2>5, <2>6 DEF Prunes
  <1> QED
    BY <1>1, TypeCorrect, ControlInvariant, TableInvariant, PTL DEF Spec, HistoryIsPruned

-----------------------------------------------------------------------------
(* Shutdown. *)

\* Every step keeps what Close has established.
LEMMA ShutdownStep == TypeOK /\ Shutdown /\ [Next]_vars => Shutdown'
  <1> SUFFICES ASSUME TypeOK, Shutdown, [Next]_vars PROVE Shutdown'
    OBVIOUS
  <1> USE DEF Shutdown, wgIsZero, Running
  <1>1. ASSUME NEW id \in Ids, NEW s \in Services, Start(id, s) PROVE Shutdown'
    BY <1>1 DEF Start, Handling
  <1>2. ASSUME NEW id \in Ids, Goroutine(id) PROVE Shutdown'
    BY <1>2 DEF Goroutine, Launch, NotifyCompiling, Spawn, SpawnFails, ObserveMarker, Reap,
                Collect, Conclude, Report, Finish, TypeOK
  <1>3. ASSUME NEW id \in Ids,
               \/ Cancel(id) \/ Timeout(id) \/ KillScript(id) \/ PrintMarker(id) \/ ExitScript(id)
        PROVE  Shutdown'
    BY <1>3 DEF Cancel, Timeout, KillScript, PrintMarker, ExitScript, goroutine, Live
  <1>4. ASSUME BeginShutdown \/ Drained \/ CloseCancels \/ CloseReturns PROVE Shutdown'
    BY <1>4 DEF BeginShutdown, Drained, CloseCancels, CloseReturns, goroutine
  <1>5. ASSUME Die \/ NewManager PROVE Shutdown'
    BY <1>5 DEF Die, NewManager, Forget, Live, Working, TypeOK
  <1>6. CASE UNCHANGED vars
    BY <1>6 DEF vars, goroutine, Live
  <1> QED
    BY <1>1, <1>2, <1>3, <1>4, <1>5, <1>6 DEF Next

\* A Close that returns nil has waited for every goroutine and its script.
THEOREM CloseIsClean == Spec => []CleanCloseLeavesNoRun
  <1>1. Init => Shutdown
    BY DEF Init, Shutdown
  <1>2. Spec => []Shutdown
    BY <1>1, TypeCorrect, ShutdownStep, PTL DEF Spec
  <1>3. TypeOK /\ Control /\ Shutdown => CleanCloseLeavesNoRun
    <2> SUFFICES ASSUME TypeOK, Control, Shutdown, server = "closed", NEW id \in Ids
                 PROVE  ~Live(id) /\ (script[id] = "running" => pc[id] = "gone")
      BY DEF CleanCloseLeavesNoRun
    <2>1. ControlOf(id) /\ pc[id] \in PC /\ pc[id] \notin Working \cup {"starting"}
      BY DEF Control, Shutdown, wgIsZero, TypeOK
    <2> QED
      BY <2>1 DEF ControlOf, PC, Live
  <1> QED
    BY <1>2, <1>3, TypeCorrect, ControlInvariant, PTL
=============================================================================
