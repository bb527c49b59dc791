-------------------------- MODULE SandboxJobsProofs --------------------------
(***************************************************************************)
(* Types, tokens and completed rows of SandboxJobs, for any number of jobs *)
(* and restarts of the process; and how a token that has outlived the wait *)
(* for its job goes.                                                       *)
(***************************************************************************)
EXTENDS SandboxJobs, TLAPS

-----------------------------------------------------------------------------
(* Types *)

WriteType == [job : Jobs, status : Statuses, reason : Reasons]

\* A write of a typed record leaves typed rows (save_sandbox_job,
\* update_sandbox_job_status).
LEMMA StoredType ==
  ASSUME TypeOK, NEW w \in WriteType
  PROVE  Stored(w) \in [Jobs -> [status : Statuses, reason : Reasons] \cup {NoRow}]
<1>1. CASE w.status # "creating" /\ row[w.job] = NoRow
  BY <1>1 DEF Stored, TypeOK
<1>2. CASE ~ (w.status # "creating" /\ row[w.job] = NoRow)
  <2> DEFINE old == row[w.job]
             new == [status |-> w.status,
                     reason |-> IF w.status # "creating" /\ w.reason = "none" THEN old.reason
                                ELSE w.reason]
  <2>1. w.job \in Jobs /\ w.status \in Statuses /\ w.reason \in Reasons
    BY DEF WriteType
  <2>2. new.reason \in Reasons
    <3>1. CASE old = NoRow
      BY <1>2, <2>1, <3>1 DEF Reasons
    <3>2. CASE old # NoRow
      BY <2>1, <3>2 DEF TypeOK
    <3>. QED
      BY <3>1, <3>2
  <2>3. new \in [status : Statuses, reason : Reasons]
    BY <2>1, <2>2
  <2>4. Stored(w) = [row EXCEPT ![w.job] = new]
    BY <1>2 DEF Stored
  <2>. QED
    BY <2>1, <2>3, <2>4 DEF TypeOK
<1>. QED
  BY <1>1, <1>2

\* The records that are written
LEMMA WriteTypes ==
  ASSUME NEW j \in Jobs
  PROVE  /\ Save(j) \in WriteType
         /\ \A s \in Statuses, r \in Reasons : Update(j, s, r) \in WriteType
  BY DEF Save, Update, WriteType, Statuses, Reasons

\* The tasks and containers, the manager's state, and the rows
TaskType ==
  /\ mode \in [Jobs -> {"none", "wait", "nowait", "restart"}]
  /\ creator \in [Jobs -> {"none", "token", "grants", "insert", "create", "start", "update",
                           "undo", "forget", "started", "poll", "success", "failure", "kill",
                           "mark", "revoke", "cleanup", "done", "dropped", "abandoned"}]
  /\ container \in [Jobs -> {"none", "created", "working", "kept", "reporting", "exited", "removed"}]
  /\ report \in [Jobs -> {"none", "store", "read", "kill", "revoke", "over"}]
  /\ outcome \in [Jobs -> {"none", "ok", "fail"}]
  /\ cancel \in [Jobs -> {"none", "stop", "kill", "mark", "revoke", "write"}]
  /\ dropped \subseteq Jobs

HandleRecord == [state : {"none", "Creating", "Running", "Stopped"}, id : BOOLEAN,
                 result : {"none", "ok", "fail"}]

ManagerType ==
  /\ handle \in [Jobs -> HandleRecord]
  /\ \A j \in Jobs : handle[j].state = "Running" => handle[j].id
  /\ tokens \subseteq Jobs

RowType ==
  /\ row \in [Jobs -> [status : Statuses, reason : Reasons] \cup {NoRow}]
  /\ writes \subseteq WriteType

Parts == TaskType /\ ManagerType /\ RowType /\ crashes \in 0..MaxCrashes

LEMMA TypeParts == TypeOK <=> Parts
  BY DEF TypeOK, Parts, TaskType, ManagerType, HandleRecord, RowType, WriteType, HasId

LEMMA TypePartsNext == TypeOK' <=> Parts'
  BY DEF TypeOK, Parts, TaskType, ManagerType, HandleRecord, RowType, WriteType, HasId

\* A handle changed to a typed one, Running only with its id
LEMMA HandleType ==
  ASSUME ManagerType, NEW j \in Jobs, NEW h \in HandleRecord, h.state = "Running" => h.id,
         handle' = [handle EXCEPT ![j] = h], tokens' \subseteq Jobs
  PROVE  ManagerType'
  BY DEF ManagerType

LEMMA NoHandleType == NoHandle \in HandleRecord /\ NoHandle.state = "none"
  BY DEF NoHandle, HandleRecord

LEMMA MarkType ==
  ASSUME ManagerType, NEW j \in Jobs, MarkStopped(j), UNCHANGED tokens
  PROVE  ManagerType'
<1> DEFINE h == [handle[j] EXCEPT !.state = "Stopped"]
<1>1. h \in HandleRecord /\ h.state = "Stopped"
  BY DEF ManagerType, HandleRecord
<1>2. CASE handle[j] = NoHandle
  BY <1>2 DEF MarkStopped, ManagerType
<1>3. CASE handle[j] # NoHandle
  <2>1. handle' = [handle EXCEPT ![j] = h]
    BY <1>3 DEF MarkStopped, ManagerType
  <2>. QED
    BY <1>1, <2>1, HandleType DEF ManagerType
<1>. QED
  BY <1>2, <1>3

LEMMA SpawnType ==
  ASSUME TypeOK, NEW w \in WriteType, Spawn(w)
  PROVE  RowType'
  BY TypeParts DEF Parts, Spawn, RowType

\* Killing leaves a typed container
LEMMA KillType ==
  ASSUME TaskType, NEW j \in Jobs, Kill(j)
  PROVE  container' \in [Jobs -> {"none", "created", "working", "kept", "reporting", "exited",
                                  "removed"}]
  BY DEF TaskType, Kill

\* The creation of a job and the wait for it, one step at a time
LEMMA CreatorType ==
  ASSUME TypeOK, NEW j \in Jobs, CreatorStep(j) \/ Drop(j)
  PROVE  TypeOK'
<1>. TaskType /\ ManagerType /\ RowType /\ crashes \in 0..MaxCrashes
  BY TypeParts DEF Parts
<1>1. ASSUME TaskType', ManagerType', RowType', UNCHANGED crashes PROVE TypeOK'
  BY <1>1, TypePartsNext DEF Parts
<1>2. CASE Create(j)
  <2>1. TaskType'
    BY <1>2 DEF Create, At, TaskType
  <2>. QED
    BY <1>1, <1>2, <2>1 DEF Create, ManagerType, RowType, managerVars, rowVars
<1>3. CASE Start(j)
  <2>1. TaskType'
    BY <1>3 DEF Start, At, TaskType
  <2>. QED
    BY <1>1, <1>3, <2>1 DEF Start, ManagerType, RowType, managerVars, rowVars
<1>4. CASE UndoForget(j)
  <2>1. TaskType'
    BY <1>4 DEF UndoForget, At, TaskType
  <2>2. ManagerType'
    BY <1>4, NoHandleType, HandleType DEF UndoForget, ManagerType
  <2>3. RowType'
    BY <1>4, SpawnType, WriteTypes DEF UndoForget, RowType, rowVars, Statuses, Reasons
  <2>. QED
    BY <1>1, <1>4, <2>1, <2>2, <2>3 DEF UndoForget
<1>5. CASE SetRunning(j)
  <2>1. TaskType'
    BY <1>5 DEF SetRunning, At, TaskType
  <2>2. ManagerType'
    <3> DEFINE h == [handle[j] EXCEPT !.state = "Running", !.id = TRUE]
    <3>1. h \in HandleRecord /\ h.state = "Running" /\ h.id
      BY DEF ManagerType, HandleRecord
    <3>2. handle' = handle \/ handle' = [handle EXCEPT ![j] = h]
      BY <1>5 DEF SetRunning, ManagerType, HandleRecord
    <3>3. tokens' = tokens
      BY <1>5 DEF SetRunning
    <3> HIDE DEF h
    <3>. QED
      BY <3>1, <3>2, <3>3, HandleType DEF ManagerType
  <2>. QED
    BY <1>1, <1>5, <2>1, <2>2 DEF SetRunning, RowType, rowVars
<1>6. CASE Started(j)
  <2>1. TaskType'
    BY <1>6 DEF Started, At, TaskType
  <2>2. RowType'
    BY <1>6, SpawnType, StoredType, WriteTypes DEF Started, RowType, Statuses, Reasons
  <2>. QED
    BY <1>1, <1>6, <2>1, <2>2 DEF Started, ManagerType, managerVars
<1>7. CASE PollStopped(j)
  <2>1. TaskType'
    BY <1>7 DEF PollStopped, At, TaskType
  <2>. QED
    BY <1>1, <1>7, <2>1 DEF PollStopped, ManagerType, RowType, managerVars, rowVars
<1>8. CASE Deadline(j)
  <2>1. TaskType'
    BY <1>8 DEF Deadline, At, TaskType
  <2>. QED
    BY <1>1, <1>8, <2>1 DEF Deadline, ManagerType, RowType, managerVars, rowVars
<1>9. CASE DeadlineKill(j)
  <2>1. TaskType'
    BY <1>9, KillType DEF DeadlineKill, At, TaskType
  <2>. QED
    BY <1>1, <1>9, <2>1 DEF DeadlineKill, ManagerType, RowType, managerVars, rowVars
<1>10. CASE DeadlineMark(j)
  <2>1. TaskType'
    BY <1>10 DEF DeadlineMark, At, TaskType
  <2>. QED
    BY <1>1, <1>10, <2>1, MarkType DEF DeadlineMark, RowType, rowVars
<1>11. CASE DeadlineRevoke(j)
  <2>1. TaskType'
    BY <1>11 DEF DeadlineRevoke, At, TaskType
  <2>. QED
    BY <1>1, <1>11, <2>1 DEF DeadlineRevoke, Revoke, ManagerType, RowType, rowVars
<1>12. CASE DeadlineCleanup(j)
  <2>1. TaskType'
    BY <1>12 DEF DeadlineCleanup, At, TaskType
  <2>2. ManagerType'
    BY <1>12, NoHandleType, HandleType DEF DeadlineCleanup, ManagerType
  <2>3. RowType'
    BY <1>12, SpawnType, WriteTypes DEF DeadlineCleanup, Statuses, Reasons
  <2>. QED
    BY <1>1, <1>12, <2>1, <2>2, <2>3 DEF DeadlineCleanup
<1>13. CASE Drop(j)
  <2>1. TaskType'
    BY <1>13 DEF Drop, At, TaskType
  <2>. QED
    BY <1>1, <1>13, <2>1 DEF Drop, ManagerType, RowType, managerVars, rowVars
<1>14. CASE PollCleanup(j)
  <2>1. TaskType'
    BY <1>14 DEF PollCleanup, At, TaskType
  <2>2. ManagerType'
    BY <1>14, NoHandleType, HandleType DEF PollCleanup, ManagerType
  <2>3. RowType'
    BY <1>14, SpawnType, WriteTypes DEF PollCleanup, Statuses, Reasons
  <2>. QED
    BY <1>1, <1>14, <2>1, <2>2, <2>3 DEF PollCleanup
<1>15. CASE CreateToken(j) \/ StoreGrants(j) \/ UndoRevoke(j)
  <2>1. TaskType'
    BY <1>15 DEF CreateToken, StoreGrants, UndoRevoke, At, TaskType
  <2>2. ManagerType'
    BY <1>15 DEF CreateToken, StoreGrants, UndoRevoke, ManagerType, managerVars
  <2>. QED
    BY <1>1, <1>15, <2>1, <2>2 DEF CreateToken, StoreGrants, UndoRevoke, RowType, rowVars
<1>16. CASE InsertHandle(j)
  <2>1. TaskType'
    BY <1>16 DEF InsertHandle, At, TaskType
  <2>2. ManagerType'
    <3> DEFINE h == [state |-> "Creating", id |-> FALSE, result |-> "none"]
    <3>1. h \in HandleRecord /\ h.state = "Creating"
      BY DEF HandleRecord
    <3>2. handle' = [handle EXCEPT ![j] = h] /\ tokens' = tokens
      BY <1>16 DEF InsertHandle
    <3> HIDE DEF h
    <3>. QED
      BY <3>1, <3>2, HandleType DEF ManagerType
  <2>. QED
    BY <1>1, <1>16, <2>1, <2>2 DEF InsertHandle, RowType, rowVars
<1>. QED
  BY <1>2, <1>3, <1>4, <1>5, <1>6, <1>7, <1>8, <1>9, <1>10, <1>11, <1>12, <1>13,
     <1>14, <1>15, <1>16
     DEF CreatorStep

\* The worker and the handler of its report
LEMMA WorkerType ==
  ASSUME TypeOK, NEW j \in Jobs,
         Report(j) \/ Dies(j) \/ ReportStep(j) \/ ReportDrops(j) \/ Exit(j)
  PROVE  TypeOK'
<1>. TaskType /\ ManagerType /\ RowType /\ crashes \in 0..MaxCrashes
  BY TypeParts DEF Parts
<1>1. ASSUME TaskType', ManagerType', RowType', UNCHANGED crashes PROVE TypeOK'
  BY <1>1, TypePartsNext DEF Parts
<1>2. CASE Report(j)
  <2>1. TaskType'
    BY <1>2 DEF Report, TaskType
  <2>. QED
    BY <1>1, <1>2, <2>1 DEF Report, ManagerType, RowType, managerVars, rowVars
<1>3. CASE Dies(j) \/ Exit(j)
  <2>1. TaskType'
    BY <1>3 DEF Dies, Exit, TaskType, taskVars
  <2>. QED
    BY <1>1, <1>3, <2>1 DEF Dies, Exit, ManagerType, RowType, managerVars, rowVars
<1>4. CASE StoreResult(j)
  <2>1. TaskType'
    BY <1>4 DEF StoreResult, TaskType
  <2>2. ManagerType'
    <3> DEFINE h == [handle[j] EXCEPT !.state = "Stopped", !.result = outcome[j]]
    <3>1. h \in HandleRecord /\ h.state = "Stopped"
      BY DEF ManagerType, HandleRecord, TaskType
    <3>2. handle' = handle \/ handle' = [handle EXCEPT ![j] = h]
      BY <1>4 DEF StoreResult, ManagerType, HandleRecord
    <3>3. tokens' = tokens
      BY <1>4 DEF StoreResult
    <3> HIDE DEF h
    <3>. QED
      BY <3>1, <3>2, <3>3, HandleType DEF ManagerType
  <2>. QED
    BY <1>1, <1>4, <2>1, <2>2 DEF StoreResult, RowType, rowVars
<1>5. CASE ReadId(j)
  <2>1. TaskType'
    BY <1>5 DEF ReadId, TaskType
  <2>. QED
    BY <1>1, <1>5, <2>1 DEF ReadId, ManagerType, RowType, managerVars, rowVars
<1>6. CASE ReportKill(j)
  <2>1. TaskType'
    BY <1>6, KillType DEF ReportKill, TaskType
  <2>. QED
    BY <1>1, <1>6, <2>1 DEF ReportKill, ManagerType, RowType, managerVars, rowVars
<1>7. CASE ReportRevoke(j)
  <2>1. TaskType'
    BY <1>7 DEF ReportRevoke, TaskType
  <2>. QED
    BY <1>1, <1>7, <2>1 DEF ReportRevoke, Revoke, ManagerType, RowType, rowVars
<1>8. CASE ReportDrops(j)
  <2>1. TaskType'
    BY <1>8 DEF ReportDrops, TaskType
  <2>. QED
    BY <1>1, <1>8, <2>1 DEF ReportDrops, ManagerType, RowType, managerVars, rowVars
<1>. QED
  BY <1>2, <1>3, <1>4, <1>5, <1>6, <1>7, <1>8 DEF ReportStep

\* The cancellation
LEMMA CancelType ==
  ASSUME TypeOK, NEW j \in Jobs, CancelBegins(j) \/ CancelStep(j) \/ CancelDrops(j)
  PROVE  TypeOK'
<1>. TaskType /\ ManagerType /\ RowType /\ crashes \in 0..MaxCrashes
  BY TypeParts DEF Parts
<1>1. ASSUME TaskType', ManagerType', RowType', UNCHANGED crashes PROVE TypeOK'
  BY <1>1, TypePartsNext DEF Parts
<1>2. CASE CancelBegins(j)
  <2>1. TaskType'
    BY <1>2 DEF CancelBegins, CancelAt, TaskType
  <2>. QED
    BY <1>1, <1>2, <2>1 DEF CancelBegins, ManagerType, RowType, managerVars, rowVars
<1>3. CASE CancelStop(j)
  <2>1. TaskType'
    BY <1>3 DEF CancelStop, CancelAt, TaskType
  <2>. QED
    BY <1>1, <1>3, <2>1 DEF CancelStop, ManagerType, RowType, managerVars, rowVars
<1>4. CASE CancelKill(j)
  <2>1. TaskType'
    BY <1>4, KillType DEF CancelKill, CancelAt, TaskType
  <2>. QED
    BY <1>1, <1>4, <2>1 DEF CancelKill, ManagerType, RowType, managerVars, rowVars
<1>5. CASE CancelMark(j)
  <2>1. TaskType'
    BY <1>5 DEF CancelMark, CancelAt, TaskType
  <2>. QED
    BY <1>1, <1>5, <2>1, MarkType DEF CancelMark, RowType, rowVars
<1>6. CASE CancelRevoke(j)
  <2>1. TaskType'
    BY <1>6 DEF CancelRevoke, CancelAt, TaskType
  <2>. QED
    BY <1>1, <1>6, <2>1 DEF CancelRevoke, Revoke, ManagerType, RowType, rowVars
<1>7. CASE CancelWrite(j)
  <2>1. TaskType'
    BY <1>7 DEF CancelWrite, CancelAt, TaskType
  <2>2. RowType'
    BY <1>7, StoredType, WriteTypes DEF CancelWrite, RowType, Statuses, Reasons
  <2>. QED
    BY <1>1, <1>7, <2>1, <2>2 DEF CancelWrite, ManagerType, managerVars
<1>8. CASE CancelDrops(j)
  <2>1. TaskType'
    BY <1>8, KillType DEF CancelDrops, CancelAt, TaskType
  <2>. QED
    BY <1>1, <1>8, <2>1 DEF CancelDrops, ManagerType, RowType, managerVars, rowVars
<1>. QED
  BY <1>2, <1>3, <1>4, <1>5, <1>6, <1>7, <1>8 DEF CancelStep

\* A job begins in the same way by the tool and by a restart
LEMMA BeginType ==
  ASSUME TypeOK, NEW j \in Jobs, NEW m \in {"wait", "nowait", "restart"}, Begin(j, m), RowType'
  PROVE  TypeOK'
<1>. TaskType /\ ManagerType /\ RowType /\ crashes \in 0..MaxCrashes
  BY TypeParts DEF Parts
<1>1. TaskType'
  BY DEF Begin, At, TaskType
<1>2. ManagerType'
  BY DEF Begin, ManagerType, managerVars
<1>. QED
  BY <1>1, <1>2, TypePartsNext DEF Begin, Parts

LEMMA TypeStep == TypeOK /\ [Next]_vars => TypeOK'
<1> SUFFICES ASSUME TypeOK, [Next]_vars PROVE TypeOK'
  OBVIOUS
<1>. TaskType /\ ManagerType /\ RowType /\ crashes \in 0..MaxCrashes
  BY TypeParts DEF Parts
<1>1. ASSUME NEW j \in Jobs, NEW m \in {"wait", "nowait"}, ToolBegins(j, m) PROVE TypeOK'
  <2>1. RowType'
    BY <1>1, SpawnType, WriteTypes DEF ToolBegins
  <2>. QED
    BY <1>1, <2>1, BeginType DEF ToolBegins
<1>2. ASSUME NEW j \in Jobs, NEW old \in Jobs, RestartBegins(old, j) PROVE TypeOK'
  <2>1. RowType'
    BY <1>2, StoredType, WriteTypes DEF RestartBegins, RowType
  <2>. QED
    BY <1>2, <2>1, BeginType DEF RestartBegins
<1>3. ASSUME NEW w \in writes, Write(w) PROVE TypeOK'
  <2>1. TaskType' /\ ManagerType' /\ crashes' = crashes
    BY <1>3 DEF Write, TaskType, ManagerType, taskVars, managerVars
  <2>2. RowType'
    BY <1>3, StoredType DEF Write, RowType
  <2>. QED
    BY <2>1, <2>2, TypePartsNext DEF Parts
<1>4. CASE Crash
  <2>1. TaskType'
    BY <1>4 DEF Crash, TaskType
  <2>2. ManagerType'
    BY <1>4, NoHandleType DEF Crash, ManagerType
  <2>3. RowType'
    BY <1>4 DEF Crash, RowType, Interrupted, Statuses, Reasons
  <2>4. crashes' \in 0..MaxCrashes
    BY <1>4, CrashesAssumption DEF Crash
  <2>. QED
    BY <2>1, <2>2, <2>3, <2>4, TypePartsNext DEF Parts
<1>5. CASE UNCHANGED vars
  BY <1>5 DEF vars, taskVars, managerVars, rowVars, TypeOK, HasId
<1>. QED
  BY <1>1, <1>2, <1>3, <1>4, <1>5, CreatorType, WorkerType, CancelType DEF Next

\* Every reachable state is well typed, and a Running handle can be stopped.
THEOREM TypeCorrect == Spec => []TypeOK
<1>1. Init => TypeOK
  <2>1. Init => TaskType
    BY DEF Init, TaskType
  <2>2. Init => ManagerType
    BY NoHandleType DEF Init, ManagerType
  <2>3. Init => RowType
    BY DEF Init, RowType, Interrupted, NoRow, Statuses, Reasons
  <2>4. Init => crashes \in 0..MaxCrashes
    BY CrashesAssumption DEF Init
  <2>. QED
    BY <2>1, <2>2, <2>3, <2>4, TypeParts DEF Parts
<1>. QED
  BY <1>1, TypeStep, PTL DEF Spec
-----------------------------------------------------------------------------
(* Tokens *)

\* The tool or the restart handler has inserted the handle and is not done with it
Begun == {"create", "start", "update", "undo", "forget", "started", "poll", "success",
          "failure", "kill", "mark", "revoke", "cleanup"}

\* The container has not been started
Unstarted == {"none", "token", "grants", "insert", "create", "start"}

\* Who is left to revoke the job's token
Owned(j) ==
  \/ creator[j] \in Creating \cup {"revoke"}
  \/ handle[j].state = "Running"
  \/ report[j] \in {"read", "kill", "revoke"}
  \/ cancel[j] = "revoke"
  \/ creator[j] = "abandoned" \/ j \in dropped

\* What the places of the tasks tell of the handle, the token and the container.
\* Only its creator removes a handle; before it does so for a stopped job,
\* whoever stopped it is about to revoke the token.
TokenAt(j) ==
  /\ creator[j] \in Begun => handle[j].state # "none"
  /\ creator[j] \in {"started", "poll", "kill", "mark", "revoke"} => handle[j].id
  /\ creator[j] \in {"success", "failure"} => handle[j].state = "Stopped"
  /\ creator[j] \in {"cleanup", "forget"} => j \notin tokens
  /\ handle[j].id => creator[j] \notin Unstarted \cup {"update", "undo", "forget"}
  /\ cancel[j] \in {"kill", "mark"} => creator[j] \notin Unstarted
  /\ creator[j] \in Unstarted => container[j] \in {"none", "created"}
  /\ container[j] \in {"none", "created", "working", "kept"} => report[j] = "none"
  /\ j \in tokens => Owned(j)

TokenInv == \A j \in Jobs : TokenAt(j)

\* Each task keeps what is said of its own place, and of the others'.
LEMMA CreatorToken ==
  ASSUME TypeOK, TokenInv, NEW j \in Jobs, CreatorStep(j) \/ Drop(j)
  PROVE  TokenInv'
<1> USE DEF TokenInv, TokenAt, Owned, Creating, Begun, Unstarted
<1>. TaskType /\ ManagerType
  BY TypeParts DEF Parts
<1>1. CASE Create(j)
  BY <1>1 DEF Create, At, managerVars, TaskType, ManagerType, HandleRecord
<1>2. CASE Start(j)
  BY <1>2 DEF Start, At, managerVars, TaskType, ManagerType, HandleRecord
<1>3. CASE UndoRevoke(j) \/ UndoForget(j)
  BY <1>3 DEF UndoRevoke, UndoForget, At, NoHandle, TaskType, ManagerType, HandleRecord
<1>4. CASE SetRunning(j)
  <2>1. handle[j] # NoHandle
    BY <1>4 DEF SetRunning, NoHandle
  <2>. QED
    BY <1>4, <2>1 DEF SetRunning, At, TaskType, ManagerType, HandleRecord
<1>5. CASE Started(j)
  BY <1>5 DEF Started, At, managerVars, TaskType, ManagerType, HandleRecord
<1>6. CASE PollStopped(j)
  BY <1>6 DEF PollStopped, At, managerVars, TaskType, ManagerType, HandleRecord
<1>7. CASE Deadline(j)
  BY <1>7 DEF Deadline, At, HasId, managerVars, TaskType, ManagerType, HandleRecord
<1>8. CASE DeadlineKill(j)
  BY <1>8 DEF DeadlineKill, At, Kill, managerVars, TaskType, ManagerType, HandleRecord
<1>9. CASE DeadlineMark(j)
  BY <1>9 DEF DeadlineMark, At, MarkStopped, TaskType, ManagerType, HandleRecord
<1>10. CASE DeadlineRevoke(j)
  BY <1>10 DEF DeadlineRevoke, At, Revoke, TaskType, ManagerType, HandleRecord
<1>11. CASE DeadlineCleanup(j)
  BY <1>11 DEF DeadlineCleanup, At, NoHandle, TaskType, ManagerType, HandleRecord
<1>12. CASE Drop(j)
  BY <1>12 DEF Drop, At, managerVars, TaskType, ManagerType, HandleRecord
<1>13. CASE PollCleanup(j)
  BY <1>13 DEF PollCleanup, At, NoHandle, TaskType, ManagerType, HandleRecord
<1>14. CASE CreateToken(j)
  BY <1>14 DEF CreateToken, At, TaskType, ManagerType, HandleRecord
<1>15. CASE StoreGrants(j)
  BY <1>15 DEF StoreGrants, At, managerVars, TaskType, ManagerType, HandleRecord
<1>16. CASE InsertHandle(j)
  BY <1>16 DEF InsertHandle, At, TaskType, ManagerType, HandleRecord
<1>. QED
  BY <1>1, <1>2, <1>3, <1>4, <1>5, <1>6, <1>7, <1>8, <1>9, <1>10, <1>11, <1>12,
     <1>13, <1>14, <1>15, <1>16
     DEF CreatorStep

LEMMA WorkerToken ==
  ASSUME TypeOK, TokenInv, NEW j \in Jobs,
         Report(j) \/ Dies(j) \/ ReportStep(j) \/ ReportDrops(j) \/ Exit(j)
  PROVE  TokenInv'
<1> USE DEF TokenInv, TokenAt, Owned, Creating, Begun, Unstarted
<1>. TaskType /\ ManagerType
  BY TypeParts DEF Parts
<1>1. CASE Report(j)
  BY <1>1 DEF Report, Working, managerVars, TaskType, ManagerType, HandleRecord
<1>2. CASE Dies(j)
  BY <1>2 DEF Dies, Working, taskVars, managerVars, TaskType, ManagerType, HandleRecord
<1>3. CASE Exit(j)
  BY <1>3 DEF Exit, taskVars, managerVars, TaskType, ManagerType, HandleRecord
<1>4. CASE StoreResult(j)
  BY <1>4 DEF StoreResult, TaskType, ManagerType, HandleRecord
<1>5. CASE ReadId(j)
  BY <1>5 DEF ReadId, HasId, managerVars, TaskType, ManagerType, HandleRecord
<1>6. CASE ReportKill(j)
  BY <1>6 DEF ReportKill, Kill, managerVars, TaskType, ManagerType, HandleRecord
<1>7. CASE ReportRevoke(j)
  BY <1>7 DEF ReportRevoke, Revoke, TaskType, ManagerType, HandleRecord
<1>8. CASE ReportDrops(j)
  BY <1>8 DEF ReportDrops, managerVars, TaskType, ManagerType, HandleRecord
<1>. QED
  BY <1>1, <1>2, <1>3, <1>4, <1>5, <1>6, <1>7, <1>8 DEF ReportStep

LEMMA CancelToken ==
  ASSUME TypeOK, TokenInv, NEW j \in Jobs, CancelBegins(j) \/ CancelStep(j) \/ CancelDrops(j)
  PROVE  TokenInv'
<1> USE DEF TokenInv, TokenAt, Owned, Creating, Begun, Unstarted
<1>. TaskType /\ ManagerType
  BY TypeParts DEF Parts
<1>1. CASE CancelBegins(j)
  BY <1>1 DEF CancelBegins, CancelAt, managerVars, TaskType, ManagerType, HandleRecord
<1>2. CASE CancelStop(j)
  BY <1>2 DEF CancelStop, CancelAt, HasId, managerVars, TaskType, ManagerType, HandleRecord
<1>3. CASE CancelKill(j)
  BY <1>3 DEF CancelKill, CancelAt, Kill, managerVars, TaskType, ManagerType, HandleRecord
<1>4. CASE CancelMark(j)
  BY <1>4 DEF CancelMark, CancelAt, MarkStopped, TaskType, ManagerType, HandleRecord
<1>5. CASE CancelRevoke(j)
  BY <1>5 DEF CancelRevoke, CancelAt, Revoke, TaskType, ManagerType, HandleRecord
<1>6. CASE CancelWrite(j)
  BY <1>6 DEF CancelWrite, CancelAt, managerVars, TaskType, ManagerType, HandleRecord
<1>7. CASE CancelDrops(j)
  BY <1>7 DEF CancelDrops, CancelAt, Kill, managerVars, TaskType, ManagerType, HandleRecord
<1>. QED
  BY <1>1, <1>2, <1>3, <1>4, <1>5, <1>6, <1>7 DEF CancelStep

LEMMA TokenStep == TypeOK /\ TokenInv /\ [Next]_vars => TokenInv'
<1> SUFFICES ASSUME TypeOK, TokenInv, [Next]_vars PROVE TokenInv'
  OBVIOUS
<1> USE DEF TokenInv, TokenAt, Owned, Creating, Begun, Unstarted
<1>. TaskType /\ ManagerType
  BY TypeParts DEF Parts
<1>1. ASSUME NEW j \in Jobs, NEW m, Begin(j, m) PROVE TokenInv'
  BY <1>1 DEF Begin, At, managerVars, TaskType, ManagerType, HandleRecord
<1>2. ASSUME NEW w \in writes, Write(w) PROVE TokenInv'
  BY <1>2 DEF Write, taskVars, managerVars
<1>3. CASE Crash
  BY <1>3 DEF Crash, TaskType, NoHandle
<1>4. CASE UNCHANGED vars
  BY <1>4 DEF vars, taskVars, managerVars
<1>. QED
  BY <1>1, <1>2, <1>3, <1>4, CreatorToken, WorkerToken, CancelToken
     DEF Next, ToolBegins, RestartBegins

LEMMA TokenCorrect == Spec => [](TypeOK /\ TokenInv)
<1>1. ASSUME Init PROVE TokenInv
  <2>1. SUFFICES ASSUME NEW j \in Jobs PROVE TokenAt(j)
    BY DEF TokenInv
  <2>2. /\ creator[j] \in {"none", "dropped"} /\ container[j] = "none"
        /\ handle[j] = NoHandle /\ report[j] = "none" /\ cancel[j] = "none" /\ tokens = {}
    BY <1>1 DEF Init
  <2>3. handle[j].state = "none" /\ ~ handle[j].id
    BY <2>2 DEF NoHandle
  <2>. QED
    BY <2>2, <2>3 DEF TokenAt, Begun, Unstarted
<1>. QED
  BY <1>1, TypeCorrect, TokenStep, PTL DEF Spec

\* However the creation, the report, the cancellation, the deadline, dropped calls
\* and crashes come together: a token has create_job at work, a handle that can be
\* stopped or a task about to revoke it, or its creation was dropped, or a task
\* between marking the handle Stopped and revoking.
THEOREM TokenHasOwnerCorrect == Spec => []TokenHasOwner
<1>1. TypeOK /\ TokenInv => TokenHasOwner
  BY DEF TypeOK, TokenInv, TokenAt, Owned, TokenHasOwner
<1>. QED
  BY <1>1, TokenCorrect, PTL

-----------------------------------------------------------------------------
(* Completed rows *)

\* The worker has been started and is no longer at work, and never will be again
Over(j) == container[j] # "working" /\ creator[j] \notin Unstarted

\* A handle is stopped, or about to be, only when the job is over
OverAt(j) ==
  /\ cancel[j] = "mark" \/ creator[j] = "mark" => Over(j)
  /\ handle[j].state = "Stopped" => Over(j)

HandlesOver == \A j \in Jobs : OverAt(j)

\* and a row or a write says completed only then
RowsOver ==
  /\ \A j \in Jobs : row[j].status = "completed" => Over(j)
  /\ \A w \in writes : w.status = "completed" => Over(w.job)

\* What is over stays so.
LEMMA StaysOver ==
  ASSUME TypeOK, TokenInv, [Next]_vars, NEW j \in Jobs, Over(j)
  PROVE  Over(j)'
<1>. TaskType
  BY TypeParts DEF Parts
<1> USE DEF Over, Unstarted
<1>1. ASSUME NEW k \in Jobs, NEW m, Begin(k, m) PROVE Over(j)'
  BY <1>1 DEF Begin, At, TaskType
<1>2. ASSUME NEW k \in Jobs, CreatorStep(k) PROVE Over(j)'
  <2>1. CASE Create(k) \/ Start(k)
    BY <2>1 DEF Create, Start, At, TaskType
  <2>2. CASE \/ UndoRevoke(k) \/ UndoForget(k) \/ SetRunning(k) \/ Started(k) \/ PollStopped(k)
            \/ PollCleanup(k) \/ Deadline(k)
    BY <2>2 DEF UndoRevoke, UndoForget, SetRunning, Started, PollStopped, PollCleanup, Deadline,
                At, TaskType
  <2>3. CASE DeadlineKill(k)
    BY <2>3 DEF DeadlineKill, Kill, At, TaskType
  <2>4. CASE DeadlineMark(k) \/ DeadlineRevoke(k) \/ DeadlineCleanup(k)
    BY <2>4 DEF DeadlineMark, DeadlineRevoke, DeadlineCleanup, At, TaskType
  <2>5. CASE CreateToken(k) \/ StoreGrants(k) \/ InsertHandle(k)
    BY <2>5 DEF CreateToken, StoreGrants, InsertHandle, At, TaskType
  <2>. QED
    BY <1>2, <2>1, <2>2, <2>3, <2>4, <2>5 DEF CreatorStep
<1>3. ASSUME NEW k \in Jobs, Drop(k) PROVE Over(j)'
  BY <1>3 DEF Drop, At, TaskType
<1>4. ASSUME NEW k \in Jobs, Report(k) \/ Dies(k) \/ ReportStep(k) \/ ReportDrops(k) \/ Exit(k)
      PROVE  Over(j)'
  BY <1>4 DEF Report, Dies, ReportStep, StoreResult, ReadId, ReportKill, ReportRevoke,
              ReportDrops, Exit, Kill, TaskType, taskVars
<1>5. ASSUME NEW k \in Jobs, CancelBegins(k) \/ CancelStep(k) \/ CancelDrops(k) PROVE Over(j)'
  BY <1>5 DEF CancelBegins, CancelStep, CancelStop, CancelKill, CancelMark, CancelRevoke,
              CancelWrite, CancelDrops, Kill, TaskType
<1>6. ASSUME NEW w \in writes, Write(w) PROVE Over(j)'
  BY <1>6 DEF Write, taskVars
<1>7. CASE Crash
  BY <1>7 DEF Crash, TaskType
<1>8. CASE UNCHANGED vars
  BY <1>8 DEF vars, taskVars
<1>. QED
  BY <1>1, <1>2, <1>3, <1>4, <1>5, <1>6, <1>7, <1>8 DEF Next, ToolBegins, RestartBegins

\* The tool and the restart handler stop a handle after its container.
LEMMA CreatorOver ==
  ASSUME TypeOK, TokenInv, HandlesOver, NEW j \in Jobs, CreatorStep(j) \/ Drop(j)
  PROVE  HandlesOver'
<1> USE DEF TokenInv, TokenAt, Owned, Creating, HandlesOver, OverAt, Over, Begun, Unstarted
<1>. TaskType /\ ManagerType
  BY TypeParts DEF Parts
<1>1. CASE Create(j)
  BY <1>1 DEF Create, At, managerVars, TaskType, ManagerType, HandleRecord
<1>2. CASE Start(j)
  BY <1>2 DEF Start, At, managerVars, TaskType, ManagerType, HandleRecord
<1>3. CASE UndoRevoke(j) \/ UndoForget(j)
  BY <1>3 DEF UndoRevoke, UndoForget, At, NoHandle, TaskType, ManagerType, HandleRecord
<1>4. CASE SetRunning(j)
  BY <1>4 DEF SetRunning, At, TaskType, ManagerType, HandleRecord
<1>5. CASE Started(j)
  BY <1>5 DEF Started, At, managerVars, TaskType, ManagerType, HandleRecord
<1>6. CASE PollStopped(j)
  BY <1>6 DEF PollStopped, At, managerVars, TaskType, ManagerType, HandleRecord
<1>7. CASE Deadline(j)
  BY <1>7 DEF Deadline, At, managerVars, TaskType, ManagerType, HandleRecord
<1>8. CASE DeadlineKill(j)
  BY <1>8 DEF DeadlineKill, At, Kill, managerVars, TaskType, ManagerType, HandleRecord
<1>9. CASE DeadlineMark(j)
  BY <1>9 DEF DeadlineMark, At, MarkStopped, TaskType, ManagerType, HandleRecord
<1>10. CASE DeadlineRevoke(j)
  BY <1>10 DEF DeadlineRevoke, At, TaskType, ManagerType, HandleRecord
<1>11. CASE DeadlineCleanup(j)
  BY <1>11 DEF DeadlineCleanup, At, NoHandle, TaskType, ManagerType, HandleRecord
<1>12. CASE Drop(j)
  BY <1>12 DEF Drop, At, managerVars, TaskType, ManagerType, HandleRecord
<1>13. CASE PollCleanup(j)
  BY <1>13 DEF PollCleanup, At, NoHandle, TaskType, ManagerType, HandleRecord
<1>14. CASE CreateToken(j)
  BY <1>14 DEF CreateToken, At, TaskType, ManagerType, HandleRecord
<1>15. CASE StoreGrants(j)
  BY <1>15 DEF StoreGrants, At, managerVars, TaskType, ManagerType, HandleRecord
<1>16. CASE InsertHandle(j)
  BY <1>16 DEF InsertHandle, At, TaskType, ManagerType, HandleRecord
<1>. QED
  BY <1>1, <1>2, <1>3, <1>4, <1>5, <1>6, <1>7, <1>8, <1>9, <1>10, <1>11, <1>12,
     <1>13, <1>14, <1>15, <1>16
     DEF CreatorStep

\* A job that has reported is over.
LEMMA WorkerOver ==
  ASSUME TypeOK, TokenInv, HandlesOver, NEW j \in Jobs,
         Report(j) \/ Dies(j) \/ ReportStep(j) \/ ReportDrops(j) \/ Exit(j)
  PROVE  HandlesOver'
<1> USE DEF TokenInv, TokenAt, Owned, Creating, HandlesOver, OverAt, Over, Begun, Unstarted
<1>. TaskType /\ ManagerType
  BY TypeParts DEF Parts
<1>1. CASE Report(j)
  BY <1>1 DEF Report, managerVars, TaskType, ManagerType, HandleRecord
<1>2. CASE Dies(j)
  BY <1>2 DEF Dies, taskVars, managerVars, TaskType, ManagerType, HandleRecord
<1>3. CASE Exit(j)
  BY <1>3 DEF Exit, taskVars, managerVars, TaskType, ManagerType, HandleRecord
<1>4. CASE StoreResult(j)
  BY <1>4 DEF StoreResult, TaskType, ManagerType, HandleRecord
<1>5. CASE ReadId(j)
  BY <1>5 DEF ReadId, managerVars, TaskType, ManagerType, HandleRecord
<1>6. CASE ReportKill(j)
  BY <1>6 DEF ReportKill, Kill, managerVars, TaskType, ManagerType, HandleRecord
<1>7. CASE ReportRevoke(j)
  BY <1>7 DEF ReportRevoke, TaskType, ManagerType, HandleRecord
<1>8. CASE ReportDrops(j)
  BY <1>8 DEF ReportDrops, managerVars, TaskType, ManagerType, HandleRecord
<1>. QED
  BY <1>1, <1>2, <1>3, <1>4, <1>5, <1>6, <1>7, <1>8 DEF ReportStep

\* So does the cancellation.
LEMMA CancelOver ==
  ASSUME TypeOK, TokenInv, HandlesOver, NEW j \in Jobs,
         CancelBegins(j) \/ CancelStep(j) \/ CancelDrops(j)
  PROVE  HandlesOver'
<1> USE DEF TokenInv, TokenAt, Owned, Creating, HandlesOver, OverAt, Over, Begun, Unstarted
<1>. TaskType /\ ManagerType
  BY TypeParts DEF Parts
<1>1. CASE CancelBegins(j)
  BY <1>1 DEF CancelBegins, CancelAt, managerVars, TaskType, ManagerType, HandleRecord
<1>2. CASE CancelStop(j)
  BY <1>2 DEF CancelStop, CancelAt, managerVars, TaskType, ManagerType, HandleRecord
<1>3. CASE CancelKill(j)
  BY <1>3 DEF CancelKill, CancelAt, Kill, managerVars, TaskType, ManagerType, HandleRecord
<1>4. CASE CancelMark(j)
  BY <1>4 DEF CancelMark, CancelAt, MarkStopped, TaskType, ManagerType, HandleRecord
<1>5. CASE CancelRevoke(j)
  BY <1>5 DEF CancelRevoke, CancelAt, TaskType, ManagerType, HandleRecord
<1>6. CASE CancelWrite(j)
  BY <1>6 DEF CancelWrite, CancelAt, managerVars, TaskType, ManagerType, HandleRecord
<1>7. CASE CancelDrops(j)
  BY <1>7 DEF CancelDrops, CancelAt, Kill, managerVars, TaskType, ManagerType, HandleRecord
<1>. QED
  BY <1>1, <1>2, <1>3, <1>4, <1>5, <1>6, <1>7 DEF CancelStep

LEMMA HandlesStep == TypeOK /\ TokenInv /\ HandlesOver /\ [Next]_vars => HandlesOver'
<1> SUFFICES ASSUME TypeOK, TokenInv, HandlesOver, [Next]_vars PROVE HandlesOver'
  OBVIOUS
<1> USE DEF TokenInv, TokenAt, Owned, Creating, HandlesOver, OverAt, Over, Begun, Unstarted
<1>. TaskType /\ ManagerType
  BY TypeParts DEF Parts
<1>1. ASSUME NEW j \in Jobs, NEW m, Begin(j, m) PROVE HandlesOver'
  BY <1>1 DEF Begin, At, managerVars, TaskType, ManagerType, HandleRecord
<1>2. ASSUME NEW w \in writes, Write(w) PROVE HandlesOver'
  BY <1>2 DEF Write, taskVars, managerVars
<1>3. CASE Crash
  BY <1>3 DEF Crash, TaskType, NoHandle
<1>4. CASE UNCHANGED vars
  BY <1>4 DEF vars, taskVars, managerVars
<1>. QED
  BY <1>1, <1>2, <1>3, <1>4, CreatorOver, WorkerOver, CancelOver
     DEF Next, ToolBegins, RestartBegins

\* A stored write makes no other row completed, and its own only if it says so.
LEMMA StoredCompleted ==
  ASSUME TypeOK, NEW w \in WriteType, NEW j \in Jobs, Stored(w)[j].status = "completed"
  PROVE  row[j].status = "completed" \/ (w.job = j /\ w.status = "completed")
  BY DEF TypeOK, Stored, WriteType

\* A row becomes completed by a write, and the only such write is spawned by
\* the tool that has found the handle stopped.
LEMMA CompletedCases ==
  ASSUME TypeOK, TokenInv, [Next]_vars
  PROVE  /\ \A j \in Jobs : row'[j].status = "completed" =>
              \/ row[j].status = "completed"
              \/ \E w \in writes : w.job = j /\ w.status = "completed"
         /\ \A w \in writes' : w.status = "completed" =>
              w \in writes \/ handle[w.job].state = "Stopped"
<1>. RowType
  BY TypeParts DEF Parts
<1>1. CASE UNCHANGED rowVars
  BY <1>1 DEF rowVars
<1>2. ASSUME NEW w \in WriteType, w.status # "completed",
             Spawn(w) \/ (row' \in {Stored(w), row} /\ UNCHANGED writes)
      PROVE  /\ \A j \in Jobs : row'[j].status = "completed" => row[j].status = "completed"
             /\ \A v \in writes' : v.status = "completed" => v \in writes
  BY <1>2, StoredCompleted DEF Spawn
<1>3. ASSUME NEW w \in writes, Write(w)
      PROVE  /\ \A j \in Jobs : row'[j].status = "completed" =>
                  row[j].status = "completed" \/ (w.job = j /\ w.status = "completed")
             /\ writes' \subseteq writes
  BY <1>3, StoredCompleted DEF Write, RowType
<1>4. ASSUME NEW j \in Jobs, CreatorStep(j), ~ UNCHANGED rowVars, ~ PollCleanup(j)
      PROVE  \E w \in WriteType : /\ w.status # "completed"
                                  /\ Spawn(w) \/ (row' \in {Stored(w), row} /\ UNCHANGED writes)
  <2>1. UndoForget(j) \/ Started(j) \/ DeadlineCleanup(j)
    BY <1>4 DEF CreatorStep, CreateToken, StoreGrants, InsertHandle, UndoRevoke,
                Create, Start, SetRunning, PollStopped, Deadline, DeadlineKill, DeadlineMark,
                DeadlineRevoke
  <2>2. CASE UndoForget(j) \/ DeadlineCleanup(j)
    <3>1. Spawn(Update(j, "failed", "error"))
      BY <1>4, <2>2 DEF UndoForget, DeadlineCleanup
    <3>. QED
      BY <3>1, WriteTypes DEF Update, Statuses, Reasons
  <2>3. CASE Started(j)
    BY <2>3, WriteTypes DEF Started, Update, Statuses, Reasons
  <2>. QED
    BY <2>1, <2>2, <2>3
<1>5. ASSUME NEW j \in Jobs, PollCleanup(j)
      PROVE  /\ row' = row
             /\ \A w \in writes' : w \in writes \/ (w.job = j /\ handle[j].state = "Stopped")
  <2>1. handle[j].state = "Stopped"
    BY <1>5 DEF PollCleanup, TokenInv, TokenAt
  <2>. QED
    BY <1>5, <2>1 DEF PollCleanup, Spawn, Update
<1>6. ASSUME NEW j \in Jobs, NEW m, ToolBegins(j, m)
      PROVE  \E w \in WriteType : w.status # "completed" /\ Spawn(w)
  BY <1>6, WriteTypes DEF ToolBegins, Save
<1>7. ASSUME NEW j \in Jobs, NEW old, RestartBegins(old, j)
      PROVE  \E w \in WriteType : w.status # "completed" /\ row' = Stored(w) /\ UNCHANGED writes
  BY <1>7, WriteTypes DEF RestartBegins, Save
<1>8. ASSUME NEW j \in Jobs, CancelWrite(j)
      PROVE  \E w \in WriteType : /\ w.status # "completed"
                                  /\ row' \in {Stored(w), row} /\ UNCHANGED writes
  BY <1>8, WriteTypes DEF CancelWrite, Update, Statuses, Reasons
<1>9. CASE Crash
  BY <1>9 DEF Crash, RowType, Interrupted
<1>10. ASSUME NEW j \in Jobs,
              \/ Drop(j) \/ Report(j) \/ Dies(j) \/ ReportStep(j) \/ ReportDrops(j) \/ Exit(j)
              \/ CancelBegins(j) \/ CancelDrops(j)
              \/ CancelStep(j) /\ ~ CancelWrite(j)
       PROVE  UNCHANGED rowVars
  BY <1>10 DEF Drop, Report, Dies, ReportStep, StoreResult, ReadId, ReportKill, ReportRevoke,
               ReportDrops, Exit, CancelBegins, CancelStep, CancelStop, CancelKill, CancelMark,
               CancelRevoke, CancelDrops
<1>11. UNCHANGED vars => UNCHANGED rowVars
  BY DEF vars
<1>. QED
  BY <1>1, <1>2, <1>3, <1>4, <1>5, <1>6, <1>7, <1>8, <1>9, <1>10, <1>11 DEF Next

LEMMA OverCorrect == Spec => [](TypeOK /\ TokenInv /\ HandlesOver /\ RowsOver)
<1>1. Init => HandlesOver /\ RowsOver
  <2> SUFFICES ASSUME Init PROVE HandlesOver /\ RowsOver
    OBVIOUS
  <2>1. \A j \in Jobs : /\ creator[j] # "mark" /\ cancel[j] # "mark"
                        /\ handle[j].state = "none" /\ row[j].status # "completed"
    BY DEF Init, NoHandle, NoRow, Interrupted
  <2>2. writes = {}
    BY DEF Init
  <2>. QED
    BY <2>1, <2>2 DEF HandlesOver, OverAt, RowsOver
<1>2. TypeOK /\ TokenInv /\ HandlesOver /\ RowsOver /\ [Next]_vars => RowsOver'
  <2> SUFFICES ASSUME TypeOK, TokenInv, HandlesOver, RowsOver, [Next]_vars PROVE RowsOver'
    OBVIOUS
  <2>1. RowType /\ RowType'
    BY TypeParts, TypeStep, TypePartsNext DEF Parts
  <2>2. \A w \in writes \cup writes' : w.job \in Jobs
    BY <2>1 DEF RowType, WriteType
  <2>3. \A j \in Jobs : row'[j].status = "completed" => Over(j)
    BY CompletedCases, <2>2 DEF RowsOver
  <2>4. \A w \in writes' : w.status = "completed" => Over(w.job)
    BY CompletedCases, <2>2 DEF RowsOver, HandlesOver, OverAt
  <2>. QED
    BY <2>2, <2>3, <2>4, StaysOver DEF RowsOver
<1>. QED
  BY <1>1, <1>2, TokenCorrect, HandlesStep, PTL DEF Spec

\* However reports, deadlines, cancellations, late writes and crashes come
\* together, a job whose row says completed is not at work.
THEOREM CompletedIsOverCorrect == Spec => []CompletedIsOver
<1>1. TypeOK /\ RowsOver => CompletedIsOver
  BY DEF RowsOver, Over, CompletedIsOver
<1>. QED
  BY <1>1, OverCorrect, PTL

-----------------------------------------------------------------------------
(* Revoking runs down *)

\* The tool has waited for its job and has returned.
Waited(j) == mode[j] = "wait" /\ creator[j] = "done"

\* An upper bound on the steps of the handlers that revoke the job's token
ReportLeft(j) ==
  CASE report[j] = "none"   -> 5
    [] report[j] = "store"  -> 4
    [] report[j] = "read"   -> 3
    [] report[j] = "kill"   -> 2
    [] report[j] = "revoke" -> 1
    [] OTHER                -> 0
CancelLeft(j) ==
  CASE cancel[j] = "kill"   -> 3
    [] cancel[j] = "mark"   -> 2
    [] cancel[j] = "revoke" -> 1
    [] OTHER                -> 0

\* A token that has outlived a waited-for job is in the hands of a handler that
\* will revoke it, or of one that was dropped; one that is gone does not come
\* back; and every step of these handlers brings them nearer the revocation.
TokenComesNearer ==
  \A j \in Jobs :
    /\ [](Waited(j) /\ j \in tokens => \/ report[j] \in {"read", "kill", "revoke"}
                                       \/ cancel[j] = "revoke"
                                       \/ j \in dropped)
    /\ [](ReportLeft(j) + CancelLeft(j) \in Nat)
    /\ [][Waited(j) =>
            /\ j \in tokens' => j \in tokens
            /\ \/ UNCHANGED <<ReportLeft(j), CancelLeft(j)>>
               \/ (ReportLeft(j) + CancelLeft(j))' < ReportLeft(j) + CancelLeft(j)]_vars

\* cleanup_job takes the handle out for good.
WaitedGone == \A j \in Jobs : Waited(j) => handle[j] = NoHandle

LEMMA GoneStep == TypeOK /\ WaitedGone /\ [Next]_vars => WaitedGone'
<1> SUFFICES ASSUME TypeOK, WaitedGone, [Next]_vars PROVE WaitedGone'
  OBVIOUS
<1>. TaskType /\ ManagerType
  BY TypeParts DEF Parts
<1> USE DEF WaitedGone, Waited
<1>1. ASSUME NEW j \in Jobs, NEW m, Begin(j, m) PROVE WaitedGone'
  BY <1>1 DEF Begin, At, TaskType, managerVars
<1>2. ASSUME NEW j \in Jobs, CreatorStep(j) PROVE WaitedGone'
  <2>1. CASE UndoForget(j) \/ PollCleanup(j) \/ DeadlineCleanup(j)
    BY <2>1 DEF UndoForget, PollCleanup, DeadlineCleanup, At, TaskType, ManagerType
  <2>2. CASE SetRunning(j)
    BY <2>2 DEF SetRunning, At, TaskType, ManagerType
  <2>3. CASE DeadlineMark(j)
    BY <2>3 DEF DeadlineMark, MarkStopped, At, TaskType, ManagerType
  <2>4. CASE Create(j) \/ Start(j) \/ Started(j) \/ PollStopped(j) \/ Deadline(j) \/ DeadlineKill(j)
             \/ DeadlineRevoke(j)
    BY <2>4 DEF Create, Start, Started, PollStopped, Deadline, DeadlineKill, DeadlineRevoke, At,
       TaskType, managerVars
  <2>5. CASE CreateToken(j) \/ StoreGrants(j) \/ InsertHandle(j) \/ UndoRevoke(j)
    BY <2>5 DEF CreateToken, StoreGrants, InsertHandle, UndoRevoke, At, TaskType, ManagerType,
       managerVars
  <2>. QED
    BY <1>2, <2>1, <2>2, <2>3, <2>4, <2>5 DEF CreatorStep
<1>3. ASSUME NEW j \in Jobs, Drop(j) PROVE WaitedGone'
  BY <1>3 DEF Drop, At, TaskType, managerVars
<1>4. ASSUME NEW j \in Jobs, StoreResult(j) \/ CancelMark(j) PROVE WaitedGone'
  BY <1>4 DEF StoreResult, CancelMark, MarkStopped, ManagerType
<1>5. ASSUME NEW j \in Jobs,
             \/ Report(j) \/ Dies(j) \/ ReadId(j) \/ ReportKill(j) \/ ReportRevoke(j)
             \/ ReportDrops(j) \/ Exit(j) \/ CancelBegins(j) \/ CancelStop(j) \/ CancelKill(j)
             \/ CancelRevoke(j) \/ CancelWrite(j) \/ CancelDrops(j)
      PROVE  WaitedGone'
  BY <1>5 DEF Report, Dies, ReadId, ReportKill, ReportRevoke, ReportDrops, Exit, CancelBegins,
     CancelStop, CancelKill, CancelRevoke, CancelWrite, CancelDrops, taskVars, managerVars
<1>6. CASE Crash
  BY <1>6 DEF Crash
<1>7. CASE (\E w \in writes : Write(w)) \/ UNCHANGED vars
  BY <1>7 DEF Write, vars, taskVars, managerVars
<1>. QED
  BY <1>1, <1>2, <1>3, <1>4, <1>5, <1>6, <1>7
     DEF Next, ToolBegins, RestartBegins, ReportStep, CancelStep

LEMMA LeftIsNat ==
  ASSUME NEW j \in Jobs
  PROVE  ReportLeft(j) \in 0..5 /\ CancelLeft(j) \in 0..3
BY DEF ReportLeft, CancelLeft

LEMMA LeftIsNatNext ==
  ASSUME NEW j \in Jobs
  PROVE  ReportLeft(j)' \in 0..5 /\ CancelLeft(j)' \in 0..3
BY DEF ReportLeft, CancelLeft

\* The report's handler begins, goes on or is dropped, and the other's place stays.
LEMMA ReportIsNearer ==
  ASSUME TypeOK, TokenInv, NEW k \in Jobs, NEW j \in Jobs,
         Report(j) \/ ReportStep(j) \/ ReportDrops(j)
  PROVE  /\ CancelLeft(k)' = CancelLeft(k)
         /\ ReportLeft(k)' = ReportLeft(k) \/ ReportLeft(k)' < ReportLeft(k)
<1>. TaskType
  BY TypeParts DEF Parts
<1>1. UNCHANGED cancel
  BY DEF Report, ReportStep, StoreResult, ReadId, ReportKill, ReportRevoke, ReportDrops
<1>2. \E next : report' = [report EXCEPT ![j] = next]
  BY DEF Report, ReportStep, StoreResult, ReadId, ReportKill, ReportRevoke, ReportDrops
<1>3. CASE k # j
  BY <1>1, <1>2, <1>3 DEF TaskType, ReportLeft, CancelLeft
<1>4. CASE k = j
  <2>1. Report(j) => report'[j] = "store" /\ report[j] = "none"
    BY DEF Report, Working, TaskType, TokenInv, TokenAt
  <2>. QED
    BY <1>1, <1>4, <2>1 DEF ReportStep, StoreResult, ReadId, ReportKill, ReportRevoke, ReportDrops,
       TaskType, ReportLeft, CancelLeft
<1>. QED
  BY <1>3, <1>4

\* So with the cancellation, which finds no id to stop a container by.
LEMMA CancelIsNearer ==
  ASSUME TypeOK, WaitedGone, NEW k \in Jobs, Waited(k), NEW j \in Jobs,
         CancelBegins(j) \/ CancelStep(j) \/ CancelDrops(j)
  PROVE  /\ ReportLeft(k)' = ReportLeft(k)
         /\ CancelLeft(k)' = CancelLeft(k) \/ CancelLeft(k)' < CancelLeft(k)
<1>. TaskType
  BY TypeParts DEF Parts
<1>1. UNCHANGED report
  BY DEF CancelBegins, CancelStep, CancelStop, CancelKill, CancelMark, CancelRevoke, CancelWrite,
     CancelDrops
<1>2. \E next : cancel' = [cancel EXCEPT ![j] = next]
  BY DEF CancelBegins, CancelStep, CancelStop, CancelKill, CancelMark, CancelRevoke, CancelWrite,
     CancelDrops, CancelAt
<1>3. CASE k # j
  BY <1>1, <1>2, <1>3 DEF TaskType, ReportLeft, CancelLeft
<1>4. CASE k = j
  <2>1. CancelStop(j) => cancel[j] = "stop" /\ cancel'[j] = "write"
    BY <1>4 DEF CancelStop, CancelAt, HasId, WaitedGone, NoHandle, TaskType
  <2>. QED
    BY <1>1, <1>4, <2>1 DEF CancelBegins, CancelStep, CancelKill, CancelMark, CancelRevoke,
       CancelWrite, CancelDrops, CancelAt, TaskType, ReportLeft, CancelLeft
<1>. QED
  BY <1>3, <1>4

LEMMA RevokersAreNearer ==
  ASSUME TypeOK, TokenInv, WaitedGone, [Next]_vars, NEW k \in Jobs, Waited(k)
  PROVE  \/ UNCHANGED <<ReportLeft(k), CancelLeft(k)>>
         \/ (ReportLeft(k) + CancelLeft(k))' < ReportLeft(k) + CancelLeft(k)
<1> DEFINE Goal == \/ UNCHANGED <<ReportLeft(k), CancelLeft(k)>>
                   \/ (ReportLeft(k) + CancelLeft(k))' < ReportLeft(k) + CancelLeft(k)
<1>0. /\ ReportLeft(k) \in 0..5 /\ CancelLeft(k) \in 0..3
      /\ ReportLeft(k)' \in 0..5 /\ CancelLeft(k)' \in 0..3
  BY LeftIsNat, LeftIsNatNext
<1>1. ASSUME NEW j \in Jobs, Report(j) \/ ReportStep(j) \/ ReportDrops(j) PROVE Goal
  BY <1>0, <1>1, ReportIsNearer
<1>2. ASSUME NEW j \in Jobs, CancelBegins(j) \/ CancelStep(j) \/ CancelDrops(j) PROVE Goal
  BY <1>0, <1>2, CancelIsNearer
<1>3. ASSUME UNCHANGED <<report, cancel>> PROVE Goal
  BY <1>3 DEF ReportLeft, CancelLeft
<1>4. CASE Crash
  <2>1. report'[k] \in {"none", "over"} /\ cancel'[k] = "none"
        /\ (report[k] = "none" => report'[k] = "none") /\ (report[k] # "none" => report'[k] = "over")
    BY <1>4 DEF Crash
  <2>2. /\ ReportLeft(k)' = (IF report[k] = "none" THEN 5 ELSE 0) /\ CancelLeft(k)' = 0
        /\ report[k] = "none" => ReportLeft(k) = 5
    BY <2>1 DEF ReportLeft, CancelLeft
  <2>. QED
    BY <1>0, <2>2
<1>5. ASSUME NEW j \in Jobs, CreatorStep(j) PROVE Goal
  BY <1>3, <1>5 DEF CreatorStep, CreateToken, StoreGrants, InsertHandle, Create, Start, UndoRevoke,
     UndoForget, SetRunning, Started, PollStopped, PollCleanup, Deadline, DeadlineKill,
     DeadlineMark, DeadlineRevoke, DeadlineCleanup
<1>6. ASSUME NEW j \in Jobs, NEW m, Begin(j, m) \/ Drop(j) \/ Dies(j) \/ Exit(j) PROVE Goal
  BY <1>3, <1>6 DEF Begin, Drop, Dies, Exit, taskVars
<1>7. CASE (\E w \in writes : Write(w)) \/ UNCHANGED vars
  BY <1>3, <1>7 DEF Write, vars, taskVars
<1>. QED
  BY <1>1, <1>2, <1>4, <1>5, <1>6, <1>7 DEF Next, ToolBegins, RestartBegins

\* Only create_job makes a token.
LEMMA NoTokenAgain ==
  ASSUME TypeOK, [Next]_vars, NEW k \in Jobs, Waited(k), k \in tokens'
  PROVE  k \in tokens
<1>1. ASSUME NEW j \in Jobs, CreateToken(j) PROVE k \in tokens
  <2>1. CASE k = j
    BY <1>1, <2>1 DEF CreateToken, At, Waited, TypeOK
  <2>2. CASE k # j
    BY <1>1, <2>2 DEF CreateToken
  <2>. QED
    BY <2>1, <2>2
<1>2. ASSUME NEW j \in Jobs, (CreatorStep(j) /\ ~ CreateToken(j)) \/ Drop(j)
      PROVE  tokens' \subseteq tokens
  BY <1>2 DEF CreatorStep, StoreGrants, InsertHandle, Create, Start, UndoRevoke, UndoForget,
     SetRunning, Started, PollStopped, PollCleanup, Deadline, DeadlineKill, DeadlineMark,
     DeadlineRevoke, DeadlineCleanup, Drop, Revoke, managerVars
<1>3. ASSUME NEW j \in Jobs,
             \/ Report(j) \/ Dies(j) \/ ReportStep(j) \/ ReportDrops(j) \/ Exit(j)
             \/ CancelBegins(j) \/ CancelStep(j) \/ CancelDrops(j)
      PROVE  tokens' \subseteq tokens
  BY <1>3 DEF Report, Dies, ReportStep, StoreResult, ReadId, ReportKill, ReportRevoke, ReportDrops,
     Exit, CancelBegins, CancelStep, CancelStop, CancelKill, CancelMark, CancelRevoke, CancelWrite,
     CancelDrops, Revoke, managerVars
<1>4. ASSUME \/ Crash \/ (\E w \in writes : Write(w))
             \/ (\E j \in Jobs : \E m : Begin(j, m)) \/ UNCHANGED vars
      PROVE  tokens' \subseteq tokens
  BY <1>4 DEF Crash, Write, Begin, vars, managerVars
<1>. QED
  BY <1>1, <1>2, <1>3, <1>4 DEF Next, ToolBegins, RestartBegins

\* However report, deadline and cancellation overlap: once the tool has waited, the
\* job's token is gone, or a handler that revokes it is a bounded number of steps
\* away from that, or was dropped: what WaitedIsRevoked rests on, with the fairness
\* of the handlers.
THEOREM RevocationRunsDown == Spec => TokenComesNearer
<1>1. Init => WaitedGone
  BY DEF Init, WaitedGone
<1>2. ASSUME NEW j \in Jobs
      PROVE  Spec =>
               /\ [](Waited(j) /\ j \in tokens => \/ report[j] \in {"read", "kill", "revoke"}
                                                  \/ cancel[j] = "revoke"
                                                  \/ j \in dropped)
               /\ [](ReportLeft(j) + CancelLeft(j) \in Nat)
               /\ [][Waited(j) =>
                       /\ j \in tokens' => j \in tokens
                       /\ \/ UNCHANGED <<ReportLeft(j), CancelLeft(j)>>
                          \/ (ReportLeft(j) + CancelLeft(j))' < ReportLeft(j) + CancelLeft(j)]_vars
  <2>1. TokenInv /\ WaitedGone =>
          (Waited(j) /\ j \in tokens => \/ report[j] \in {"read", "kill", "revoke"}
                                        \/ cancel[j] = "revoke"
                                        \/ j \in dropped)
    BY DEF TokenInv, TokenAt, Owned, Creating, Waited, WaitedGone, NoHandle
  <2>2. ReportLeft(j) + CancelLeft(j) \in Nat
    BY LeftIsNat
  <2>3. TypeOK /\ TokenInv /\ WaitedGone /\ [Next]_vars =>
          [Waited(j) =>
             /\ j \in tokens' => j \in tokens
             /\ \/ UNCHANGED <<ReportLeft(j), CancelLeft(j)>>
                \/ (ReportLeft(j) + CancelLeft(j))' < ReportLeft(j) + CancelLeft(j)]_vars
    BY RevokersAreNearer, NoTokenAgain
  <2>. QED
    BY <1>1, <2>1, <2>2, <2>3, GoneStep, TokenCorrect, PTL DEF Spec
<1>. QED
  BY <1>2 DEF TokenComesNearer
=============================================================================
