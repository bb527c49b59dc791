---------------------------- MODULE SandboxJobs ----------------------------
(***************************************************************************)
(* Jobs in Docker containers: ContainerJobManager and its TokenStore, the  *)
(* create_job tool that starts a job and may wait for it, the handler of   *)
(* the worker's completion report, the web handlers that cancel and        *)
(* restart, and the job's row.  A step is the code between two awaits that *)
(* another task can come between.  An HTTP handler is dropped at an await  *)
(* when its client has gone.                                               *)
(***************************************************************************)
EXTENDS Naturals

CONSTANTS
  Jobs,        \* job ids
  OldJobs,     \* those of an earlier run of the process, interrupted by its end
  MaxCrashes   \* bound on the restarts of the process

ASSUME JobsAssumption == OldJobs \subseteq Jobs
ASSUME CrashesAssumption == MaxCrashes \in Nat

VARIABLES
  mode,        \* how the job was begun: the tool waits or not, or a restart
  creator,     \* where the tool, or the restart handler, is
  container,   \* the container, and its worker process when it runs
  handle,      \* ContainerHandle: state, whether it has its id, result
  tokens,      \* jobs with a token and its grants in the TokenStore
  report,      \* where the handler of the completion report is
  outcome,     \* what the worker reported
  cancel,      \* where the web handler of a cancellation is
  dropped,     \* jobs with a call dropped after it had marked the handle Stopped,
               \* and before it had revoked the token
  row,         \* status and failure_reason of the job's row
  writes,      \* spawned writes that have not run yet
  crashes      \* restarts of the process so far

taskVars == <<mode, creator, report, outcome, cancel, dropped>>
managerVars == <<handle, tokens>>
rowVars == <<row, writes>>
vars == <<taskVars, container, managerVars, rowVars, crashes>>

NoHandle == [state |-> "none", id |-> FALSE, result |-> "none"]
NoRow == [status |-> "absent", reason |-> "none"]
Interrupted == [status |-> "interrupted", reason |-> "error"]

\* The container's worker is at work, a failed attempt to stop it or not
Working(j) == container[j] \in {"working", "kept"}

----------------------------------------------------------------------------
Init ==
  /\ mode = [j \in Jobs |-> "none"]
  /\ creator = [j \in Jobs |-> IF j \in OldJobs THEN "dropped" ELSE "none"]
  /\ container = [j \in Jobs |-> "none"]
  /\ handle = [j \in Jobs |-> NoHandle]
  /\ tokens = {}
  /\ report = [j \in Jobs |-> "none"]
  /\ outcome = [j \in Jobs |-> "none"]
  /\ cancel = [j \in Jobs |-> "none"]
  /\ dropped = {}
  /\ row = [j \in Jobs |-> IF j \in OldJobs THEN Interrupted ELSE NoRow]
  /\ writes = {}
  /\ crashes = 0

At(j, pc) == creator' = [creator EXCEPT ![j] = pc]

----------------------------------------------------------------------------
(* The row *)

\* save_sandbox_job of a new record: status and reason as in the record
Save(j) == [job |-> j, status |-> "creating", reason |-> "none"]

\* update_sandbox_job_status: a reason that is given replaces the row's
Update(j, status, reason) == [job |-> j, status |-> status, reason |-> reason]

Stored(w) ==
  LET old == row[w.job] IN
  IF w.status # "creating" /\ old = NoRow
  THEN row
  ELSE [row EXCEPT ![w.job] =
         [status |-> w.status,
          reason |-> IF w.status # "creating" /\ w.reason = "none" THEN old.reason ELSE w.reason]]

Spawn(w) == writes' = writes \cup {w} /\ UNCHANGED row

\* A spawned write runs when it is scheduled, or fails and is only logged
Write(w) ==
  /\ w \in writes
  /\ writes' = writes \ {w}
  /\ row' \in {Stored(w), row}
  /\ UNCHANGED <<taskVars, container, managerVars, crashes>>

----------------------------------------------------------------------------
(* Creating a job: execute_sandbox, jobs_restart_handler, create_job *)

\* The tool or the restart handler is about to call create_job
Begin(j, m) ==
  /\ creator[j] = "none"
  /\ mode' = [mode EXCEPT ![j] = m]
  /\ At(j, "token")
  /\ UNCHANGED <<report, outcome, cancel, container, managerVars, crashes, dropped>>

\* The tool spawns the write of the record and goes on
ToolBegins(j, m) ==
  /\ m \in {"wait", "nowait"}
  /\ Begin(j, m)
  /\ Spawn(Save(j))

\* The restart handler awaits it; the old job must be interrupted or failed
RestartBegins(old, j) ==
  /\ row[old].status \in {"interrupted", "failed"}
  /\ Begin(j, "restart")
  /\ row' = Stored(Save(j))
  /\ UNCHANGED writes

CreateToken(j) ==
  /\ creator[j] = "token"
  /\ tokens' = tokens \cup {j}
  /\ At(j, "grants")
  /\ UNCHANGED <<mode, report, outcome, cancel, container, handle, rowVars, crashes, dropped>>

\* The grants can be read with the token only, and live as long as it
StoreGrants(j) ==
  /\ creator[j] = "grants"
  /\ At(j, "insert")
  /\ UNCHANGED <<mode, report, outcome, cancel, container, managerVars, rowVars, crashes, dropped>>

InsertHandle(j) ==
  /\ creator[j] = "insert"
  /\ handle' = [handle EXCEPT ![j] = [state |-> "Creating", id |-> FALSE, result |-> "none"]]
  /\ At(j, "create")
  /\ UNCHANGED <<mode, report, outcome, cancel, container, tokens, rowVars, crashes, dropped>>

\* create_container and start_container; a container that cannot be started stays
Create(j) ==
  /\ creator[j] = "create"
  /\ \/ At(j, "start") /\ container' = [container EXCEPT ![j] = "created"]
     \/ At(j, "undo") /\ UNCHANGED container
  /\ UNCHANGED <<mode, report, outcome, cancel, managerVars, rowVars, crashes, dropped>>

Start(j) ==
  /\ creator[j] = "start"
  /\ \/ At(j, "update") /\ container' = [container EXCEPT ![j] = "working"]
     \/ At(j, "undo") /\ UNCHANGED container
  /\ UNCHANGED <<mode, report, outcome, cancel, managerVars, rowVars, crashes, dropped>>

\* create_job revokes the token,
UndoRevoke(j) ==
  /\ creator[j] = "undo"
  /\ At(j, "forget")
  /\ tokens' = tokens \ {j}
  /\ UNCHANGED <<mode, report, outcome, cancel, container, handle, rowVars, crashes, dropped>>

\* and removes the handle; the tool stores the failure, a restart nothing
UndoForget(j) ==
  /\ creator[j] = "forget"
  /\ At(j, "done")
  /\ handle' = [handle EXCEPT ![j] = NoHandle]
  /\ IF mode[j] = "restart" THEN UNCHANGED rowVars ELSE Spawn(Update(j, "failed", "error"))
  /\ UNCHANGED <<mode, report, outcome, cancel, container, tokens, crashes, dropped>>

\* The handle gets the container's id and is Running, whatever it was
SetRunning(j) ==
  /\ creator[j] = "update"
  /\ handle' = IF handle[j] = NoHandle THEN handle
               ELSE [handle EXCEPT ![j].state = "Running", ![j].id = TRUE]
  /\ At(j, "started")
  /\ UNCHANGED <<mode, report, outcome, cancel, container, tokens, rowVars, crashes, dropped>>

\* The row is set running, by the tool in a spawned write.  Who does not wait is done.
Started(j) ==
  /\ creator[j] = "started"
  /\ At(j, IF mode[j] = "wait" THEN "poll" ELSE "done")
  /\ IF mode[j] = "restart"
     THEN row' \in {Stored(Update(j, "running", "none")), row} /\ UNCHANGED writes
     ELSE Spawn(Update(j, "running", "none"))
  /\ UNCHANGED <<mode, report, outcome, cancel, container, managerVars, crashes, dropped>>

----------------------------------------------------------------------------
(* stop_job, for its two callers *)

HasId(j) == handle[j].id

\* stop_container and remove_container; their errors are only logged
Kill(j) ==
  \E c \in {"removed", IF container[j] = "working" THEN "kept" ELSE container[j]} :
    container' = [container EXCEPT ![j] = c]

MarkStopped(j) ==
  handle' = IF handle[j] = NoHandle THEN handle ELSE [handle EXCEPT ![j].state = "Stopped"]

Revoke(j) == tokens' = tokens \ {j}

----------------------------------------------------------------------------
(* Waiting for a job *)

\* The handle is Stopped: its result decides, and none counts as success.
\* (A handle that is gone would count as success too.)
PollStopped(j) ==
  /\ creator[j] = "poll"
  /\ handle[j].state \in {"Stopped", "none"}
  /\ At(j, IF handle[j].result = "fail" THEN "failure" ELSE "success")
  /\ UNCHANGED <<mode, report, outcome, cancel, container, managerVars, rowVars, crashes, dropped>>

\* cleanup_job, and the status that was read
PollCleanup(j) ==
  /\ \/ creator[j] = "success" /\ Spawn(Update(j, "completed", "none"))
     \/ creator[j] = "failure" /\ Spawn(Update(j, "failed", "error"))
  /\ handle' = [handle EXCEPT ![j] = NoHandle]
  /\ At(j, "done")
  /\ UNCHANGED <<mode, report, outcome, cancel, container, tokens, crashes, dropped>>

\* Mutant: the container is not stopped
DeadlineForgets(j) ==
  /\ creator[j] = "poll"
  /\ At(j, "cleanup")
  /\ UNCHANGED <<mode, report, outcome, cancel, container, managerVars, rowVars, crashes, dropped>>

\* After 10 minutes stop_job; its error, a handle without an id, is ignored
Deadline(j) ==
  /\ creator[j] = "poll"
  /\ At(j, IF HasId(j) THEN "kill" ELSE "cleanup")
  /\ UNCHANGED <<mode, report, outcome, cancel, container, managerVars, rowVars, crashes, dropped>>

DeadlineKill(j) ==
  /\ creator[j] = "kill"
  /\ Kill(j)
  /\ At(j, "mark")
  /\ UNCHANGED <<mode, report, outcome, cancel, managerVars, rowVars, crashes, dropped>>

DeadlineMark(j) ==
  /\ creator[j] = "mark"
  /\ MarkStopped(j)
  /\ At(j, "revoke")
  /\ UNCHANGED <<mode, report, outcome, cancel, container, tokens, rowVars, crashes, dropped>>

DeadlineRevoke(j) ==
  /\ creator[j] = "revoke"
  /\ Revoke(j)
  /\ At(j, "cleanup")
  /\ UNCHANGED <<mode, report, outcome, cancel, container, handle, rowVars, crashes, dropped>>

\* cleanup_job, and the row says the job timed out
DeadlineCleanup(j) ==
  /\ creator[j] = "cleanup"
  /\ handle' = [handle EXCEPT ![j] = NoHandle]
  /\ Spawn(Update(j, "failed", "error"))
  /\ At(j, "done")
  /\ UNCHANGED <<mode, report, outcome, cancel, container, tokens, crashes, dropped>>

\* create_job has made the token, and the handle is not Running yet
Creating == {"grants", "insert", "create", "start", "update", "undo"}

\* The tool call is dropped at an await: it times out, or the worker or turn it
\* belongs to is stopped; or the browser that restarts a job goes away.  A
\* request to Docker may have been executed or not.
Drop(j) ==
  /\ creator[j] \notin {"none", "done", "dropped", "abandoned"}
  /\ At(j, IF creator[j] \in Creating THEN "abandoned" ELSE "dropped")
  /\ dropped' = IF creator[j] = "revoke" THEN dropped \cup {j} ELSE dropped
  /\ \/ UNCHANGED container
     \/ creator[j] = "create" /\ container' = [container EXCEPT ![j] = "created"]
     \/ creator[j] = "start" /\ container' = [container EXCEPT ![j] = "working"]
     \/ creator[j] = "kill" /\ container' = [container EXCEPT ![j] = "removed"]
  /\ UNCHANGED <<mode, report, outcome, cancel, managerVars, rowVars, crashes>>

CreatorStep(j) ==
  \/ CreateToken(j) \/ StoreGrants(j) \/ InsertHandle(j)
  \/ Create(j) \/ Start(j) \/ UndoRevoke(j) \/ UndoForget(j) \/ SetRunning(j) \/ Started(j)
  \/ PollStopped(j) \/ PollCleanup(j) \/ Deadline(j) \/ DeadlineKill(j)
  \/ DeadlineMark(j) \/ DeadlineRevoke(j) \/ DeadlineCleanup(j)

----------------------------------------------------------------------------
(* The worker in the container, and complete_job *)

\* It reports its end once; the token must be valid
Report(j) ==
  /\ Working(j)
  /\ j \in tokens
  /\ container' = [container EXCEPT ![j] = "reporting"]
  /\ report' = [report EXCEPT ![j] = "store"]
  /\ \E result \in {"ok", "fail"} : outcome' = [outcome EXCEPT ![j] = result]
  /\ UNCHANGED <<mode, creator, cancel, managerVars, rowVars, crashes, dropped>>

\* It ends without a report: it crashes, or its requests are refused or lost
Dies(j) ==
  /\ Working(j)
  /\ container' = [container EXCEPT ![j] = "exited"]
  /\ UNCHANGED <<taskVars, managerVars, rowVars, crashes>>

\* complete_job stores the result first
StoreResult(j) ==
  /\ report[j] = "store"
  /\ handle' = IF handle[j] = NoHandle THEN handle
               ELSE [handle EXCEPT ![j].state = "Stopped", ![j].result = outcome[j]]
  /\ report' = [report EXCEPT ![j] = "read"]
  /\ UNCHANGED <<mode, creator, outcome, cancel, container, tokens, rowVars, crashes, dropped>>

\* Mutant: without an id there is nothing more to do
ReadIdOrReturn(j) ==
  /\ report[j] = "read"
  /\ report' = [report EXCEPT ![j] = IF HasId(j) THEN "kill" ELSE "over"]
  /\ UNCHANGED <<mode, creator, outcome, cancel, container, managerVars, rowVars, crashes, dropped>>

\* Then it reads the id: without one, or without a handle, it only revokes
ReadId(j) ==
  /\ report[j] = "read"
  /\ report' = [report EXCEPT ![j] = IF HasId(j) THEN "kill" ELSE "revoke"]
  /\ UNCHANGED <<mode, creator, outcome, cancel, container, managerVars, rowVars, crashes, dropped>>

ReportKill(j) ==
  /\ report[j] = "kill"
  /\ Kill(j)
  /\ report' = [report EXCEPT ![j] = "revoke"]
  /\ UNCHANGED <<mode, creator, outcome, cancel, managerVars, rowVars, crashes, dropped>>

ReportRevoke(j) ==
  /\ report[j] = "revoke"
  /\ Revoke(j)
  /\ report' = [report EXCEPT ![j] = "over"]
  /\ UNCHANGED <<mode, creator, outcome, cancel, container, handle, rowVars, crashes, dropped>>

\* The worker has its answer, or gives up waiting for it, and exits
Exit(j) ==
  /\ container[j] = "reporting"
  /\ container' = [container EXCEPT ![j] = "exited"]
  /\ UNCHANGED <<taskVars, managerVars, rowVars, crashes>>

\* The connection of a worker that has gone, stopped by complete_job itself
\* perhaps, is closed, and with it its handler is dropped
ReportDrops(j) ==
  /\ report[j] \in {"store", "read", "kill", "revoke"}
  /\ container[j] \in {"exited", "removed"}
  /\ report' = [report EXCEPT ![j] = "over"]
  /\ dropped' = IF report[j] = "store" THEN dropped ELSE dropped \cup {j}
  /\ UNCHANGED <<mode, creator, outcome, cancel, container, managerVars, rowVars, crashes>>

ReportStep(j) == StoreResult(j) \/ ReadId(j) \/ ReportKill(j) \/ ReportRevoke(j)

----------------------------------------------------------------------------
(* jobs_cancel_handler *)

CancelAt(j, pc) == cancel' = [cancel EXCEPT ![j] = pc]

\* The row decides whether there is something to stop
CancelBegins(j) ==
  /\ cancel[j] = "none"
  /\ row[j].status \in {"running", "creating"}
  /\ CancelAt(j, "stop")
  /\ UNCHANGED <<mode, creator, report, outcome, container, managerVars, rowVars, crashes, dropped>>

\* Mutant: the handle is Stopped before the container is
CancelMarkFirst(j) ==
  /\ cancel[j] = "stop"
  /\ MarkStopped(j)
  /\ CancelAt(j, IF HasId(j) THEN "kill" ELSE "write")
  /\ UNCHANGED <<mode, creator, report, outcome, container, tokens, rowVars, crashes, dropped>>

\* stop_job without a handle or an id is an error that is only logged
CancelStop(j) ==
  /\ cancel[j] = "stop"
  /\ CancelAt(j, IF HasId(j) THEN "kill" ELSE "write")
  /\ UNCHANGED <<mode, creator, report, outcome, container, managerVars, rowVars, crashes, dropped>>

CancelKill(j) ==
  /\ cancel[j] = "kill"
  /\ Kill(j)
  /\ CancelAt(j, "mark")
  /\ UNCHANGED <<mode, creator, report, outcome, managerVars, rowVars, crashes, dropped>>

CancelMark(j) ==
  /\ cancel[j] = "mark"
  /\ MarkStopped(j)
  /\ CancelAt(j, "revoke")
  /\ UNCHANGED <<mode, creator, report, outcome, container, tokens, rowVars, crashes, dropped>>

CancelRevoke(j) ==
  /\ cancel[j] = "revoke"
  /\ Revoke(j)
  /\ CancelAt(j, "write")
  /\ UNCHANGED <<mode, creator, report, outcome, container, handle, rowVars, crashes, dropped>>

\* The row becomes failed, "Cancelled by user", or the database fails
CancelWrite(j) ==
  /\ cancel[j] = "write"
  /\ row' \in {Stored(Update(j, "failed", "cancelled")), row}
  /\ CancelAt(j, "none")
  /\ UNCHANGED <<mode, creator, report, outcome, container, managerVars, writes, crashes, dropped>>

\* The browser goes away
CancelDrops(j) ==
  /\ cancel[j] # "none"
  /\ CancelAt(j, "none")
  /\ dropped' = IF cancel[j] = "revoke" THEN dropped \cup {j} ELSE dropped
  /\ IF cancel[j] = "kill" THEN Kill(j) \/ UNCHANGED container ELSE UNCHANGED container
  /\ UNCHANGED <<mode, creator, report, outcome, managerVars, rowVars, crashes>>

CancelStep(j) ==
  CancelStop(j) \/ CancelKill(j) \/ CancelMark(j) \/ CancelRevoke(j) \/ CancelWrite(j)

----------------------------------------------------------------------------
\* The process ends and starts again: containers go on, the memory, the tasks
\* and their unwritten writes are gone, and cleanup_stale_sandbox_jobs runs
Crash ==
  /\ crashes < MaxCrashes
  /\ crashes' = crashes + 1
  /\ creator' = [j \in Jobs |-> IF creator[j] = "none" THEN "none" ELSE "dropped"]
  /\ report' = [j \in Jobs |-> IF report[j] = "none" THEN "none" ELSE "over"]
  /\ cancel' = [j \in Jobs |-> "none"]
  /\ handle' = [j \in Jobs |-> NoHandle]
  /\ tokens' = {}
  /\ writes' = {}
  /\ row' = [j \in Jobs |-> IF row[j].status \in {"running", "creating"}
                            THEN Interrupted
                            ELSE row[j]]
  /\ UNCHANGED <<mode, outcome, container, dropped>>

Next ==
  \/ \E j \in Jobs :
       \/ \E m \in {"wait", "nowait"} : ToolBegins(j, m)
       \/ \E old \in Jobs : RestartBegins(old, j)
       \/ CreatorStep(j) \/ Drop(j)
       \/ Report(j) \/ Dies(j) \/ ReportStep(j) \/ ReportDrops(j) \/ Exit(j)
       \/ CancelBegins(j) \/ CancelStep(j) \/ CancelDrops(j)
  \/ \E w \in writes : Write(w)
  \/ Crash

\* Every task that can go on does, and a deadline or sleep passes
Fairness ==
  \A j \in Jobs : WF_vars(CreatorStep(j)) /\ WF_vars(ReportStep(j)) /\ WF_vars(CancelStep(j))

Spec == Init /\ [][Next]_vars
FairSpec == Spec /\ Fairness

----------------------------------------------------------------------------
Statuses == {"creating", "running", "completed", "failed", "interrupted"}
Reasons == {"none", "error", "cancelled"}

\* Every variable has its type; a Running handle has the id that stop_job and
\* complete_job need (create_job_inner).
TypeOK ==
  /\ mode \in [Jobs -> {"none", "wait", "nowait", "restart"}]
  /\ creator \in [Jobs -> {"none", "token", "grants", "insert", "create", "start", "update",
                           "undo", "forget", "started", "poll", "success", "failure", "kill",
                           "mark", "revoke", "cleanup", "done", "dropped", "abandoned"}]
  /\ container \in [Jobs -> {"none", "created", "working", "kept", "reporting", "exited", "removed"}]
  /\ handle \in [Jobs -> [state : {"none", "Creating", "Running", "Stopped"}, id : BOOLEAN,
                          result : {"none", "ok", "fail"}]]
  /\ \A j \in Jobs : handle[j].state = "Running" => HasId(j)
  /\ tokens \subseteq Jobs
  /\ report \in [Jobs -> {"none", "store", "read", "kill", "revoke", "over"}]
  /\ outcome \in [Jobs -> {"none", "ok", "fail"}]
  /\ cancel \in [Jobs -> {"none", "stop", "kill", "mark", "revoke", "write"}]
  /\ row \in [Jobs -> [status : Statuses, reason : Reasons] \cup {NoRow}]
  /\ writes \subseteq [job : Jobs, status : Statuses, reason : Reasons]
  /\ dropped \subseteq Jobs
  /\ crashes \in 0..MaxCrashes

\* A token, and with it the LLM and the granted secrets, is never left without
\* one who will revoke it, or can: create_job at work; a Running handle, which has
\* the id that stop_job needs; the completion report, the cancellation or the
\* deadline on its way from marking the handle Stopped to revoking the token.  Two
\* ways to lose it are excused: the creation was dropped, by a timeout of the tool
\* perhaps (a handle without an id, or none, cannot be stopped); or one of the
\* three was dropped on that way, as complete_job is by the end of the client it kills.
TokenHasOwner ==
  \A j \in tokens :
    \/ creator[j] \in Creating \cup {"revoke"}
    \/ handle[j].state = "Running"
    \/ report[j] \in {"read", "kill", "revoke"}
    \/ cancel[j] = "revoke"
    \/ creator[j] = "abandoned" \/ j \in dropped

\* A job that is stored as completed does not go on: its worker has ended or
\* reported, or Docker failed to stop it.  The waiting tool, the report, the
\* cancellation and the spawned writes take part.
CompletedIsOver ==
  \A j \in Jobs : row[j].status = "completed" => container[j] # "working"

\* Once a tool has waited for its job to the end, the job's token is revoked,
\* whoever came first, the report, the deadline, a cancellation or a crash;
\* unless the call that stopped the job was dropped before it revoked the token.
WaitedIsRevoked ==
  \A j \in Jobs : mode[j] = "wait" /\ creator[j] = "done" ~> j \notin tokens \/ j \in dropped

\* complete_job: "Stop container and revoke token" (job_manager.rs:539): once it
\* has stored a result and its handler is over, the token is no longer valid
\* (which the code does not keep, see the README).
CompletionRevokes ==
  \A j \in Jobs : handle[j].result # "none" /\ report[j] = "over" => j \notin tokens

\* "Cancelled by user" (server.rs:1340), answered with status "cancelled" (:1348):
\* a job that was cancelled is not a job that completed (which the code does not
\* keep, see the README).
CancelSticks ==
  \A j \in Jobs : ~ (row[j].status = "completed" /\ row[j].reason = "cancelled")
=============================================================================
