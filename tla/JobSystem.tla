----------------------------- MODULE JobSystem -----------------------------
(***************************************************************************)
(* The in-process job system of the agent: ContextManager (job contexts),  *)
(* Scheduler (running jobs and their cleanup tasks), one Worker per        *)
(* scheduled job, the self-repair loop, and the clients that create,       *)
(* cancel and help jobs: the main message loop and the full_job routines.  *)
(*                                                                         *)
(* A step is the code between two await points.  The `jobs' RwLock of the  *)
(* scheduler is held across awaits only by stop(), so it is a variable     *)
(* (`lock') there and an atomic step everywhere else.                      *)
(***************************************************************************)
EXTENDS Integers, FiniteSets

CONSTANTS
  Jobs,         \* job ids; a created job takes an id not used before
  Routines,     \* routine runs that may execute a full_job at the same time
  Main,         \* the main message loop, one message at a time
  Nobody,       \* no client holds the scheduler's lock
  NoJob,        \* a client that is not working on a job
  MaxJobs,      \* ContextManager::max_jobs
  MaxParallel,  \* AgentConfig::max_parallel_jobs, checked by schedule()
  MaxRepair,    \* AgentConfig::max_repair_attempts
  MaxIter,      \* iterations of a worker's loop (50 in the code), and the
                \* bound on the length of a plan
  HasStore      \* the optional database is configured

ASSUME JobsAssumption == IsFiniteSet(Jobs) /\ NoJob \notin Jobs
ASSUME ClientAssumption == Main \notin Routines /\ Nobody \notin Routines \cup {Main}
ASSUME BoundAssumption ==
  MaxJobs \in Nat /\ MaxParallel \in Nat /\ MaxRepair \in Nat /\ MaxIter \in Nat
ASSUME StoreAssumption == HasStore \in BOOLEAN

VARIABLES
  ctx,        \* state of each job's context, "absent" before it is created
  attempts,   \* repair_attempts of each job
  entries,    \* keys of Scheduler::jobs
  lock,       \* the client whose stop() holds the write lock on Scheduler::jobs
  cleaner,    \* the cleanup task schedule() spawns for a job
  worker,     \* where the job's worker is
  planned,    \* jobs whose worker executes a plan
  iter,       \* iterations, or planned actions, the worker has begun
  stopSent,   \* jobs with a Stop message waiting in the worker's channel
  sawCancel,  \* jobs whose worker read state = Cancelled for its current tool call
  client,     \* what each client is doing, and to which job
  stopAll,    \* ids stop_all() has still to stop
  found,      \* stuck jobs the repair loop has detected and not yet handled
  db,         \* status column of the job's row, "absent" if there is none
  writes      \* spawned database writes that have not run yet

ctxVars == <<ctx, attempts>>
schedVars == <<entries, lock, cleaner>>
workVars == <<worker, planned, iter, stopSent, sawCancel>>
clientVars == <<client, stopAll>>
dbVars == <<db, writes>>
vars == <<ctxVars, schedVars, workVars, clientVars, found, dbVars>>

Clients == Routines \cup {Main}

State == {"Pending", "InProgress", "Completed", "Submitted",
          "Accepted", "Failed", "Stuck", "Cancelled"}
Status == State \cup {"absent"}

\* JobState::can_transition_to
Transitions ==
  {<<"Pending", "InProgress">>, <<"Pending", "Cancelled">>,
   <<"InProgress", "Completed">>, <<"InProgress", "Failed">>,
   <<"InProgress", "Stuck">>, <<"InProgress", "Cancelled">>,
   <<"Completed", "Submitted">>, <<"Completed", "Failed">>,
   <<"Submitted", "Accepted">>, <<"Submitted", "Failed">>,
   <<"Stuck", "InProgress">>, <<"Stuck", "Failed">>, <<"Stuck", "Cancelled">>}

\* Mutant: re-entering a state is accepted
CanReenter(from, to) == from = to \/ <<from, to>> \in Transitions

CanTransition(from, to) == <<from, to>> \in Transitions

Terminal == {"Accepted", "Failed", "Cancelled"}

\* is_active(): not terminal
Active == {j \in Jobs : ctx[j] \in State \ Terminal}

WorkerPc == {"none", "start", "top", "call", "tool", "hook", "exec", "ask", "err", "done"}

\* Inside execution_loop, the part of run() under tokio::time::timeout
InLoop == {"top", "call", "tool", "hook", "exec", "ask"}

\* The worker's task has been spawned and its JoinHandle is not finished
Live == {j \in Jobs : worker[j] \notin {"none", "done"}}

ClientPc == {"idle", "save", "schedule", "poll", "deadline", "help", "resched",
             "cancel", "stop", "exit", "exited"}

DbWrite == [job : Jobs, kind : {"save", "update"}, status : Status]

----------------------------------------------------------------------------
Init ==
  /\ ctx = [j \in Jobs |-> "absent"]
  /\ attempts = [j \in Jobs |-> 0]
  /\ entries = {}
  /\ lock = Nobody
  /\ cleaner = [j \in Jobs |-> "none"]
  /\ worker = [j \in Jobs |-> "none"]
  /\ planned = {}
  /\ iter = [j \in Jobs |-> 0]
  /\ stopSent = {}
  /\ sawCancel = {}
  /\ client = [c \in Clients |-> [pc |-> "idle", job |-> NoJob]]
  /\ stopAll = {}
  /\ found = {}
  /\ db = [j \in Jobs |-> "absent"]
  /\ writes = {}

----------------------------------------------------------------------------
(* Shared operations *)

\* transition_to for a caller that ignores, or only reports, a refusal
TryTransition(j, to) ==
  ctx' = IF CanTransition(ctx[j], to) THEN [ctx EXCEPT ![j] = to] ELSE ctx

Goto(c, pc, j) == client' = [client EXCEPT ![c] = [pc |-> pc, job |-> j]]
Return(c) == Goto(c, "idle", NoJob)
Doing(c, pc, j) == client[c] = [pc |-> pc, job |-> j]

Update(j, to) == [job |-> j, kind |-> "update", status |-> to]
Spawn(write) == writes' = IF HasStore THEN writes \cup {write} ELSE writes

\* Mutant: the capacity check is off by one
NewContextOver(j) ==
  /\ ctx[j] = "absent"
  /\ Cardinality(Active) <= MaxJobs
  /\ ctx' = [ctx EXCEPT ![j] = "Pending"]
  /\ UNCHANGED attempts

\* create_job_for_user: the capacity check and the insertion are under one
\* write lock on the contexts
NewContext(j) ==
  /\ ctx[j] = "absent"
  /\ Cardinality(Active) < MaxJobs
  /\ ctx' = [ctx EXCEPT ![j] = "Pending"]
  /\ UNCHANGED attempts

\* A tool call is being executed: by the main loop's dispatcher, or by a worker
ToolRunning == client[Main].pc = "idle" \/ \E j \in Jobs : worker[j] = "exec"

\* schedule() past its checks: the transition, the worker with Start in its
\* channel, the entry and the cleanup task
StartWorker(j) ==
  /\ ctx' = [ctx EXCEPT ![j] = "InProgress"]
  /\ worker' = [worker EXCEPT ![j] = "start"]
  /\ entries' = entries \cup {j}
  /\ cleaner' = [cleaner EXCEPT ![j] = "watch"]
  /\ UNCHANGED <<attempts, lock, planned, iter, stopSent, sawCancel>>

\* The worker's task ends and its local state, channel included, is dropped
End(j) ==
  /\ worker' = [worker EXCEPT ![j] = "done"]
  /\ planned' = planned \ {j}
  /\ iter' = [iter EXCEPT ![j] = 0]
  /\ stopSent' = stopSent \ {j}
  /\ sawCancel' = sawCancel \ {j}

Schedulable(j) ==
  /\ j \notin entries
  /\ Cardinality(entries) < MaxParallel
  /\ CanTransition(ctx[j], "InProgress")

----------------------------------------------------------------------------
(* Creating jobs *)

\* /job in the main loop (handle_create_job) or a full_job routine
\* (execute_full_job).  A refusal leaves every variable as it was.
CreateJob(c, j) ==
  /\ client[c].pc = "idle"
  /\ NewContext(j)
  /\ Goto(c, "save", j)
  /\ UNCHANGED <<schedVars, workVars, stopAll, found, dbVars>>

\* The new context is read back and its save spawned
SaveJob(c, j) ==
  /\ Doing(c, "save", j)
  /\ Spawn([job |-> j, kind |-> "save", status |-> ctx[j]])
  /\ Goto(c, "schedule", j)
  /\ UNCHANGED <<ctxVars, schedVars, workVars, stopAll, found, db>>

\* scheduler.schedule(job_id): the main loop replies, a routine starts polling.
\* An entry that is already there counts as success.
ScheduleJob(c, j) ==
  /\ Doing(c, "schedule", j) \/ Doing(c, "resched", j)
  /\ lock = Nobody
  /\ \/ Schedulable(j) /\ StartWorker(j)
     \/ j \in entries /\ UNCHANGED <<ctxVars, schedVars, workVars>>
  /\ IF c = Main THEN Return(c) ELSE Goto(c, "poll", j)
  /\ UNCHANGED <<stopAll, found, dbVars>>

\* schedule() fails: no capacity, or the transition is refused.  The error is
\* returned and the context stays behind.
ScheduleRefused(c, j) ==
  /\ Doing(c, "schedule", j) \/ Doing(c, "resched", j)
  /\ lock = Nobody
  /\ j \notin entries
  /\ ~ Schedulable(j)
  /\ Return(c)
  /\ UNCHANGED <<ctxVars, schedVars, workVars, stopAll, found, dbVars>>

\* create_job without a sandbox (execute_local), called by the main loop's
\* dispatcher or by a worker's tool call: a context that nobody schedules
CreateLocal(j) ==
  /\ ToolRunning
  /\ NewContext(j)
  /\ UNCHANGED <<schedVars, workVars, clientVars, found, dbVars>>

----------------------------------------------------------------------------
(* Cancelling jobs *)

\* cancel_job tool, called from the same places: the context only, the
\* scheduler is not told
CancelTool(j) ==
  /\ ToolRunning
  /\ CanTransition(ctx[j], "Cancelled")
  /\ ctx' = [ctx EXCEPT ![j] = "Cancelled"]
  /\ UNCHANGED <<attempts, schedVars, workVars, clientVars, found, dbVars>>

\* /cancel (handle_cancel_job) has found the context and calls stop()
CancelJob(j) ==
  /\ client[Main].pc = "idle"
  /\ ctx[j] # "absent"
  /\ Goto(Main, "cancel", j)
  /\ UNCHANGED <<ctxVars, schedVars, workVars, stopAll, found, dbVars>>

\* Clients inside stop(), and what each does when it returns
Stopping(c, j) == client[c].pc \in {"cancel", "deadline", "exit"} /\ client[c].job = j

Stopped(c, j) ==
  IF client[c].pc = "exit"
  THEN Goto(c, "exit", NoJob) /\ stopAll' = stopAll \ {j}
  ELSE Return(c) /\ UNCHANGED stopAll

\* stop() finds no entry: Ok(()) and nothing is changed
StopNothing(c, j) ==
  /\ Stopping(c, j)
  /\ lock = Nobody
  /\ j \notin entries
  /\ Stopped(c, j)
  /\ UNCHANGED <<ctxVars, schedVars, workVars, found, dbVars>>

\* stop() takes the lock, removes the entry, sends Stop and sleeps 100 ms
StopBegin(c, j) ==
  /\ Stopping(c, j)
  /\ lock = Nobody
  /\ j \in entries
  /\ lock' = c
  /\ entries' = entries \ {j}
  /\ stopSent' = IF j \in Live THEN stopSent \cup {j} ELSE stopSent
  /\ UNCHANGED <<ctxVars, cleaner, worker, planned, iter, sawCancel, clientVars,
                 found, dbVars>>

\* Mutant: the lock is kept
StopFinishLocked(c, j) ==
  /\ Stopping(c, j)
  /\ lock = c
  /\ End(j)
  /\ TryTransition(j, "Cancelled")
  /\ Spawn(Update(j, "Cancelled"))
  /\ Stopped(c, j)
  /\ UNCHANGED <<attempts, entries, lock, cleaner, found, db>>

\* After the sleep: abort the worker, try Cancelled and ignore a refusal,
\* spawn the write of Cancelled, release the lock
StopFinish(c, j) ==
  /\ Stopping(c, j)
  /\ lock = c
  /\ lock' = Nobody
  /\ End(j)
  /\ TryTransition(j, "Cancelled")
  /\ Spawn(Update(j, "Cancelled"))
  /\ Stopped(c, j)
  /\ UNCHANGED <<attempts, entries, cleaner, found, db>>

\* The main loop has left its channel loop: the repair loop is aborted and
\* stop_all() takes a snapshot of the running jobs
Exit ==
  /\ client[Main].pc = "idle"
  /\ lock = Nobody
  /\ Goto(Main, "exit", NoJob)
  /\ stopAll' = entries
  /\ found' = {}
  /\ UNCHANGED <<ctxVars, schedVars, workVars, dbVars>>

\* stop_all() calls stop() for the ids of its snapshot, one after the other
ExitNext(j) ==
  /\ Doing(Main, "exit", NoJob)
  /\ j \in stopAll
  /\ Goto(Main, "exit", j)
  /\ UNCHANGED <<ctxVars, schedVars, workVars, stopAll, found, dbVars>>

\* run() returns and the process ends with every task still in it
Exited ==
  /\ Doing(Main, "exit", NoJob)
  /\ stopAll = {}
  /\ Goto(Main, "exited", NoJob)
  /\ UNCHANGED <<ctxVars, schedVars, workVars, stopAll, found, dbVars>>

----------------------------------------------------------------------------
(* Helping and polling *)

\* attempt_recovery()
Recover(j) ==
  /\ ctx[j] = "Stuck"
  /\ ctx' = [ctx EXCEPT ![j] = "InProgress"]
  /\ attempts' = [attempts EXCEPT ![j] = @ + 1]

\* /help (handle_help_job) reads the context and acts only on a stuck job
HelpJob(j) ==
  /\ client[Main].pc = "idle"
  /\ ctx[j] = "Stuck"
  /\ Goto(Main, "help", j)
  /\ UNCHANGED <<ctxVars, schedVars, workVars, stopAll, found, dbVars>>

\* It recovers the context, or returns the error of a job no longer stuck
HelpRecover(j) ==
  /\ Doing(Main, "help", j)
  /\ \/ Recover(j) /\ Goto(Main, "resched", j)
     \/ ctx[j] # "Stuck" /\ Return(Main) /\ UNCHANGED ctxVars
  /\ UNCHANGED <<schedVars, workVars, stopAll, found, dbVars>>

\* A routine polls its job until the job is over (poll_job_to_terminal)
PollOver(c, j) ==
  /\ Doing(c, "poll", j)
  /\ ctx[j] \in {"Completed", "Submitted"} \cup Terminal
  /\ Return(c)
  /\ UNCHANGED <<ctxVars, schedVars, workVars, stopAll, found, dbVars>>

\* or until the full_job deadline passes, and then calls stop()
PollDeadline(c, j) ==
  /\ Doing(c, "poll", j)
  /\ Goto(c, "deadline", j)
  /\ UNCHANGED <<ctxVars, schedVars, workVars, stopAll, found, dbVars>>

----------------------------------------------------------------------------
(* The cleanup task of a scheduled job *)

\* Mutants: the handle is not asked; only a vanished entry ends the watch
CleanupCheckBlind(j) ==
  /\ cleaner[j] = "watch"
  /\ lock = Nobody
  /\ cleaner' = [cleaner EXCEPT ![j] = "remove"]
  /\ UNCHANGED <<ctxVars, entries, lock, workVars, clientVars, found, dbVars>>

CleanupCheckGone(j) ==
  /\ cleaner[j] = "watch"
  /\ lock = Nobody
  /\ j \notin entries
  /\ cleaner' = [cleaner EXCEPT ![j] = "remove"]
  /\ UNCHANGED <<ctxVars, entries, lock, workVars, clientVars, found, dbVars>>

\* Under the read lock: the entry is gone or its worker has finished
CleanupCheck(j) ==
  /\ cleaner[j] = "watch"
  /\ lock = Nobody
  /\ j \notin entries \/ j \notin Live
  /\ cleaner' = [cleaner EXCEPT ![j] = "remove"]
  /\ UNCHANGED <<ctxVars, entries, lock, workVars, clientVars, found, dbVars>>

\* Under a write lock taken later
CleanupRemove(j) ==
  /\ cleaner[j] = "remove"
  /\ lock = Nobody
  /\ entries' = entries \ {j}
  /\ cleaner' = [cleaner EXCEPT ![j] = "none"]
  /\ UNCHANGED <<ctxVars, lock, workVars, clientVars, found, dbVars>>

----------------------------------------------------------------------------
(* The worker of job j *)

\* Its task goes on at pc, with its local state kept
Go(j, pc) ==
  /\ worker' = [worker EXCEPT ![j] = pc]
  /\ UNCHANGED <<planned, iter, stopSent, sawCancel>>

\* mark_completed, mark_failed, mark_stuck: the transition and, only if it is
\* accepted, the spawned write; a refusal is an error
Mark(j, to) ==
  /\ CanTransition(ctx[j], to)
  /\ ctx' = [ctx EXCEPT ![j] = to]
  /\ Spawn(Update(j, to))

\* Mutant: the write is spawned before the transition is known to be accepted
MarkRefusedSpawns(j, to) == ~ CanTransition(ctx[j], to) /\ Spawn(Update(j, to)) /\ UNCHANGED ctx

MarkRefused(j, to) == ~ CanTransition(ctx[j], to) /\ UNCHANGED <<ctx, writes>>

MarkOrErr(j, to) == \/ Mark(j, to) /\ End(j)
                    \/ MarkRefused(j, to) /\ Go(j, "err")

\* run() receives Start, then plans or, without planning, goes to its loop
Begin(j) ==
  /\ worker[j] = "start"
  /\ worker' = [worker EXCEPT ![j] = "top"]
  /\ planned' \in {planned, planned \cup {j}}
  /\ UNCHANGED <<ctxVars, schedVars, iter, stopSent, sawCancel, clientVars, found, dbVars>>

\* The head of both loops: a waiting Stop ends the worker
TopStop(j) ==
  /\ worker[j] = "top"
  /\ j \in stopSent
  /\ End(j)
  /\ UNCHANGED <<ctxVars, schedVars, clientVars, found, dbVars>>

AtTop(j) == worker[j] = "top" /\ j \notin stopSent

\* Direct selection: a cancelled job ends the worker
TopCancelled(j) ==
  /\ AtTop(j)
  /\ j \notin planned
  /\ ctx[j] = "Cancelled"
  /\ End(j)
  /\ UNCHANGED <<ctxVars, schedVars, clientVars, found, dbVars>>

\* Direct selection: the next iteration asks the LLM
TopNext(j) ==
  /\ AtTop(j)
  /\ j \notin planned
  /\ ctx[j] # "Cancelled"
  /\ iter[j] < MaxIter
  /\ iter' = [iter EXCEPT ![j] = @ + 1]
  /\ worker' = [worker EXCEPT ![j] = "call"]
  /\ UNCHANGED <<ctxVars, schedVars, planned, stopSent, sawCancel, clientVars, found, dbVars>>

\* Direct selection: no iteration is left
TopExhausted(j) ==
  /\ AtTop(j)
  /\ j \notin planned
  /\ ctx[j] # "Cancelled"
  /\ iter[j] >= MaxIter
  /\ MarkOrErr(j, "Stuck")
  /\ UNCHANGED <<attempts, schedVars, clientVars, found, db>>

\* A plan: its next action
PlanNext(j) ==
  /\ AtTop(j)
  /\ j \in planned
  /\ iter[j] < MaxIter
  /\ iter' = [iter EXCEPT ![j] = @ + 1]
  /\ worker' = [worker EXCEPT ![j] = "tool"]
  /\ UNCHANGED <<ctxVars, schedVars, planned, stopSent, sawCancel, clientVars, found, dbVars>>

\* or, after its last, the question whether the job is complete.  The loop that
\* reads the channel is over by then: a waiting Stop is not looked at.
PlanOver(j) ==
  /\ worker[j] = "top"
  /\ j \in planned
  /\ Go(j, "ask")
  /\ UNCHANGED <<ctxVars, schedVars, clientVars, found, dbVars>>

\* The LLM selects tools, answers with a text that goes on, or fails
CallGoesOn(j) ==
  /\ worker[j] = "call"
  /\ \E pc \in {"tool", "top", "err"} : Go(j, pc)
  /\ UNCHANGED <<ctxVars, schedVars, clientVars, found, dbVars>>

\* The LLM says the job is complete, in the loop or after a plan
SaysComplete(j) ==
  /\ worker[j] \in {"call", "ask"}
  /\ MarkOrErr(j, "Completed")
  /\ UNCHANGED <<attempts, schedVars, clientVars, found, db>>

\* After a plan the LLM says work remains, and the job is marked Stuck
AskIncomplete(j) ==
  /\ worker[j] = "ask"
  /\ MarkOrErr(j, "Stuck")
  /\ UNCHANGED <<attempts, schedVars, clientVars, found, db>>

\* or the call fails
AskFails(j) ==
  /\ worker[j] = "ask"
  /\ Go(j, "err")
  /\ UNCHANGED <<ctxVars, schedVars, clientVars, found, dbVars>>

\* execute_tool_inner, up to the hooks: an unknown or unapproved tool is an
\* error of the call, otherwise the job's context is read
ToolRefused(j) ==
  /\ worker[j] = "tool"
  /\ Go(j, "top")
  /\ UNCHANGED <<ctxVars, schedVars, clientVars, found, dbVars>>

ToolBegin(j) ==
  /\ worker[j] = "tool"
  /\ worker' = [worker EXCEPT ![j] = "hook"]
  /\ sawCancel' = IF ctx[j] = "Cancelled" THEN sawCancel \cup {j} ELSE sawCancel
  /\ UNCHANGED <<ctxVars, schedVars, planned, iter, stopSent, clientVars, found, dbVars>>

\* Mutant: the copied context is not looked at
HookUnchecked(j) ==
  /\ worker[j] = "hook"
  /\ \E pc \in {"top", "exec"} : worker' = [worker EXCEPT ![j] = pc]
  /\ sawCancel' = sawCancel \ {j}
  /\ UNCHANGED <<ctxVars, schedVars, planned, iter, stopSent, clientVars, found, dbVars>>

\* The hooks have run: a rejection, invalid parameters, or the context as it
\* was read before them, Cancelled, ends the call; else the tool is executed
Hook(j) ==
  /\ worker[j] = "hook"
  /\ \/ worker' = [worker EXCEPT ![j] = "top"]
     \/ j \notin sawCancel /\ worker' = [worker EXCEPT ![j] = "exec"]
  /\ sawCancel' = sawCancel \ {j}
  /\ UNCHANGED <<ctxVars, schedVars, planned, iter, stopSent, clientVars, found, dbVars>>

\* The tool returns, fails or times out
Exec(j) ==
  /\ worker[j] = "exec"
  /\ Go(j, "top")
  /\ UNCHANGED <<ctxVars, schedVars, clientVars, found, dbVars>>

\* execution_loop returned an error: mark_failed, accepted or refused
Err(j) ==
  /\ worker[j] = "err"
  /\ Mark(j, "Failed") \/ MarkRefused(j, "Failed")
  /\ End(j)
  /\ UNCHANGED <<attempts, schedVars, clientVars, found, db>>

\* Mutant: the loop is not dropped
TimeoutGoesOn(j) ==
  /\ worker[j] \in InLoop
  /\ Mark(j, "Stuck") \/ MarkRefused(j, "Stuck")
  /\ Go(j, "top")
  /\ UNCHANGED <<attempts, schedVars, clientVars, found, db>>

\* The job timeout drops execution_loop at an await point: mark_stuck
Timeout(j) ==
  /\ worker[j] \in InLoop
  /\ Mark(j, "Stuck") \/ MarkRefused(j, "Stuck")
  /\ End(j)
  /\ UNCHANGED <<attempts, schedVars, clientVars, found, db>>

WorkerStep(j) ==
  \/ Begin(j) \/ TopStop(j) \/ TopCancelled(j) \/ TopNext(j) \/ TopExhausted(j)
  \/ PlanNext(j) \/ PlanOver(j) \/ CallGoesOn(j) \/ SaysComplete(j) \/ AskIncomplete(j)
  \/ AskFails(j) \/ ToolRefused(j) \/ ToolBegin(j) \/ Hook(j) \/ Exec(j) \/ Err(j)

----------------------------------------------------------------------------
(* The self-repair loop, aborted when the main loop leaves *)

RepairLoopRuns == client[Main].pc \notin {"exit", "exited"}

\* detect_stuck_jobs: the stuck jobs with the attempts made for each
Detect ==
  /\ RepairLoopRuns
  /\ found = {}
  /\ found' = {[job |-> j, attempts |-> attempts[j]] : j \in {k \in Jobs : ctx[k] = "Stuck"}}
  /\ found' # {}
  /\ UNCHANGED <<ctxVars, schedVars, workVars, clientVars, dbVars>>

\* Mutant: a job past its budget is only logged
RepairLogs(s) ==
  /\ RepairLoopRuns
  /\ s \in found
  /\ found' = found \ {s}
  /\ \/ s.attempts >= MaxRepair /\ UNCHANGED ctxVars
     \/ s.attempts < MaxRepair /\ Recover(s.job)
     \/ s.attempts < MaxRepair /\ ctx[s.job] # "Stuck" /\ UNCHANGED ctxVars
  /\ UNCHANGED <<schedVars, workVars, clientVars, dbVars>>

\* repair_stuck_job on one of them, the detected number of attempts deciding.
\* The loop has no store, so nothing is persisted.
Repair(s) ==
  /\ RepairLoopRuns
  /\ s \in found
  /\ found' = found \ {s}
  /\ \/ s.attempts >= MaxRepair /\ TryTransition(s.job, "Failed") /\ UNCHANGED attempts
     \/ s.attempts < MaxRepair /\ Recover(s.job)
     \/ s.attempts < MaxRepair /\ ctx[s.job] # "Stuck" /\ UNCHANGED ctxVars
  /\ UNCHANGED <<schedVars, workVars, clientVars, dbVars>>

----------------------------------------------------------------------------
(* Spawned database writes: each runs when it is scheduled, in any order *)

\* save_job upserts the row, update_job_status updates it if it is there
Write(w) ==
  /\ w \in writes
  /\ writes' = writes \ {w}
  /\ db' = IF w.kind = "save" \/ db[w.job] # "absent"
           THEN [db EXCEPT ![w.job] = w.status]
           ELSE db
  /\ UNCHANGED <<ctxVars, schedVars, workVars, clientVars, found>>

\* The database returns an error: logged and dropped
WriteFails(w) ==
  /\ w \in writes
  /\ writes' = writes \ {w}
  /\ UNCHANGED <<ctxVars, schedVars, workVars, clientVars, found, db>>

----------------------------------------------------------------------------
\* The client that calls stop() takes its next step
StopStep(c, j) == StopNothing(c, j) \/ StopBegin(c, j) \/ StopFinish(c, j)

\* schedule() of a new job and of a job under recovery
ScheduleStep(c, j) == ScheduleJob(c, j) \/ ScheduleRefused(c, j)

\* What a client that has begun does next
ClientGoesOn(c, j) ==
  \/ SaveJob(c, j) \/ ScheduleStep(c, j)
  \/ PollOver(c, j) \/ PollDeadline(c, j) \/ StopStep(c, j)

ClientStep(c, j) == CreateJob(c, j) \/ ClientGoesOn(c, j)

MainStep(j) ==
  \/ CreateLocal(j) \/ CancelTool(j) \/ CancelJob(j)
  \/ HelpJob(j) \/ HelpRecover(j) \/ ExitNext(j)

JobStep(j) == WorkerStep(j) \/ Timeout(j) \/ CleanupCheck(j) \/ CleanupRemove(j)

Running == client[Main].pc # "exited"

Next ==
  /\ Running
  /\ \/ \E j \in Jobs : JobStep(j) \/ MainStep(j) \/ \E c \in Clients : ClientStep(c, j)
     \/ Exit \/ Exited \/ Detect
     \/ \E s \in found : Repair(s)
     \/ \E w \in writes : Write(w) \/ WriteFails(w)

\* Tokio runs every task that can go on, the database answers, and a deadline
\* or sleep that has begun passes.  The user, who creates, cancels and helps
\* jobs and ends the program, owes nothing; nor does the LLM, beyond answering.
\* A worker reaches its job timeout whatever else it does, so the timeout
\* needs no fairness of its own.
Fairness ==
  /\ \A j \in Jobs :
       /\ WF_vars(Running /\ WorkerStep(j))
       /\ WF_vars(Running /\ CleanupCheck(j))
       /\ WF_vars(Running /\ CleanupRemove(j))
  /\ \A c \in Clients : WF_vars(Running /\ \E j \in Jobs : ClientGoesOn(c, j))
  /\ WF_vars(Running /\ (Exited \/ \E j \in Jobs : HelpRecover(j) \/ ExitNext(j)))
  /\ WF_vars(Running /\ Detect)
  /\ \A j \in Jobs, n \in 0..(MaxRepair + 1) :
       WF_vars(Running /\ Repair([job |-> j, attempts |-> n]))
  /\ WF_vars(Running /\ \E w \in writes : Write(w) \/ WriteFails(w))

Spec == Init /\ [][Next]_vars
FairSpec == Spec /\ Fairness

----------------------------------------------------------------------------
(* Invariants *)

ClientType ==
  [pc : {"idle", "exited"}, job : {NoJob}]
    \cup [pc : {"exit"}, job : Jobs \cup {NoJob}]
    \cup [pc : ClientPc \ {"idle", "exit", "exited"}, job : Jobs]

\* Every variable has its type; a client works on a job exactly when its place
\* in the code has one (the locals of commands.rs, routine_engine.rs and stop()).
TypeOK ==
  /\ ctx \in [Jobs -> Status]
  /\ attempts \in [Jobs -> Nat]
  /\ entries \subseteq Jobs
  /\ lock \in Clients \cup {Nobody}
  /\ cleaner \in [Jobs -> {"none", "watch", "remove"}]
  /\ worker \in [Jobs -> WorkerPc]
  /\ planned \subseteq Jobs
  /\ iter \in [Jobs -> 0..MaxIter]
  /\ stopSent \subseteq Jobs
  /\ sawCancel \subseteq Jobs
  /\ client \in [Clients -> ClientType]
  /\ stopAll \subseteq Jobs
  /\ found \subseteq [job : Jobs, attempts : Nat]
  /\ db \in [Jobs -> Status]
  /\ writes \subseteq DbWrite

\* Concurrent creations by the main loop, its tools, workers and routines never
\* make more than max_jobs contexts active (create_job_for_user).
ActiveBound == Cardinality(Active) <= MaxJobs

\* No worker runs behind the scheduler's back: a live worker is in the jobs map,
\* or a stop() that holds the map's lock has just taken it out and will abort it.
\* Otherwise it could be neither counted nor stopped (schedule, stop, cleanup).
WorkersTracked ==
  \A j \in Live : j \in entries \/ \E c \in Clients : lock = c /\ Stopping(c, j)

\* max_parallel_jobs bounds the workers that really run, not only the entries
\* schedule() counts: stop() and the cleanup task free a slot only with its worker.
ParallelBound == Cardinality(Live) <= MaxParallel

\* While a worker runs, its job is InProgress, or Cancelled by the tool and not
\* yet noticed: nobody else completes, fails or recovers a job being worked on
\* (worker marks, self-repair with its stale detection, /help, routines).
WorkedJobState == \A j \in Live : ctx[j] \in {"InProgress", "Cancelled"}

\* An outcome in the database is the job's outcome, although writes are spawned,
\* reordered and lost, and the outcome decided in memory may be refused
\* (mark_completed and mark_failed persist only an accepted transition).
DbOutcomeTrue == \A j \in Jobs : db[j] \in {"Completed", "Failed"} => ctx[j] = db[j]

\* A job is recovered at most once, by /help or by the repair loop, whatever
\* max_repair_attempts says: recovery gives it no worker, and nobody but its worker
\* would mark it Stuck again (attempt_recovery, schedule, mark_stuck).
RecoveredOnce == \A j \in Jobs : attempts[j] <= 1 /\ (ctx[j] = "Stuck" => attempts[j] = 0)

(* Properties of steps and behaviours *)

\* The scheduler implements the bounded pool: at most max_parallel_jobs workers,
\* and never a second worker for a job.  The latter is why the cleanup task may
\* check under one lock and remove under another.
Pool == INSTANCE WorkerPool
          WITH Size <- MaxParallel, running <- Live,
               finished <- {j \in Jobs : worker[j] = "done"}
PoolSpec == Pool!Spec

\* Once a job is cancelled, the tool call that has read its context may still be
\* executed, and no other: execute_tool_inner checks a copy taken before the hooks.
CancelBlocksTools ==
  \A j \in Jobs : [](ctx[j] = "Cancelled" /\ worker[j] \notin {"hook", "exec"}
                       => [](worker[j] # "exec"))

ShutDown == client[Main].pc = "exited"

\* Slots of the scheduler do not leak: an entry leaves the map whatever its
\* worker does, by the cleanup task "to avoid capacity leaks" or by stop().
EntriesLeave == \A j \in Jobs : j \in entries ~> j \notin entries \/ ShutDown

\* Every command and every full_job routine returns, so no routine holds its
\* concurrency slot forever (execute_full_job) and the main loop never hangs on
\* a lock: stop() holds it across a sleep while others queue behind it.
ClientsReturn ==
  \A c \in Clients : client[c].pc # "idle" ~> client[c].pc = "idle" \/ ShutDown

\* The self-repair loop does not leave a job Stuck: within its budget it is
\* recovered, beyond it failed (repair_stuck_job), until the program exits.
StuckIsHandled ==
  \A j \in Jobs : ctx[j] = "Stuck" ~> ctx[j] # "Stuck" \/ ~ RepairLoopRuns

\* "recovered and will be retried" and "depends on Stuck eventually resolving"
\* (self_repair.rs:208, 151): a stuck job runs again or comes to an end
\* (which the code does not keep, see the README).
StuckResolves ==
  \A j \in Jobs : ctx[j] = "Stuck"
                    ~> ctx[j] \in Terminal \/ j \in Live \/ ~ RepairLoopRuns
=============================================================================
