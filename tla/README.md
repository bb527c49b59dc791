# A TLA+ verification project for gyre

gyre is a personal AI agent written in Rust on tokio. One process talks to its
user over several channels, runs conversations and background jobs with an LLM
and tools, executes jobs in containers, fires routines on schedules and events,
and keeps its data in an optional database. This directory models the parts of
it where steps of several tasks interleave, checks them with TLC on small
instances, and proves the most important results with TLAPS for any number of
jobs, clients, messages and limits.

Paths below are relative to the repository's root.

## 1. Inventory

| Component | State | Operations | Interacts with | What is hard |
|---|---|---|---|---|
| Job contexts, `src/context/` | `contexts` map (RwLock), `JobState`, repair attempts, budgets | create, transition, recover, remove | everyone who knows a job id | capacity check and insertion; who may change a state under whom |
| Scheduler, `src/agent/scheduler.rs` | `jobs` and `subtasks` maps of task handles | schedule, stop, stop_all, cleanup tasks, subtasks and batches | contexts, workers, database | check-then-remove of the cleanup task; a lock held across a sleep; refused starts |
| Worker, `src/agent/worker.rs` | iteration, plan, channel | plan, loop, tool calls, marks | LLM, tools, hooks, contexts, database | stale context across hooks; Stop and Cancelled seen late; job timeout in any await |
| Self-repair, `src/agent/self_repair.rs` | attempts, usage records | detect, recover, rebuild broken tools | contexts, builder | stale detection; recovery without a worker |
| Routine engine, `src/agent/routine*.rs`, `src/tools/builtin/routine.rs` | event cache, running count, routine and run rows | fire on cron, event, request; lightweight and full_job runs; dry runs; edits | database, LLM, contexts, scheduler | limits checked before spawns; stale copies; rows left by a restart |
| Conversations, `src/agent/{agent_loop,thread_ops,dispatcher,commands,session,session_manager,undo,submission,compaction,context_monitor}.rs` | sessions, threads and turns, pending approvals, undo stacks, thread map | message handling, tool loop, approval, auth, interrupt, undo, compaction, hydration, pruning | LLM, tools, channels, database | approval of a changed thread; hydration and pruning beside a message; double-checked session creation |
| Heartbeat and job monitor, `src/agent/{heartbeat,job_monitor}.rs` | failure count; broadcast cursor | periodic check; forward container output | LLM, channels | lagged broadcast; giving up |
| Cost guard, `src/agent/cost_guard.rs` | today's cost, hourly actions | check, record | every LLM call of a conversation | check and record are separate steps |
| LLM providers, `src/llm/` | circuit state, cooldowns, response cache, session token, cost log | complete, fail over, retry, renew | network | calls in flight that end after the state has moved on; layers that judge each other |
| Container jobs, `src/orchestrator/`, `src/worker/`, `src/tools/builtin/job.rs`, `src/sandbox/` | container handles, tokens, prompt queues, event channel, job rows | create, stop, complete, cleanup, report, prompt, event | Docker, database, web UI, agent loop | a worker that reports before its creation is finished; two sides that write a status; answers lost on the way |
| Hooks, `src/hooks/` | ordered hook list, trusted tools | register, run | worker, dispatcher | timeouts, fail-open and fail-closed |
| Channels, `src/channels/` | channel streams, pending responses, typing tasks, SSE and websocket connections, WASM pollers | start, respond, status, broadcast, shut down | agent loop, web clients | guards held while an inbox is full; response to a caller that has gone |
| Tools, `src/tools/` | registry, WASM rate limits, MCP sessions, builder state | register, execute, limit | workers, network, WASM runtime | window resets, session expiry |
| Pairing, `src/pairing/` | pending file, allowFrom file | request, list, approve | channels, command line | two processes and the same files |
| Safety, egress, secrets, licensing | policies, key store, licence cache | scan, encrypt, validate | files, network | expiry boundaries |
| Extensions and skills, `src/extensions/`, `src/skills/` | installed sets, pending OAuth | install, activate, remove | tools, files | partial installation |
| Data: `src/db/`, `src/history/`, `src/workspace/` | rows | queries | database | none of its own beyond SQL |
| Cognitive, estimation, evaluation, templates | learned statistics | update, query | LLM | sequential |
| Setup, CLI, configuration, tunnels, observability | settings | one-shot commands | terminal, processes | sequential |

PROJECT.json lists every component with its sources and status, and the hazards
with their lines and the properties that watch them.

For each component, what would make it correct:

- *Job contexts*: never more than `max_jobs` active, whoever creates; a state
  changes only along the transition table, and nobody but its worker changes the
  state of a job that is being worked on, except to cancel it.
- *Scheduler*: no more workers than `max_parallel_jobs`; a job is executed at
  most once; a worker can always be counted and stopped; slots come back.
- *Worker*: a cancelled job executes no further tool; every way it ends leaves
  the job in a state that says so, in memory and, if accepted, in the database.
- *Self-repair*: a stuck job is dealt with, and resumes or ends.
- *Routine engine*: the guardrails see the runs that execute; counters never
  count what did not happen; a routine that is due fires.
- *Conversations*: one turn per thread at a time; no thread is left mute; an
  approval resumes the call it was given for; undo restores a state that
  existed; a message is handled in its own conversation, and hydration and
  pruning lose nothing that is in memory.
- *Cost guard*: limits are overrun by a known amount only, and are renewed.
- *LLM providers*: a circuit that opened closes again; a request always has a
  provider to try; a provider that has recovered is used again; the cache keeps
  its limit.
- *Container jobs*: a token has somebody who will revoke it; a stored outcome is
  the job's; a cancellation sticks; prompts arrive once and in order; the agent
  hears of the result.
- *Channels*: an answer finds who waits for it; a handler returns; a typing
  indicator ends; shutting down ends.
- *Pairing*: a bounded number of requests, one code for one sender, and nobody
  let in who was not approved.
- *Hooks, tools*: order and fail-open rules; windows that neither leak nor
  overrun.

## 2. What exists

| Module | Composes | Abstract specification | Proofs | Runs |
|---|---|---|---|---|
| `JobSystem` | job contexts, scheduler, workers, self-repair, job commands and tools, `full_job` routines, the database writes of all of them | `WorkerPool` | `JobSystemProofs` | job_safety, job_liveness (module `MCJobSystem`) |
| `CostGuard` | the agents that share the guard | | `ProviderChainProofs` | cost_safety |
| `ProviderChain` | `Failover`, `CircuitBreaker` and the response cache, as the program stacks them | `CircuitBreaker` | `ProviderChainProofs` | provider_chain |
| `SandboxJobs` | container manager, token store, `create_job`, completion report, web handlers, job rows | | `SandboxJobsProofs` | sandbox_safety |
| `ContainerLink` | the two runtimes in a container, prompt queue, event channel, job monitor, agent loop | `Delivery`, twice | `ContainerLinkProofs` | container_link |
| `RoutineEngine` | triggers, guardrails, runs, rows, dry runs, tools and web handlers that edit | | `RoutineEngineProofs` | routine_safety |
| `Conversation` | main loop, threads, approvals, tokens, undo, compaction, web gateway | `Timeline` | `ConversationProofs` | conversation_safety |
| `Sessions` | session manager, hydration, thread map, pruning, saved turns, web gateway, restarts | | `SessionsProofs` | sessions_safety, sessions_routed |
| `Channels` | main loop, HTTP channel, a WASM channel, shutdown | | `ChannelsProofs` | channels |
| `Pairing` | callbacks, runs of the command line, two files | | `ChannelsProofs` | pairing_safety |

In order of importance the modules were written from the top. Three abstract
specifications say what a component promises to the others: `WorkerPool` (a
bounded pool that runs a job at most once), `Timeline` (undo history is a line
of states with a cursor) and `Delivery` (what is sent is taken once, in order,
and lost only after something broke); `CircuitBreaker` is itself a complete
specification of the breaker, which `ProviderChain` is shown to implement.

### The runs and their bounds

| Run | Instance | Distinct states |
|---|---|---|
| job_safety | 2 jobs, 1 routine, `MaxJobs`, `MaxParallel`, `MaxRepair`, `MaxIter` all 1, with the database, symmetric jobs | 3,323,117 |
| job_liveness | 2 jobs, 1 routine, `MaxJobs` 2, `MaxParallel` 1, `MaxRepair` 0, `MaxIter` 1, no database | 155,810 |
| cost_safety | 3 agents, 3 cents a day, 2 actions an hour, calls of 0 to 2 cents, days 0 to 2 | 8,064 |
| provider_chain | 2 requests at a time, 2 providers, all thresholds 2, a cache of 1 entry | 939,324 |
| sandbox_safety | 2 jobs, of them 1 old, 1 restart of the process | 106,370 |
| container_link | 1 job in either mode, 2 iterations, 2 prompts, 1 event from elsewhere, a ring of 2, room for 1 message | 380,324 |
| routine_safety | 1 routine, 2 runs, both limits 1, 1 tool call at a time, 1 dry run or restart, failing writes | 2,444,368 |
| conversation_safety | 2 threads, 1 tool, 3 turns, 2 approvals, batches of 2 calls, 3 iterations, 2 checkpoints | 388,559 |
| sessions_safety | 2 threads, 1 name, 3 session objects, 1 turn per thread, symmetric threads and sessions | 3,479,374 |
| sessions_routed | the same | violated |
| channels | 2 requests, a webhook and the poller, 2 typing tasks, inboxes and table of 1, 2 rounds | 488,678 |
| pairing_safety | 2 runs of the command line, 3 senders, 3 codes, room for 2 requests, all symmetric | 121,575 |

Bounds that are not in the code: the sets of ids (random, never reused), and
`MaxCrashes`, `LastDay`, `MaxRuns`, `MaxUpsets`, `MaxTurns`, `MaxRequests`,
`MaxCalls`, `MaxPrompts`, `MaxEvents`. They only end behaviours, and every
property is about steps that come before. Bounds that are configuration or
constants of the code (`MaxIter` and `MaxRounds` are 10 or 50 there, `Capacity`
256, `MaxPending` 100, `MaxPairings` 3, the ring 256) are small: each is
reached, met again and, where the code allows it, passed, in the instance given.
Sections 3 to 12 say per run why its instance shows the interesting cases; what
is proved holds without the bounds.

The type invariants of all modules but `ProviderChain` and `RoutineEngine`, whose
types carry more than types, are not runs' properties: they are proved
(section 13). `ParallelBound`, `RecoveredOnce`, `HourlyOverrun`, `PromptsInOrder`
and `ShutdownCloses` are proved as well and not run by themselves; put into the
cfg of the module's run, TLC finds each to hold there.

## 3. The job system: `JobSystem`, `WorkerPool`

### State

| Variable | In the code |
|---|---|
| `ctx`, `attempts` | `JobContext::state` and `repair_attempts` in `ContextManager::contexts` |
| `entries`, `lock` | the keys of `Scheduler::jobs`, and its RwLock where it is held across an await |
| `cleaner` | the task `schedule` spawns that waits for the worker to finish and removes the entry |
| `worker`, `planned`, `iter` | where `Worker::run` is; whether it executes a plan; iterations or planned actions begun |
| `stopSent` | a `WorkerMessage::Stop` in the worker's channel |
| `sawCancel` | the context copied by `execute_tool_inner` before the hooks is `Cancelled` |
| `client`, `stopAll` | the main message loop and each routine run; the snapshot `stop_all` works through |
| `found` | the vector `detect_stuck_jobs` returned and `repair_stuck_job` has not reached |
| `db`, `writes` | the status column of the job's row; spawned writes |

### Actions

A step is the code between two awaits at which another task can come between. A
lock taken and released within such a piece is part of it. `stop` holds the
scheduler's lock across a message, a sleep of 100 ms and the context's lock, so
there the lock is a variable, and every other user of the map waits for it;
`schedule` holds it too, and is one step all the same (see Abstractions).

| Code | Actions |
|---|---|
| `handle_create_job`, `execute_full_job`, `create_job_for_user` | `CreateJob`, `SaveJob`, `ScheduleJob`, `ScheduleRefused` |
| `create_job` tool without a sandbox | `CreateLocal` |
| `Scheduler::schedule` and its cleanup task | `ScheduleJob`, `CleanupCheck`, `CleanupRemove` |
| `Scheduler::stop`, `stop_all` | `StopNothing`, `StopBegin`, `StopFinish`, `Exit`, `ExitNext`, `Exited` |
| `handle_cancel_job`, `cancel_job` tool | `CancelJob`, `CancelTool` |
| `handle_help_job` | `HelpJob`, `HelpRecover`, then `ScheduleJob` or `ScheduleRefused` |
| `poll_job_to_terminal` and the deadline | `PollOver`, `PollDeadline` |
| `Worker::run`, `execution_loop` | `Begin`, `TopStop`, `TopCancelled`, `TopNext`, `TopExhausted`, `CallGoesOn`, `SaysComplete` |
| `execute_plan` | `PlanNext`, `PlanOver`, `SaysComplete`, `AskIncomplete`, `AskFails` |
| `execute_tool_inner` | `ToolRefused`, `ToolBegin`, `Hook`, `Exec` |
| the job timeout and an error of the loop | `Timeout`, `Err` |
| `detect_stuck_jobs`, `repair_stuck_job` | `Detect`, `Repair` |
| spawned database writes | `Write`, `WriteFails` |

### Abstractions

- The answer of the LLM, a hook, a tool and the user are choices; their contents
  are left out, and so are job memory, logs, token budgets, the fallback
  deliverable and the `Ping` message. A batch of parallel tools is one call,
  since the worker waits for all of it. So is a batch that the worker executes
  one after another (src/agent/worker.rs:295), between whose calls it looks at
  neither Stop nor the iteration; each of them reads the job's context again
  before its hooks, as the calls of a plan do.
- `ScheduleJob` is one step. `schedule` holds the jobs map's lock across
  `update_context` and the send of Start (src/agent/scheduler.rs:89); what others
  do to contexts in between comes before or after the transition, and nobody
  can look at the map between the worker's spawn and its entry.
- `JoinHandle::abort` takes effect within `StopFinish`. In the code the task is
  dropped at its next await, so a worker that is in the middle of a piece of
  code on another thread finishes that piece after the abort; the model has it
  come before. For that moment, and no longer, one worker more may be running
  than `ParallelBound` says.
- Subtasks and batches of the scheduler are spawned by tests only.
- Job ids are never reused (they are random), so `Jobs` is the bound on the jobs
  created in a behaviour.
- The repair loop's rebuilding of broken tools is left out; it shares no state
  with jobs.

### Runs

*job_safety*: two jobs, created and cancelled by the main loop, its tools and a
routine, compete for one context and one worker slot, with one repair attempt
and a database whose writes run in any order or fail. Two jobs are the smallest
number that can fill `max_jobs` and `max_parallel_jobs` and still be refused,
and one iteration already reaches every place of the worker, since a second
begins where the first did. The jobs are symmetric; nothing chooses among them.
It checks

- `ActiveBound`: never more than `max_jobs` active contexts;
- `WorkersTracked`: a live worker is in the map, or the holder of the map's lock
  is about to abort it;
- `WorkedJobState`: while a worker lives its job is `InProgress`, or `Cancelled`
  by the tool. Self-repair judges a job from a scan made earlier and would break
  this if a stuck job could be restarted;
- `DbOutcomeTrue`: a row that says `Completed` or `Failed` is the state in
  memory. The marks persist only a transition that was accepted, so nothing that
  was refused is stored; and no write says anything else after an outcome that
  counts, other than the cancelled row described in section 14;
- `PoolSpec`: the refinement of `WorkerPool`, in which a job runs at most once.
  That is the fact that makes the cleanup task's check under one lock and
  removal under another harmless.

`RecoveredOnce` is proved and in no run: a job is recovered once, by whoever comes
first, and one that is stuck never was. It is why one repair attempt is enough
of an instance: with a budget of two the graph has the same 3,323,117 states.

*job_liveness*: two jobs, one slot, one routine, with the fairness below. The
repair budget is zero, so that a stuck job is failed by the loop or recovered by
`/help`; recovery by the loop is in job_safety. `EntriesLeave`,
`ClientsReturn`, `StuckIsHandled`, and a safety property of behaviours,
`CancelBlocksTools`: of a cancelled job the tool whose context had been copied
before the hooks may still run, no other.

Deadlock is not checked: when the main loop has returned the process ends.

### Fairness

Weak fairness of each worker, of the two halves of each cleanup task, of each
client that has begun something, of the main loop within a command, of the
repair loop's scan and of each repair, and of the writes as a whole. Tokio polls
every task that can go on; the locks are tokio's fair RwLock; sleeps, deadlines
and timeouts pass; the LLM and the database answer or their call fails. Nothing
is assumed of the user, and nothing of what the LLM answers. A worker that never
stops by itself reaches its iteration limit, and the job timeout is an extra, so
it has no fairness of its own. That each single write is fair is not assumed and
not needed.

## 4. The cost guard: `CostGuard`

`check_allowed` takes two mutexes one after the other, `CheckBudget` and
`CheckRate`; the LLM call follows; `record_llm_call` takes them again,
`RecordCost` and `RecordAction`. Costs are whole cents (the code computes a
decimal and compares cents; only the order of amounts matters), `recent` is the
number of entries in the window that an hour has not outdated, `Midnight` and
`Expire` are the passing of time. Both limits are configured; a limit of `None`
is the same code without its check.

`Agents` are those that share the guard. The dispatcher's loop is its only
caller, and an agent handles one message at a time, so each agent has at most one
call in flight. `main` gives the guard to the primary agent and to every
secondary one, each on a thread of its own (src/main.rs:1642); today a secondary
agent's channel manager is empty and its `run` returns with the error of
`start_all` (src/channels/manager.rs:77) before any call, so that in the program
as it is `Agents` has one member.

*cost_safety*: three agents, two changes of day, costs of 0 to 2 cents against a
limit of 3, two actions an hour. `DailyOverrun` says by how much the limit of the
day may be exceeded, check and record being separate: by less than one dearest
call for each agent, which for the one that calls today is its last call.
`FlagTrue` relates the atomic flag to the total it stands for, across a day's
change during a call; it takes two agents to be in danger.

## 5. The chain of LLM providers: `ProviderChain`, `Failover`, `CircuitBreaker`

`create_llm_provider` and `wrap_with_resilience` (src/llm/mod.rs) put failover
over two providers, of which the primary has a response cache and, inside that,
a circuit breaker. Each layer is a module or a section, and a request of
`ProviderChain` goes through all of them.

- `CircuitBreaker`: `state`, `failures`, `opened`, `successes` are the fields of
  the breaker's mutex; `calling` are the callers between `check_allowed` and
  `record_*`. Every method locks once, so each is a step: `Allowed` and
  `AllowedProbe` are `check_allowed`, `Succeed` is `record_success`, `Fail` is
  `record_failure`, `EndUnrecorded` an error that is not transient, or a call
  dropped by its caller, whose result nobody records. `Elapse` is the passing of
  `recovery_timeout`. `healthy` is not in the code: from `Heal` on the provider
  answers, which states what recovery means.
- `Failover`: `failure_count` and `cooldown_activated_nanos` are atomics without
  a lock, so each store of a request is a step: `ResetCount` and `ClearCooldown`
  after an answer, `FailRetryable` and `Activate` for a failure. Of the times of
  activation the model keeps what the code compares: their order (`older`), and
  whether `cooldown_duration` has passed since (`passed`); the latter comes true
  for the oldest first (`Cooled`). The loads of all cooldowns at the beginning of
  a request (`Begin`) are one step.
- the cache: `cache` and `outdated` count the entries within and beyond their
  TTL. Which entry is a request's own is chosen when it is looked up or stored
  (the key is a hash of the request, and requests are whatever the user says), so
  a `Hit` needs an entry and a `Miss` is always possible. `Store` removes what is
  older than the TTL was when the request began and then the least recently used
  until there is room, in one piece under the lock; a request with tools is not
  stored. `max_entries` 0 acts like 1 in the code, since the eviction comes
  before the insertion and stops at the empty map.
- a drop of the caller between the breaker's success and the store is the
  `Store` that keeps nothing.

*provider_chain*: two requests at a time are what it takes for results to come
in after the layers have moved on; with thresholds of two each layer has a state
between its first failure and its last. `TypeOK` is the conjunction of what the
layers state: the list of providers to try is never empty, the cache keeps to
`max_entries` although entries come while others are made room for, a closed
circuit has room for a failure (no way back to `Closed` keeps the old ones), an
open one has its time (the branch the source calls unexpected is not taken), and
a call the breaker waits for is one the failover waits for. `PrimaryReturns`: a
primary that has recovered is used again for good, although the failover counts
the circuit's rejections as failures and renews the cooldown in which the
circuit gets no probe, and although the cache answers in place of a probe.

Fairness: requests go on being made and end (the HTTP client has timeouts), and
time passes. That requests are made is the user's doing; it is stated because no
layer has a timer of its own, so that without requests nothing moves on.

What the failover by itself does not keep: a success between the counting of the
last failure (src/llm/failover.rs:247) and the activation (:248) leaves a
provider in cooldown whose count is zero. The source calls its memory orderings
relaxed and "best-effort", so this is described and not counted as a finding;
`PrimaryReturns` covers that it does no lasting harm.

## 6. Container jobs: `SandboxJobs`

### State

| Variable | In the code |
|---|---|
| `creator`, `mode` | where `execute_sandbox`, or the restart handler, and `create_job_inner` below it are; whether the tool waits |
| `container` | the Docker container and the worker in it; `kept` when Docker failed to stop it |
| `handle` | `ContainerHandle` in `ContainerJobManager::containers`: state, container id known, completion result |
| `tokens` | `TokenStore`: the jobs' tokens; the grants are served to a valid token only, and so live as long as it |
| `report`, `outcome` | the handler of `POST /worker/{id}/complete` and what was reported |
| `cancel` | `jobs_cancel_handler` |
| `dropped` | history: jobs with a call that was dropped after it had marked the handle `Stopped` and before it had revoked the token |
| `row`, `writes` | the row in `agent_jobs`, and spawned writes |

### Actions

`ToolBegins` and `RestartBegins` come to `create_job`, whose awaits are steps of
their own: `CreateToken`, `StoreGrants`, `InsertHandle`, `Create`, `Start`,
`SetRunning`, or after an error `UndoRevoke` and `UndoForget`; `Started` sets
the row; `PollStopped` and `PollCleanup`, or `Deadline` and what follows it, the
wait of ten minutes; `Report`, `StoreResult`, `ReadId`, `ReportKill`,
`ReportRevoke` the worker's completion report and `complete_job`; `CancelBegins`
to `CancelWrite` the cancellation; `Dies` and `Exit` the worker's end; `Write`
the spawned writes, each of which may fail. A tool call is dropped at an await
by a timeout or an abort (`Drop`), in the creation as anywhere, which leaves it
`abandoned`; a web handler when the browser goes (`Drop`, `CancelDrops`), the
report's handler when the worker is gone (`ReportDrops`): hyper drops the future
of a request whose connection is closed. `Crash` ends the process: containers go
on, memory is gone, and `cleanup_stale_sandbox_jobs` interrupts the rows at the
next start.

### Run

*sandbox_safety*: a job and an old, interrupted one that may be restarted as the
first, one crash. The jobs share no state besides the restart, so one job at
work with every handler at once is what matters. `TokenHasOwner`: a token, and
with it access to the LLM and the granted secrets, always has somebody who will
revoke it or can: `create_job` at work, a `Running` handle, whose id `stop_job`
needs, or a call on its way from marking the handle `Stopped` to revoking. Two
losses are excused, because the code has them (section 14): the creation was
dropped between the token and the handle's id, or one of those calls on its way.
`CompletedIsOver`: the row of a job
whose container is at work never says completed. `WaitedIsRevoked`: after a
waited-for job the token is revoked, whoever came first, unless the call that
had stopped it was dropped on its way. Fairness: each task
that has begun goes on, and a deadline passes. Deadlock is not checked: jobs end
and ids are used up.

## 7. What a container job and the agent say to each other: `ContainerLink`, `Delivery`

One job while it runs; `SandboxJobs` has the rest of its life.

| Variable | In the code |
|---|---|
| `mode`, `worker` | `JobMode`; where `WorkerRuntime::run` or `ClaudeBridgeRuntime::run` is, and its iteration or session |
| `token` | the job's entry in the `TokenStore`, which guards every request of the container |
| `queue`, `pushed`, `final` | the job's `prompt_queue`; prompts numbered as they come, and those with `done` |
| `poll`, `answer`, `got` | a `GET /prompt` on its way, its answer, and what the container has received |
| `log` | what was sent on the broadcast channel of job events, by kind; it holds the last `Ring` |
| `monitor` | `spawn_job_monitor`'s task: its state, where it subscribed and its next event |
| `inbox`, `heard`, `loop` | the agent loop's inject channel, and what the loop has taken from it |
| `cut`, `lagged` | history: a connection failed or the process restarted; the monitor missed events |

`Push` is `jobs_prompt_handler`, the only one that can queue a prompt for a
container job; `Serve` is `get_prompt_handler`, `PollFails` a connection that
takes the answer with it; `Boot`, `Poll`, `Receive`, `ReceivePrompt`, `Tell`,
`Think`, `Output`, `SessionEnds`, `Result`, `Report` and `TimesOut` are the two
runtimes; `Stop` is `stop_job` with or without Docker's help, `Restart` a
restart of the orchestrator's process; a Claude session gives a result of its
own among its output, and the bridge posts another at its end; `Subscribe`,
`Watch`, `Lag`, `Inject` the monitor, `Hear` and `Quit` the agent loop. Left out
are the rows of events (written by spawned tasks, for the user to read) and what
is in an event; of an iteration one event is kept, the one that matters to a
monitor.

*container_link*: two iterations and two prompts let the container ask, be
answered, lose an answer and ask again; a ring of two and an inbox for one
message let a monitor wait for the loop while the ring runs over it.
`Delivered`: two ways implement `Delivery`, the prompt queue together with an
answer that is on its way, and the inject channel together with the message the
monitor holds while there is no room. Whatever is sent on them is taken once and
in order; a part may be lost only after a connection failed or the receiving side
has gone. That the answers come in the queue's order is a fact about two places:
the handler takes a prompt out before it knows whether its answer arrives.
`PromptsInOrder`, which also says that a bridge takes nothing after a prompt that
says done, is proved and in no run.
`PromptArrives`, `WorkerEnds`: a prompt is received unless the job ends before,
and a worker ends whatever its connections do. `MonitorTells`, `MonitorEnds`:
the agent hears the messages and then one result, in order and without a gap
unless the monitor lagged, and the monitor ends once there is a result. Fairness:
requests are answered or fail, the LLM answers or fails, a Claude session has a
limit of turns, the agent loop takes its messages until it returns; the job's
timeout is an extra. Deadlock is not checked: the job ends.

## 8. Routines: `RoutineEngine`

| Variable | In the code |
|---|---|
| `routine` | rows of `routines`: enabled, trigger kind, `next_fire_at`, `last_run_at`, counters |
| `row` | the status column of `routine_runs` |
| `run` | the tasks `spawn_fire` spawned, each with its copy of the routine |
| `running`, `dry`, `leaked` | `running_count`, dry runs between its two changes, and those dropped in between |
| `cache`, `matcher`, `ticker` | `event_cache`; the copies the event matcher and the cron ticker have yet to check |
| `editor` | a routine tool or web handler between its read and its write, and the tool's refresh of the cache |

`Message` and `MatchNext` are `check_event_triggers`, `Tick` and `TickNext`
`check_cron_triggers`; `Record` to `Runtime` are `execute_routine` in its order:
the run's row, the count, the LLM call or the polled job (a deadline ends it at
the latest), the row's outcome, and the routine's runtime state from the copy.
`Create`, `Fetch`, `Update`, `Delete`, `ListEvents`, `Install` are the tools and
handlers; `DryBegin`, `DryEnd`, `DryDropped` are `test_routine`; calls to the
database may fail; `Crash` is a restart. Times are kept up to what the checks
tell apart. That a run's row needs its routine, and goes with it, is the foreign
key with `ON DELETE CASCADE` of the schema (migrations/V6__routines.sql:60,
src/db/libsql_migrations.rs:455), which PostgreSQL enforces, and SQLite where it
is built to; nothing in the source turns it on or off.

*routine_safety*: one routine whose event and cron triggers, edits and dry runs
overlap, two runs of it so that limits of one are exceeded, one restart.
`TypeOK` says, beyond the types, that `running_count`, which tasks change by
themselves, is what executing runs, dry runs and dropped dry runs account for;
`GuardrailSeesRuns` that a run that executes has its row `running`, so that the
per-routine guardrail counts it; `CountersEarned` that the counters, written
from copies as old as the cache by runs that overlap, may lose runs but never
invent one. Deadlock is not checked: the runs are used up.

## 9. Conversations: `Conversation`, `Timeline`

The main loop handles one message after the other, so the loop's place is one
variable; what comes between its steps are the handlers of the web gateway.

| Variable | In the code |
|---|---|
| `live`, `active`, `thread` | `Session::threads` and `active_thread`; a thread's state, turns, `pending_approval` and `pending_auth` |
| `past`, `future` | the stacks of a thread's `UndoManager` |
| `auto` | `auto_approved_tools` |
| `loop` | the message: where `handle_message` is, its thread, the iterations and the calls left in `run_agentic_loop`, the request an approval names |
| `said`, `asked` | how many turns and approvals there have been, which number them |

`Receive`, `Token`, `TokenChecked`, `Input`, `AutoCompact`, `Begin` are the way
of an input to its turn; `Fail`, `Words`, `Calls`, `RunCall`, `CallAsksToken`,
`CallAsksApproval` the tool loop; `Undo`, `Redo`, `Resume`, `Clear`, `Interrupt`,
`Compact`, `Leave` the commands; `NoSuchApproval`, `Approve`, `RunApproved`,
`Reject` the answers to an approval; `WebNewThread`, `CancelAuth` the gateway. A
turn is kept up to what checkpoints keep of it: its input and whether it was
answered. `process_user_input` and the dispatcher look for an interrupt between
their steps; since the loop takes one message at a time nobody can have set it,
which is a conjunct of the inductive invariant (`LoopFits`), and so the branches
are left out. A tool that asks for a token ends the turn: `AskToken` is
`enter_auth_mode` (src/agent/dispatcher.rs:463) together with the `complete_turn`
that follows it (src/agent/thread_ops.rs:325), between which the loop
handles no other message, and a token the gateway takes away is taken before or
after alike. Hydration and pruning are in `Sessions`.

*conversation_safety*: two threads, so that an answer may be typed into the
wrong one; three turns over two checkpoints, so that the oldest is given up;
three iterations, so that the nudges for words without tools happen.
`ThreadsAnswerable`: whenever the loop waits, every thread can be spoken to.
`ApprovalIsCurrent`: an approval that can be given is one of the turn the thread
ends with, whatever undo, clear or compaction did. `OneQuestion`: a thread never
waits for a token and an approval at once. `NoCrossAnswer`: an answer that names
no request approves nothing in another thread. `UndoLine`: the refinement of
`Timeline`. `MessageEnds`: every message is dealt with. Fairness: the loop goes
on, since calls of the LLM and of tools have timeouts and a turn at most
`MAX_TOOL_ITERATIONS` iterations. Deadlock is checked.

## 10. Sessions and threads: `Sessions`

| Variable | In the code |
|---|---|
| `current` | the user's entry in `SessionManager::sessions` |
| `inside`, `turns`, `stale` | threads of each session object, their number of turns, and whether `last_active_at` is long ago |
| `map` | `thread_map`, the keys of one user and channel |
| `maker` | history: the key a thread was made for |
| `rows`, `saving` | turns of each conversation in the database; tasks `persist_turn` has spawned |
| `loop`, `web`, `pruner` | the message in hand, the session a web handler holds, the pruning task |

A step is a section under one of the manager's locks, or under the session's:
`Find`, `Check`, `Load`, `Insert`, `Register`, `Track` are
`maybe_hydrate_thread`, `Resolve`, `Lookup`, `Create`, `Bind` are
`resolve_thread`, `Speak` the turn, `NewBegins`, `NewCreates`, `Switch` the
commands, `WebBegins` and what follows the gateway, `PruneJudges`,
`PruneRemoves`, `PruneUnmaps` the pruning, `Crash` a restart. Session objects
are reference-counted, so a pruned one is used on by who holds it. The undo
managers are left out: nothing of the thread's identity depends on them.

*sessions_safety*: two threads and a name that is no id, so that a key may be led
to a foreign thread; three session objects are one more than can be held. Ids
are symmetric, and the view forgets what a session nobody holds had in it.
`TurnHasThread`: session and thread of a turn belong together although map and
sessions are pruned under different locks. `OwnThread`: a message without a
thread's id never lands in the conversation of another key or of the gateway.
`KeepsTurns`: hydration never replaces what is in memory. *sessions_routed*
(violated): section 14. Deadlock is not checked: ids and turns are used up.

## 11. Channels: `Channels`

`request`, `waits` and `pending` are the handlers of the HTTP channel and its
`pending_responses`; `callback` are webhook handlers and the polling task of a
WASM channel; `inbox` and `open` the two bounded inboxes and whether their
senders are still there; `repeaters` and `handle` the typing tasks and
`typing_task`; `loop` the main loop: waiting, busy with a message, or shutting
down channel by channel. A callback keeps the read guard on its sender, and the
limiter's lock, while it waits for room; `shutdown` waits for the write guard,
and tokio's lock keeps new readers behind it. Starting a channel is left out:
both are open when the model begins.

*channels*: inboxes and table of one are full at once; two requests compete for
both; a message is thought about twice, so that a typing task is replaced.
`TypingEnds`: the main loop, the one caller of `handle_status_update`, leaves no
typing repeater running that its next call would not cancel. `WaiterReachable`:
an entry is there exactly as long as somebody waits or was dropped.
`RequestsReturn`, `ShutdownEnds`: handlers return while the loop runs, and
shutting down ends unless it waits for the guard of an inbox that is full and in
which a sender waits for room, for ever. That deadlock the code has
(`ShutdownReturns`, section 14); what the property adds is that nothing else
keeps shutting down from its end.
`ShutdownCloses` (proved, in no run): after shutting down every inbox is closed,
and a closed one takes nothing in and gives nothing out; that is what the write
guard buys.
Fairness: handlers and callbacks go on, FIFO locks and channels come to each in
turn; `select_all` looks at every stream in turn, so a message that stays in the
HTTP inbox is taken although the loop is busy again and again (strong fairness
of that `Take`); the loop deals with a message within its rounds and the LLM's
timeouts; the timeout of a minute passes. Deadlock is not checked: the loop
ends.

## 12. Pairing: `Pairing`

`requests` and `allow` are the two files, `expired` the requests older than their
TTL, `command` what runs of the command line are in the middle of. A section
under a file's exclusive lock is one step; reads without the lock and the
truncation by opening are steps of their own: `list_pending` reads, truncates
and writes back what it read; `add_allow_from` truncates and then locks. A
truncation may also fall inside a section of another process that has read the
file and will write all of it, and is then without effect.
Processes are killed between steps and in the middle of a write.

*pairing_safety*: two runs of the command line beside the channel's callbacks;
three senders and codes for two places. `PendingBound` and `CodesUnique` hold
although a list may write back what is long gone, because every copy is a subset
of what the file was (which the proof makes an invariant); `AllowedInTime`:
whoever is let in was approved before the request expired.

## 13. Proofs

Eight modules hold proofs; each EXTENDS what it is about, two of them two
modules (`ProviderChainProofs` also has the cost guard's, `ChannelsProofs` the
pairing store's). All that is proved holds for every value of the constants
under the assumptions that the modules name: sets of ids are finite where they
are counted, limits are natural numbers (positive where the code's are), null
values are not ids, there is a typing task, two providers as the program builds
them. No theorem has another premise.

`JobSystemProofs`: `TypeCorrect`, then `WorkersTrackedCorrect` and
`ParallelBoundCorrect`. Neither invariant is inductive: while `stop` sleeps, the
job it stops is out of the map and its worker still runs. The strengthening
`SchedInv` counts that job in: `Slots` are the entries and the job in the hands
of the lock's holder; every live worker has a slot; the slots, not the entries
alone, are at most `max_parallel_jobs` (which holds because nobody schedules
while the lock is held); the lock's holder is inside `stop`; and a cleanup task
about to remove an entry belongs to a job without a live worker. The last
conjunct is what makes the check and the removal under two locks sound: a job
whose worker is done can never be scheduled again. `ActiveBoundCorrect` follows,
and `WorkedJobStateCorrect`, `DbOutcomeCorrect`, `PoolCorrect` and
`CancelBlocksToolsCorrect` rest on `JobInv`, which says what a job's state tells
of its worker and the other way round (`StateInv`), that slots belong to jobs
that have been given a worker (`SlotInv`), that a client creating a job is the
only one that would schedule it and that a job under recovery has no worker
(`ClientInv`), that a job self-repair has found is not worked on, whatever
happened since (`FoundInv`), and that an outcome on its way to the database is
the job's (`OutcomeInv`). `PoolCorrect` is the refinement: `Init` maps to the
pool's, and each step starts a job that has never run, ends one, or stutters.
`RecoveredOnceCorrect` needs `RecoverInv`: a job whose worker has not ended, or
that is stuck, was never recovered. Recovery keeps it because it takes from
`Stuck` a job whose worker has ended (`JobInv`), and nothing starts that again.

`ProviderChainProofs`: `BreakerCorrect` is about the breaker alone. Its three
invariants are inductive together and none is alone: the bound on failures needs
that a closed circuit has room for one, the bound on successes that a half-open
one lacks one. `ChainRunsBreaker` is the refinement: every step of the chain is
one of the breaker's or leaves it alone. `TypeCorrect` adds the failover (of two
cooldowns one is the older, so that the list to try is never empty), the cache
(room is made for one entry before one is stored), and that a request in the
primary is one at its call.

Of the cost guard it has `CostTypeCorrect`, `FlagTrueCorrect`,
`HourlyOverrunCorrect`, `DailyOverrunCorrect`. The hourly bound is inductive
since the calls let through are counted with the entries. The daily one
is not: `SpentInv` adds what those that are through may still spend, and says
that once the limit is reached no more come.

`SandboxJobsProofs`: `TypeCorrect`, `TokenHasOwnerCorrect`,
`CompletedIsOverCorrect`. `TokenInv` follows the creator: there is no token
before `CreateToken` and none after a failed creation; from `InsertHandle` on
the job has a handle, with its id once it is past `SetRunning`; only the creator
removes a handle; and when it finds a handle stopped that it did not stop
itself, the report or the cancellation that stopped it has yet to revoke the
token, or was dropped on its way (`Owned`). For completed rows: a handle is
stopped only after the container was, or after the worker's report
(`HandlesOver`), and a row or a write says completed only then (`RowsOver`);
what is over stays so (`StaysOver`), because nothing starts a container but its
creation, which is past.

`ContainerLinkProofs`: `TypeCorrect`, then `PromptsInOrderCorrect`. `Line` lays
what the container has, the answer under way and the queue out in one row and
says of it what is wanted of its first part: numbers rise (`InQueue`, `InOrder`),
none is missing while no connection failed (`NoGap`), and a bridge that took a
prompt with done asks for no more (`DoneLast`). `MonitorTellsCorrect` rests on
`TellInv`: what the loop heard, what is in its inbox and what the monitor holds
are together the messages and results of the log between the monitor's
subscription and its next event, but for those a lag ran over. `DeliveredCorrect`
is the refinement: one step of the link moves at most one of the two ways, and
the lemmas `PromptMoves` and `EventMoves` say which abstract step it is.

`RoutineEngineProofs`: `TypeCorrect` is inductive with the count: each step that
changes `running_count` changes the set of executing runs or the dry runs by
one. `GuardrailNeverBlind` and `CountersNeverInvent` need `IInv`: every copy,
in the cache, in the hands of matcher, ticker or an editor, is of a routine that
was created and counts no more than has ended (`CopiesFit`, `RowsFit`); a task's
copy counts no more than ended without the run itself (`TasksFit`), which is why
its own end may be added; outcomes are there once a run has ended
(`OutcomeTimely`); and a run that is recorded has its row while its routine is
there (`Seen`).

`ConversationProofs`: `TypeCorrect` (with the bound on undo and redo together),
`NoneMute`, `ApprovalsCurrent`, `OneQuestionAtATime`, `NoCrossAnswers`, from
`RowsFit`, what the three properties ask of a thread, and `LoopFits`, what the
loop knows of its thread at each place: a thread is `processing` exactly while
the loop works on it, and one whose input was accepted neither processes nor
waits, which nothing that runs beside the loop can change.
`UndoIsALine` is the refinement of `Timeline`. It needs of the invariant only
that undo and redo together fit into `max_checkpoints`: that is why redo, which
pushes with the same `push_undo` that trims, never trims. The rest is about
sequences: `LineOf` lays past, present and future out as one line, `IsLine` says
what is where on it, and one lemma per kind of step (`LineSteppedBack`,
`LineSteppedForward`, `LineBranched`, `LineReturned`, `LineForgotten`,
`LineRewritten`) says what it does to the line.

`SessionsProofs`: `TypeCorrect`, `TurnHasThreadCorrect`, `OwnThreadCorrect`,
`KeepsTurnsCorrect`. `Fits` says what somebody relies on between two locks: a
thread that was looked up or made stays in the session held (a held session only
gains new threads); a mapping leads a key to itself or to a thread made for it;
and a thread that hydration found missing is still missing when it is inserted,
because only the loop hydrates and new threads have new ids.

`ChannelsProofs`: `TypeCorrect`, `TypingEndsCorrect`, `WaiterReachableCorrect`,
`ShutdownClosesCorrect`. `Typing` adds to the first property where the loop is:
the repeater that runs is the one of the message in its hands, or one that a
withheld answer left. `Sent` says that a request found in an inbox or with the
loop is past its sending, so that no answer comes before its handler waits;
`Entries` that an entry is older than its handler's wait, which it outlives only
in the ways `WaiterReachable` names. For shutting down, `Closing` says that
whoever holds the read guard of a sender has seen it there, and which senders are
left at each place of the loop.

Of the pairing store it has `PairingTypeCorrect`, `NeverTooMany`,
`OneSenderPerCode`, `OnlyApproved`. `PairingInv` says of every copy a list may
write back what it says of the file.

*Running down.* Liveness itself is beyond the prover, but most of what can go
wrong with it here is a safety property: that something never goes round. Five
theorems give a task a natural number, its bound on the steps still to come, and
show that every step of the system leaves the task alone or lowers the number:
`JobRunsDown` for the execution of a job, whoever plans, cancels, stops or
recovers it; `WorkerRunsDown` for the worker runtime in a container with its
polls, whatever fails; `MessageRunsDown` for the message in the main loop;
`AllRunDown` for each HTTP handler, for the loop on a message, and for shutting
down; and `RevocationRunsDown` for the two handlers that may still revoke the
token of a job that was waited for, which also are the only ones that can have
left one: cleanup_job has taken the handle out for good (`WaitedGone`), so that
a cancellation that comes later finds nothing to stop. They hold for any limits
of iterations, calls and rounds, where TLC has two or three, and are what
`EntriesLeave`, `WorkerEnds`, `MessageEnds`, `RequestsReturn`, `ShutdownEnds`
and `WaitedIsRevoked` rest on; what stays with TLC is that the step is taken in
the end, that is fairness and who waits for whom. The bridge has no such number,
a session for each prompt being as many as there are prompts, and neither has a
callback, which may be called again.

## 14. Where the code and its texts disagree

*sessions_routed* is expected to be violated: `chat_new_thread_handler`
(src/channels/web/server.rs:980) creates a thread in the session and enters
nothing in `thread_map`; `maybe_hydrate_thread` returns early because the session
has the thread (src/agent/thread_ops.rs:50), so it is not registered there
either, `resolve_thread` finds no mapping and makes another thread, and the
message lands in what the comment at :30 calls the wrong conversation.

Seven properties that texts of the repository promise stand in the modules and
are checked by no run because the code does not keep them; put into the run's
cfg in place of its properties each yields a counterexample:

- `StuckResolves` (`JobSystem`): `repair_stuck_job` and `/help` recover a job to
  `InProgress`, and nobody schedules a worker for it (src/agent/self_repair.rs:201;
  :208 says "recovered and will be retried"). It is then no longer stuck, so no
  scan finds it again, and `schedule` would refuse it. By `RecoveredOnce` the
  branch that fails a job whose repair attempts are used up (:149) is taken only
  where `max_repair_attempts` is configured to be 0; the default is 3
  (src/settings.rs:353).
- `BudgetRenewed` (`CostGuard`): once the day's budget is spent and no call is in
  flight, every check is refused, and only a record would notice the new day
  (src/agent/cost_guard.rs:97; :20 says "Maximum spend per day in cents").
- `CancelSticks` (`SandboxJobs`): a cancellation marks the handle stopped without
  a result, which the waiting tool takes for success
  (src/tools/builtin/job.rs:437): the row says completed, "Cancelled by user".
- `CompletionRevokes` (`SandboxJobs`): `complete_job` stops the container whose
  request it serves and revokes the token after that
  (src/orchestrator/job_manager.rs:549); the handler may be dropped in between,
  which `TokenHasOwner` and `WaitedIsRevoked` excuse.
- `DueFires` (`RoutineEngine`): a run lost in a restart leaves its row `running`,
  which the guardrail counts for ever (src/agent/routine_engine.rs:489;
  src/agent/routine.rs:3 says "Each routine fires independently when its trigger
  condition is met").
- `ApprovedStay` (`Pairing`): `add_allow_from` opens the file with truncate
  before it reads it (src/pairing/store.rs:471), so each approval takes out the
  senders approved before (:350 says "add the sender to allowFrom").
- `ShutdownReturns` (`Channels`): `shutdown` waits for the write guard of
  `message_tx` (src/channels/wasm/wrapper.rs:2119) while a callback may hold the
  read guard and wait for room in the inbox, which nobody reads any more.

Further observations, met while modelling.

*Jobs.* `/cancel` answers that the job was cancelled although `stop` found no
entry and did nothing (src/agent/commands.rs:162). `/help` recovers a stuck job
and then schedules it; the schedule is always refused, `InProgress` to
`InProgress` being no transition (:210). `stop` ignores a refused transition and
persists `Cancelled`, also over a job that had completed
(src/agent/scheduler.rs:430). A completed job's context counts as active and is
never removed, so after `max_jobs` completed jobs every creation is refused
(src/context/manager.rs:50). LLM calls of workers, routines and the heartbeat are
not seen by the cost guard (src/agent/worker.rs:255). Secondary agents are said to
get their messages via the gateway or from other agents (src/main.rs:1699), but
end at once, `start_all` refusing a manager without channels
(src/channels/manager.rs:77).

*LLM providers.* A breaker is closed by a success that was admitted before it
opened (src/llm/circuit_breaker.rs:169), and a half-open one admits any number of
calls. After a cooldown has expired a provider's failure count is still at the
threshold, so one more failure activates it again (src/llm/failover.rs:103). A
cost may be booked to another provider than the one that answered, since
`last_used` is shared by all requests (src/llm/tracked.rs:53, failover.rs:132). A
hit of the cache resets the primary's failures.

*Container jobs.* A job nobody waits for keeps the row `running` after its end
(src/tools/builtin/job.rs:375); a restart whose creation fails leaves the row
`creating` (src/channels/web/server.rs:1463). A creation that is dropped at an
await, by the tool's timeout or a browser that goes, undoes nothing
(src/orchestrator/job_manager.rs:257 to 277): it leaves a token without a
handle, or a handle without an id, which no stop accepts (:476), and unless a
worker was started and reports its end the token stays valid until the process
ends. A container that was created and could not be started is not removed
(:445). The bridge polls for prompts for ever once its token is gone and its
container was not killed (src/worker/claude_bridge.rs:320). `job_prompt`,
`job_events`, `job_status` and `cancel_job` ask for an in-memory context that
container jobs never have, although the LLM is told to use them (job.rs:392);
the other way round a prompt for a job without a container is queued and never
polled. `jobs_prompt_handler` accepts prompts for jobs that are over, and queues
are never removed. A failed connection loses the prompt in its answer. In worker
mode the `done` of a prompt is ignored. The bridge posts a result after every
session, so the monitor announces the end and exits after the first
(src/agent/job_monitor.rs:65); the runtime's result has `success` and no
`status`, so it is announced as "unknown" (src/worker/runtime.rs:160). The
monitor subscribes after the container was started (job.rs:386) and does not
hear what came before; one that missed the result, or lagged past it, never
ends. The agent's answers to what a monitor says go to a channel "job_monitor",
which does not exist (src/channels/manager.rs:101). The forwarder of events to
browsers ends for ever the first time it lags (src/main.rs:1547).

*Routines.* The event cache is refreshed at the start and by the tools only, so
its `last_run_at` is never updated and the cooldown never applies to event
routines; a routine disabled or deleted in the browser still fires; an older list
may be installed over a newer one. The limits are checked before the spawned run
counts and records itself, so both may be exceeded, and a due routine is fired
again by the next tick when its `max_concurrent` allows two. A dry run whose call
is dropped never gives its unit of `running_count` back. A tool's update from
event to cron during a run leaves `next_fire_at` empty, written from the run's
copy, and the routine never fires. `fire_manual` has no caller, and the browser's
"trigger" sends the prompt as a message.

*Conversations.* Nothing can set `Interrupted` while a turn runs, the loop being
sequential, although src/agent/session.rs:9 says an interrupt cancels the current
turn. `/new` and `/switch` do not change where messages with the same key go. A
turn that went through an approval is never stored; two tasks that store turns
may interleave their rows; undo and clear do not touch the database. After an
approval the remaining calls of the batch are dropped. `pending_approval` stays
after undo, clear and interrupt, and only the thread's state protects from it.
`last_active_at` is not updated by messages, so sessions in use are pruned, and
the judgement is not repeated before the removal
(src/agent/session_manager.rs:244). Pruning beside hydration removes the fresh
mapping. A failed read of the history counts as no history. The undo manager is
locked before the session in one place and after it in another, which is
harmless only because the loop is sequential.

*Channels and pairing.* A dropped HTTP handler leaves its entry in
`pending_responses` (src/channels/http.rs:291 says it is cleaned up); a hundred of
them refuse every waiting request. Check and insertion are under two locks and may
overshoot the limit by the number of handlers. An error whose answer the outbound
hook withholds leaves the typing repeater running. `list_pending` may lose a
request made, or bring back one approved, between its read and its write
(src/pairing/store.rs:212); a process killed between the two files loses the
approval.

*Not modelled, and seen in reading.* The configuration of MCP servers is read,
changed and written without a lock; removing an extension beside its activation
leaves its tools; activating it twice at once connects twice. The renewal of an
LLM session does not look again at the token once it has the lock. Two writers of
one workspace document may index an older text.

## 15. Only model-checked, and not modelled

Only TLC checks: every property under fairness (`EntriesLeave`, `ClientsReturn`,
`StuckIsHandled`, `PrimaryReturns`, `WaitedIsRevoked`, `PromptArrives`,
`WorkerEnds`, `MonitorEnds`, `MessageEnds`, `RequestsReturn`, `ShutdownEnds`),
since liveness is out of the prover's reach, and the violation. Every invariant
and action property a run checks, and every refinement, is proved.

Not modelled, as PROJECT.json says for each component: hooks, single tools and
the WASM runtime, the heartbeat, licences, extensions, session renewal and cost
booking of the LLM providers, the LLM proxy of containers; and what has no state
worth a model: protocol conversions, scanning and cryptography, SQL and search,
learned statistics, the setup, command line and configuration, child processes
and logging. `Conversation` and `Sessions` look at the same threads from two
sides and are not composed: what a thread holds and which thread it is are
independent in the code but for pruning, after which a thread is hydrated with
its stored turns and an empty undo history. `Channels`, `JobSystem` and
`Conversation` each have the main loop as a client; that it handles one message
at a time is the same in all three.
