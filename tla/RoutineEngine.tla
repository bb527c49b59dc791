--------------------------- MODULE RoutineEngine ---------------------------
(***************************************************************************)
(* The routine engine: a cron ticker and the main loop's event matcher     *)
(* check guardrails on copies of routines and spawn runs; each run records *)
(* itself in the database, executes (one LLM call, or a job it polls with  *)
(* a deadline) and writes its outcome back from the copy it was spawned    *)
(* with.  Tools and web handlers edit the routines meanwhile, calls to the *)
(* database fail, and the process may be restarted.                        *)
(***************************************************************************)
EXTENDS Integers, FiniteSets

CONSTANTS
  Routines,        \* ids of routines
  MaxRuns,         \* bound of the model: runs ever spawned
  MaxRoutines,     \* config.max_concurrent_routines
  MaxConcurrent,   \* guardrails.max_concurrent
  Tools,           \* calls of the routine tools in progress: they refresh the cache
  Handlers,        \* handlers of the web gateway: they do not
  MaxUpsets,       \* bound of the model: dry runs at work or dropped, and restarts
  StoreFails       \* whether calls to the database may fail

ASSUME RoutinesAssumption == IsFiniteSet(Routines)
ASSUME BoundsAssumption ==
  /\ MaxRuns \in Nat /\ MaxRoutines \in Nat /\ MaxConcurrent \in Nat
  /\ MaxUpsets \in Nat /\ StoreFails \in BOOLEAN

VARIABLES
  routine,   \* rows of table routines, also those not yet or no longer there
  row,       \* status column of table routine_runs, "none" without a row
  run,       \* the spawned tasks, with what they use of their copy
  running,   \* running_count
  dry,       \* dry runs between fetch_add and fetch_sub
  leaked,    \* dry runs whose call was dropped in between
  cache,     \* event_cache: copies of enabled event routines
  matcher,   \* copies the event matcher has yet to check
  ticker,    \* copies the cron ticker has yet to check
  editor,    \* what a tool call or handler is about to do, with its copies
  crashes

vars == <<routine, row, run, running, dry, leaked, cache, matcher, ticker, editor, crashes>>
engine == <<running, dry, leaked, cache, matcher, ticker>>

Runs == 1..MaxRuns
Editors == Tools \cup Handlers
Kinds == {"cron", "event"}
Outcomes == {"ok", "attention", "failed"}

\* next_fire_at and last_run_at are kept up to what the checks tell apart: a
\* cooldown began "recent"ly or not
Routine(ids) ==
  [id : ids, stored : {"unborn", "yes", "gone"}, enabled : BOOLEAN, kind : Kinds,
   next : {"none", "later", "due"}, last : {"past", "recent"}, count : Nat, fails : Nat]

Present(r) == routine[r].stored = "yes"
Rows == {routine[r] : r \in {q \in Routines : Present(q)}}

Unborn(r) == [id |-> r, stored |-> "unborn", enabled |-> FALSE, kind |-> "event",
              next |-> "none", last |-> "past", count |-> 0, fails |-> 0]
NoRun == [phase |-> "unused", of |-> "none", kind |-> "event", count |-> 0,
          fails |-> 0, outcome |-> "none"]
Idle == [pc |-> "idle", copies |-> {}]

\* A task's end drops its copy; what became of the run is kept for the checks
Over(i) == [NoRun EXCEPT !.phase = "over", !.of = run[i].of, !.outcome = run[i].outcome]

\* A run between its two changes of running_count
Executing(i) == run[i].phase \in {"calling", "polling"}

----------------------------------------------------------------------------
Init ==
  /\ routine = [r \in Routines |-> Unborn(r)]
  /\ row = [i \in Runs |-> "none"]
  /\ run = [i \in Runs |-> NoRun]
  /\ running = 0
  /\ dry = 0
  /\ leaked = 0
  /\ cache = {}
  /\ matcher = {}
  /\ ticker = {}
  /\ editor = [e \in Editors |-> Idle]
  /\ crashes = 0

\* check_cooldown and check_concurrent, on a copy
CoolEnough(c) == c.last # "recent"
RunningRows(r) == {i \in Runs : row[i] = "running" /\ run[i].of = r}
BelowConcurrent(c) == Cardinality(RunningRows(c.id)) < MaxConcurrent
BelowGlobal == running < MaxRoutines

\* spawn_fire: a task with a copy; nothing is counted or recorded yet
Fresh(i) == run[i] = NoRun /\ \A j \in Runs : j < i => run[j] # NoRun
Spawn(c) ==
  \E i \in Runs :
    /\ Fresh(i)
    /\ run' = [run EXCEPT ![i] = [phase |-> "spawned", of |-> c.id, kind |-> c.kind,
                                  count |-> c.count, fails |-> c.fails, outcome |-> "none"]]

----------------------------------------------------------------------------
\* check_event_triggers: a message matches some cached routines; the read
\* lock of the cache is held until each has been checked
Message ==
  /\ matcher = {}
  /\ \E C \in SUBSET cache : C # {} /\ matcher' = C
  /\ UNCHANGED <<routine, row, run, running, dry, leaked, cache, ticker, editor, crashes>>

MatchFire(c) == CoolEnough(c) /\ BelowConcurrent(c) /\ BelowGlobal

MatchNext ==
  /\ \E c \in matcher :
       /\ matcher' = matcher \ {c}
       /\ \/ MatchFire(c) /\ Spawn(c)
          \/ (~MatchFire(c) \/ StoreFails) /\ UNCHANGED run
  /\ UNCHANGED <<routine, row, running, dry, leaked, cache, ticker, editor, crashes>>

\* check_cron_triggers
Due(c) == c.enabled /\ c.kind = "cron" /\ c.next = "due"

Tick ==
  /\ ticker = {}
  /\ ticker' = {c \in Rows : Due(c)}
  /\ UNCHANGED <<routine, row, run, running, dry, leaked, cache, matcher, editor, crashes>>

TickFire(c) == CoolEnough(c) /\ BelowConcurrent(c)

TickNext ==
  /\ \E c \in ticker :
       \/ ~BelowGlobal /\ ticker' = {} /\ UNCHANGED run
       \/ /\ BelowGlobal
          /\ ticker' = ticker \ {c}
          /\ \/ TickFire(c) /\ Spawn(c)
             \/ (~TickFire(c) \/ StoreFails) /\ UNCHANGED run
  /\ UNCHANGED <<routine, row, running, dry, leaked, cache, matcher, editor, crashes>>

----------------------------------------------------------------------------
\* Mutant: the run goes on although its row could not be written
RecordBestEffort(i) ==
  /\ run[i].phase = "spawned"
  /\ run' = [run EXCEPT ![i].phase = "recorded"]
  /\ \/ Present(run[i].of) /\ row' = [row EXCEPT ![i] = "running"]
     \/ (~Present(run[i].of) \/ StoreFails) /\ UNCHANGED row
  /\ UNCHANGED <<routine, engine, editor, crashes>>

\* create_routine_run: refused when the routine has been deleted
Record(i) ==
  /\ run[i].phase = "spawned"
  /\ \/ /\ Present(run[i].of)
        /\ row' = [row EXCEPT ![i] = "running"]
        /\ run' = [run EXCEPT ![i].phase = "recorded"]
     \/ /\ ~Present(run[i].of) \/ StoreFails
        /\ run' = [run EXCEPT ![i] = Over(i)]
        /\ UNCHANGED row
  /\ UNCHANGED <<routine, engine, editor, crashes>>

\* execute_routine, of a routine whose action is lightweight or a full_job
Begin(i) ==
  /\ run[i].phase = "recorded"
  /\ running' = running + 1
  /\ \E p \in {"calling", "polling"} : run' = [run EXCEPT ![i].phase = p]
  /\ UNCHANGED <<routine, row, dry, leaked, cache, matcher, ticker, editor, crashes>>

End(i, outcome) ==
  /\ running' = running - 1
  /\ run' = [run EXCEPT ![i].phase = "ended", ![i].outcome = outcome]
  /\ UNCHANGED <<routine, row, dry, leaked, cache, matcher, ticker, editor, crashes>>

\* execute_lightweight returns: the provider answers or its request times out
Answer(i) == run[i].phase = "calling" /\ \E o \in Outcomes : End(i, o)

\* Mutant: the deadline drops the whole task, and its fetch_sub with it
DeadlineDropsTask(i) ==
  /\ run[i].phase = "polling"
  /\ run' = [run EXCEPT ![i].phase = "ended", ![i].outcome = "failed"]
  /\ UNCHANGED <<routine, row, running, dry, leaked, cache, matcher, ticker, editor, crashes>>
\* execute_full_job: the job is refused, lost or terminal; it may also be
\* stuck for ever, which the deadline ends
JobEnds(i) == run[i].phase = "polling" /\ \E o \in {"ok", "failed"} : End(i, o)
Deadline(i) == run[i].phase = "polling" /\ End(i, "failed")

\* complete_routine_run: updates no row when the routine has been deleted
Complete(i) ==
  /\ run[i].phase = "ended"
  /\ run' = [run EXCEPT ![i].phase = "completed"]
  /\ \/ row' = [row EXCEPT ![i] = IF row[i] = "none" THEN "none" ELSE run[i].outcome]
     \/ StoreFails /\ UNCHANGED row
  /\ UNCHANGED <<routine, engine, editor, crashes>>

\* update_routine_runtime, with counters and trigger of the run's copy
FailuresOfAll(i) == IF run[i].outcome = "ok" THEN 0 ELSE run[i].fails + 1   \* mutant
Failures(i) == IF run[i].outcome = "failed" THEN run[i].fails + 1 ELSE 0
Runtime(i) ==
  /\ run[i].phase = "completed"
  /\ run' = [run EXCEPT ![i] = Over(i)]
  /\ \/ /\ Present(run[i].of)
        /\ routine' = [routine EXCEPT ![run[i].of] =
             [@ EXCEPT !.last = "recent", !.count = run[i].count + 1, !.fails = Failures(i),
                       !.next = IF run[i].kind = "cron" THEN "later" ELSE "none"]]
     \/ /\ ~Present(run[i].of) \/ StoreFails
        /\ UNCHANGED routine
  /\ UNCHANGED <<row, engine, editor, crashes>>

----------------------------------------------------------------------------
\* test_routine counts its LLM call like a run's; a tool call that exceeds
\* its timeout or whose job is stopped is dropped inside it
DryBegin ==
  /\ dry + leaked + crashes < MaxUpsets
  /\ dry' = dry + 1
  /\ running' = running + 1
  /\ UNCHANGED <<routine, row, run, leaked, cache, matcher, ticker, editor, crashes>>

DryEnd ==
  /\ dry > 0
  /\ dry' = dry - 1
  /\ running' = running - 1
  /\ UNCHANGED <<routine, row, run, leaked, cache, matcher, ticker, editor, crashes>>

DryDropped ==
  /\ dry > 0
  /\ dry' = dry - 1
  /\ leaked' = leaked + 1
  /\ UNCHANGED <<routine, row, run, running, cache, matcher, ticker, editor, crashes>>

----------------------------------------------------------------------------
\* The tools routine_create, routine_update and routine_delete and the
\* handlers toggle and delete.  Afterwards a tool reads the event routines
\* and replaces the cache.
After(e) == IF e \in Tools THEN [Idle EXCEPT !.pc = "refresh"] ELSE Idle

Create(e) ==
  /\ e \in Tools
  /\ editor[e] = Idle
  /\ \E r \in Routines, k \in Kinds :
       /\ routine[r].stored = "unborn"
       /\ routine' = [routine EXCEPT ![r] =
            [Unborn(r) EXCEPT !.stored = "yes", !.enabled = TRUE, !.kind = k,
                              !.next = IF k = "cron" THEN "later" ELSE "none"]]
       /\ editor' = [editor EXCEPT ![e] = IF k = "event" THEN After(e) ELSE Idle]
  /\ UNCHANGED <<row, run, engine, crashes>>

\* What update_routine writes of a copy: not the columns of the runtime state
Definition(c) == [c EXCEPT !.last = "past", !.count = 0, !.fails = 0]

Fetch(e) ==
  /\ editor[e] = Idle
  /\ \E c \in Rows : editor' = [editor EXCEPT ![e] = [pc |-> "edit", copies |-> {Definition(c)}]]
  /\ UNCHANGED <<routine, row, run, engine, crashes>>

\* update_routine writes the whole definition, next_fire_at included;
\* only the tool can set a schedule, which makes the routine a cron one
Edited(e, c) ==
  {[c EXCEPT !.enabled = ~@]} \cup
  (IF e \in Tools THEN {[c EXCEPT !.kind = "cron", !.next = "later"]} ELSE {})

Update(e) ==
  /\ editor[e].pc = "edit"
  /\ \E c \in editor[e].copies : \E d \in Edited(e, c) :
       routine' = [routine EXCEPT ![c.id] =
         IF Present(c.id) THEN [d EXCEPT !.last = routine[c.id].last,
                                         !.count = routine[c.id].count,
                                         !.fails = routine[c.id].fails]
         ELSE @]
  /\ editor' = [editor EXCEPT ![e] = After(e)]
  /\ UNCHANGED <<row, run, engine, crashes>>

\* delete_routine; its runs go with it (ON DELETE CASCADE)
Delete(e) ==
  /\ editor[e].pc = "edit"
  /\ \E c \in editor[e].copies :
       /\ routine' = [routine EXCEPT ![c.id].stored = "gone"]
       /\ row' = [i \in Runs |-> IF run[i].of = c.id THEN "none" ELSE row[i]]
  /\ editor' = [editor EXCEPT ![e] = After(e)]
  /\ UNCHANGED <<run, engine, crashes>>

\* refresh_event_cache: list_event_routines, then the lock's write side
EventRows == {c \in Rows : c.enabled /\ c.kind = "event"}

ListEvents(e) ==
  /\ editor[e].pc = "refresh"
  /\ \/ editor' = [editor EXCEPT ![e] = [pc |-> "install", copies |-> EventRows]]
     \/ StoreFails /\ editor' = [editor EXCEPT ![e] = Idle]
  /\ UNCHANGED <<routine, row, run, engine, crashes>>

Install(e) ==
  /\ editor[e].pc = "install"
  /\ matcher = {}
  /\ cache' = editor[e].copies
  /\ editor' = [editor EXCEPT ![e] = Idle]
  /\ UNCHANGED <<routine, row, run, running, dry, leaked, matcher, ticker, crashes>>

----------------------------------------------------------------------------
\* Time: a schedule's moment comes, a cooldown is over for row and copies
ComesDue(r) ==
  /\ Present(r) /\ routine[r].next = "later"
  /\ routine' = [routine EXCEPT ![r].next = "due"]
  /\ UNCHANGED <<row, run, engine, editor, crashes>>

Cooled(r, C) == {IF c.id = r /\ c.last = "recent" THEN [c EXCEPT !.last = "past"] ELSE c : c \in C}

CoolsDown(r) ==
  /\ Present(r) /\ routine[r].last = "recent"
  /\ routine' = [routine EXCEPT ![r].last = "past"]
  /\ cache' = Cooled(r, cache)
  /\ matcher' = Cooled(r, matcher)
  /\ ticker' = Cooled(r, ticker)
  /\ UNCHANGED <<row, run, running, dry, leaked, editor, crashes>>

\* A restart: the tasks are lost, the rows stay, the cache is loaded
Live(i) == run[i].phase \notin {"unused", "over"}

Crash ==
  /\ dry + leaked + crashes < MaxUpsets
  /\ crashes' = crashes + 1
  /\ run' = [i \in Runs |-> IF Live(i) THEN Over(i) ELSE run[i]]
  /\ running' = 0
  /\ dry' = 0
  /\ leaked' = 0
  /\ cache' = EventRows
  /\ matcher' = {}
  /\ ticker' = {}
  /\ editor' = [e \in Editors |-> Idle]
  /\ UNCHANGED <<routine, row>>

RunStep(i) ==
  Record(i) \/ Begin(i) \/ Answer(i) \/ JobEnds(i) \/ Deadline(i) \/ Complete(i) \/ Runtime(i)
EditStep(e) == Create(e) \/ Fetch(e) \/ Update(e) \/ Delete(e) \/ ListEvents(e) \/ Install(e)

Next ==
  \/ Message \/ MatchNext \/ Tick \/ TickNext
  \/ \E i \in Runs : RunStep(i)
  \/ DryBegin \/ DryEnd \/ DryDropped
  \/ \E e \in Editors : EditStep(e)
  \/ \E r \in Routines : ComesDue(r) \/ CoolsDown(r)
  \/ Crash

Spec == Init /\ [][Next]_vars

\* Tasks run, the provider's requests and the deadline's timer end, the
\* ticker ticks; nobody has to send a message, edit or end a job.
TaskStep(i) ==
  Record(i) \/ Begin(i) \/ Answer(i) \/ Deadline(i) \/ Complete(i) \/ Runtime(i)

FairSpec ==
  /\ Spec
  /\ \A i \in Runs : WF_vars(TaskStep(i))
  /\ WF_vars(MatchNext) /\ WF_vars(Tick \/ TickNext)
  /\ \A r \in Routines : WF_vars(ComesDue(r)) /\ WF_vars(CoolsDown(r))

----------------------------------------------------------------------------
(* Properties *)

\* The variables keep their types, and running_count, which tasks and dry
\* runs change by themselves, is what they leave: every executing run and dry
\* run has its unit, and so has every dry run whose call was dropped.
Phases == {"unused", "spawned", "recorded", "calling", "polling", "ended", "completed", "over"}
RunCopies == [phase : Phases, of : Routines \cup {"none"}, kind : Kinds,
              count : Nat, fails : Nat, outcome : Outcomes \cup {"none"}]

TypeOK ==
  /\ routine \in [Routines -> Routine(Routines)]
  /\ row \in [Runs -> {"none", "running"} \cup Outcomes]
  /\ run \in [Runs -> RunCopies]
  /\ cache \cup matcher \cup ticker \subseteq Routine(Routines)
  /\ editor \in [Editors -> [pc : {"idle", "edit", "refresh", "install"},
                            copies : SUBSET Routine(Routines)]]
  /\ dry \in Nat /\ leaked \in Nat /\ crashes \in Nat
  /\ running = Cardinality({i \in Runs : Executing(i)}) + dry + leaked

\* count_running_routine_runs counts a run from before execute_routine starts
\* it until it has ended, whatever fails, restarts or is edited meanwhile: the
\* per-routine guardrail never misses a run that is executing.
GuardrailSeesRuns ==
  \A i \in Runs : Executing(i) /\ Present(run[i].of) => row[i] = "running"

\* run_count and consecutive_failures are written from a copy that may be as
\* old as the event cache, by runs that overlap: they may lose runs but never
\* count one that did not end, or a failure that did not happen.
EndedRuns(r) == {i \in Runs : run[i].of = r /\ run[i].outcome # "none"}
FailedRuns(r) == {i \in EndedRuns(r) : run[i].outcome = "failed"}
CountersEarned ==
  \A r \in Routines : Present(r) =>
    /\ routine[r].count <= Cardinality(EndedRuns(r))
    /\ routine[r].fails <= Cardinality(FailedRuns(r))

\* The engine's promise, "Each routine fires independently when its trigger
\* condition is met": a routine that is due, and of which no run is alive,
\* fires, unless the model has no run left for it (which the code does not keep,
\* see the README).
Alive(r) == \E i \in Runs : Live(i) /\ run[i].of = r
Waiting(r) == Present(r) /\ Due(routine[r]) /\ ~Alive(r) /\ \E i \in Runs : Fresh(i)
DueFires == \A r \in Routines : Waiting(r) ~> ~Waiting(r)
=============================================================================
