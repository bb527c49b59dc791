------------------------ MODULE RoutineEngineProofs ------------------------
(***************************************************************************)
(* Types, guardrail and counters of RoutineEngine, for any number of       *)
(* routines, runs, tool calls, handlers, restarts and failed calls.        *)
(***************************************************************************)
EXTENDS RoutineEngine, FiniteSetTheorems, TLAPS

-----------------------------------------------------------------------------
(* Finite sets of runs *)

LEMMA RunsFinite == IsFiniteSet(Runs)
  BY BoundsAssumption, FS_Interval DEF Runs

\* More runs, more to count
LEMMA CountGrows ==
  ASSUME NEW S \in SUBSET Runs, NEW T \in SUBSET Runs, S \subseteq T
  PROVE  /\ Cardinality(S) \in Nat /\ Cardinality(T) \in Nat
         /\ Cardinality(S) <= Cardinality(T)
<1>1. IsFiniteSet(T) /\ IsFiniteSet(S)
  BY RunsFinite, FS_Subset
<1>. QED
  BY <1>1, FS_Subset, FS_CardinalityType

LEMMA CountOneMore ==
  ASSUME NEW S \in SUBSET Runs, NEW i \in Runs
  PROVE  /\ i \in S => Cardinality(S \ {i}) = Cardinality(S) - 1
         /\ i \notin S => Cardinality(S \cup {i}) = Cardinality(S) + 1
         /\ Cardinality(S) \in Nat
<1>1. IsFiniteSet(S)
  BY RunsFinite, FS_Subset
<1>. QED
  BY <1>1, FS_AddElement, FS_RemoveElement, FS_CardinalityType

-----------------------------------------------------------------------------
(* Types *)

RowTypes ==
  /\ routine \in [Routines -> Routine(Routines)]
  /\ \A r \in Routines : routine[r].id = r
RunTypes ==
  /\ row \in [Runs -> {"none", "running"} \cup Outcomes]
  /\ run \in [Runs -> RunCopies]
CopyTypes ==
  /\ cache \subseteq Routine(Routines)
  /\ matcher \subseteq Routine(Routines)
  /\ ticker \subseteq Routine(Routines)
EditorTypes ==
  editor \in [Editors -> [pc : {"idle", "edit", "refresh", "install"},
                          copies : SUBSET Routine(Routines)]]
Types == RowTypes /\ RunTypes /\ CopyTypes /\ EditorTypes

LEMMA RowsTyped ==
  ASSUME RowTypes
  PROVE  /\ Rows \subseteq Routine(Routines)
         /\ EventRows \subseteq Rows
         /\ \A c \in Rows : c.id \in Routines /\ c = routine[c.id] /\ Present(c.id)
  BY DEF RowTypes, Rows, EventRows, Present, Routine

LEMMA InitTypes == Init => Types
<1>. SUFFICES ASSUME Init PROVE Types
  OBVIOUS
<1>1. RowTypes
  BY DEF Init, RowTypes, Routine, Unborn, Kinds
<1>2. RunTypes
  BY DEF Init, RunTypes, RunCopies, NoRun, Kinds, Phases
<1>3. CopyTypes /\ EditorTypes
  BY DEF Init, CopyTypes, EditorTypes, Idle
<1>. QED
  BY <1>1, <1>2, <1>3 DEF Types

\* A spawned task has the fields of its copy
LEMMA SpawnTypes ==
  ASSUME Types, NEW c \in Routine(Routines), Spawn(c)
  PROVE  run' \in [Runs -> RunCopies]
<1>1. PICK i \in Runs :
        run' = [run EXCEPT ![i] = [phase |-> "spawned", of |-> c.id, kind |-> c.kind,
                                   count |-> c.count, fails |-> c.fails, outcome |-> "none"]]
  BY DEF Spawn
<1>2. [phase |-> "spawned", of |-> c.id, kind |-> c.kind, count |-> c.count,
       fails |-> c.fails, outcome |-> "none"] \in RunCopies
  BY DEF RunCopies, Phases, Routine
<1>. QED
  BY <1>1, <1>2 DEF Types, RunTypes

LEMMA OverTypes ==
  ASSUME RunTypes, NEW i \in Runs
  PROVE  /\ Over(i) \in RunCopies
         /\ Over(i).phase = "over" /\ Over(i).of = run[i].of /\ Over(i).outcome = run[i].outcome
  BY DEF RunTypes, RunCopies, Over, NoRun, Phases, Kinds

\* Steps of the tasks
LEMMA RunStepTypes ==
  ASSUME Types, NEW i \in Runs, RunStep(i)
  PROVE  Types'
<1>0. CopyTypes' /\ EditorTypes'
  BY DEF Types, CopyTypes, EditorTypes, RunStep, Record, Begin, Answer, JobEnds, Deadline, End,
         Complete, Runtime, engine
<1>1. run[i] \in RunCopies /\ Over(i) \in RunCopies
  BY OverTypes DEF Types, RunTypes
<1>2. CASE Record(i)
  <2>1. [run[i] EXCEPT !.phase = "recorded"] \in RunCopies
    BY <1>1 DEF RunCopies, Phases
  <2>2. run' \in [Runs -> RunCopies]
    BY <1>1, <1>2, <2>1 DEF Record, Types, RunTypes
  <2>3. row' \in [Runs -> {"none", "running"} \cup Outcomes]
    BY <1>2 DEF Record, Types, RunTypes
  <2>. QED
    BY <1>0, <1>2, <2>2, <2>3 DEF Types, RowTypes, RunTypes, Record
<1>3. CASE Begin(i)
  BY <1>0, <1>1, <1>3 DEF Types, RowTypes, RunTypes, Begin, RunCopies, Phases
<1>4. CASE Answer(i) \/ JobEnds(i) \/ Deadline(i)
  <2>1. PICK o \in Outcomes : End(i, o)
    BY <1>4 DEF Answer, JobEnds, Deadline, Outcomes
  <2>. QED
    BY <1>0, <1>1, <2>1 DEF Types, RowTypes, RunTypes, End, RunCopies, Phases
<1>5. CASE Complete(i)
  BY <1>0, <1>1, <1>5 DEF Types, RowTypes, RunTypes, Complete, RunCopies, Phases
<1>6. CASE Runtime(i)
  <2>1. RunTypes'
    BY <1>1, <1>6 DEF Types, RunTypes, Runtime
  <2>2. CASE Present(run[i].of) /\ run[i].of \in Routines
    <3> DEFINE r == run[i].of
               new == [routine[r] EXCEPT !.last = "recent", !.count = run[i].count + 1,
                         !.fails = Failures(i),
                         !.next = IF run[i].kind = "cron" THEN "later" ELSE "none"]
    <3>1. Failures(i) \in Nat /\ run[i].count + 1 \in Nat
      BY <1>1 DEF Failures, RunCopies
    <3>2. routine[r] \in Routine(Routines) /\ routine[r].id = r
      BY <2>2 DEF Types, RowTypes
    <3>3. new \in Routine(Routines) /\ new.id = r
      BY <3>1, <3>2 DEF Routine
    <3>4. routine' = [routine EXCEPT ![r] = new] \/ routine' = routine
      BY <1>6 DEF Runtime
    <3>. QED
      BY <1>0, <2>1, <2>2, <3>3, <3>4 DEF Types, RowTypes
  <2>3. CASE ~ (Present(run[i].of) /\ run[i].of \in Routines)
    <3>1. routine' = routine
      BY <1>6, <2>3 DEF Runtime, Types, RowTypes
    <3>. QED
      BY <1>0, <2>1, <3>1 DEF Types, RowTypes
  <2>. QED
    BY <2>2, <2>3
<1>. QED
  BY <1>2, <1>3, <1>4, <1>5, <1>6 DEF RunStep

\* Copies of a cooled routine are copies of it still
LEMMA CooledTypes ==
  ASSUME NEW r \in Routines, NEW C \in SUBSET Routine(Routines)
  PROVE  /\ Cooled(r, C) \subseteq Routine(Routines)
         /\ \A d \in Cooled(r, C) : \E c \in C :
              c.id = d.id /\ c.count = d.count /\ c.fails = d.fails
<1>. SUFFICES ASSUME NEW d \in Cooled(r, C)
              PROVE  d \in Routine(Routines) /\ \E c \in C :
                       c.id = d.id /\ c.count = d.count /\ c.fails = d.fails
  OBVIOUS
<1>1. PICK c \in C : d = IF c.id = r /\ c.last = "recent" THEN [c EXCEPT !.last = "past"] ELSE c
  BY DEF Cooled
<1>2. c \in Routine(Routines)
  OBVIOUS
<1>. QED
  BY <1>1, <1>2 DEF Routine

\* Steps of the matcher, the ticker, dry runs and restarts
LEMMA EngineTypes ==
  ASSUME Types, Message \/ MatchNext \/ Tick \/ TickNext \/ DryBegin \/ DryEnd \/ DryDropped
  PROVE  Types'
<1>1. CASE Message
  BY <1>1 DEF Message, Types, RowTypes, RunTypes, CopyTypes, EditorTypes
<1>2. CASE MatchNext
  <2>1. PICK c \in matcher : /\ matcher' = matcher \ {c}
                             /\ Spawn(c) \/ UNCHANGED run
    BY <1>2 DEF MatchNext
  <2>2. run' \in [Runs -> RunCopies]
    BY <2>1, SpawnTypes DEF Types, RunTypes, CopyTypes
  <2>. QED
    BY <1>2, <2>1, <2>2 DEF MatchNext, Types, RowTypes, RunTypes, CopyTypes, EditorTypes
<1>3. CASE Tick
  <2>1. ticker' \subseteq Routine(Routines)
    BY <1>3, RowsTyped DEF Tick, Types
  <2>. QED
    BY <1>3, <2>1 DEF Tick, Types, RowTypes, RunTypes, CopyTypes, EditorTypes
<1>4. CASE TickNext
  <2>1. PICK c \in ticker : /\ ticker' \subseteq ticker
                            /\ Spawn(c) \/ UNCHANGED run
    BY <1>4 DEF TickNext
  <2>2. run' \in [Runs -> RunCopies]
    BY <2>1, SpawnTypes DEF Types, RunTypes, CopyTypes
  <2>. QED
    BY <1>4, <2>1, <2>2 DEF TickNext, Types, RowTypes, RunTypes, CopyTypes, EditorTypes
<1>5. CASE DryBegin \/ DryEnd \/ DryDropped
  BY <1>5 DEF DryBegin, DryEnd, DryDropped, Types, RowTypes, RunTypes, CopyTypes, EditorTypes
<1>. QED
  BY <1>1, <1>2, <1>3, <1>4, <1>5

LEMMA TimeTypes ==
  ASSUME Types, Crash \/ \E r \in Routines : ComesDue(r) \/ CoolsDown(r)
  PROVE  Types'
<1>1. CASE Crash
  <2>1. RunTypes'
    BY <1>1, OverTypes DEF Crash, Types, RunTypes
  <2>2. EventRows \subseteq Routine(Routines)
    BY RowsTyped DEF Types
  <2>3. EditorTypes'
    BY <1>1 DEF Crash, EditorTypes, Idle
  <2>. QED
    BY <1>1, <2>1, <2>2, <2>3 DEF Crash, Types, RowTypes, CopyTypes
<1>2. ASSUME NEW r \in Routines, ComesDue(r) PROVE Types'
  <2>1. [routine[r] EXCEPT !.next = "due"] \in Routine(Routines)
    BY DEF Types, RowTypes, Routine
  <2>2. RowTypes'
    BY <1>2, <2>1 DEF ComesDue, Types, RowTypes, Routine
  <2>. QED
    BY <1>2, <2>2 DEF ComesDue, engine, Types, RunTypes, CopyTypes, EditorTypes
<1>3. ASSUME NEW r \in Routines, CoolsDown(r) PROVE Types'
  <2>1. [routine[r] EXCEPT !.last = "past"] \in Routine(Routines)
    BY DEF Types, RowTypes, Routine
  <2>2. RowTypes'
    BY <1>3, <2>1 DEF CoolsDown, Types, RowTypes, Routine
  <2>3. CopyTypes'
    BY <1>3, CooledTypes DEF CoolsDown, Types, CopyTypes
  <2>. QED
    BY <1>3, <2>2, <2>3 DEF CoolsDown, Types, RunTypes, EditorTypes
<1>. QED
  BY <1>1, <1>2, <1>3

\* What is written and installed by tool calls and handlers
LEMMA EditTypes ==
  ASSUME Types, NEW e \in Editors, EditStep(e)
  PROVE  Types'
<1>0. After(e) \in [pc : {"idle", "edit", "refresh", "install"}, copies : SUBSET Routine(Routines)]
      /\ Idle \in [pc : {"idle", "edit", "refresh", "install"}, copies : SUBSET Routine(Routines)]
  BY DEF After, Idle
<1>1. CASE Create(e)
  <2>1. PICK r \in Routines, k \in Kinds :
          routine' = [routine EXCEPT ![r] =
            [Unborn(r) EXCEPT !.stored = "yes", !.enabled = TRUE, !.kind = k,
                              !.next = IF k = "cron" THEN "later" ELSE "none"]]
    BY <1>1 DEF Create
  <2>2. RowTypes'
    BY <2>1 DEF Types, RowTypes, Unborn, Routine
  <2>3. EditorTypes'
    BY <1>0, <1>1 DEF Create, Types, EditorTypes
  <2>. QED
    BY <1>1, <2>2, <2>3 DEF Create, engine, Types, RunTypes, CopyTypes
<1>2. CASE Fetch(e)
  <2>1. PICK c \in Rows : editor' = [editor EXCEPT ![e] = [pc |-> "edit", copies |-> {Definition(c)}]]
    BY <1>2 DEF Fetch
  <2>2. Definition(c) \in Routine(Routines)
    BY RowsTyped DEF Types, Definition, Routine
  <2>3. EditorTypes'
    BY <2>1, <2>2 DEF Types, EditorTypes
  <2>. QED
    BY <1>2, <2>3 DEF Fetch, engine, Types, RowTypes, RunTypes, CopyTypes
<1>3. CASE Update(e)
  <2> DEFINE Written(c, d) ==
               routine' = [routine EXCEPT ![c.id] =
                 IF Present(c.id) THEN [d EXCEPT !.last = routine[c.id].last,
                                                 !.count = routine[c.id].count,
                                                 !.fails = routine[c.id].fails]
                 ELSE @]
  <2>0. PICK c \in editor[e].copies : \E d \in Edited(e, c) : Written(c, d)
    BY <1>3 DEF Update
  <2>1. PICK d \in Edited(e, c) : Written(c, d)
    BY <2>0
  <2>2. c \in Routine(Routines)
    BY DEF Types, EditorTypes
  <2>3. d \in Routine(Routines) /\ d.id = c.id
    BY <2>2 DEF Edited, Routine, Kinds
  <2>4. c.id \in Routines /\ routine[c.id] \in Routine(Routines)
    BY <2>2 DEF Types, RowTypes, Routine
  <2>5. [d EXCEPT !.last = routine[c.id].last, !.count = routine[c.id].count,
                  !.fails = routine[c.id].fails] \in Routine({c.id})
    BY <2>3, <2>4 DEF Routine
  <2>6. RowTypes'
    BY <2>1, <2>4, <2>5 DEF Types, RowTypes, Routine
  <2>7. EditorTypes'
    BY <1>0, <1>3 DEF Update, Types, EditorTypes
  <2>. QED
    BY <1>3, <2>6, <2>7 DEF Update, engine, Types, RunTypes, CopyTypes
<1>4. CASE Delete(e)
  <2>1. PICK c \in editor[e].copies :
          /\ routine' = [routine EXCEPT ![c.id].stored = "gone"]
          /\ row' = [i \in Runs |-> IF run[i].of = c.id THEN "none" ELSE row[i]]
    BY <1>4 DEF Delete
  <2>2. RowTypes'
    <3>1. c.id \in Routines
      BY DEF Types, EditorTypes, Routine
    <3>2. [routine[c.id] EXCEPT !.stored = "gone"] \in Routine({c.id})
      BY <3>1 DEF Types, RowTypes, Routine
    <3>. QED
      BY <2>1, <3>1, <3>2 DEF Types, RowTypes, Routine
  <2>3. row' \in [Runs -> {"none", "running"} \cup Outcomes]
    BY <2>1 DEF Types, RunTypes
  <2>4. EditorTypes'
    BY <1>0, <1>4 DEF Delete, Types, EditorTypes
  <2>. QED
    BY <1>4, <2>2, <2>3, <2>4 DEF Delete, engine, Types, RunTypes, CopyTypes
<1>5. CASE ListEvents(e)
  <2>1. EventRows \subseteq Routine(Routines)
    BY RowsTyped DEF Types
  <2>2. EditorTypes'
    BY <1>0, <1>5, <2>1 DEF ListEvents, Types, EditorTypes
  <2>. QED
    BY <1>5, <2>2 DEF ListEvents, engine, Types, RowTypes, RunTypes, CopyTypes
<1>6. CASE Install(e)
  <2>1. EditorTypes' /\ CopyTypes'
    BY <1>0, <1>6 DEF Install, Types, EditorTypes, CopyTypes
  <2>. QED
    BY <1>6, <2>1 DEF Install, Types, RowTypes, RunTypes
<1>. QED
  BY <1>1, <1>2, <1>3, <1>4, <1>5, <1>6 DEF EditStep

LEMMA NextTypes == Types /\ [Next]_vars => Types'
<1>1. Types /\ UNCHANGED vars => Types'
  BY DEF vars, Types, RowTypes, RunTypes, CopyTypes, EditorTypes
<1>. QED
  BY <1>1, EngineTypes, RunStepTypes, EditTypes, TimeTypes DEF Next

-----------------------------------------------------------------------------
(* running_count *)

Executions == {i \in Runs : Executing(i)}
Counted ==
  /\ dry \in Nat /\ leaked \in Nat /\ crashes \in Nat
  /\ running = Cardinality(Executions) + dry + leaked

LEMMA InitCounted == Init => Counted
<1>. SUFFICES ASSUME Init PROVE Counted
  OBVIOUS
<1>1. Executions = {}
  BY DEF Init, Executions, Executing, NoRun
<1>. QED
  BY <1>1, FS_EmptySet DEF Init, Counted

\* Begin takes a unit for a run, its end gives it back; all else that changes
\* running_count is a dry run, and a restart.
LEMMA NextCounted == Types /\ Counted /\ [Next]_vars => Counted'
<1>. SUFFICES ASSUME Types, Counted, [Next]_vars PROVE Counted'
  OBVIOUS
<1>0. Executions \in SUBSET Runs /\ run \in [Runs -> RunCopies] /\ Cardinality(Executions) \in Nat
  BY RunsFinite, FS_Subset, FS_CardinalityType DEF Executions, Types, RunTypes
<1>1. ASSUME NEW i \in Runs, Begin(i) PROVE Counted'
  <2>1. Executions' = Executions \cup {i} /\ i \notin Executions
    BY <1>0, <1>1 DEF Begin, Executions, Executing, RunCopies
  <2>2. Cardinality(Executions') = Cardinality(Executions) + 1
    BY <1>0, <2>1, CountOneMore
  <2>. QED
    BY <1>0, <1>1, <2>2 DEF Begin, Counted
<1>2. ASSUME NEW i \in Runs, Answer(i) \/ JobEnds(i) \/ Deadline(i) PROVE Counted'
  <2>1. PICK o \in Outcomes : End(i, o) /\ i \in Executions
    BY <1>2 DEF Answer, JobEnds, Deadline, Outcomes, Executions, Executing
  <2>2. Executions' = Executions \ {i}
    BY <1>0, <2>1 DEF End, Executions, Executing, RunCopies
  <2>3. Cardinality(Executions') = Cardinality(Executions) - 1
    BY <1>0, <2>1, <2>2, CountOneMore
  <2>. QED
    BY <1>0, <2>1, <2>3 DEF End, Counted
<1>3. ASSUME NEW i \in Runs, Record(i) \/ Complete(i) \/ Runtime(i) PROVE Counted'
  <2>1. Executions' = Executions
    BY <1>0, <1>3, OverTypes DEF Record, Complete, Runtime, Executions, Executing, RunCopies, Types
  <2>. QED
    BY <1>3, <2>1 DEF Record, Complete, Runtime, engine, Counted
<1>4. ASSUME NEW c \in Routine(Routines), Spawn(c) PROVE Executions' = Executions
  BY <1>0, <1>4 DEF Spawn, Fresh, NoRun, Executions, Executing, RunCopies
<1>5. CASE MatchNext \/ TickNext
  <2>1. Executions' = Executions
    BY <1>4, <1>5 DEF MatchNext, TickNext, Executions, Executing, Types, CopyTypes
  <2>. QED
    BY <1>5, <2>1 DEF MatchNext, TickNext, Counted
<1>6. CASE Crash
  <2>1. Executions' = {}
    BY <1>0, <1>6, OverTypes DEF Crash, Live, Executions, Executing, RunCopies, Types
  <2>. QED
    BY <1>6, <2>1, FS_EmptySet DEF Crash, Counted
<1>7. CASE DryBegin \/ DryEnd \/ DryDropped
  <2>1. Executions' = Executions
    BY <1>7 DEF DryBegin, DryEnd, DryDropped, Executions, Executing
  <2>. QED
    BY <1>0, <1>7, <2>1 DEF DryBegin, DryEnd, DryDropped, Counted
<1>8. ASSUME UNCHANGED <<run, running, dry, leaked, crashes>> PROVE Counted'
  BY <1>8 DEF Counted, Executions, Executing
<1>9. CASE Message \/ Tick
  BY <1>8, <1>9 DEF Message, Tick
<1>10. ASSUME NEW e \in Editors, EditStep(e) PROVE Counted'
  BY <1>8, <1>10 DEF EditStep, Create, Fetch, Update, Delete, ListEvents, Install, engine
<1>11. ASSUME NEW r \in Routines, ComesDue(r) \/ CoolsDown(r) PROVE Counted'
  BY <1>8, <1>11 DEF ComesDue, CoolsDown, engine
<1>12. CASE UNCHANGED vars
  BY <1>8, <1>12 DEF vars
<1>. QED
  BY <1>1, <1>2, <1>3, <1>5, <1>6, <1>7, <1>9, <1>10, <1>11, <1>12 DEF Next, RunStep

\* The types of RoutineEngine, and running_count, for every instance
THEOREM TypeCorrect == Spec => []TypeOK
<1>1. Init => Types /\ Counted
  BY InitTypes, InitCounted
<1>2. (Types /\ Counted) /\ [Next]_vars => (Types /\ Counted)'
  BY NextTypes, NextCounted
<1>3. Types /\ Counted => TypeOK
  BY DEF Types, Counted, TypeOK, RowTypes, RunTypes, CopyTypes, EditorTypes, Executions
<1>. QED
  BY <1>1, <1>2, <1>3, PTL DEF Spec

-----------------------------------------------------------------------------
(* The inductive invariant.  A copy is of a routine that was created, and   *)
(* counts no run that has not ended; so do the rows and, without the run    *)
(* itself, the copy of a task.  A run's outcome is there once it has ended. *)

Known(r) == routine[r].stored # "unborn"
Bounded(c, E, F) == c.count <= Cardinality(E) /\ c.fails <= Cardinality(F)
Fit(c) == c.stored = "yes" /\ Known(c.id) /\ Bounded(c, EndedRuns(c.id), FailedRuns(c.id))

CopiesFit ==
  /\ \A c \in cache : Fit(c)
  /\ \A c \in matcher : Fit(c)
  /\ \A c \in ticker : Fit(c)
  /\ \A e \in Editors : \A c \in editor[e].copies : Fit(c)
RowsFit == \A r \in Routines : Bounded(routine[r], EndedRuns(r), FailedRuns(r))
RunsKnown == \A i \in Runs : run[i].phase # "unused" => run[i].of \in Routines /\ Known(run[i].of)
OutcomeTimely ==
  \A i \in Runs : /\ run[i].phase \in {"unused", "spawned", "recorded", "calling", "polling"}
                       => run[i].outcome = "none"
                  /\ run[i].phase \in {"ended", "completed"} => run[i].outcome \in Outcomes
TasksFit ==
  \A i \in Runs : Live(i) =>
    Bounded(run[i], EndedRuns(run[i].of) \ {i}, FailedRuns(run[i].of) \ {i})
Seen ==
  \A i \in Runs : run[i].phase \in {"recorded", "calling", "polling"} /\ Present(run[i].of)
    => row[i] = "running"

IInv == Types /\ CopiesFit /\ RowsFit /\ RunsKnown /\ OutcomeTimely /\ TasksFit /\ Seen

LEMMA InitIInv == Init => IInv
<1>. SUFFICES ASSUME Init PROVE IInv
  OBVIOUS
<1>1. Types
  BY InitTypes
<1>2. CopiesFit
  BY DEF Init, CopiesFit, Idle
<1>3. RowsFit
  <2>. SUFFICES ASSUME NEW r \in Routines
                PROVE  Bounded(routine[r], EndedRuns(r), FailedRuns(r))
    BY DEF RowsFit
  <2>1. Cardinality(EndedRuns(r)) \in Nat /\ Cardinality(FailedRuns(r)) \in Nat
    BY CountGrows DEF EndedRuns, FailedRuns
  <2>. QED
    BY <2>1 DEF Init, Unborn, Bounded
<1>4. RunsKnown /\ OutcomeTimely /\ TasksFit /\ Seen
  BY DEF Init, NoRun, Live, RunsKnown, OutcomeTimely, TasksFit, Seen
<1>. QED
  BY <1>1, <1>2, <1>3, <1>4 DEF IInv

\* What no step takes back: a routine's creation, and how a run has ended
Steady ==
  /\ \A r \in Routines : Known(r) => Known(r)'
  /\ \A i \in Runs : run[i].outcome # "none" =>
       run'[i].of = run[i].of /\ run'[i].outcome = run[i].outcome

LEMMA Grows ==
  ASSUME Steady, NEW r \in Routines
  PROVE  /\ EndedRuns(r) \subseteq EndedRuns(r)' /\ FailedRuns(r) \subseteq FailedRuns(r)'
         /\ EndedRuns(r)' \subseteq Runs /\ FailedRuns(r)' \subseteq Runs
         /\ \A n \in Nat : n <= Cardinality(EndedRuns(r)) => n <= Cardinality(EndedRuns(r)')
         /\ \A n \in Nat : n <= Cardinality(FailedRuns(r)) => n <= Cardinality(FailedRuns(r)')
<1>1. EndedRuns(r) \subseteq EndedRuns(r)' /\ FailedRuns(r) \subseteq FailedRuns(r)'
  BY DEF Steady, EndedRuns, FailedRuns
<1>2. EndedRuns(r)' \subseteq Runs /\ FailedRuns(r)' \subseteq Runs
  BY DEF EndedRuns, FailedRuns
<1>3. /\ Cardinality(EndedRuns(r)) \in Nat /\ Cardinality(EndedRuns(r)') \in Nat
      /\ Cardinality(EndedRuns(r)) <= Cardinality(EndedRuns(r)')
  BY <1>1, <1>2, CountGrows
<1>4. /\ Cardinality(FailedRuns(r)) \in Nat /\ Cardinality(FailedRuns(r)') \in Nat
      /\ Cardinality(FailedRuns(r)) <= Cardinality(FailedRuns(r)')
  BY <1>1, <1>2, CountGrows
<1>. QED
  BY <1>1, <1>2, <1>3, <1>4

\* A fit copy stays fit
LEMMA StaysFit ==
  ASSUME Steady, NEW c \in Routine(Routines), Fit(c)
  PROVE  Fit(c)'
<1> DEFINE r == c.id
<1>1. r \in Routines /\ c.count \in Nat /\ c.fails \in Nat
  BY DEF Routine
<1>2. c.count <= Cardinality(EndedRuns(r)) /\ c.fails <= Cardinality(FailedRuns(r)) /\ Known(r)
  BY DEF Fit, Bounded
<1>. HIDE DEF r
<1>3. /\ c.count <= Cardinality(EndedRuns(r)') /\ c.fails <= Cardinality(FailedRuns(r)')
  BY <1>1, <1>2, Grows
<1>4. Known(r)'
  BY <1>1, <1>2 DEF Steady
<1>. QED
  BY <1>3, <1>4 DEF Fit, Bounded, r

LEMMA SpawnIs ==
  ASSUME Types, NEW c \in Routine(Routines), Spawn(c)
  PROVE  \E i \in Runs :
           /\ run[i] = NoRun
           /\ run' = [run EXCEPT ![i] = run'[i]]
           /\ run'[i].phase = "spawned" /\ run'[i].of = c.id /\ run'[i].outcome = "none"
           /\ run'[i].count = c.count /\ run'[i].fails = c.fails
<1>1. PICK i \in Runs :
        /\ run[i] = NoRun
        /\ run' = [run EXCEPT ![i] = [phase |-> "spawned", of |-> c.id, kind |-> c.kind,
                                      count |-> c.count, fails |-> c.fails, outcome |-> "none"]]
  BY DEF Spawn, Fresh
<1>. QED
  BY <1>1 DEF Types, RunTypes

LEMMA NextSteady == IInv /\ [Next]_vars => Steady
<1>. SUFFICES ASSUME IInv, [Next]_vars PROVE Steady
  OBVIOUS
<1>0. Types /\ OutcomeTimely /\ run \in [Runs -> RunCopies] /\ routine \in [Routines -> Routine(Routines)]
  BY DEF IInv, Types, RunTypes, RowTypes
<1>1. ASSUME UNCHANGED <<routine, run>> PROVE Steady
  BY <1>1 DEF Steady, Known
<1>2. ASSUME NEW c \in Routine(Routines), Spawn(c), UNCHANGED routine PROVE Steady
  BY <1>0, <1>2, SpawnIs DEF NoRun, Steady, Known
<1>3. CASE MatchNext \/ TickNext
  BY <1>0, <1>1, <1>2, <1>3 DEF MatchNext, TickNext, Types, CopyTypes
<1>4. ASSUME NEW i \in Runs, Record(i) \/ Begin(i) \/ Complete(i) PROVE Steady
  <2>1. \A j \in Runs : run'[j].of = run[j].of /\ run'[j].outcome = run[j].outcome
    <3>1. PICK p \in Phases : run' = [run EXCEPT ![i].phase = p] \/ run' = [run EXCEPT ![i] = Over(i)]
      BY <1>4 DEF Record, Begin, Complete, Phases
    <3>2. Over(i).of = run[i].of /\ Over(i).outcome = run[i].outcome
      BY <1>0, OverTypes DEF Types
    <3>. QED
      BY <1>0, <3>1, <3>2 DEF RunCopies
  <2>2. routine' = routine
    BY <1>4 DEF Record, Begin, Complete
  <2>. QED
    BY <2>1, <2>2 DEF Steady, Known
<1>5. ASSUME NEW i \in Runs, Answer(i) \/ JobEnds(i) \/ Deadline(i) PROVE Steady
  <2>1. PICK o \in Outcomes : End(i, o)
    BY <1>5 DEF Answer, JobEnds, Deadline, Outcomes
  <2>2. run[i].outcome = "none"
    BY <1>0, <1>5 DEF Answer, JobEnds, Deadline, OutcomeTimely
  <2>. QED
    BY <1>0, <2>1, <2>2 DEF End, Steady, Known
<1>6. ASSUME NEW i \in Runs, Runtime(i) PROVE Steady
  <2>1. \A j \in Runs : run'[j].of = run[j].of /\ run'[j].outcome = run[j].outcome
    BY <1>0, <1>6, OverTypes DEF Runtime, Types
  <2>2. \A r \in Routines : routine'[r].stored = routine[r].stored
    <3>1. \A r \in Routines : routine[r] \in Routine(Routines)
      BY <1>0
    <3>2. \/ routine' = routine
          \/ routine' = [routine EXCEPT ![run[i].of] =
               [@ EXCEPT !.last = "recent", !.count = run[i].count + 1, !.fails = Failures(i),
                         !.next = IF run[i].kind = "cron" THEN "later" ELSE "none"]]
      BY <1>6 DEF Runtime
    <3> DEFINE new(r) == [routine[r] EXCEPT !.last = "recent", !.count = run[i].count + 1,
                            !.fails = Failures(i),
                            !.next = IF run[i].kind = "cron" THEN "later" ELSE "none"]
    <3>3. \A r \in Routines : routine'[r] \in {routine[r], new(r)}
      BY <1>0, <3>2
    <3>4. \A r \in Routines : new(r).stored = routine[r].stored
      BY <3>1 DEF Routine
    <3>. QED
      BY <3>3, <3>4
  <2>. QED
    BY <2>1, <2>2 DEF Steady, Known
<1>7. ASSUME NEW e \in Editors, Create(e) \/ Delete(e) PROVE Steady
  <2>1. run' = run
    BY <1>7 DEF Create, Delete
  <2>2. CASE Create(e)
    BY <1>0, <2>1, <2>2 DEF Create, Steady, Known, Unborn
  <2>3. CASE Delete(e)
    <3>1. PICK c \in editor[e].copies : routine' = [routine EXCEPT ![c.id].stored = "gone"]
      BY <2>3 DEF Delete
    <3>2. \A r \in Routines : routine'[r].stored \in {routine[r].stored, "gone"}
      BY <1>0, <3>1 DEF Routine
    <3>. QED
      BY <2>1, <3>2 DEF Steady, Known
  <2>. QED
    BY <1>7, <2>2, <2>3
<1>8. ASSUME NEW e \in Editors, Update(e) PROVE Steady
  <2>1. PICK c \in editor[e].copies : \E d \in Edited(e, c) :
          routine' = [routine EXCEPT ![c.id] =
            IF Present(c.id) THEN [d EXCEPT !.last = routine[c.id].last,
                                            !.count = routine[c.id].count,
                                            !.fails = routine[c.id].fails]
            ELSE @]
    BY <1>8 DEF Update
  <2>2. c \in Routine(Routines)
    BY <1>0 DEF Types, EditorTypes
  <2>3. c.stored = "yes"
    BY DEF IInv, CopiesFit, Fit
  <2>4. \A d \in Edited(e, c) : d \in Routine(Routines) /\ d.stored = "yes"
    BY <2>2, <2>3 DEF Edited, Routine, Kinds
  <2>5. \A r \in Routines : routine'[r].stored \in {routine[r].stored, "yes"}
    BY <1>0, <2>1, <2>4 DEF Routine
  <2>6. run' = run
    BY <1>8 DEF Update
  <2>. QED
    BY <2>5, <2>6 DEF Steady, Known
<1>9. CASE Crash
  BY <1>0, <1>9, OverTypes DEF Crash, Live, Steady, Known, Types
<1>10. ASSUME NEW r \in Routines, ComesDue(r) \/ CoolsDown(r) PROVE Steady
  BY <1>0, <1>10 DEF ComesDue, CoolsDown, engine, Steady, Known, Routine
<1>11. CASE Message \/ Tick \/ DryBegin \/ DryEnd \/ DryDropped \/ UNCHANGED vars
  BY <1>1, <1>11 DEF Message, Tick, DryBegin, DryEnd, DryDropped, vars
<1>12. ASSUME NEW e \in Editors, Fetch(e) \/ ListEvents(e) \/ Install(e) PROVE Steady
  BY <1>1, <1>12 DEF Fetch, ListEvents, Install, engine
<1>. QED
  BY <1>3, <1>4, <1>5, <1>6, <1>7, <1>8, <1>9, <1>10, <1>11, <1>12 DEF Next, RunStep, EditStep

\* A stored routine is a fit copy of itself
LEMMA RowsAreFit ==
  ASSUME IInv, NEW c \in Routine(Routines), c \in Rows
  PROVE  Fit(c)
<1>1. c.id \in Routines /\ c = routine[c.id] /\ routine[c.id].stored = "yes"
  BY RowsTyped DEF IInv, Types, Present
<1>. QED
  BY <1>1 DEF IInv, RowsFit, Fit, Known

LEMMA NextCopiesFit == IInv /\ [Next]_vars => CopiesFit'
<1>. SUFFICES ASSUME IInv, [Next]_vars PROVE CopiesFit'
  OBVIOUS
<1>0. Steady /\ Types
  BY NextSteady DEF IInv
<1>1. \A c \in Routine(Routines) : Fit(c) => Fit(c)'
  BY <1>0, StaysFit
<1>2. \A c \in Rows : c \in Routine(Routines) /\ Fit(c)
  BY <1>0, RowsTyped, RowsAreFit DEF Types
<1>3. /\ \A c \in cache \cup matcher \cup ticker : c \in Routine(Routines) /\ Fit(c)
      /\ \A e \in Editors : \A c \in editor[e].copies : c \in Routine(Routines) /\ Fit(c)
  BY <1>0 DEF IInv, CopiesFit, Types, CopyTypes, EditorTypes
<1>4. EventRows \subseteq Rows
  BY DEF EventRows
<1>5. ASSUME /\ cache' \subseteq cache \cup Rows
             /\ matcher' \subseteq cache \cup matcher
             /\ ticker' \subseteq ticker \cup Rows
             /\ \A e \in Editors : editor'[e].copies \subseteq editor[e].copies \cup Rows
      PROVE  CopiesFit'
  BY <1>1, <1>2, <1>3, <1>5 DEF CopiesFit
<1>6. CASE Message \/ MatchNext \/ Tick \/ TickNext \/ DryBegin \/ DryEnd \/ DryDropped
  BY <1>5, <1>6 DEF Message, MatchNext, Tick, TickNext, DryBegin, DryEnd, DryDropped
<1>7. ASSUME NEW i \in Runs, RunStep(i) PROVE CopiesFit'
  BY <1>5, <1>7 DEF RunStep, Record, Begin, Answer, JobEnds, Deadline, End, Complete, Runtime, engine
<1>8. CASE UNCHANGED vars \/ \E r \in Routines : ComesDue(r)
  BY <1>5, <1>8 DEF vars, ComesDue, engine
<1>9. ASSUME NEW r \in Routines, CoolsDown(r) PROVE CopiesFit'
  <2>1. ASSUME NEW C \in SUBSET Routine(Routines), \A c \in C : Fit(c), NEW d \in Cooled(r, C)
        PROVE  Fit(d)'
    <3>1. PICK c \in C : d = IF c.id = r /\ c.last = "recent" THEN [c EXCEPT !.last = "past"] ELSE c
      BY DEF Cooled
    <3>2. d \in Routine(Routines) /\ d.id = c.id /\ d.count = c.count /\ d.fails = c.fails
          /\ d.stored = c.stored
      BY <3>1 DEF Routine
    <3>3. Fit(d)
      BY <2>1, <3>2 DEF Fit, Bounded
    <3>. QED
      BY <1>1, <3>2, <3>3
  <2>. QED
    BY <1>0, <1>1, <1>3, <1>9, <2>1 DEF CoolsDown, CopiesFit, Types, CopyTypes
<1>10. CASE Crash
  BY <1>4, <1>5, <1>10 DEF Crash, Idle
<1>11. ASSUME NEW e \in Editors, EditStep(e) PROVE CopiesFit'
  <2>1. CASE Create(e) \/ Update(e) \/ Delete(e) \/ ListEvents(e)
    <3>1. After(e).copies = {} /\ Idle.copies = {}
          /\ [pc |-> "install", copies |-> EventRows].copies = EventRows
      BY DEF After, Idle
    <3>2. PICK k \in BOOLEAN :
            \/ editor' = [editor EXCEPT ![e] = IF k THEN After(e) ELSE Idle]
            \/ editor' = [editor EXCEPT ![e] = [pc |-> "install", copies |-> EventRows]]
      BY <2>1 DEF Create, Update, Delete, ListEvents
    <3>3. \A f \in Editors : editor'[f].copies \subseteq editor[f].copies \cup Rows
      BY <1>0, <1>4, <3>1, <3>2 DEF Types, EditorTypes
    <3>. QED
      BY <1>5, <2>1, <3>3 DEF Create, Update, Delete, ListEvents, engine
  <2>2. CASE Fetch(e)
    <3>1. PICK c \in Rows : editor' = [editor EXCEPT ![e] = [pc |-> "edit", copies |-> {Definition(c)}]]
      BY <2>2 DEF Fetch
    <3>2. Definition(c) \in Routine(Routines) /\ Definition(c).id = c.id /\ Definition(c).stored = c.stored
          /\ Definition(c).count = 0 /\ Definition(c).fails = 0
      BY <1>2 DEF Definition, Routine
    <3>3. Cardinality(EndedRuns(c.id)) \in Nat /\ Cardinality(FailedRuns(c.id)) \in Nat
      BY CountGrows DEF EndedRuns, FailedRuns
    <3>4. Fit(Definition(c))
      BY <1>2, <3>2, <3>3 DEF Fit, Bounded
    <3>5. ASSUME NEW d \in Routine(Routines), d = Definition(c) PROVE Fit(d)'
      BY <1>1, <3>4, <3>5
    <3>6. \A f \in Editors : \A d \in editor'[f].copies : d \in editor[f].copies \/ d = Definition(c)
      BY <1>0, <3>1 DEF Types, EditorTypes
    <3>. QED
      BY <1>1, <1>3, <2>2, <3>2, <3>5, <3>6 DEF Fetch, engine, CopiesFit
  <2>3. CASE Install(e)
    <3>1. cache' = editor[e].copies
      BY <2>3 DEF Install
    <3>2. \A f \in Editors : editor'[f].copies \subseteq editor[f].copies
      BY <1>0, <2>3 DEF Install, Idle, Types, EditorTypes
    <3>. QED
      BY <1>1, <1>3, <2>3, <3>1, <3>2 DEF Install, CopiesFit
  <2>. QED
    BY <1>11, <2>1, <2>2, <2>3 DEF EditStep
<1>. QED
  BY <1>6, <1>7, <1>8, <1>9, <1>10, <1>11 DEF Next

\* update_routine_runtime adds the run itself to what its copy counted
LEMMA RuntimeCounts ==
  ASSUME IInv, Steady, NEW i \in Runs, Runtime(i), NEW r \in Routines, r = run[i].of
  PROVE  /\ run[i].count + 1 <= Cardinality(EndedRuns(r)')
         /\ Failures(i) <= Cardinality(FailedRuns(r)')
<1>1. /\ Live(i) /\ run[i].outcome \in Outcomes
      /\ run[i].count \in Nat /\ run[i].fails \in Nat
  BY DEF Runtime, Live, IInv, OutcomeTimely, Types, RunTypes, RunCopies
<1>2. Bounded(run[i], EndedRuns(r) \ {i}, FailedRuns(r) \ {i})
  BY <1>1 DEF IInv, TasksFit
<1>3. i \in EndedRuns(r) /\ (run[i].outcome = "failed" <=> i \in FailedRuns(r))
  BY <1>1 DEF EndedRuns, FailedRuns, Outcomes
<1>4. EndedRuns(r) \in SUBSET Runs /\ FailedRuns(r) \in SUBSET Runs
  BY DEF EndedRuns, FailedRuns
<1>5. run[i].count + 1 <= Cardinality(EndedRuns(r)) /\ Cardinality(EndedRuns(r)) \in Nat
  BY <1>1, <1>2, <1>3, <1>4, CountOneMore DEF Bounded
<1>6. Failures(i) <= Cardinality(FailedRuns(r)) /\ Cardinality(FailedRuns(r)) \in Nat
  <2>1. Cardinality(FailedRuns(r)) \in Nat
    BY <1>4, CountOneMore
  <2>2. CASE run[i].outcome = "failed"
    <3>1. Cardinality(FailedRuns(r) \ {i}) = Cardinality(FailedRuns(r)) - 1
      BY <1>3, <1>4, <2>2, CountOneMore
    <3>2. run[i].fails <= Cardinality(FailedRuns(r) \ {i})
      BY <1>2 DEF Bounded
    <3>. QED
      BY <1>1, <2>1, <2>2, <3>1, <3>2 DEF Failures
  <2>3. CASE run[i].outcome # "failed"
    BY <2>1, <2>3 DEF Failures
  <2>. QED
    BY <2>1, <2>2, <2>3
<1>7. Failures(i) \in Nat /\ run[i].count + 1 \in Nat
  BY <1>1 DEF Failures
<1>. QED
  BY <1>5, <1>6, <1>7, Grows

LEMMA NextRowsFit == IInv /\ [Next]_vars => RowsFit'
<1>. SUFFICES ASSUME IInv, [Next]_vars, NEW r \in Routines
              PROVE  Bounded(routine'[r], EndedRuns(r)', FailedRuns(r)')
  BY DEF RowsFit
<1>0. /\ Steady /\ Types /\ RowsFit
      /\ routine \in [Routines -> Routine(Routines)] /\ routine[r] \in Routine(Routines)
  BY NextSteady DEF IInv, Types, RowTypes
<1>1. ASSUME routine'[r].count = routine[r].count, routine'[r].fails = routine[r].fails
      PROVE  Bounded(routine'[r], EndedRuns(r)', FailedRuns(r)')
  BY <1>0, <1>1, Grows DEF RowsFit, Bounded, Routine
<1>2. ASSUME NEW i \in Runs, RunStep(i) PROVE Bounded(routine'[r], EndedRuns(r)', FailedRuns(r)')
  <2>1. CASE routine' = routine
    BY <1>1, <2>1
  <2>2. CASE routine' # routine
    <3>1. /\ Runtime(i)
          /\ routine' = [routine EXCEPT ![run[i].of] =
               [@ EXCEPT !.last = "recent", !.count = run[i].count + 1, !.fails = Failures(i),
                         !.next = IF run[i].kind = "cron" THEN "later" ELSE "none"]]
      BY <1>2, <2>2 DEF RunStep, Record, Begin, Answer, JobEnds, Deadline, End, Complete, Runtime, engine
    <3>2. CASE r = run[i].of
      <4>1. routine'[r].count = run[i].count + 1 /\ routine'[r].fails = Failures(i)
        BY <1>0, <3>1, <3>2 DEF Routine
      <4>. QED
        BY <1>0, <3>1, <3>2, <4>1, RuntimeCounts DEF Bounded
    <3>3. CASE r # run[i].of
      BY <1>0, <1>1, <3>1, <3>3
    <3>. QED
      BY <3>2, <3>3
  <2>. QED
    BY <2>1, <2>2
<1>3. ASSUME NEW e \in Editors, EditStep(e) PROVE Bounded(routine'[r], EndedRuns(r)', FailedRuns(r)')
  <2>1. CASE Create(e)
    <3>1. routine'[r] = routine[r] \/ (routine'[r].count = 0 /\ routine'[r].fails = 0)
      BY <1>0, <2>1 DEF Create, Unborn
    <3>2. Cardinality(EndedRuns(r)') \in Nat /\ Cardinality(FailedRuns(r)') \in Nat
      BY <1>0, Grows, CountGrows
    <3>. QED
      BY <1>1, <3>1, <3>2 DEF Bounded
  <2>2. CASE Update(e)
    <3>1. PICK c \in editor[e].copies : \E d \in Edited(e, c) :
            routine' = [routine EXCEPT ![c.id] =
              IF Present(c.id) THEN [d EXCEPT !.last = routine[c.id].last,
                                              !.count = routine[c.id].count,
                                              !.fails = routine[c.id].fails]
              ELSE @]
      BY <2>2 DEF Update
    <3>2. c \in Routine(Routines)
      BY <1>0 DEF Types, EditorTypes
    <3>3. \A d \in Edited(e, c) : d \in Routine(Routines)
      BY <3>2 DEF Edited, Routine, Kinds
    <3>4. routine'[r].count = routine[r].count /\ routine'[r].fails = routine[r].fails
      BY <1>0, <3>1, <3>3 DEF Routine
    <3>. QED
      BY <1>1, <3>4
  <2>3. CASE Delete(e)
    <3>1. PICK c \in editor[e].copies : routine' = [routine EXCEPT ![c.id].stored = "gone"]
      BY <2>3 DEF Delete
    <3>2. routine'[r].count = routine[r].count /\ routine'[r].fails = routine[r].fails
      BY <1>0, <3>1 DEF Routine
    <3>. QED
      BY <1>1, <3>2
  <2>4. CASE Fetch(e) \/ ListEvents(e) \/ Install(e)
    BY <1>1, <2>4 DEF Fetch, ListEvents, Install
  <2>. QED
    BY <1>3, <2>1, <2>2, <2>3, <2>4 DEF EditStep
<1>4. CASE \E q \in Routines : ComesDue(q) \/ CoolsDown(q)
  <2>1. routine'[r].count = routine[r].count /\ routine'[r].fails = routine[r].fails
    BY <1>0, <1>4 DEF ComesDue, CoolsDown, Routine
  <2>. QED
    BY <1>1, <2>1
<1>5. CASE \/ Message \/ MatchNext \/ Tick \/ TickNext \/ DryBegin \/ DryEnd \/ DryDropped
           \/ Crash \/ UNCHANGED vars
  BY <1>1, <1>5 DEF Message, MatchNext, Tick, TickNext, DryBegin, DryEnd, DryDropped, Crash, vars
<1>. QED
  BY <1>2, <1>3, <1>4, <1>5 DEF Next

LEMMA NextOutcomeTimely == IInv /\ [Next]_vars => OutcomeTimely'
<1>. SUFFICES ASSUME IInv, [Next]_vars PROVE OutcomeTimely'
  OBVIOUS
<1>0. Types /\ OutcomeTimely /\ run \in [Runs -> RunCopies]
  BY DEF IInv, Types, RunTypes
<1>1. ASSUME UNCHANGED run PROVE OutcomeTimely'
  BY <1>0, <1>1 DEF OutcomeTimely
<1>2. ASSUME NEW c \in Routine(Routines), Spawn(c) PROVE OutcomeTimely'
  BY <1>0, <1>2, SpawnIs DEF OutcomeTimely
<1>3. CASE MatchNext \/ TickNext
  BY <1>0, <1>1, <1>2, <1>3 DEF MatchNext, TickNext, Types, CopyTypes
<1>4. ASSUME NEW i \in Runs, Record(i) \/ Begin(i) PROVE OutcomeTimely'
  <2>1. PICK p \in {"recorded", "calling", "polling", "over"} :
          \/ p # "over" /\ run' = [run EXCEPT ![i].phase = p]
          \/ p = "over" /\ run' = [run EXCEPT ![i] = Over(i)]
    BY <1>4 DEF Record, Begin
  <2>2. run[i].outcome = "none" /\ Over(i).phase = "over"
    BY <1>0, <1>4, OverTypes DEF Record, Begin, OutcomeTimely, Types
  <2>3. \A j \in Runs : j # i => run'[j] = run[j]
    BY <1>0, <2>1
  <2>4. run'[i].phase = p /\ (p # "over" => run'[i].outcome = "none")
    BY <1>0, <2>1, <2>2 DEF RunCopies
  <2>. QED
    BY <1>0, <2>3, <2>4 DEF OutcomeTimely
<1>5. ASSUME NEW i \in Runs, Answer(i) \/ JobEnds(i) \/ Deadline(i) PROVE OutcomeTimely'
  <2>1. PICK o \in Outcomes : End(i, o)
    BY <1>5 DEF Answer, JobEnds, Deadline, Outcomes
  <2>. QED
    BY <1>0, <2>1 DEF End, OutcomeTimely, RunCopies
<1>6. ASSUME NEW i \in Runs, Complete(i) \/ Runtime(i) PROVE OutcomeTimely'
  <2>1. \/ run[i].phase = "ended" /\ run' = [run EXCEPT ![i].phase = "completed"]
        \/ run' = [run EXCEPT ![i] = Over(i)]
    BY <1>6 DEF Complete, Runtime
  <2>2. Over(i).phase = "over"
    BY <1>0, OverTypes DEF Types
  <2>3. \A j \in Runs : j # i => run'[j] = run[j]
    BY <1>0, <2>1
  <2>4. \/ run'[i].phase = "over"
        \/ /\ run[i].phase = "ended" /\ run'[i].phase = "completed"
           /\ run'[i].outcome = run[i].outcome
    BY <1>0, <2>1, <2>2 DEF RunCopies
  <2>. QED
    BY <1>0, <2>3, <2>4 DEF OutcomeTimely
<1>7. CASE Crash
  <2>1. \A i \in Runs : run'[i] = run[i] \/ run'[i].phase = "over"
    BY <1>0, <1>7, OverTypes DEF Crash, Types
  <2>. QED
    BY <1>0, <2>1 DEF OutcomeTimely
<1>8. CASE Message \/ Tick \/ DryBegin \/ DryEnd \/ DryDropped \/ UNCHANGED vars
  BY <1>1, <1>8 DEF Message, Tick, DryBegin, DryEnd, DryDropped, vars
<1>9. ASSUME NEW e \in Editors, EditStep(e) PROVE OutcomeTimely'
  BY <1>1, <1>9 DEF EditStep, Create, Fetch, Update, Delete, ListEvents, Install
<1>10. ASSUME NEW r \in Routines, ComesDue(r) \/ CoolsDown(r) PROVE OutcomeTimely'
  BY <1>1, <1>10 DEF ComesDue, CoolsDown
<1>. QED
  BY <1>3, <1>4, <1>5, <1>6, <1>7, <1>8, <1>9, <1>10 DEF Next, RunStep

\* A run that is alive afterwards was alive with the same copy, or was just
\* spawned with a fit one
LEMMA RunOrigin ==
  ASSUME IInv, [Next]_vars, NEW i \in Runs, run'[i].phase # "unused"
  PROVE  \/ /\ run[i].phase # "unused" /\ run'[i].of = run[i].of
            /\ Live(i)' => /\ Live(i)
                           /\ run'[i].count = run[i].count /\ run'[i].fails = run[i].fails
         \/ /\ run'[i].phase = "spawned" /\ run[i].outcome = "none" /\ run'[i].outcome = "none"
            /\ \E c \in Routine(Routines) :
                 /\ Fit(c) /\ run'[i].of = c.id
                 /\ run'[i].count = c.count /\ run'[i].fails = c.fails
<1>0. Types /\ CopiesFit /\ run \in [Runs -> RunCopies]
  BY DEF IInv, Types, RunTypes
<1> DEFINE Same(j) == /\ run[j].phase # "unused" /\ run'[j].of = run[j].of
                      /\ Live(j)' => /\ Live(j)
                                     /\ run'[j].count = run[j].count /\ run'[j].fails = run[j].fails
           New(j) == /\ run'[j].phase = "spawned" /\ run[j].outcome = "none" /\ run'[j].outcome = "none"
                     /\ \E c \in Routine(Routines) :
                          /\ Fit(c) /\ run'[j].of = c.id
                          /\ run'[j].count = c.count /\ run'[j].fails = c.fails
<1>1. ASSUME run'[i] = run[i] PROVE Same(i)
  BY <1>1 DEF Live
<1>2. ASSUME NEW c \in Routine(Routines), Fit(c), Spawn(c) PROVE Same(i) \/ New(i)
  <2>1. PICK j \in Runs :
           /\ run[j] = NoRun
           /\ run' = [run EXCEPT ![j] = run'[j]]
           /\ run'[j].phase = "spawned" /\ run'[j].of = c.id /\ run'[j].outcome = "none"
           /\ run'[j].count = c.count /\ run'[j].fails = c.fails
    BY <1>0, <1>2, SpawnIs
  <2>2. CASE i = j
    BY <1>2, <2>1, <2>2 DEF NoRun
  <2>3. CASE i # j
    BY <1>0, <1>1, <2>1, <2>3
  <2>. QED
    BY <2>2, <2>3
<1>3. CASE MatchNext
  <2>1. PICK c \in matcher : Spawn(c) \/ UNCHANGED run
    BY <1>3 DEF MatchNext
  <2>2. c \in Routine(Routines) /\ Fit(c)
    BY <1>0 DEF CopiesFit, Types, CopyTypes
  <2>. QED
    BY <1>1, <1>2, <2>1, <2>2
<1>4. CASE TickNext
  <2>1. PICK c \in ticker : Spawn(c) \/ UNCHANGED run
    BY <1>4 DEF TickNext
  <2>2. c \in Routine(Routines) /\ Fit(c)
    BY <1>0 DEF CopiesFit, Types, CopyTypes
  <2>. QED
    BY <1>1, <1>2, <2>1, <2>2
<1>5. ASSUME NEW j \in Runs, RunStep(j) PROVE Same(i)
  <2>1. CASE i # j
    <3>1. run'[i] = run[i]
      BY <1>0, <1>5, <2>1 DEF RunStep, Record, Begin, Answer, JobEnds, Deadline, End, Complete, Runtime
    <3>. QED
      BY <1>1, <3>1
  <2>2. CASE i = j
    <3>1. Live(i)
      BY <1>5, <2>2 DEF RunStep, Record, Begin, Answer, JobEnds, Deadline, Complete, Runtime, Live
    <3>2. \/ run' = [run EXCEPT ![i] = Over(i)]
          \/ \E p \in Phases : run' = [run EXCEPT ![i].phase = p]
          \/ \E o \in Outcomes : run' = [run EXCEPT ![i].phase = "ended", ![i].outcome = o]
      BY <1>5, <2>2 DEF RunStep, Record, Begin, Answer, JobEnds, Deadline, End, Complete, Runtime,
                        Phases, Outcomes
    <3>3. Over(i).of = run[i].of /\ Over(i).phase = "over"
      BY <1>0, OverTypes DEF Types
    <3>4. run'[i].of = run[i].of
          /\ \/ run'[i].phase = "over"
             \/ run'[i].count = run[i].count /\ run'[i].fails = run[i].fails
      <4>1. CASE run' = [run EXCEPT ![i] = Over(i)]
        BY <1>0, <3>3, <4>1
      <4>2. CASE run' # [run EXCEPT ![i] = Over(i)]
        BY <1>0, <3>2, <4>2 DEF RunCopies
      <4>. QED
        BY <4>1, <4>2
    <3>. QED
      BY <3>1, <3>4 DEF Live
  <2>. QED
    BY <2>1, <2>2
<1>6. CASE Crash
  <2>1. run'[i] = run[i] \/ (Live(i) /\ run'[i].phase = "over" /\ run'[i].of = run[i].of)
    BY <1>0, <1>6, OverTypes DEF Crash, Types
  <2>. QED
    BY <1>1, <2>1 DEF Live
<1>7. CASE Message \/ Tick \/ DryBegin \/ DryEnd \/ DryDropped \/ UNCHANGED vars
  BY <1>1, <1>7 DEF Message, Tick, DryBegin, DryEnd, DryDropped, vars
<1>8. ASSUME NEW e \in Editors, EditStep(e) PROVE Same(i)
  BY <1>1, <1>8 DEF EditStep, Create, Fetch, Update, Delete, ListEvents, Install
<1>9. ASSUME NEW r \in Routines, ComesDue(r) \/ CoolsDown(r) PROVE Same(i)
  BY <1>1, <1>9 DEF ComesDue, CoolsDown
<1>10. Same(i) \/ New(i)
  BY <1>3, <1>4, <1>5, <1>6, <1>7, <1>8, <1>9 DEF Next
<1>. QED
  BY <1>10

LEMMA NextRunsKnown == IInv /\ [Next]_vars => RunsKnown'
<1>. SUFFICES ASSUME IInv, [Next]_vars, NEW i \in Runs, run'[i].phase # "unused"
              PROVE  run'[i].of \in Routines /\ routine'[run'[i].of].stored # "unborn"
  BY DEF RunsKnown, Known
<1>1. Steady
  BY NextSteady
<1>2. run'[i].of \in Routines /\ routine[run'[i].of].stored # "unborn"
  BY RunOrigin DEF IInv, RunsKnown, Fit, Known, Routine
<1>. QED
  BY <1>1, <1>2 DEF Steady, Known

LEMMA TaskStaysFit ==
  ASSUME IInv, [Next]_vars, NEW i \in Runs, Live(i)', NEW r \in Routines, r = run'[i].of
  PROVE  Bounded(run'[i], EndedRuns(r)' \ {i}, FailedRuns(r)' \ {i})
<1> DEFINE E == EndedRuns(r) \ {i}
           F == FailedRuns(r) \ {i}
           E2 == EndedRuns(r)' \ {i}
           F2 == FailedRuns(r)' \ {i}
<1>0. Steady /\ run \in [Runs -> RunCopies] /\ run' \in [Runs -> RunCopies]
  BY NextSteady, NextTypes DEF IInv, Types, RunTypes
<1>2. Bounded(run'[i], E, F)
  <2>1. CASE /\ run[i].phase # "unused" /\ run'[i].of = run[i].of /\ Live(i)
             /\ run'[i].count = run[i].count /\ run'[i].fails = run[i].fails
    BY <2>1 DEF IInv, TasksFit, Bounded
  <2>2. ASSUME NEW c \in Routine(Routines), Fit(c), run'[i].of = c.id, run[i].outcome = "none",
               run'[i].count = c.count, run'[i].fails = c.fails
        PROVE  Bounded(run'[i], E, F)
    <3>1. E = EndedRuns(r) /\ F = FailedRuns(r)
      BY <2>2 DEF EndedRuns, FailedRuns
    <3>. QED
      BY <2>2, <3>1 DEF Fit, Bounded
  <2>. QED
    BY <2>1, <2>2, RunOrigin DEF Live
<1>3. E \subseteq E2 /\ F \subseteq F2 /\ E2 \subseteq Runs /\ F2 \subseteq Runs
  BY <1>0, Grows
<1>4. run'[i].count \in Nat /\ run'[i].fails \in Nat
  BY <1>0 DEF RunCopies
<1>5. Bounded(run'[i], E2, F2)
  <2>. HIDE DEF E, F, E2, F2
  <2>1. /\ Cardinality(E) <= Cardinality(E2) /\ Cardinality(F) <= Cardinality(F2)
        /\ Cardinality(E) \in Nat /\ Cardinality(F) \in Nat
        /\ Cardinality(E2) \in Nat /\ Cardinality(F2) \in Nat
    BY <1>3, CountGrows
  <2>. QED
    BY <1>2, <1>4, <2>1 DEF Bounded
<1>. QED
  BY <1>5

LEMMA NextTasksFit == IInv /\ [Next]_vars => TasksFit'
<1>. SUFFICES ASSUME IInv, [Next]_vars, NEW i \in Runs, Live(i)', NEW r, r = run'[i].of
              PROVE  Bounded(run'[i], EndedRuns(r)' \ {i}, FailedRuns(r)' \ {i})
  BY DEF TasksFit, EndedRuns, FailedRuns
<1>1. r \in Routines
  BY NextRunsKnown DEF RunsKnown, Live
<1>. QED
  BY <1>1, TaskStaysFit

\* The row of a run that goes on is there until its routine is deleted
LEMMA NextSeen == IInv /\ [Next]_vars => Seen'
<1>. SUFFICES ASSUME IInv, [Next]_vars PROVE Seen'
  OBVIOUS
<1>0. /\ Types /\ Seen /\ RunsKnown
      /\ run \in [Runs -> RunCopies] /\ row \in [Runs -> {"none", "running"} \cup Outcomes]
      /\ routine \in [Routines -> Routine(Routines)]
  BY DEF IInv, Types, RunTypes, RowTypes
<1>1. ASSUME UNCHANGED <<run, row>>,
             \A r \in Routines : Known(r) /\ routine'[r].stored = "yes" => Present(r)
      PROVE  Seen'
  <2>. SUFFICES ASSUME NEW i \in Runs, run[i].phase \in {"recorded", "calling", "polling"},
                       routine'[run[i].of].stored = "yes"
                PROVE  row[i] = "running"
    BY <1>1 DEF Seen, Present
  <2>1. run[i].of \in Routines /\ Known(run[i].of)
    BY <1>0 DEF RunsKnown
  <2>. QED
    BY <1>0, <1>1, <2>1 DEF Seen
<1>2. ASSUME NEW c \in Routine(Routines), Spawn(c), UNCHANGED <<row, routine>> PROVE Seen'
  BY <1>0, <1>2, SpawnIs DEF Seen, Present
<1>3. CASE MatchNext \/ TickNext
  BY <1>0, <1>1, <1>2, <1>3 DEF MatchNext, TickNext, Types, CopyTypes, Present
<1>4. ASSUME NEW i \in Runs, RunStep(i) PROVE Seen'
  <2>1. CASE Record(i)
    <3>1. \/ run' = [run EXCEPT ![i].phase = "recorded"] /\ row' = [row EXCEPT ![i] = "running"]
          \/ run' = [run EXCEPT ![i] = Over(i)] /\ row' = row
      BY <2>1 DEF Record
    <3>2. Over(i).phase = "over" /\ routine' = routine
      BY <1>0, <2>1, OverTypes DEF Types, Record
    <3>3. \A j \in Runs : j # i => run'[j] = run[j] /\ row'[j] = row[j]
      BY <1>0, <3>1
    <3>4. run'[i].phase = "over" \/ row'[i] = "running"
      BY <1>0, <3>1, <3>2
    <3>. QED
      BY <1>0, <3>2, <3>3, <3>4 DEF Seen, Present
  <2>2. CASE Begin(i)
    BY <1>0, <2>2 DEF Begin, Seen, Present, RunCopies
  <2>3. CASE Answer(i) \/ JobEnds(i) \/ Deadline(i) \/ Complete(i)
    <3>1. run'[i].phase \in {"ended", "completed"} /\ routine' = routine
      BY <1>0, <2>3 DEF Answer, JobEnds, Deadline, End, Complete, RunCopies
    <3>2. \A j \in Runs : j # i => run'[j] = run[j] /\ row'[j] = row[j]
      BY <1>0, <2>3 DEF Answer, JobEnds, Deadline, End, Complete
    <3>. QED
      BY <1>0, <3>1, <3>2 DEF Seen, Present
  <2>4. CASE Runtime(i)
    <3>1. run'[i].phase = "over" /\ row' = row
      BY <1>0, <2>4, OverTypes DEF Runtime, Types
    <3>2. \A j \in Runs : j # i => run'[j] = run[j]
      BY <1>0, <2>4 DEF Runtime
    <3>3. \/ routine' = routine
          \/ routine' = [routine EXCEPT ![run[i].of] =
               [@ EXCEPT !.last = "recent", !.count = run[i].count + 1, !.fails = Failures(i),
                         !.next = IF run[i].kind = "cron" THEN "later" ELSE "none"]]
      BY <2>4 DEF Runtime
    <3> DEFINE new(r) == [routine[r] EXCEPT !.last = "recent", !.count = run[i].count + 1,
                            !.fails = Failures(i),
                            !.next = IF run[i].kind = "cron" THEN "later" ELSE "none"]
    <3>4. \A r \in Routines : routine'[r].stored = routine[r].stored
      <4>1. \A r \in Routines : routine'[r] \in {routine[r], new(r)}
        BY <1>0, <3>3
      <4>2. \A r \in Routines : new(r).stored = routine[r].stored
        BY <1>0 DEF Routine
      <4>. QED
        BY <4>1, <4>2
    <3>. QED
      BY <1>0, <3>1, <3>2, <3>4 DEF Seen, Present, RunsKnown
  <2>. QED
    BY <1>4, <2>1, <2>2, <2>3, <2>4 DEF RunStep
<1>5. ASSUME NEW e \in Editors, EditStep(e) PROVE Seen'
  <2>1. CASE Create(e)
    BY <1>0, <1>1, <2>1 DEF Create, engine, Known, Present
  <2>2. CASE Update(e)
    <3>1. PICK c \in editor[e].copies : \E d \in Edited(e, c) :
            routine' = [routine EXCEPT ![c.id] =
              IF Present(c.id) THEN [d EXCEPT !.last = routine[c.id].last,
                                              !.count = routine[c.id].count,
                                              !.fails = routine[c.id].fails]
              ELSE @]
      BY <2>2 DEF Update
    <3>2. \A r \in Routines : routine'[r].stored = "yes" => Present(r)
      BY <1>0, <3>1 DEF Present
    <3>. QED
      BY <1>1, <2>2, <3>2 DEF Update, engine
  <2>3. CASE Delete(e)
    <3>1. PICK c \in editor[e].copies :
            /\ routine' = [routine EXCEPT ![c.id].stored = "gone"]
            /\ row' = [i \in Runs |-> IF run[i].of = c.id THEN "none" ELSE row[i]]
      BY <2>3 DEF Delete
    <3>2. c.id \in Routines /\ run' = run
      BY <1>0, <2>3 DEF Delete, Types, EditorTypes, Routine
    <3>3. routine'[c.id].stored = "gone" /\ \A r \in Routines : r # c.id => routine'[r] = routine[r]
      BY <1>0, <3>1, <3>2 DEF Routine
    <3>4. \A i \in Runs : run[i].of # c.id => row'[i] = row[i]
      BY <3>1
    <3>. QED
      BY <1>0, <3>2, <3>3, <3>4 DEF Seen, Present, RunsKnown
  <2>4. CASE Fetch(e) \/ ListEvents(e) \/ Install(e)
    BY <1>1, <2>4 DEF Fetch, ListEvents, Install, engine, Present
  <2>. QED
    BY <1>5, <2>1, <2>2, <2>3, <2>4 DEF EditStep
<1>6. CASE Crash
  <2>1. \A i \in Runs : run'[i] = run[i] \/ run'[i].phase = "over"
    BY <1>0, <1>6, OverTypes DEF Crash, Types
  <2>. QED
    BY <1>0, <1>6, <2>1 DEF Crash, Seen, Present
<1>7. ASSUME NEW r \in Routines, ComesDue(r) \/ CoolsDown(r) PROVE Seen'
  <2>1. \A q \in Routines : routine'[q].stored = routine[q].stored
    BY <1>0, <1>7 DEF ComesDue, CoolsDown, Routine
  <2>. QED
    BY <1>1, <1>7, <2>1 DEF ComesDue, CoolsDown, engine, Present
<1>8. CASE Message \/ Tick \/ DryBegin \/ DryEnd \/ DryDropped \/ UNCHANGED vars
  BY <1>1, <1>8 DEF Message, Tick, DryBegin, DryEnd, DryDropped, vars, Present
<1>. QED
  BY <1>3, <1>4, <1>5, <1>6, <1>7, <1>8 DEF Next

LEMMA IInvHolds == Spec => []IInv
<1>1. IInv /\ [Next]_vars => IInv'
  BY NextTypes, NextCopiesFit, NextRowsFit, NextRunsKnown, NextOutcomeTimely, NextTasksFit, NextSeen
  DEF IInv
<1>. QED
  BY <1>1, InitIInv, PTL DEF Spec

\* count_running_routine_runs counts every run that is executing
THEOREM GuardrailNeverBlind == Spec => []GuardrailSeesRuns
<1>1. IInv => GuardrailSeesRuns
  BY DEF IInv, Seen, GuardrailSeesRuns, Executing
<1>. QED
  BY <1>1, IInvHolds, PTL

\* However old the copies, run_count and consecutive_failures count runs that
\* ended and failures that happened
THEOREM CountersNeverInvent == Spec => []CountersEarned
<1>1. IInv => CountersEarned
  <2>. SUFFICES ASSUME IInv, NEW r \in Routines
                PROVE  /\ routine[r].count <= Cardinality(EndedRuns(r))
                       /\ routine[r].fails <= Cardinality(FailedRuns(r))
    BY DEF CountersEarned
  <2>. QED
    BY DEF IInv, RowsFit, Bounded
<1>. QED
  BY <1>1, IInvHolds, PTL

=============================================================================
