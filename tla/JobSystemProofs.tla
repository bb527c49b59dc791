-------------------------- MODULE JobSystemProofs --------------------------
(***************************************************************************)
(* What JobSystem guarantees for any number of jobs and routines and any   *)
(* limits, proved with TLAPS.  Two invariants carry it: SchedInv about the *)
(* scheduler's map and its lock, and JobInv, which ties the state of each  *)
(* context to its worker, to the client that holds it, to what the repair  *)
(* loop has detected and to the writes on their way to the database.       *)
(* At the end: a job is recovered at most once, and its execution takes a  *)
(* bounded number of steps.                                                *)
(***************************************************************************)
EXTENDS JobSystem, TLAPS, FiniteSetTheorems

\* The disjuncts of Next, with their quantifiers.
LEMMA StepCases ==
  ASSUME [Next]_vars
  PROVE  \/ \E j \in Jobs : JobStep(j)
         \/ \E j \in Jobs : MainStep(j)
         \/ \E j \in Jobs, c \in Clients : ClientStep(c, j)
         \/ Exit \/ Exited \/ Detect
         \/ \E s \in found : Repair(s)
         \/ \E w \in writes : Write(w) \/ WriteFails(w)
         \/ UNCHANGED vars
  BY DEF Next

-----------------------------------------------------------------------------
(* Types *)

\* A worker that goes on or ends leaves its local state well typed.
WorkType ==
  /\ worker \in [Jobs -> WorkerPc]
  /\ planned \subseteq Jobs
  /\ iter \in [Jobs -> 0..MaxIter]
  /\ stopSent \subseteq Jobs
  /\ sawCancel \subseteq Jobs

LEMMA EndType ==
  ASSUME WorkType, NEW j \in Jobs, End(j)
  PROVE  WorkType'
<1>1. 0 \in 0..MaxIter
  BY BoundAssumption
<1>2. worker' \in [Jobs -> WorkerPc]
  BY DEF WorkType, End, WorkerPc
<1>. QED
  BY <1>1, <1>2 DEF WorkType, End

LEMMA GoType ==
  ASSUME WorkType, NEW j \in Jobs, NEW pc \in WorkerPc, Go(j, pc)
  PROVE  WorkType'
  BY DEF WorkType, Go

\* A spawned write is a write of a state.
LEMMA UpdateType ==
  ASSUME NEW j \in Jobs, NEW to \in State, writes \subseteq DbWrite, Spawn(Update(j, to))
  PROVE  writes' \subseteq DbWrite
<1>1. Update(j, to) \in DbWrite
  BY DEF Update, DbWrite, Status
<1>. QED
  BY <1>1 DEF Spawn

\* Marking a job changes its state, and spawns the write of that state, or
\* changes nothing.
LEMMA MarkType ==
  ASSUME TypeOK, NEW j \in Jobs, NEW to \in State, Mark(j, to) \/ MarkRefused(j, to)
  PROVE  ctx' \in [Jobs -> Status] /\ writes' \subseteq DbWrite
<1>1. CASE Mark(j, to)
  <2>1. writes' \subseteq DbWrite
    BY <1>1, UpdateType DEF TypeOK, Mark
  <2>. QED
    BY <1>1, <2>1 DEF TypeOK, Mark, Status
<1>2. CASE MarkRefused(j, to)
  BY <1>2 DEF TypeOK, MarkRefused
<1>. QED
  BY <1>1, <1>2

LEMMA MarkOrErrType ==
  ASSUME TypeOK, NEW j \in Jobs, NEW to \in State, MarkOrErr(j, to)
  PROVE  ctx' \in [Jobs -> Status] /\ writes' \subseteq DbWrite /\ WorkType'
<1>1. WorkType /\ "err" \in WorkerPc
  BY DEF TypeOK, WorkType, WorkerPc
<1>. QED
  BY <1>1, MarkType, EndType, GoType DEF MarkOrErr

LEMMA TypeNext == TypeOK /\ [Next]_vars => TypeOK'
<1> SUFFICES ASSUME TypeOK, [Next]_vars PROVE TypeOK'
  OBVIOUS
<1>1. WorkType
  BY DEF TypeOK, WorkType
<1> USE DEF TypeOK
<1>2. ASSUME NEW j \in Jobs, JobStep(j) PROVE TypeOK'
  <2>1. CASE Begin(j)
    BY <2>1 DEF Begin, ctxVars, schedVars, clientVars, dbVars, WorkerPc
  <2>2. CASE TopStop(j)
    BY <1>1, <2>2, EndType DEF TopStop, ctxVars, schedVars, clientVars,
         dbVars, WorkType
  <2>3. CASE TopCancelled(j)
    BY <1>1, <2>3, EndType DEF TopCancelled, AtTop, ctxVars, schedVars,
         clientVars, dbVars, WorkType
  <2>4. CASE TopNext(j)
    BY <2>4, BoundAssumption DEF TopNext, AtTop, ctxVars, schedVars,
         clientVars, dbVars, WorkerPc
  <2>5. CASE TopExhausted(j)
    BY <1>1, <2>5, MarkOrErrType DEF TopExhausted, AtTop, schedVars,
         clientVars, WorkType, State
  <2>6. CASE PlanNext(j)
    BY <2>6, BoundAssumption DEF PlanNext, AtTop, ctxVars, schedVars,
         clientVars, dbVars, WorkerPc
  <2>7. CASE PlanOver(j)
    BY <2>7 DEF PlanOver, Go, ctxVars, schedVars, clientVars, dbVars, WorkerPc
  <2>8. CASE CallGoesOn(j)
    BY <2>8 DEF CallGoesOn, Go, ctxVars, schedVars, clientVars, dbVars,
         WorkerPc
  <2>9. CASE SaysComplete(j)
    BY <1>1, <2>9, MarkOrErrType DEF SaysComplete, schedVars, clientVars,
         WorkType, State
  <2>10. CASE AskIncomplete(j)
    BY <1>1, <2>10, MarkOrErrType DEF AskIncomplete, schedVars, clientVars,
         WorkType, State
  <2>11. CASE AskFails(j)
    BY <2>11 DEF AskFails, Go, ctxVars, schedVars, clientVars, dbVars,
         WorkerPc
  <2>12. CASE ToolRefused(j)
    BY <2>12 DEF ToolRefused, Go, ctxVars, schedVars, clientVars, dbVars,
         WorkerPc
  <2>13. CASE ToolBegin(j)
    BY <2>13 DEF ToolBegin, ctxVars, schedVars, clientVars, dbVars, WorkerPc
  <2>14. CASE Hook(j)
    BY <2>14 DEF Hook, ctxVars, schedVars, clientVars, dbVars, WorkerPc
  <2>15. CASE Exec(j)
    BY <2>15 DEF Exec, Go, ctxVars, schedVars, clientVars, dbVars, WorkerPc
  <2>16. CASE Err(j)
    BY <1>1, <2>16, EndType, MarkType DEF Err, schedVars, clientVars,
         WorkType, State
  <2>17. CASE Timeout(j)
    BY <1>1, <2>17, EndType, MarkType DEF Timeout, schedVars, clientVars,
         WorkType, State
  <2>18. CASE CleanupCheck(j)
    BY <2>18 DEF CleanupCheck, ctxVars, workVars, clientVars, dbVars
  <2>19. CASE CleanupRemove(j)
    BY <2>19 DEF CleanupRemove, ctxVars, workVars, clientVars, dbVars
  <2>. QED
    BY <1>2, <2>1, <2>2, <2>3, <2>4, <2>5, <2>6, <2>7, <2>8, <2>9, <2>10,
         <2>11, <2>12, <2>13, <2>14, <2>15, <2>16, <2>17, <2>18, <2>19 DEF
         JobStep, WorkerStep
<1>3. ASSUME NEW j \in Jobs, MainStep(j) PROVE TypeOK'
  <2>1. CASE CreateLocal(j)
    BY <2>1 DEF CreateLocal, NewContext, schedVars, workVars, clientVars,
         dbVars, Status, State
  <2>2. CASE CancelTool(j)
    BY <2>2 DEF CancelTool, schedVars, workVars, clientVars, dbVars, Status,
         State
  <2>3. CASE CancelJob(j)
    BY <2>3 DEF CancelJob, Goto, ctxVars, schedVars, workVars, dbVars,
         ClientType, ClientPc
  <2>4. CASE HelpJob(j)
    BY <2>4 DEF HelpJob, Goto, ctxVars, schedVars, workVars, dbVars,
         ClientType, ClientPc
  <2>5. CASE HelpRecover(j)
    BY <2>5 DEF HelpRecover, Doing, Recover, Goto, Return, ctxVars, schedVars,
         workVars, dbVars, ClientType, ClientPc, Status, State
  <2>6. CASE ExitNext(j)
    BY <2>6 DEF ExitNext, Doing, Goto, ctxVars, schedVars, workVars, dbVars,
         ClientType, ClientPc
  <2>. QED
    BY <1>3, <2>1, <2>2, <2>3, <2>4, <2>5, <2>6 DEF MainStep
<1>4. ASSUME NEW j \in Jobs, NEW c \in Clients, ClientStep(c, j) PROVE TypeOK'
  <2>1. CASE CreateJob(c, j)
    BY <2>1 DEF CreateJob, NewContext, Goto, schedVars, workVars, dbVars,
         ClientType, ClientPc, Status, State
  <2>2. CASE SaveJob(c, j)
    BY <2>2 DEF SaveJob, Doing, Spawn, Goto, ctxVars, schedVars, workVars,
         DbWrite, ClientType, ClientPc
  <2>3. CASE ScheduleJob(c, j)
    BY <2>3 DEF ScheduleJob, Doing, StartWorker, ctxVars, schedVars, workVars,
         Return, Goto, dbVars, ClientType, ClientPc, WorkerPc, Status, State
  <2>4. CASE ScheduleRefused(c, j)
    BY <2>4 DEF ScheduleRefused, Doing, Return, Goto, ctxVars, schedVars,
         workVars, dbVars, ClientType, ClientPc
  <2>5. CASE PollOver(c, j)
    BY <2>5 DEF PollOver, Doing, Return, Goto, ctxVars, schedVars, workVars,
         dbVars, ClientType, ClientPc
  <2>6. CASE PollDeadline(c, j)
    BY <2>6 DEF PollDeadline, Doing, Goto, ctxVars, schedVars, workVars,
         dbVars, ClientType, ClientPc
  <2>7. CASE StopNothing(c, j)
    BY <2>7 DEF StopNothing, Stopping, Stopped, Goto, Return, ctxVars,
         schedVars, workVars, dbVars, ClientType, ClientPc
  <2>8. CASE StopBegin(c, j)
    BY <2>8 DEF StopBegin, Stopping, ctxVars, clientVars, dbVars, ClientType,
         ClientPc, WorkerPc, Clients
  <2>9. CASE StopFinish(c, j)
    BY <1>1, <2>9, EndType, UpdateType DEF StopFinish, Stopping,
         TryTransition, Stopped, Goto, Return, WorkType, State, Status,
         ClientType, ClientPc, Clients
  <2>. QED
    BY <1>4, <2>1, <2>2, <2>3, <2>4, <2>5, <2>6, <2>7, <2>8, <2>9 DEF
         ClientStep, ClientGoesOn, ScheduleStep, StopStep
<1>5. CASE Exit
  BY <1>5 DEF Exit, Goto, Doing, ClientType, ClientPc, ctxVars, schedVars,
       workVars, clientVars, dbVars
<1>6. CASE Exited
  BY <1>6 DEF Exited, Goto, Doing, ClientType, ClientPc, ctxVars, schedVars,
       workVars, clientVars, dbVars
<1>7. CASE Detect
  BY <1>7 DEF Detect, RepairLoopRuns, ctxVars, schedVars, workVars,
       clientVars, dbVars
<1>8. ASSUME NEW s \in found, Repair(s) PROVE TypeOK'
  BY <1>8 DEF Repair, Recover, TryTransition, Status, State,
       schedVars, workVars, clientVars, ctxVars, dbVars
<1>9. ASSUME NEW w \in writes, Write(w) \/ WriteFails(w) PROVE TypeOK'
  BY <1>9 DEF Write, WriteFails, DbWrite, Status,
       ctxVars, schedVars, workVars, clientVars
<1>10. CASE UNCHANGED vars
  BY <1>10 DEF vars, ctxVars, schedVars, workVars, clientVars, dbVars
<1>. QED
  BY ONLY [Next]_vars, StepCases, <1>2, <1>3, <1>4, <1>5, <1>6, <1>7, <1>8,
       <1>9, <1>10

\* Every reachable state is well typed: in particular no client is ever left
\* with the job of a call that has returned.
THEOREM TypeCorrect == Spec => []TypeOK
<1>1. Init => TypeOK
  BY BoundAssumption
     DEF Init, TypeOK, ClientType, ClientPc, Clients, Status, State, WorkerPc, DbWrite
<1>. QED
  BY <1>1, TypeNext, PTL DEF Spec

-----------------------------------------------------------------------------
(* The scheduler's map and its lock *)

\* The job a stop() that holds the lock has taken out of the map
Held == {j \in Jobs : lock # Nobody /\ client[lock].job = j}

\* The slots schedule() must not overrun: entries, and the job being stopped,
\* which stop() removes from the map before it aborts its worker.
Slots == entries \cup Held

\* The clients that are inside stop()
Stoppers == {c \in Clients : client[c].pc \in {"cancel", "deadline", "exit"}
                            /\ client[c].job \in Jobs}

\* Every live worker has a slot, the slots respect the limit, the holder of the
\* lock is inside stop(), and a cleanup task about to remove an entry has seen
\* that no worker will run for it any more.
SchedInv ==
  /\ lock # Nobody => lock \in Stoppers
  /\ Live \subseteq Slots
  /\ Cardinality(Slots) <= MaxParallel
  /\ \A j \in Jobs : cleaner[j] = "remove" => j \notin Live

\* Sets of jobs are finite, so a subset is no larger.
LEMMA SubsetSize ==
  ASSUME NEW S, S \subseteq Jobs, NEW T, T \subseteq S
  PROVE  /\ IsFiniteSet(S)
         /\ Cardinality(T) \in Nat /\ Cardinality(S) \in Nat
         /\ Cardinality(T) <= Cardinality(S)
<1>1. IsFiniteSet(S)
  BY JobsAssumption, FS_Subset
<1>2. IsFiniteSet(T) /\ Cardinality(T) <= Cardinality(S)
  BY <1>1, FS_Subset
<1>. QED
  BY <1>1, <1>2, FS_CardinalityType

\* A set with a free slot has room for one job more.
LEMMA AddSlot ==
  ASSUME NEW S, S \subseteq Jobs, NEW j \in Jobs, Cardinality(S) < MaxParallel
  PROVE  Cardinality(S \cup {j}) <= MaxParallel
<1>1. IsFiniteSet(S) /\ Cardinality(S) \in Nat
  BY SubsetSize
<1>2. Cardinality(S \cup {j}) = IF j \in S THEN Cardinality(S) ELSE Cardinality(S) + 1
  BY <1>1, FS_AddElement
<1>. QED
  BY <1>1, <1>2, BoundAssumption

\* A step that starts no worker, adds no slot and leaves the cleanup tasks and
\* the holder of the lock alone keeps the invariant.
LEMMA QuietStep ==
  ASSUME TypeOK, SchedInv, TypeOK',
         lock' = lock, entries' = entries, cleaner' = cleaner, Live' \subseteq Live,
         lock # Nobody => client'[lock] = client[lock]
  PROVE  SchedInv'
<1>1. Slots' = Slots
  BY DEF Slots, Held
<1>2. lock' # Nobody => lock' \in Stoppers'
  BY DEF SchedInv, Stoppers
<1>. QED
  BY <1>1, <1>2 DEF SchedInv

\* Ending a worker, or moving one that is live, makes no worker live.
LEMMA EndLive ==
  ASSUME TypeOK, NEW j \in Jobs, End(j)
  PROVE  Live' = Live \ {j}
  BY DEF TypeOK, End, Live

LEMMA GoLive ==
  ASSUME TypeOK, NEW j \in Jobs, NEW pc \in WorkerPc, j \in Live,
         worker' = [worker EXCEPT ![j] = pc]
  PROVE  Live' \subseteq Live
  BY DEF TypeOK, Live

\* No step of a worker touches the scheduler or makes another worker live.
LEMMA WorkerQuiet ==
  ASSUME TypeOK, NEW j \in Jobs, WorkerStep(j) \/ Timeout(j)
  PROVE  UNCHANGED <<schedVars, clientVars>> /\ Live' \subseteq Live
<1>1. CASE Begin(j) \/ TopNext(j) \/ PlanNext(j) \/ ToolBegin(j) \/ Hook(j)
  <2>1. j \in Live
    BY <1>1 DEF TypeOK, Live, Begin, TopNext, PlanNext, ToolBegin, Hook, AtTop
  <2>2. \E pc \in WorkerPc : worker' = [worker EXCEPT ![j] = pc]
    BY <1>1 DEF Begin, TopNext, PlanNext, ToolBegin, Hook, WorkerPc
  <2>. QED
    BY <1>1, <2>1, <2>2, GoLive DEF Begin, TopNext, PlanNext, ToolBegin, Hook
<1>2. CASE PlanOver(j) \/ CallGoesOn(j) \/ AskFails(j) \/ ToolRefused(j) \/ Exec(j)
  <2>1. j \in Live
    BY <1>2 DEF TypeOK, Live, PlanOver, CallGoesOn, AskFails, ToolRefused, Exec
  <2>2. \E pc \in WorkerPc : worker' = [worker EXCEPT ![j] = pc]
    BY <1>2 DEF PlanOver, CallGoesOn, AskFails, ToolRefused, Exec, Go, WorkerPc
  <2>. QED
    BY <1>2, <2>1, <2>2, GoLive DEF PlanOver, CallGoesOn, AskFails, ToolRefused, Exec
<1>3. CASE TopStop(j) \/ TopCancelled(j) \/ Err(j) \/ Timeout(j)
  BY <1>3, EndLive DEF TopStop, TopCancelled, Err, Timeout
<1>4. CASE TopExhausted(j) \/ SaysComplete(j) \/ AskIncomplete(j)
  <2>1. j \in Live
    BY <1>4 DEF TypeOK, Live, TopExhausted, SaysComplete, AskIncomplete, AtTop
  <2>2. End(j) \/ Go(j, "err")
    BY <1>4 DEF TopExhausted, SaysComplete, AskIncomplete, MarkOrErr
  <2>3. Live' \subseteq Live
    BY <2>1, <2>2, EndLive, GoLive DEF Go, WorkerPc
  <2>. QED
    BY <1>4, <2>3 DEF TopExhausted, SaysComplete, AskIncomplete
<1>. QED
  BY <1>1, <1>2, <1>3, <1>4 DEF WorkerStep

\* The cleanup task's two steps: the check under the read lock proves that no
\* worker is left, and nobody can start one before the removal.
LEMMA CleanupInv ==
  ASSUME TypeOK, SchedInv, TypeOK', NEW j \in Jobs, CleanupCheck(j) \/ CleanupRemove(j)
  PROVE  SchedInv'
<1>1. lock = Nobody /\ lock' = lock /\ Live' = Live /\ Held = {} /\ Held' = {}
  BY DEF CleanupCheck, CleanupRemove, workVars, Live, Held
<1>2. CASE CleanupCheck(j)
  <2>1. j \notin Live
    BY <1>1, <1>2 DEF CleanupCheck, SchedInv, Slots
  <2>2. Slots' = Slots
    BY <1>1, <1>2 DEF CleanupCheck, Slots
  <2>. QED
    BY <1>1, <1>2, <2>1, <2>2 DEF CleanupCheck, SchedInv, TypeOK
<1>3. CASE CleanupRemove(j)
  <2>1. Slots' = Slots \ {j} /\ j \notin Live
    BY <1>1, <1>3 DEF CleanupRemove, SchedInv, Slots
  <2>2. Cardinality(Slots') <= MaxParallel
    <3>1. Slots \in SUBSET Jobs /\ Slots' \in SUBSET Slots
      BY <2>1 DEF TypeOK, Slots, Held
    <3>. QED
      BY <3>1, SubsetSize, BoundAssumption DEF SchedInv
  <2>. QED
    BY <1>1, <1>3, <2>1, <2>2 DEF CleanupRemove, SchedInv, TypeOK
<1>. QED
  BY <1>2, <1>3

\* schedule() starts a worker only with the lock free and a slot to spare.
LEMMA ScheduleInv ==
  ASSUME TypeOK, SchedInv, TypeOK', NEW j \in Jobs, NEW c \in Clients, ScheduleJob(c, j)
  PROVE  SchedInv'
<1>1. lock = Nobody /\ lock' = Nobody /\ Held = {} /\ Held' = {}
  BY DEF ScheduleJob, StartWorker, schedVars, Held
<1>2. CASE Schedulable(j) /\ StartWorker(j)
  <2>1. Slots' = Slots \cup {j} /\ Live' \subseteq Live \cup {j}
    BY <1>1, <1>2 DEF StartWorker, Slots, Live, TypeOK
  <2>2. Cardinality(Slots') <= MaxParallel
    BY <1>1, <1>2, <2>1, AddSlot DEF Schedulable, Slots, TypeOK
  <2>. QED
    BY <1>1, <1>2, <2>1, <2>2 DEF StartWorker, SchedInv, TypeOK
<1>3. CASE UNCHANGED <<schedVars, workVars>>
  BY <1>1, <1>3, QuietStep DEF schedVars, workVars, Live
<1>. QED
  BY <1>2, <1>3 DEF ScheduleJob

\* stop() moves the job from the map to its own hands, and lets go of it when
\* the worker is aborted.
LEMMA StopInv ==
  ASSUME TypeOK, SchedInv, TypeOK', NEW j \in Jobs, NEW c \in Clients, StopStep(c, j)
  PROVE  SchedInv'
<1>1. CASE StopNothing(c, j)
  BY <1>1, QuietStep DEF StopNothing, schedVars, workVars, Live
<1>2. CASE StopBegin(c, j)
  <2>1. lock = Nobody /\ lock' = c /\ c # Nobody /\ client' = client
    BY <1>2, ClientAssumption DEF StopBegin, clientVars, Clients
  <2>2. Held = {} /\ Held' = {j}
    BY <1>2, <2>1 DEF Held, StopBegin, Stopping
  <2>3. Slots' = Slots /\ Live' = Live /\ cleaner' = cleaner
    BY <1>2, <2>2 DEF Slots, StopBegin, Live
  <2>4. lock' \in Stoppers'
    BY <1>2, <2>1 DEF StopBegin, Stopping, Stoppers
  <2>. QED
    BY <2>3, <2>4 DEF SchedInv
<1>3. CASE StopFinish(c, j)
  <2>1. lock' = Nobody /\ Held' = {} /\ entries' = entries /\ cleaner' = cleaner
    BY <1>3 DEF StopFinish, Held
  <2>2. Held = {j}
    BY <1>3, ClientAssumption DEF StopFinish, Stopping, Held, Clients
  <2>3. Live' = Live \ {j}
    BY <1>3, EndLive DEF StopFinish
  <2>4. Live' \subseteq Slots' /\ Slots' \subseteq Slots
    BY <2>1, <2>2, <2>3 DEF Slots, SchedInv
  <2>5. Cardinality(Slots') <= MaxParallel
    <3>1. Slots \in SUBSET Jobs
      BY DEF TypeOK, Slots, Held
    <3>. QED
      BY <3>1, <2>4, SubsetSize, BoundAssumption DEF SchedInv
  <2>. QED
    BY <2>1, <2>3, <2>4, <2>5 DEF SchedInv
<1>. QED
  BY <1>1, <1>2, <1>3 DEF StopStep

\* Any other step of a client is not the lock holder's.
LEMMA ClientQuiet ==
  ASSUME TypeOK, SchedInv, TypeOK', NEW c \in Clients,
         UNCHANGED <<schedVars, workVars>>, NEW pc, NEW k, Goto(c, pc, k),
         client[c].pc \notin {"cancel", "deadline", "exit"} \/ client[c].job = NoJob
  PROVE  SchedInv'
<1>1. lock # Nobody => lock \in Clients /\ lock # c
  BY JobsAssumption DEF TypeOK, SchedInv, Stoppers
<1>2. lock # Nobody => client'[lock] = client[lock]
  BY <1>1 DEF TypeOK, Goto
<1>. QED
  BY <1>2, QuietStep DEF schedVars, workVars, Live

LEMMA SchedInit == Init => SchedInv
<1> SUFFICES ASSUME Init PROVE SchedInv
  OBVIOUS
<1>1. Live = {} /\ Slots = {}
  BY DEF Init, Live, Slots, Held
<1>2. Cardinality({}) = 0
  BY FS_EmptySet
<1>. QED
  BY <1>1, <1>2, BoundAssumption DEF Init, SchedInv

LEMMA SchedNext == TypeOK /\ TypeOK' /\ SchedInv /\ [Next]_vars => SchedInv'
<1> SUFFICES ASSUME TypeOK, TypeOK', SchedInv, [Next]_vars PROVE SchedInv'
  OBVIOUS
<1>1. ASSUME NEW j \in Jobs, JobStep(j) PROVE SchedInv'
  <2>1. CASE WorkerStep(j) \/ Timeout(j)
    <3>1. UNCHANGED <<schedVars, clientVars>> /\ Live' \subseteq Live
      BY <2>1, WorkerQuiet
    <3>. QED
      BY <3>1, QuietStep DEF schedVars, clientVars
  <2>2. CASE CleanupCheck(j) \/ CleanupRemove(j)
    BY <2>2, CleanupInv
  <2>. QED
    BY <1>1, <2>1, <2>2 DEF JobStep
<1>2. ASSUME NEW j \in Jobs, MainStep(j) PROVE SchedInv'
  <2>1. CASE CreateLocal(j) \/ CancelTool(j)
    BY <2>1, QuietStep DEF CreateLocal, CancelTool, schedVars, workVars, clientVars, Live
  <2>2. CASE CancelJob(j) \/ HelpJob(j) \/ HelpRecover(j) \/ ExitNext(j)
    <3>1. UNCHANGED <<schedVars, workVars>> /\ Main \in Clients
      BY <2>2 DEF CancelJob, HelpJob, HelpRecover, ExitNext, Clients
    <3>2. client[Main].pc \notin {"cancel", "deadline", "exit"} \/ client[Main].job = NoJob
      BY <2>2 DEF CancelJob, HelpJob, HelpRecover, ExitNext, Doing
    <3>3. \E pc, k : Goto(Main, pc, k)
      BY <2>2 DEF CancelJob, HelpJob, HelpRecover, ExitNext, Return
    <3>. QED
      BY <3>1, <3>2, <3>3, ClientQuiet
  <2>. QED
    BY <1>2, <2>1, <2>2 DEF MainStep
<1>3. ASSUME NEW j \in Jobs, NEW c \in Clients, ClientStep(c, j) PROVE SchedInv'
  <2>1. CASE CreateJob(c, j) \/ SaveJob(c, j) \/ ScheduleRefused(c, j)
             \/ PollOver(c, j) \/ PollDeadline(c, j)
    <3>1. UNCHANGED <<schedVars, workVars>>
      BY <2>1 DEF CreateJob, SaveJob, ScheduleRefused, PollOver, PollDeadline
    <3>2. client[c].pc \notin {"cancel", "deadline", "exit"}
      BY <2>1 DEF CreateJob, SaveJob, ScheduleRefused, PollOver, PollDeadline, Doing
    <3>3. \E pc, k : Goto(c, pc, k)
      BY <2>1 DEF CreateJob, SaveJob, ScheduleRefused, PollOver, PollDeadline, Return
    <3>. QED
      BY <3>1, <3>2, <3>3, ClientQuiet
  <2>2. CASE ScheduleJob(c, j)
    BY <2>2, ScheduleInv
  <2>3. CASE StopStep(c, j)
    BY <2>3, StopInv
  <2>. QED
    BY <1>3, <2>1, <2>2, <2>3 DEF ClientStep, ClientGoesOn, ScheduleStep
<1>4. CASE Exit \/ Exited
  <2>1. UNCHANGED <<schedVars, workVars>> /\ Main \in Clients
    BY <1>4 DEF Exit, Exited, Clients
  <2>2. client[Main].pc \notin {"cancel", "deadline", "exit"} \/ client[Main].job = NoJob
    BY <1>4 DEF Exit, Exited, Doing
  <2>3. \E pc, k : Goto(Main, pc, k)
    BY <1>4 DEF Exit, Exited
  <2>. QED
    BY <2>1, <2>2, <2>3, ClientQuiet
<1>5. CASE Detect \/ (\E s \in found : Repair(s)) \/ (\E w \in writes : Write(w) \/ WriteFails(w))
           \/ UNCHANGED vars
  <2>1. UNCHANGED <<schedVars, workVars, clientVars>>
    BY <1>5 DEF Detect, Repair, Write, WriteFails, vars
  <2>. QED
    BY <2>1, QuietStep DEF schedVars, workVars, clientVars, Live
<1>. QED
  BY ONLY [Next]_vars, StepCases, <1>1, <1>2, <1>3, <1>4, <1>5

LEMMA SchedCorrect == Spec => [](TypeOK /\ SchedInv)
<1>. QED
  BY TypeCorrect, SchedInit, SchedNext, PTL DEF Spec

\* A worker runs only for an entry of the map, or for the job that the stop()
\* holding the lock has taken out: none escapes the scheduler.
THEOREM WorkersTrackedCorrect == Spec => []WorkersTracked
<1>1. TypeOK /\ SchedInv => WorkersTracked
  BY DEF TypeOK, SchedInv, Stoppers, WorkersTracked, Slots, Held, Stopping
<1>. QED
  BY <1>1, SchedCorrect, PTL

\* However jobs are scheduled, stopped and cleaned up, never more than
\* max_parallel_jobs workers run.
THEOREM ParallelBoundCorrect == Spec => []ParallelBound
<1>1. ASSUME TypeOK, SchedInv PROVE ParallelBound
  <2>1. Slots \subseteq Jobs /\ Live \subseteq Slots
    BY <1>1 DEF TypeOK, SchedInv, Slots, Held
  <2>. QED
    BY <1>1, <2>1, SubsetSize, BoundAssumption DEF SchedInv, ParallelBound
<1>. QED
  BY <1>1, SchedCorrect, PTL

-----------------------------------------------------------------------------
(* Active jobs *)

\* Nothing but a creation makes a job active: transitions leave terminal
\* states alone, and every other change of a state is a transition.
LEMMA StartFromActive ==
  ASSUME NEW from, NEW to, CanTransition(from, to)
  PROVE  from \in State \ Terminal /\ to \in State
  BY DEF CanTransition, Transitions, State, Terminal

\* A state changes by a transition of one job, or a context is created.
Changes(j) == \E to \in State : CanTransition(ctx[j], to) /\ ctx' = [ctx EXCEPT ![j] = to]

LEMMA ContextStep ==
  ASSUME TypeOK, [Next]_vars
  PROVE  \/ UNCHANGED ctx
         \/ \E j \in Jobs : Changes(j)
         \/ \E j \in Jobs : NewContext(j)
<1>1. ASSUME NEW j \in Jobs, JobStep(j) PROVE UNCHANGED ctx \/ Changes(j)
  <2>1. ASSUME NEW to \in State, MarkOrErr(j, to) \/ Mark(j, to) \/ MarkRefused(j, to)
        PROVE UNCHANGED ctx \/ Changes(j)
    BY <2>1 DEF MarkOrErr, Mark, MarkRefused, Changes
  <2>2. CASE TopExhausted(j) \/ SaysComplete(j) \/ AskIncomplete(j) \/ Err(j) \/ Timeout(j)
    BY <2>1, <2>2 DEF TopExhausted, SaysComplete, AskIncomplete, Err, Timeout, State
  <2>3. CASE Begin(j) \/ TopStop(j) \/ TopCancelled(j) \/ TopNext(j) \/ PlanNext(j)
             \/ PlanOver(j) \/ CallGoesOn(j) \/ AskFails(j) \/ ToolRefused(j)
             \/ ToolBegin(j) \/ Hook(j) \/ Exec(j)
    BY <2>3 DEF Begin, TopStop, TopCancelled, TopNext, PlanNext, PlanOver, CallGoesOn,
                AskFails, ToolRefused, ToolBegin, Hook, Exec, ctxVars
  <2>4. CASE CleanupCheck(j) \/ CleanupRemove(j)
    BY <2>4 DEF CleanupCheck, CleanupRemove, ctxVars
  <2>. QED
    BY <1>1, <2>2, <2>3, <2>4 DEF JobStep, WorkerStep
<1>2. ASSUME NEW j \in Jobs, Recover(j) PROVE Changes(j)
  BY <1>2 DEF Recover, Changes, CanTransition, Transitions, State
<1>3. ASSUME NEW j \in Jobs, MainStep(j) PROVE UNCHANGED ctx \/ Changes(j) \/ NewContext(j)
  BY <1>2, <1>3 DEF MainStep, CreateLocal, CancelTool, CancelJob, HelpJob, HelpRecover,
                    ExitNext, ctxVars, Changes, State
<1>4. ASSUME NEW j \in Jobs, NEW c \in Clients, ClientStep(c, j)
      PROVE UNCHANGED ctx \/ Changes(j) \/ NewContext(j)
  <2>1. CASE ScheduleStep(c, j)
    BY <2>1 DEF ScheduleStep, ScheduleJob, ScheduleRefused, Schedulable, StartWorker,
                ctxVars, Changes, State
  <2>2. CASE StopStep(c, j)
    BY <2>2 DEF StopStep, StopNothing, StopBegin, StopFinish, TryTransition,
                ctxVars, Changes, State
  <2>. QED
    BY <1>4, <2>1, <2>2
       DEF ClientStep, ClientGoesOn, CreateJob, SaveJob, PollOver, PollDeadline, ctxVars
<1>5. ASSUME NEW s \in found, Repair(s) PROVE \E j \in Jobs : UNCHANGED ctx \/ Changes(j)
  <2>1. s.job \in Jobs
    BY DEF TypeOK
  <2>. QED
    BY <1>2, <1>5, <2>1 DEF Repair, TryTransition, ctxVars, Changes, State
<1>6. CASE Exit \/ Exited \/ Detect \/ (\E w \in writes : Write(w) \/ WriteFails(w))
           \/ UNCHANGED vars
  BY <1>6 DEF Exit, Exited, Detect, Write, WriteFails, vars, ctxVars
<1>. QED
  BY ONLY [Next]_vars, StepCases, <1>1, <1>3, <1>4, <1>5, <1>6

\* Whatever clients, workers and the repair loop do at the same time, at most
\* max_jobs contexts are active.
THEOREM ActiveBoundCorrect == Spec => []ActiveBound
<1>1. Init => ActiveBound
  <2>1. Init => Active = {}
    BY DEF Init, Active, State
  <2>. QED
    BY <2>1, FS_EmptySet, BoundAssumption DEF ActiveBound
<1>2. TypeOK /\ ActiveBound /\ [Next]_vars => ActiveBound'
  <2> SUFFICES ASSUME TypeOK, ActiveBound, [Next]_vars PROVE ActiveBound'
    OBVIOUS
  <2>1. Active \subseteq Jobs
    BY DEF Active
  <2>2. CASE UNCHANGED ctx \/ \E j \in Jobs : Changes(j)
    <3>1. Active' \subseteq Active
      BY <2>2, StartFromActive DEF Changes, Active, TypeOK
    <3>. QED
      BY <2>1, <3>1, SubsetSize, BoundAssumption DEF ActiveBound
  <2>3. ASSUME NEW j \in Jobs, NewContext(j) PROVE ActiveBound'
    <3>1. Active' = Active \cup {j}
      BY <2>3 DEF NewContext, Active, TypeOK, State, Terminal
    <3>2. j \notin Active
      BY <2>3 DEF NewContext, Active, State
    <3>. QED
      BY <2>1, <2>3, <3>1, SubsetSize, FS_AddElement, BoundAssumption
         DEF NewContext, ActiveBound
  <2>. QED
    BY <2>2, <2>3, ContextStep
<1>. QED
  BY <1>1, <1>2, TypeCorrect, PTL DEF Spec

-----------------------------------------------------------------------------
(* A job, its worker and those who know of it *)

Finished == {j \in Jobs : worker[j] = "done"}

\* What the state of a context tells of its worker, and the other way round
StateInv ==
  \A j \in Jobs :
    /\ worker[j] = "none" => ctx[j] \in {"absent", "Pending", "Cancelled"}
    /\ j \in Live => ctx[j] \in {"InProgress", "Cancelled"}
    /\ j \in Finished => ctx[j] \in {"InProgress", "Completed", "Failed", "Stuck", "Cancelled"}

\* Only a job that has been given a worker has a slot.
SlotInv == \A j \in Slots : worker[j] # "none"

\* A client that has created a job, and not yet scheduled it, is the only one to
\* know of it but for the tool that cancels it; a job under recovery has
\* had its worker, and stays without.
ClientInv ==
  /\ \A c \in Clients : client[c].pc \in {"save", "schedule"} =>
       worker[client[c].job] = "none" /\ ctx[client[c].job] \in {"Pending", "Cancelled"}
  /\ \A c, d \in Clients :
       client[c].pc \in {"save", "schedule"} /\ client[d].pc \in {"save", "schedule"}
         /\ client[c].job = client[d].job => c = d
  /\ \A c \in Clients : client[c].pc = "resched" =>
       /\ client[c].job \in Finished
       /\ ctx[client[c].job] \in {"InProgress", "Failed", "Cancelled"}

\* A detected job may have moved on, but nobody works on it or completes it.
FoundInv ==
  \A s \in found :
    s.job \in Finished /\ ctx[s.job] \in {"Stuck", "InProgress", "Failed", "Cancelled"}

\* An outcome on its way to the database, or in it, is the job's.
OutcomeInv ==
  /\ \A w \in writes : w.status \in {"Completed", "Failed"} => ctx[w.job] = w.status
  /\ DbOutcomeTrue

JobInv == StateInv /\ SlotInv /\ ClientInv /\ FoundInv /\ OutcomeInv

\* The four ways a worker goes on: it moves, ends, or marks its job and ends.
WorkerMoves(j) ==
  /\ \E pc \in WorkerPc \ {"none", "done"} : worker' = [worker EXCEPT ![j] = pc]
  /\ UNCHANGED <<ctx, writes>>
WorkerEnds(j) == End(j) /\ UNCHANGED <<ctx, writes>>
WorkerMarks(j) == \E to \in {"Completed", "Failed", "Stuck"} : Mark(j, to) /\ End(j)

LEMMA WorkerCases ==
  ASSUME TypeOK, NEW j \in Jobs, WorkerStep(j) \/ Timeout(j)
  PROVE  /\ j \in Live
         /\ UNCHANGED <<schedVars, clientVars, found, db>>
         /\ WorkerMoves(j) \/ WorkerEnds(j) \/ WorkerMarks(j)
<1>1. CASE Begin(j) \/ TopNext(j) \/ PlanNext(j) \/ ToolBegin(j) \/ Hook(j)
  BY <1>1 DEF Begin, TopNext, PlanNext, ToolBegin, Hook, AtTop, Live, WorkerPc,
              WorkerMoves, ctxVars, dbVars
<1>2. CASE PlanOver(j) \/ CallGoesOn(j) \/ AskFails(j) \/ ToolRefused(j) \/ Exec(j)
  BY <1>2 DEF PlanOver, CallGoesOn, AskFails, ToolRefused, Exec, Go, Live, WorkerPc,
              WorkerMoves, ctxVars, dbVars
<1>3. CASE TopStop(j) \/ TopCancelled(j)
  BY <1>3 DEF TopStop, TopCancelled, AtTop, Live, WorkerEnds, ctxVars, dbVars
<1>4. CASE TopExhausted(j) \/ SaysComplete(j) \/ AskIncomplete(j)
  <2>1. \E to \in {"Completed", "Stuck"} : MarkOrErr(j, to)
    BY <1>4 DEF TopExhausted, SaysComplete, AskIncomplete
  <2>2. WorkerMarks(j) \/ WorkerMoves(j)
    BY <2>1 DEF MarkOrErr, MarkRefused, Go, WorkerMarks, WorkerMoves, WorkerPc
  <2>. QED
    BY <1>4, <2>2 DEF TopExhausted, SaysComplete, AskIncomplete, AtTop, Live
<1>5. CASE Err(j) \/ Timeout(j)
  BY <1>5 DEF Err, Timeout, InLoop, Live, MarkRefused, WorkerMarks, WorkerEnds
<1>. QED
  BY <1>1, <1>2, <1>3, <1>4, <1>5 DEF WorkerStep

\* A worker only touches the state of its own job, which no creating or
\* recovering client and no detection refers to.
LEMMA WorkerJobInv ==
  ASSUME TypeOK, TypeOK', JobInv, NEW j \in Jobs, WorkerStep(j) \/ Timeout(j)
  PROVE  JobInv'
<1>1. /\ j \in Live
      /\ UNCHANGED <<entries, lock, client, found, db>>
      /\ WorkerMoves(j) \/ WorkerEnds(j) \/ WorkerMarks(j)
  BY WorkerCases DEF schedVars, clientVars
<1>2. /\ \A k \in Jobs \ {j} : worker'[k] = worker[k] /\ ctx'[k] = ctx[k]
      /\ worker'[j] # "none"
  BY <1>1 DEF TypeOK, WorkerMoves, WorkerEnds, WorkerMarks, Mark, End
<1>3. StateInv'
  BY <1>1, <1>2 DEF JobInv, StateInv, Live, Finished, TypeOK, WorkerMoves, WorkerEnds,
                    WorkerMarks, Mark, End
<1>4. SlotInv'
  BY <1>1, <1>2 DEF JobInv, SlotInv, Slots, Held, TypeOK
<1>5. ClientInv'
  BY <1>1, <1>2 DEF JobInv, ClientInv, Live, Finished, TypeOK, ClientType, ClientPc
<1>6. FoundInv'
  BY <1>1, <1>2 DEF JobInv, FoundInv, Live, Finished, TypeOK
<1>7. OutcomeInv'
  <2>1. CASE UNCHANGED <<ctx, writes>>
    BY <1>1, <2>1 DEF JobInv, OutcomeInv, DbOutcomeTrue
  <2>2. ASSUME NEW to \in {"Completed", "Failed", "Stuck"}, Mark(j, to) PROVE OutcomeInv'
    <3>1. ctx[j] = "InProgress" /\ ctx' = [ctx EXCEPT ![j] = to]
      BY <1>1, <2>2 DEF JobInv, StateInv, Mark, CanTransition, Transitions
    <3>2. \A w \in writes' : w \in writes \/ w = Update(j, to)
      BY <2>2 DEF Mark, Spawn
    <3>. QED
      BY <1>1, <3>1, <3>2 DEF JobInv, OutcomeInv, DbOutcomeTrue, TypeOK, Update, DbWrite
  <2>. QED
    BY <1>1, <2>1, <2>2 DEF WorkerMoves, WorkerEnds, WorkerMarks
<1>. QED
  BY <1>3, <1>4, <1>5, <1>6, <1>7 DEF JobInv

\* A client that only moves on, to a place where it neither creates nor
\* recovers a job, disturbs nothing.
LEMMA ClientMoves ==
  ASSUME TypeOK, TypeOK', JobInv, NEW c \in Clients, NEW pc, NEW j, Goto(c, pc, j),
         UNCHANGED <<ctx, entries, lock, worker, db, writes>>, found' \subseteq found,
         lock # c, pc \notin {"save", "schedule", "resched"}
  PROVE  JobInv'
<1>1. StateInv' /\ FoundInv'
  BY DEF JobInv, StateInv, FoundInv, Live, Finished
<1>2. SlotInv'
  <2>1. Held' \subseteq Held
    BY DEF Held, Goto, TypeOK
  <2>. QED
    BY <2>1 DEF JobInv, SlotInv, Slots
<1>3. ClientInv'
  BY DEF JobInv, ClientInv, Goto, Finished, TypeOK
<1>4. OutcomeInv'
  BY DEF JobInv, OutcomeInv, DbOutcomeTrue
<1>. QED
  BY <1>1, <1>2, <1>3, <1>4 DEF JobInv

\* The save of a new context writes no outcome.
LEMMA SaveJobInv ==
  ASSUME TypeOK, TypeOK', SchedInv, JobInv, NEW j \in Jobs, NEW c \in Clients, SaveJob(c, j)
  PROVE  JobInv'
<1>1. /\ Doing(c, "save", j) /\ Goto(c, "schedule", j)
      /\ UNCHANGED <<ctx, entries, lock, worker, found, db>>
      /\ writes' \subseteq writes \cup {[job |-> j, kind |-> "save", status |-> ctx[j]]}
  BY DEF SaveJob, Spawn, ctxVars, schedVars, workVars
<1>2. StateInv' /\ FoundInv'
  BY <1>1 DEF JobInv, StateInv, FoundInv, Live, Finished
<1>3. SlotInv'
  BY <1>1 DEF JobInv, SlotInv, Slots, Held, SchedInv, Stoppers, Doing, Goto, TypeOK
<1>4. ClientInv'
  BY <1>1 DEF JobInv, ClientInv, Goto, Doing, Finished, TypeOK
<1>5. OutcomeInv'
  BY <1>1 DEF JobInv, OutcomeInv, DbOutcomeTrue
<1>. QED
  BY <1>2, <1>3, <1>4, <1>5 DEF JobInv

\* A created job is nobody else's: its context was absent.
LEMMA CreateJobInv ==
  ASSUME TypeOK, TypeOK', SchedInv, JobInv, NEW j \in Jobs, NEW c \in Clients, CreateJob(c, j)
  PROVE  JobInv'
<1>1. /\ ctx[j] = "absent" /\ ctx' = [ctx EXCEPT ![j] = "Pending"] /\ worker[j] = "none"
      /\ UNCHANGED <<entries, lock, worker, found, db, writes>>
      /\ client[c].pc = "idle" /\ Goto(c, "save", j)
  BY DEF CreateJob, NewContext, JobInv, StateInv, Live, Finished, schedVars, workVars, dbVars
<1>2. StateInv' /\ FoundInv'
  BY <1>1 DEF JobInv, StateInv, FoundInv, Live, Finished, TypeOK
<1>3. SlotInv'
  BY <1>1 DEF JobInv, SlotInv, Slots, Held, SchedInv, Stoppers, Goto, TypeOK
<1>4. ClientInv'
  BY <1>1 DEF JobInv, ClientInv, Goto, Finished, TypeOK
<1>5. OutcomeInv'
  BY <1>1 DEF JobInv, OutcomeInv, DbOutcomeTrue, TypeOK, DbWrite
<1>. QED
  BY <1>2, <1>3, <1>4, <1>5 DEF JobInv

\* A worker is started only for a new job, by the client that created it.
LEMMA ScheduleStarts ==
  ASSUME TypeOK, JobInv, NEW j \in Jobs, NEW c \in Clients,
         Doing(c, "schedule", j) \/ Doing(c, "resched", j), Schedulable(j)
  PROVE  Doing(c, "schedule", j) /\ worker[j] = "none" /\ ctx[j] = "Pending"
<1>1. ctx[j] \in {"Pending", "Stuck"}
  BY DEF Schedulable, CanTransition, Transitions
<1>. QED
  BY <1>1 DEF JobInv, ClientInv, Doing

LEMMA ScheduleJobInv ==
  ASSUME TypeOK, TypeOK', SchedInv, JobInv, NEW j \in Jobs, NEW c \in Clients, ScheduleJob(c, j)
  PROVE  JobInv'
<1>1. lock = Nobody /\ lock' = Nobody
  BY DEF ScheduleJob, StartWorker, schedVars
<1>2. \E pc \in {"idle", "poll"} : \E k : Goto(c, pc, k)
  BY DEF ScheduleJob, Return
<1>3. CASE Schedulable(j) /\ StartWorker(j)
  <2>1. /\ Doing(c, "schedule", j) /\ worker[j] = "none" /\ ctx[j] = "Pending"
        /\ ctx' = [ctx EXCEPT ![j] = "InProgress"]
        /\ worker' = [worker EXCEPT ![j] = "start"]
        /\ entries' = entries \cup {j}
        /\ UNCHANGED <<found, db, writes>>
    BY <1>3, ScheduleStarts DEF ScheduleJob, StartWorker, dbVars
  <2>2. StateInv' /\ FoundInv'
    BY <2>1 DEF JobInv, StateInv, FoundInv, Live, Finished, TypeOK
  <2>3. SlotInv'
    BY <1>1, <2>1 DEF JobInv, SlotInv, Slots, Held, TypeOK
  <2>4. ClientInv'
    BY <1>2, <2>1 DEF JobInv, ClientInv, Goto, Doing, Finished, TypeOK
  <2>5. OutcomeInv'
    BY <2>1 DEF JobInv, OutcomeInv, DbOutcomeTrue, TypeOK, DbWrite
  <2>. QED
    BY <2>2, <2>3, <2>4, <2>5 DEF JobInv
<1>4. CASE UNCHANGED <<ctxVars, schedVars, workVars>>
  <2>1. UNCHANGED <<ctx, entries, lock, worker, db, found, writes>>
    BY <1>4 DEF ScheduleJob, ctxVars, schedVars, workVars, dbVars
  <2>2. lock # c
    BY <1>1, ClientAssumption DEF Clients
  <2>. QED
    BY <1>2, <2>1, <2>2, ClientMoves
<1>. QED
  BY <1>3, <1>4 DEF ScheduleJob

\* stop() ends a worker that exists, and cancels only what is still to be done.
LEMMA StopJobInv ==
  ASSUME TypeOK, TypeOK', SchedInv, JobInv, NEW j \in Jobs, NEW c \in Clients, StopStep(c, j)
  PROVE  JobInv'
<1>1. CASE StopNothing(c, j)
  <2>1. UNCHANGED <<ctx, entries, lock, worker, db, found, writes>> /\ lock = Nobody
    BY <1>1 DEF StopNothing, ctxVars, schedVars, workVars, dbVars
  <2>2. lock # c
    BY <2>1, ClientAssumption DEF Clients
  <2>3. PICK pc \in {"idle", "exit"} : \E k : Goto(c, pc, k)
    BY <1>1 DEF StopNothing, Stopped, Return
  <2>. QED
    BY <2>1, <2>2, <2>3, ClientMoves
<1>2. CASE StopBegin(c, j)
  <2>1. /\ UNCHANGED <<ctx, worker, client, db, found, writes>>
        /\ lock = Nobody /\ lock' = c /\ c # Nobody /\ client[c].job = j
        /\ entries' = entries \ {j} /\ j \in entries
    BY <1>2, ClientAssumption DEF StopBegin, Stopping, ctxVars, clientVars, dbVars, Clients
  <2>2. Slots' = Slots
    BY <2>1 DEF Slots, Held
  <2>. QED
    BY <2>1, <2>2 DEF JobInv, StateInv, SlotInv, ClientInv, FoundInv, OutcomeInv,
                      DbOutcomeTrue, Live, Finished
<1>3. CASE StopFinish(c, j)
  <2>1. worker[j] # "none"
    BY <1>3, ClientAssumption DEF JobInv, SlotInv, Slots, Held, StopFinish, Stopping, Clients
  <2>2. /\ UNCHANGED <<entries, db, found>> /\ lock' = Nobody
        /\ worker' = [worker EXCEPT ![j] = "done"]
    BY <1>3 DEF StopFinish, End
  <2>3. UNCHANGED ctx \/ (ctx[j] \in {"Pending", "InProgress", "Stuck"}
                            /\ ctx' = [ctx EXCEPT ![j] = "Cancelled"])
    BY <1>3 DEF StopFinish, TryTransition, CanTransition, Transitions
  <2>4. StateInv' /\ FoundInv'
    BY <2>1, <2>2, <2>3 DEF JobInv, StateInv, FoundInv, Live, Finished, TypeOK
  <2>5. SlotInv'
    BY <2>2 DEF JobInv, SlotInv, Slots, Held, TypeOK
  <2>6. ClientInv'
    <3>1. PICK pc \in {"idle", "exit"} : \E k : Goto(c, pc, k)
      BY <1>3 DEF StopFinish, Stopped, Return
    <3>2. /\ \A d \in Clients \ {c} : client'[d] = client[d]
          /\ client'[c].pc \notin {"save", "schedule", "resched"}
      BY <3>1 DEF Goto, TypeOK
    <3>3. \A d \in Clients : client[d].pc \in {"save", "schedule", "resched"} => client[d].job \in Jobs
      BY DEF TypeOK, ClientType
    <3>. QED
      BY <2>1, <2>2, <2>3, <3>2, <3>3 DEF JobInv, ClientInv, Finished, TypeOK
  <2>7. OutcomeInv'
    <3>1. \A w \in writes' : w \in writes \/ w = Update(j, "Cancelled")
      BY <1>3 DEF StopFinish, Spawn
    <3>. QED
      BY <2>2, <2>3, <3>1 DEF JobInv, OutcomeInv, DbOutcomeTrue, Update, TypeOK, DbWrite
  <2>. QED
    BY <2>4, <2>5, <2>6, <2>7 DEF JobInv
<1>. QED
  BY <1>1, <1>2, <1>3 DEF StopStep

\* The state of one job changes, with no worker, client or write involved: it
\* is cancelled by the tool, recovered, failed by the repair loop, or created
\* by a tool.  Its worker has finished or was never there, unless the tool
\* cancels it.
LEMMA StateMoves ==
  ASSUME TypeOK, TypeOK', JobInv, NEW j \in Jobs, NEW to \in State,
         ctx' = [ctx EXCEPT ![j] = to], found' \subseteq found,
         UNCHANGED <<entries, lock, worker, client, db, writes>>,
         ctx[j] \notin {"Completed", "Failed"},
         \/ to = "Cancelled" /\ ctx[j] # "absent"
         \/ to \in {"InProgress", "Failed"} /\ j \in Finished /\ ctx[j] # "Cancelled"
         \/ to = "Pending" /\ ctx[j] = "absent"
  PROVE  JobInv'
<1>1. StateInv' /\ FoundInv'
  BY DEF JobInv, StateInv, FoundInv, Live, Finished, TypeOK
<1>2. SlotInv'
  BY DEF JobInv, SlotInv, Slots, Held
<1>3. ClientInv'
  BY DEF JobInv, StateInv, ClientInv, Live, Finished, TypeOK
<1>4. OutcomeInv'
  BY DEF JobInv, OutcomeInv, DbOutcomeTrue, TypeOK, DbWrite
<1>. QED
  BY <1>1, <1>2, <1>3, <1>4 DEF JobInv

\* A stuck job has lost its worker, and recovery gives it none.
LEMMA HelpRecoverInv ==
  ASSUME TypeOK, TypeOK', SchedInv, JobInv, NEW j \in Jobs, HelpRecover(j)
  PROVE  JobInv'
<1>1. /\ Main \in Clients /\ Doing(Main, "help", j) /\ lock # Main
      /\ UNCHANGED <<entries, lock, worker, found, db, writes>>
  BY ClientAssumption
     DEF HelpRecover, Clients, SchedInv, Stoppers, Doing, schedVars, workVars, dbVars
<1>2. CASE ctx[j] = "Stuck" /\ ctx' = [ctx EXCEPT ![j] = "InProgress"]
           /\ Goto(Main, "resched", j)
  <2>1. j \in Finished
    BY <1>2 DEF JobInv, StateInv, Live, Finished, TypeOK
  <2>2. StateInv' /\ FoundInv'
    BY <1>1, <1>2, <2>1 DEF JobInv, StateInv, FoundInv, Live, Finished, TypeOK
  <2>3. SlotInv'
    BY <1>1, <1>2 DEF JobInv, SlotInv, Slots, Held, Goto, TypeOK
  <2>4. ClientInv'
    BY <1>1, <1>2, <2>1 DEF JobInv, ClientInv, Goto, Finished, TypeOK
  <2>5. OutcomeInv'
    BY <1>1, <1>2 DEF JobInv, OutcomeInv, DbOutcomeTrue, TypeOK, DbWrite
  <2>. QED
    BY <2>2, <2>3, <2>4, <2>5 DEF JobInv
<1>3. CASE Goto(Main, "idle", NoJob) /\ UNCHANGED ctx
  BY <1>1, <1>3, ClientMoves
<1>. QED
  BY <1>2, <1>3 DEF HelpRecover, Recover, Return, ctxVars

\* What the repair loop does to a detected job, by then perhaps no longer stuck
LEMMA RepairInv ==
  ASSUME TypeOK, TypeOK', JobInv, NEW s \in found, Repair(s)
  PROVE  JobInv'
<1>1. /\ UNCHANGED <<entries, lock, worker, client, db, writes>> /\ found' \subseteq found
      /\ s.job \in Finished /\ s.job \in Jobs
  BY DEF Repair, JobInv, FoundInv, Finished, schedVars, workVars, clientVars, dbVars
<1>2. CASE UNCHANGED ctx
  BY <1>1, <1>2 DEF JobInv, StateInv, SlotInv, Slots, Held, ClientInv, FoundInv,
                    OutcomeInv, DbOutcomeTrue, Live, Finished
<1>3. ASSUME NEW to \in {"InProgress", "Failed"}, CanTransition(ctx[s.job], to),
             ctx' = [ctx EXCEPT ![s.job] = to]
      PROVE  JobInv'
  <2>1. ctx[s.job] \in {"Stuck", "InProgress"} /\ to \in State
    BY <1>3 DEF JobInv, FoundInv, CanTransition, Transitions, State
  <2>. QED
    BY <1>1, <1>3, <2>1, StateMoves
<1>4. Recover(s.job) => CanTransition(ctx[s.job], "InProgress")
                        /\ ctx' = [ctx EXCEPT ![s.job] = "InProgress"]
  BY DEF Recover, CanTransition, Transitions
<1>. QED
  BY <1>2, <1>3, <1>4 DEF Repair, TryTransition, ctxVars

LEMMA JobInit == Init => JobInv
  BY DEF Init, JobInv, StateInv, SlotInv, ClientInv, FoundInv, OutcomeInv, DbOutcomeTrue,
         Live, Finished, Slots, Held

LEMMA JobNext == TypeOK /\ TypeOK' /\ SchedInv /\ JobInv /\ [Next]_vars => JobInv'
<1> SUFFICES ASSUME TypeOK, TypeOK', SchedInv, JobInv, [Next]_vars PROVE JobInv'
  OBVIOUS
<1>0. \A c \in Clients : client[c].pc \notin {"cancel", "deadline", "exit"}
                          \/ client[c].job = NoJob => lock # c
  BY JobsAssumption, ClientAssumption DEF SchedInv, Stoppers, Clients
<1>1. ASSUME NEW j \in Jobs, JobStep(j) PROVE JobInv'
  <2>1. CASE CleanupCheck(j) \/ CleanupRemove(j)
    BY <2>1 DEF CleanupCheck, CleanupRemove, ctxVars, workVars, clientVars, dbVars, JobInv,
                StateInv, SlotInv, Slots, Held, ClientInv, FoundInv, OutcomeInv,
                DbOutcomeTrue, Live, Finished
  <2>. QED
    BY <1>1, <2>1, WorkerJobInv DEF JobStep
<1>2. ASSUME NEW j \in Jobs, MainStep(j) PROVE JobInv'
  <2>1. CASE CreateLocal(j)
    <3>1. ctx' = [ctx EXCEPT ![j] = "Pending"] /\ ctx[j] = "absent" /\ "Pending" \in State
      BY <2>1 DEF CreateLocal, NewContext, State
    <3>. QED
      BY <2>1, <3>1, StateMoves DEF CreateLocal, schedVars, workVars, clientVars, dbVars
  <2>2. CASE CancelTool(j)
    <3>1. /\ ctx' = [ctx EXCEPT ![j] = "Cancelled"] /\ "Cancelled" \in State
          /\ ctx[j] \in {"Pending", "InProgress", "Stuck"}
      BY <2>2 DEF CancelTool, CanTransition, Transitions, State
    <3>. QED
      BY <2>2, <3>1, StateMoves DEF CancelTool, schedVars, workVars, clientVars, dbVars
  <2>3. CASE HelpRecover(j)
    BY <2>3, HelpRecoverInv
  <2>4. CASE CancelJob(j) \/ HelpJob(j) \/ ExitNext(j)
    <3>1. UNCHANGED <<ctx, entries, lock, worker, db, writes, found>> /\ Main \in Clients
      BY <2>4 DEF CancelJob, HelpJob, ExitNext, ctxVars, schedVars, workVars, dbVars, Clients
    <3>2. \E pc \in {"cancel", "help", "exit"} : Goto(Main, pc, j)
      BY <2>4 DEF CancelJob, HelpJob, ExitNext
    <3>3. lock # Main
      BY <1>0, <2>4, <3>1 DEF CancelJob, HelpJob, ExitNext, Doing
    <3>. QED
      BY <3>1, <3>2, <3>3, ClientMoves
  <2>. QED
    BY <1>2, <2>1, <2>2, <2>3, <2>4 DEF MainStep
<1>3. ASSUME NEW j \in Jobs, NEW c \in Clients, ClientStep(c, j) PROVE JobInv'
  <2>1. CASE ScheduleRefused(c, j) \/ PollOver(c, j) \/ PollDeadline(c, j)
    <3>1. UNCHANGED <<ctx, entries, lock, worker, db, writes, found>>
      BY <2>1 DEF ScheduleRefused, PollOver, PollDeadline, ctxVars, schedVars, workVars, dbVars
    <3>2. \E pc \in {"idle", "deadline"} : \E k : Goto(c, pc, k)
      BY <2>1 DEF ScheduleRefused, PollOver, PollDeadline, Return
    <3>3. lock # c
      BY <1>0, <2>1 DEF ScheduleRefused, PollOver, PollDeadline, Doing
    <3>. QED
      BY <3>1, <3>2, <3>3, ClientMoves
  <2>. QED
    BY <1>3, <2>1, CreateJobInv, SaveJobInv, ScheduleJobInv, StopJobInv
       DEF ClientStep, ClientGoesOn, ScheduleStep
<1>4. CASE Exit \/ Exited
  <2>1. /\ UNCHANGED <<ctx, entries, lock, worker, db, writes>> /\ found' \subseteq found
        /\ Main \in Clients
    BY <1>4 DEF Exit, Exited, ctxVars, schedVars, workVars, dbVars, Clients
  <2>2. \E pc \in {"exit", "exited"} : \E k : Goto(Main, pc, k)
    BY <1>4 DEF Exit, Exited
  <2>3. lock # Main
    BY <1>0, <1>4, <2>1 DEF Exit, Exited, Doing
  <2>. QED
    BY <2>1, <2>2, <2>3, ClientMoves
<1>5. CASE Detect
  <2>1. \A s \in found' : s.job \in Jobs /\ ctx[s.job] = "Stuck"
    BY <1>5 DEF Detect
  <2>2. FoundInv'
    BY <1>5, <2>1 DEF Detect, ctxVars, workVars, JobInv, StateInv, FoundInv, Live,
                      Finished, TypeOK
  <2>. QED
    BY <1>5, <2>2 DEF Detect, ctxVars, schedVars, workVars, clientVars, dbVars, JobInv,
       StateInv, SlotInv, Slots, Held, ClientInv, OutcomeInv, DbOutcomeTrue, Live, Finished
<1>6. ASSUME NEW s \in found, Repair(s) PROVE JobInv'
  BY <1>6, RepairInv
<1>7. ASSUME NEW w \in writes, Write(w) \/ WriteFails(w) PROVE JobInv'
  <2>1. /\ UNCHANGED <<ctx, entries, lock, worker, client, found>> /\ writes' \subseteq writes
        /\ db' = db \/ db' = [db EXCEPT ![w.job] = w.status]
    BY <1>7 DEF Write, WriteFails, ctxVars, schedVars, workVars, clientVars
  <2>2. OutcomeInv'
    BY <2>1 DEF JobInv, OutcomeInv, DbOutcomeTrue, TypeOK
  <2>. QED
    BY <2>1, <2>2 DEF JobInv, StateInv, SlotInv, Slots, Held, ClientInv, FoundInv, Live, Finished
<1>8. CASE UNCHANGED vars
  BY <1>8 DEF vars, ctxVars, schedVars, workVars, clientVars, dbVars, JobInv,
     StateInv, SlotInv, Slots, Held, ClientInv, FoundInv, OutcomeInv, DbOutcomeTrue,
     Live, Finished
<1>. QED
  BY ONLY [Next]_vars, StepCases, <1>1, <1>2, <1>3, <1>4, <1>5, <1>6, <1>7, <1>8

LEMMA JobCorrect == Spec => [](TypeOK /\ SchedInv /\ JobInv)
  BY SchedCorrect, JobInit, JobNext, PTL DEF Spec

\* A job that is being worked on is InProgress, or Cancelled by the tool: no
\* repair, help, routine or second worker changes it under its worker.
THEOREM WorkedJobStateCorrect == Spec => []WorkedJobState
<1>1. TypeOK /\ SchedInv /\ JobInv => WorkedJobState
  BY DEF JobInv, StateInv, WorkedJobState, Live
<1>. QED
  BY <1>1, JobCorrect, PTL

\* An outcome found in the database is the outcome in memory, for good.
THEOREM DbOutcomeCorrect == Spec => []DbOutcomeTrue
<1>1. TypeOK /\ SchedInv /\ JobInv => DbOutcomeTrue
  BY DEF JobInv, OutcomeInv
<1>. QED
  BY <1>1, JobCorrect, PTL

-----------------------------------------------------------------------------
(* The scheduler is a bounded pool *)

\* A step of a worker leaves the pool alone, or finishes the job.
LEMMA WorkerPoolStep ==
  ASSUME TypeOK, NEW j \in Jobs, WorkerStep(j) \/ Timeout(j)
  PROVE  UNCHANGED <<Live, Finished>> \/ Pool!Finish(j)
<1>1. j \in Live /\ (WorkerMoves(j) \/ WorkerEnds(j) \/ WorkerMarks(j))
  BY WorkerCases
<1>2. CASE WorkerMoves(j)
  BY <1>1, <1>2 DEF WorkerMoves, Live, Finished, TypeOK
<1>3. CASE End(j)
  BY <1>1, <1>3 DEF End, Pool!Finish, Live, Finished, TypeOK
<1>. QED
  BY <1>1, <1>2, <1>3 DEF WorkerEnds, WorkerMarks

\* schedule() starts a job that has never been in the pool, within its size.
LEMMA SchedulePoolStep ==
  ASSUME TypeOK, SchedInv, JobInv, NEW j \in Jobs, NEW c \in Clients, ScheduleJob(c, j)
  PROVE  UNCHANGED <<Live, Finished>> \/ Pool!Start(j)
<1>1. CASE Schedulable(j) /\ StartWorker(j)
  <2>1. worker[j] = "none" /\ worker' = [worker EXCEPT ![j] = "start"]
    BY <1>1, ScheduleStarts DEF ScheduleJob, StartWorker
  <2>2. Live' = Live \cup {j} /\ Finished' = Finished /\ j \notin Live \cup Finished
    BY <2>1 DEF Live, Finished, TypeOK
  <2>3. Live \subseteq entries /\ entries \subseteq Jobs
    BY DEF ScheduleJob, SchedInv, Slots, Held, TypeOK
  <2>4. Cardinality(Live) <= Cardinality(entries) /\ Cardinality(Live) \in Nat
        /\ Cardinality(entries) \in Nat
    BY <2>3, SubsetSize
  <2>5. Cardinality(Live) < MaxParallel
    BY <1>1, <2>4, BoundAssumption DEF Schedulable
  <2>6. j \in Jobs \ (Live \cup Finished)
    BY <2>2
  <2>7. Pool!Cardinality(Live) = Cardinality(Live)
    BY DEF Pool!Cardinality, Cardinality
  <2>. QED
    BY <2>2, <2>5, <2>6, <2>7 DEF Pool!Start, Finished
<1>2. CASE UNCHANGED workVars
  BY <1>2 DEF workVars, Live, Finished
<1>. QED
  BY <1>1, <1>2 DEF ScheduleJob

\* stop() finishes the job it aborts, unless its worker had already ended.
LEMMA StopPoolStep ==
  ASSUME TypeOK, JobInv, NEW j \in Jobs, NEW c \in Clients, StopStep(c, j)
  PROVE  UNCHANGED <<Live, Finished>> \/ Pool!Finish(j)
<1>1. CASE StopNothing(c, j) \/ StopBegin(c, j)
  BY <1>1 DEF StopNothing, StopBegin, workVars, Live, Finished
<1>2. CASE StopFinish(c, j)
  <2>1. worker[j] # "none"
    BY <1>2, ClientAssumption DEF JobInv, SlotInv, Slots, Held, StopFinish, Stopping, Clients
  <2>. QED
    BY <1>2, <2>1 DEF StopFinish, End, Pool!Finish, Live, Finished, TypeOK
<1>. QED
  BY <1>1, <1>2 DEF StopStep

LEMMA PoolStep ==
  ASSUME TypeOK, SchedInv, JobInv, [Next]_vars
  PROVE  Pool!Next \/ UNCHANGED <<Live, Finished>>
<1>1. ASSUME NEW j \in Jobs, JobStep(j) PROVE UNCHANGED <<Live, Finished>> \/ Pool!Finish(j)
  BY <1>1, WorkerPoolStep DEF JobStep, CleanupCheck, CleanupRemove, workVars, Live, Finished
<1>2. ASSUME NEW j \in Jobs, MainStep(j) PROVE UNCHANGED <<Live, Finished>>
  BY <1>2 DEF MainStep, CreateLocal, CancelTool, CancelJob, HelpJob, HelpRecover, ExitNext,
              workVars, Live, Finished
<1>3. ASSUME NEW j \in Jobs, NEW c \in Clients, ClientStep(c, j)
      PROVE  UNCHANGED <<Live, Finished>> \/ Pool!Start(j) \/ Pool!Finish(j)
  <2>1. CASE CreateJob(c, j) \/ SaveJob(c, j) \/ ScheduleRefused(c, j)
             \/ PollOver(c, j) \/ PollDeadline(c, j)
    BY <2>1 DEF CreateJob, SaveJob, ScheduleRefused, PollOver, PollDeadline,
                workVars, Live, Finished
  <2>. QED
    BY <1>3, <2>1, SchedulePoolStep, StopPoolStep DEF ClientStep, ClientGoesOn, ScheduleStep
<1>4. CASE Exit \/ Exited \/ Detect \/ (\E s \in found : Repair(s))
           \/ (\E w \in writes : Write(w) \/ WriteFails(w)) \/ UNCHANGED vars
  BY <1>4 DEF Exit, Exited, Detect, Repair, Write, WriteFails, vars, workVars, Live, Finished
<1>. QED
  BY ONLY [Next]_vars, StepCases, <1>1, <1>2, <1>3, <1>4 DEF Pool!Next

\* The scheduler, its workers and all that act on them implement the pool of
\* WorkerPool: at most max_parallel_jobs jobs at a time, each at most once.
THEOREM PoolCorrect == Spec => PoolSpec
<1>1. Init => Pool!Init
  BY DEF Init, Pool!Init, Live
<1>2. TypeOK /\ SchedInv /\ JobInv /\ [Next]_vars => [Pool!Next]_(Pool!vars)
  BY PoolStep DEF Pool!vars, Finished
<1>. QED
  BY <1>1, <1>2, JobCorrect, PTL DEF Spec, PoolSpec, Pool!Spec

-----------------------------------------------------------------------------
(* Cancelled jobs *)

\* A cancelled job whose worker cannot execute a tool any more
Blocked(j) ==
  /\ ctx[j] = "Cancelled"
  /\ worker[j] # "exec"
  /\ worker[j] = "hook" => j \in sawCancel

\* Cancelled is terminal.
LEMMA CancelledStays ==
  ASSUME TypeOK, [Next]_vars, NEW j \in Jobs, ctx[j] = "Cancelled"
  PROVE  ctx'[j] = "Cancelled"
  BY ContextStep DEF Changes, NewContext, CanTransition, Transitions, TypeOK

LEMMA BlockedStays ==
  ASSUME TypeOK, [Next]_vars, NEW j \in Jobs, Blocked(j)
  PROVE  Blocked(j)'
<1>1. ctx[j] = "Cancelled" /\ ctx'[j] = "Cancelled"
  BY CancelledStays DEF Blocked
<1>2. ASSUME NEW k \in Jobs, JobStep(k) PROVE Blocked(j)'
  <2>1. CASE k # j
    <3>1. worker'[j] = worker[j] /\ (j \in sawCancel => j \in sawCancel')
      BY <1>2, <2>1 DEF JobStep, WorkerStep, Begin, TopStop, TopCancelled, TopNext,
         TopExhausted, PlanNext, PlanOver, CallGoesOn, SaysComplete, AskIncomplete, AskFails,
         ToolRefused, ToolBegin, Hook, Exec, Err, Timeout, CleanupCheck, CleanupRemove,
         MarkOrErr, End, Go, workVars, TypeOK
    <3>. QED
      BY <1>1, <3>1 DEF Blocked
  <2>2. CASE k = j
    <3>1. worker'[j] # "exec"
      BY <1>1, <1>2, <2>2 DEF Blocked, JobStep, WorkerStep, Begin, TopStop, TopCancelled,
         TopNext, TopExhausted, PlanNext, PlanOver, CallGoesOn, SaysComplete, AskIncomplete,
         AskFails, ToolRefused, ToolBegin, Hook, Exec, Err, Timeout, CleanupCheck,
         CleanupRemove, MarkOrErr, End, Go, workVars, TypeOK
    <3>2. worker'[j] = "hook" => j \in sawCancel'
      BY <1>1, <1>2, <2>2 DEF Blocked, JobStep, WorkerStep, Begin, TopStop, TopCancelled,
         TopNext, TopExhausted, PlanNext, PlanOver, CallGoesOn, SaysComplete, AskIncomplete,
         AskFails, ToolRefused, ToolBegin, Hook, Exec, Err, Timeout, CleanupCheck,
         CleanupRemove, MarkOrErr, End, Go, workVars, TypeOK
    <3>. QED
      BY <1>1, <3>1, <3>2 DEF Blocked
  <2>. QED
    BY <2>1, <2>2
<1>3. ASSUME NEW k \in Jobs, NEW c \in Clients, ClientStep(c, k) PROVE Blocked(j)'
  <2>1. CASE CreateJob(c, k) \/ SaveJob(c, k) \/ ScheduleRefused(c, k)
             \/ PollOver(c, k) \/ PollDeadline(c, k) \/ StopNothing(c, k) \/ StopBegin(c, k)
    BY <1>1, <2>1 DEF CreateJob, SaveJob, ScheduleRefused, PollOver, PollDeadline,
                      StopNothing, StopBegin, workVars, Blocked
  <2>2. CASE ScheduleJob(c, k)
    <3>1. worker'[j] = worker[j] /\ sawCancel' = sawCancel
      BY <1>1, <2>2 DEF ScheduleJob, Schedulable, CanTransition, Transitions, StartWorker,
                        workVars, TypeOK
    <3>. QED
      BY <1>1, <3>1 DEF Blocked
  <2>3. CASE StopFinish(c, k)
    BY <1>1, <2>3 DEF StopFinish, End, Blocked, TypeOK
  <2>. QED
    BY <1>3, <2>1, <2>2, <2>3 DEF ClientStep, ClientGoesOn, ScheduleStep, StopStep
<1>4. CASE \/ \E k \in Jobs : MainStep(k)
           \/ Exit \/ Exited \/ Detect \/ (\E s \in found : Repair(s))
           \/ (\E w \in writes : Write(w) \/ WriteFails(w)) \/ UNCHANGED vars
  <2>1. UNCHANGED workVars
    BY <1>4 DEF MainStep, CreateLocal, CancelTool, CancelJob, HelpJob, HelpRecover, ExitNext,
                Exit, Exited, Detect, Repair, Write, WriteFails, vars
  <2>. QED
    BY <1>1, <2>1 DEF workVars, Blocked
<1>. QED
  BY ONLY [Next]_vars, StepCases, <1>2, <1>3, <1>4

\* From the moment a job is cancelled, no tool call is executed for it but the
\* one whose context was already read.
THEOREM CancelBlocksToolsCorrect == Spec => CancelBlocksTools
<1> SUFFICES ASSUME NEW j \in Jobs
             PROVE  Spec => [](ctx[j] = "Cancelled" /\ worker[j] \notin {"hook", "exec"}
                                 => [](worker[j] # "exec"))
  BY DEF CancelBlocksTools
<1>1. ctx[j] = "Cancelled" /\ worker[j] \notin {"hook", "exec"} => Blocked(j)
  BY DEF Blocked
<1>2. TypeOK /\ Blocked(j) /\ [Next]_vars => Blocked(j)'
  BY BlockedStays
<1>3. Blocked(j) => worker[j] # "exec"
  BY DEF Blocked
<1>. QED
  BY <1>1, <1>2, <1>3, TypeCorrect, PTL DEF Spec

-----------------------------------------------------------------------------
(* Recovery *)

\* A job that has not lost its worker, or is stuck, was never recovered.
RecoverInv ==
  \A j \in Jobs : attempts[j] \in {0, 1} /\ (j \notin Finished \/ ctx[j] = "Stuck" => attempts[j] = 0)

\* A step that leaves the attempts alone keeps them right unless it makes stuck
\* what is not stuck, or takes from a job that its worker has ended.
LEMMA RecoverKept ==
  ASSUME RecoverInv, UNCHANGED attempts, Finished \subseteq Finished',
         \A k \in Jobs : ctx'[k] = "Stuck" => ctx[k] = "Stuck" \/ k \in Live
  PROVE  RecoverInv'
BY DEF RecoverInv, Finished, Live

LEMMA RecoverStep ==
  ASSUME TypeOK, JobInv, RecoverInv, NEW j \in Jobs, Recover(j), UNCHANGED worker
  PROVE  RecoverInv'
<1>1. j \in Finished /\ attempts[j] = 0
  BY DEF Recover, RecoverInv, JobInv, StateInv, Live, Finished, TypeOK
<1>2. attempts' = [attempts EXCEPT ![j] = 1] /\ ctx' = [ctx EXCEPT ![j] = "InProgress"]
  BY <1>1 DEF Recover, TypeOK
<1>. QED
  BY <1>1, <1>2 DEF RecoverInv, Finished, TypeOK

LEMMA RecoverNext == TypeOK /\ SchedInv /\ JobInv /\ RecoverInv /\ [Next]_vars => RecoverInv'
<1> SUFFICES ASSUME TypeOK, SchedInv, JobInv, RecoverInv, [Next]_vars PROVE RecoverInv'
  OBVIOUS
\* The steps that do not touch contexts or workers
<1>0. ASSUME UNCHANGED <<ctx, attempts, worker>> PROVE RecoverInv'
  BY <1>0 DEF RecoverInv, Finished
<1>1. ASSUME NEW j \in Jobs, WorkerStep(j) \/ Timeout(j) PROVE RecoverInv'
  <2>1. j \in Live /\ UNCHANGED attempts /\ (WorkerMoves(j) \/ WorkerEnds(j) \/ WorkerMarks(j))
    BY <1>1, WorkerCases DEF WorkerStep, Begin, TopStop, TopCancelled, TopNext, TopExhausted,
       PlanNext, PlanOver, CallGoesOn, SaysComplete, AskIncomplete, AskFails, ToolRefused,
       ToolBegin, Hook, Exec, Err, Timeout, ctxVars
  <2>2. Finished \subseteq Finished'
    BY <2>1 DEF WorkerMoves, WorkerEnds, WorkerMarks, End, Live, Finished, TypeOK
  <2>3. \A k \in Jobs : ctx'[k] = "Stuck" => ctx[k] = "Stuck" \/ k \in Live
    BY <2>1 DEF WorkerMoves, WorkerEnds, WorkerMarks, Mark, TypeOK
  <2>. QED
    BY <2>1, <2>2, <2>3, RecoverKept
<1>2. ASSUME NEW j \in Jobs, CleanupCheck(j) \/ CleanupRemove(j) PROVE RecoverInv'
  BY <1>0, <1>2 DEF CleanupCheck, CleanupRemove, ctxVars, workVars
\* A context is created or cancelled.
<1>3. ASSUME NEW j \in Jobs, NEW to \in {"Pending", "Cancelled", "Failed", "InProgress"},
             ctx' = [ctx EXCEPT ![j] = to], UNCHANGED attempts, Finished \subseteq Finished'
      PROVE  RecoverInv'
  <2>1. \A k \in Jobs : ctx'[k] = "Stuck" => ctx[k] = "Stuck"
    BY <1>3 DEF TypeOK
  <2>. QED
    BY <1>3, <2>1, RecoverKept
<1>4. ASSUME NEW j \in Jobs, MainStep(j) PROVE RecoverInv'
  <2>1. CASE CreateLocal(j) \/ CancelTool(j)
    BY <1>3, <2>1 DEF CreateLocal, CancelTool, NewContext, workVars, Finished
  <2>2. CASE CancelJob(j) \/ HelpJob(j) \/ ExitNext(j)
    BY <1>0, <2>2 DEF CancelJob, HelpJob, ExitNext, ctxVars, workVars
  <2>3. CASE HelpRecover(j)
    BY <1>0, <2>3, RecoverStep DEF HelpRecover, ctxVars, workVars
  <2>. QED
    BY <1>4, <2>1, <2>2, <2>3 DEF MainStep
<1>5. ASSUME NEW j \in Jobs, NEW c \in Clients, ClientStep(c, j) PROVE RecoverInv'
  <2>1. CASE CreateJob(c, j)
    BY <1>3, <2>1 DEF CreateJob, NewContext, workVars, Finished
  <2>2. CASE SaveJob(c, j) \/ ScheduleRefused(c, j) \/ PollOver(c, j) \/ PollDeadline(c, j)
             \/ StopNothing(c, j) \/ StopBegin(c, j)
    BY <1>0, <2>2 DEF SaveJob, ScheduleRefused, PollOver, PollDeadline, StopNothing, StopBegin,
       ctxVars, workVars
  <2>3. CASE ScheduleJob(c, j)
    <3>1. CASE Schedulable(j) /\ StartWorker(j)
      <4>1. worker[j] = "none"
        BY <2>3, <3>1, ScheduleStarts DEF ScheduleJob
      <4>2. Finished \subseteq Finished'
        BY <3>1, <4>1 DEF StartWorker, Finished, TypeOK
      <4>. QED
        BY <1>3, <3>1, <4>2 DEF StartWorker
    <3>2. CASE UNCHANGED <<ctxVars, schedVars, workVars>>
      BY <1>0, <3>2 DEF ctxVars, workVars
    <3>. QED
      BY <2>3, <3>1, <3>2 DEF ScheduleJob
  <2>4. CASE StopFinish(c, j)
    <3>1. Finished \subseteq Finished' /\ UNCHANGED attempts
      BY <2>4 DEF StopFinish, End, Finished, TypeOK
    <3>2. \A k \in Jobs : ctx'[k] = "Stuck" => ctx[k] = "Stuck"
      BY <2>4 DEF StopFinish, TryTransition, TypeOK
    <3>. QED
      BY <3>1, <3>2, RecoverKept
  <2>. QED
    BY <1>5, <2>1, <2>2, <2>3, <2>4 DEF ClientStep, ClientGoesOn, ScheduleStep, StopStep
<1>6. ASSUME NEW s \in found, Repair(s) PROVE RecoverInv'
  <2>1. s.job \in Jobs /\ UNCHANGED worker
    BY <1>6 DEF TypeOK, Repair, workVars
  <2>2. CASE TryTransition(s.job, "Failed") /\ UNCHANGED attempts
    BY <1>0, <1>3, <2>1, <2>2 DEF TryTransition, Finished
  <2>3. CASE Recover(s.job) \/ UNCHANGED ctxVars
    BY <1>0, <2>1, <2>3, RecoverStep DEF ctxVars
  <2>. QED
    BY <1>6, <2>2, <2>3 DEF Repair
<1>7. CASE Exit \/ Exited \/ Detect \/ (\E w \in writes : Write(w) \/ WriteFails(w)) \/ UNCHANGED vars
  BY <1>0, <1>7 DEF Exit, Exited, Detect, Write, WriteFails, vars, ctxVars, workVars
<1>. QED
  BY <1>1, <1>2, <1>4, <1>5, <1>6, <1>7, StepCases DEF JobStep

\* For any number of repair attempts that are configured, a job is recovered once:
\* attempt_recovery puts it back to InProgress, schedule refuses a job in that
\* state, and only a worker marks a job Stuck.
THEOREM RecoveredOnceCorrect == Spec => []RecoveredOnce
<1>1. Init => RecoverInv
  BY DEF Init, RecoverInv
<1>2. RecoverInv => RecoveredOnce
  BY DEF RecoverInv, RecoveredOnce
<1>. QED
  BY <1>1, <1>2, RecoverNext, JobCorrect, PTL DEF Spec

-----------------------------------------------------------------------------
(* A worker ends after a bounded number of steps *)

\* Five steps for every iteration that is left
Rest(i) == (MaxIter - i) * 5

\* An upper bound on the steps that are ever taken to execute a job
StepsLeft(j) ==
  CASE worker[j] = "done"  -> 0
    [] worker[j] = "err"   -> 1
    [] worker[j] = "ask"   -> 2
    [] worker[j] = "top"   -> Rest(iter[j]) + 3
    [] worker[j] = "exec"  -> Rest(iter[j]) + 4
    [] worker[j] = "hook"  -> Rest(iter[j]) + 5
    [] worker[j] = "tool"  -> Rest(iter[j]) + 6
    [] worker[j] = "call"  -> Rest(iter[j]) + 7
    [] worker[j] = "start" -> Rest(iter[j]) + 8
    [] worker[j] = "none"  -> Rest(iter[j]) + 9

\* Whatever a worker does, and whoever starts or stops it, brings its job nearer
\* the end of its execution.
JobComesNearer ==
  \A j \in Jobs : /\ [](StepsLeft(j) \in Nat)
                  /\ [][UNCHANGED worker[j] \/ StepsLeft(j)' < StepsLeft(j)]_vars

LEMMA RestFalls ==
  ASSUME NEW i \in 0..MaxIter
  PROVE  Rest(i) \in Nat /\ (i < MaxIter => Rest(i) = Rest(i + 1) + 5 /\ Rest(i + 1) \in Nat)
BY BoundAssumption DEF Rest

LEMMA Places ==
  ASSUME NEW j \in Jobs, TypeOK
  PROVE  /\ iter[j] \in 0..MaxIter /\ worker[j] \in WorkerPc
         /\ worker[j] = "done"  => StepsLeft(j) = 0
         /\ worker[j] = "err"   => StepsLeft(j) = 1
         /\ worker[j] = "ask"   => StepsLeft(j) = 2
         /\ worker[j] = "top"   => StepsLeft(j) = Rest(iter[j]) + 3
         /\ worker[j] = "exec"  => StepsLeft(j) = Rest(iter[j]) + 4
         /\ worker[j] = "hook"  => StepsLeft(j) = Rest(iter[j]) + 5
         /\ worker[j] = "tool"  => StepsLeft(j) = Rest(iter[j]) + 6
         /\ worker[j] = "call"  => StepsLeft(j) = Rest(iter[j]) + 7
         /\ worker[j] = "start" => StepsLeft(j) = Rest(iter[j]) + 8
         /\ worker[j] = "none"  => StepsLeft(j) = Rest(iter[j]) + 9
BY DEF StepsLeft, TypeOK

LEMMA PlacesNext ==
  ASSUME NEW j \in Jobs, TypeOK'
  PROVE  /\ worker'[j] = "done"  => StepsLeft(j)' = 0
         /\ worker'[j] = "err"   => StepsLeft(j)' = 1
         /\ worker'[j] = "ask"   => StepsLeft(j)' = 2
         /\ worker'[j] = "top"   => StepsLeft(j)' = Rest(iter'[j]) + 3
         /\ worker'[j] = "exec"  => StepsLeft(j)' = Rest(iter'[j]) + 4
         /\ worker'[j] = "hook"  => StepsLeft(j)' = Rest(iter'[j]) + 5
         /\ worker'[j] = "tool"  => StepsLeft(j)' = Rest(iter'[j]) + 6
         /\ worker'[j] = "call"  => StepsLeft(j)' = Rest(iter'[j]) + 7
         /\ worker'[j] = "start" => StepsLeft(j)' = Rest(iter'[j]) + 8
BY DEF StepsLeft, TypeOK

\* A step of one job's worker leaves the others where they are.
LEMMA OthersWait ==
  ASSUME TypeOK, NEW j \in Jobs, NEW k \in Jobs \ {j},
         \/ WorkerStep(j) \/ Timeout(j)
         \/ StartWorker(j)
         \/ End(j)
  PROVE  worker'[k] = worker[k]
<1>1. CASE WorkerStep(j) \/ Timeout(j)
  BY <1>1, WorkerCases DEF WorkerMoves, WorkerEnds, WorkerMarks, End, TypeOK
<1>2. CASE StartWorker(j) \/ End(j)
  BY <1>2 DEF StartWorker, End, TypeOK
<1>. QED
  BY <1>1, <1>2

\* An ended worker takes no more steps, and an end is the last step of any other.
LEMMA EndIsNearer ==
  ASSUME TypeOK, TypeOK', NEW j \in Jobs, End(j)
  PROVE  worker'[j] = worker[j] \/ StepsLeft(j)' < StepsLeft(j)
<1>1. worker'[j] = "done" /\ StepsLeft(j)' = 0
  BY PlacesNext DEF End, TypeOK
<1>2. CASE worker[j] # "done"
  <2>1. iter[j] \in 0..MaxIter /\ Rest(iter[j]) \in Nat
    BY Places, RestFalls
  <2>2. StepsLeft(j) \in {1, 2} \cup {Rest(iter[j]) + n : n \in 3..9}
    BY <1>2, Places DEF WorkerPc
  <2>. QED
    BY <1>1, <2>1, <2>2
<1>. QED
  BY <1>1, <1>2

LEMMA WorkIsNearer ==
  ASSUME TypeOK, TypeOK', NEW j \in Jobs, WorkerStep(j) \/ Timeout(j)
  PROVE  worker'[j] = worker[j] \/ StepsLeft(j)' < StepsLeft(j)
<1> DEFINE i == iter[j]
           Goal == worker'[j] = worker[j] \/ StepsLeft(j)' < StepsLeft(j)
<1>1. i \in 0..MaxIter /\ Rest(i) \in Nat
  BY Places, RestFalls
<1>2. CASE End(j)
  BY <1>2, EndIsNearer
<1>3. ASSUME NEW pc, Go(j, pc) PROVE worker'[j] = pc /\ iter'[j] = i
  BY <1>3 DEF Go, TypeOK
<1>4. CASE Begin(j)
  <2>1. worker[j] = "start" /\ worker'[j] = "top" /\ iter'[j] = i
    BY <1>4 DEF Begin, TypeOK
  <2>2. StepsLeft(j) = Rest(i) + 8 /\ StepsLeft(j)' = Rest(i) + 3
    BY <2>1, Places, PlacesNext
  <2>. QED
    BY <1>1, <2>2
<1>5. CASE TopNext(j) \/ PlanNext(j)
  <2>1. worker[j] = "top" /\ i < MaxIter /\ worker'[j] \in {"call", "tool"} /\ iter'[j] = i + 1
    BY <1>5 DEF TopNext, PlanNext, AtTop, TypeOK
  <2>2. StepsLeft(j) = Rest(i) + 3 /\ StepsLeft(j)' \in {Rest(i + 1) + 6, Rest(i + 1) + 7}
    BY <2>1, Places, PlacesNext
  <2>3. Rest(i) = Rest(i + 1) + 5 /\ Rest(i + 1) \in Nat
    BY <1>1, <2>1, RestFalls
  <2>. QED
    BY <2>2, <2>3
<1>6. CASE PlanOver(j)
  <2>1. worker[j] = "top" /\ worker'[j] = "ask"
    BY <1>3, <1>6 DEF PlanOver
  <2>2. StepsLeft(j) = Rest(i) + 3 /\ StepsLeft(j)' = 2
    BY <2>1, Places, PlacesNext
  <2>. QED
    BY <1>1, <2>2
<1>7. CASE CallGoesOn(j)
  <2>1. worker[j] = "call" /\ worker'[j] \in {"tool", "top", "err"} /\ iter'[j] = i
    BY <1>3, <1>7 DEF CallGoesOn
  <2>2. StepsLeft(j) = Rest(i) + 7 /\ StepsLeft(j)' \in {1, Rest(i) + 3, Rest(i) + 6}
    BY <2>1, Places, PlacesNext
  <2>. QED
    BY <1>1, <2>2
<1>8. CASE (TopExhausted(j) \/ SaysComplete(j) \/ AskIncomplete(j)) /\ ~ End(j)
  <2>1. worker[j] \in {"top", "call", "ask"} /\ Go(j, "err")
    BY <1>8 DEF TopExhausted, SaysComplete, AskIncomplete, MarkOrErr, AtTop
  <2>2. StepsLeft(j)' = 1
    BY <1>3, <2>1, PlacesNext
  <2>3. StepsLeft(j) \in {2, Rest(i) + 3, Rest(i) + 7}
    BY <2>1, Places
  <2>. QED
    BY <1>1, <2>2, <2>3
<1>9. CASE AskFails(j)
  <2>1. worker[j] = "ask" /\ worker'[j] = "err"
    BY <1>3, <1>9 DEF AskFails
  <2>. QED
    BY <2>1, Places, PlacesNext
<1>10. CASE ToolRefused(j) \/ Exec(j)
  <2>1. worker[j] \in {"tool", "exec"} /\ worker'[j] = "top" /\ iter'[j] = i
    BY <1>3, <1>10 DEF ToolRefused, Exec
  <2>2. StepsLeft(j) \in {Rest(i) + 4, Rest(i) + 6} /\ StepsLeft(j)' = Rest(i) + 3
    BY <2>1, Places, PlacesNext
  <2>. QED
    BY <1>1, <2>2
<1>11. CASE ToolBegin(j)
  <2>1. worker[j] = "tool" /\ worker'[j] = "hook" /\ iter'[j] = i
    BY <1>11 DEF ToolBegin, TypeOK
  <2>2. StepsLeft(j) = Rest(i) + 6 /\ StepsLeft(j)' = Rest(i) + 5
    BY <2>1, Places, PlacesNext
  <2>. QED
    BY <1>1, <2>2
<1>12. CASE Hook(j)
  <2>1. worker[j] = "hook" /\ worker'[j] \in {"top", "exec"} /\ iter'[j] = i
    BY <1>12 DEF Hook, TypeOK
  <2>2. StepsLeft(j) = Rest(i) + 5 /\ StepsLeft(j)' \in {Rest(i) + 3, Rest(i) + 4}
    BY <2>1, Places, PlacesNext
  <2>. QED
    BY <1>1, <2>2
<1>13. CASE TopStop(j) \/ TopCancelled(j) \/ Err(j) \/ Timeout(j)
  BY <1>2, <1>13 DEF TopStop, TopCancelled, Err, Timeout
<1>. QED
  BY <1>2, <1>4, <1>5, <1>6, <1>7, <1>8, <1>9, <1>10, <1>11, <1>12, <1>13 DEF WorkerStep

LEMMA StartIsNearer ==
  ASSUME TypeOK, TypeOK', NEW j \in Jobs, worker[j] = "none", StartWorker(j)
  PROVE  StepsLeft(j)' < StepsLeft(j)
<1>1. worker'[j] = "start" /\ iter'[j] = iter[j]
  BY DEF StartWorker, TypeOK
<1>2. StepsLeft(j) = Rest(iter[j]) + 9 /\ StepsLeft(j)' = Rest(iter[j]) + 8
  BY <1>1, Places, PlacesNext
<1>. QED
  BY <1>2, Places, RestFalls

LEMMA JobIsNearer ==
  ASSUME TypeOK, TypeOK', SchedInv, JobInv, [Next]_vars, NEW k \in Jobs
  PROVE  worker'[k] = worker[k] \/ StepsLeft(k)' < StepsLeft(k)
<1> DEFINE Goal == worker'[k] = worker[k] \/ StepsLeft(k)' < StepsLeft(k)
<1>1. ASSUME NEW j \in Jobs, JobStep(j) PROVE Goal
  <2>1. CASE WorkerStep(j) \/ Timeout(j)
    BY <2>1, OthersWait, WorkIsNearer
  <2>2. CASE CleanupCheck(j) \/ CleanupRemove(j)
    BY <2>2 DEF CleanupCheck, CleanupRemove, workVars
  <2>. QED
    BY <1>1, <2>1, <2>2 DEF JobStep
<1>2. ASSUME NEW j \in Jobs, MainStep(j) PROVE Goal
  BY <1>2 DEF MainStep, CreateLocal, CancelTool, CancelJob, HelpJob, HelpRecover, ExitNext, workVars
<1>3. ASSUME NEW j \in Jobs, NEW c \in Clients, ClientStep(c, j) PROVE Goal
  <2>1. CASE CreateJob(c, j) \/ SaveJob(c, j) \/ ScheduleRefused(c, j) \/ PollOver(c, j)
             \/ PollDeadline(c, j) \/ StopNothing(c, j) \/ StopBegin(c, j)
    BY <2>1 DEF CreateJob, SaveJob, ScheduleRefused, PollOver, PollDeadline, StopNothing,
       StopBegin, workVars
  <2>2. CASE ScheduleJob(c, j)
    <3>1. CASE Schedulable(j) /\ StartWorker(j)
      <4>1. worker[j] = "none"
        BY <2>2, <3>1, ScheduleStarts DEF ScheduleJob
      <4>. QED
        BY <3>1, <4>1, StartIsNearer, OthersWait
    <3>2. CASE UNCHANGED workVars
      BY <3>2 DEF workVars
    <3>. QED
      BY <2>2, <3>1, <3>2 DEF ScheduleJob
  <2>3. CASE StopFinish(c, j)
    <3>1. End(j)
      BY <2>3 DEF StopFinish
    <3>. QED
      BY <3>1, EndIsNearer, OthersWait
  <2>. QED
    BY <1>3, <2>1, <2>2, <2>3 DEF ClientStep, ClientGoesOn, ScheduleStep, StopStep
<1>4. CASE Exit \/ Exited \/ Detect \/ (\E s \in found : Repair(s))
           \/ (\E w \in writes : Write(w) \/ WriteFails(w)) \/ UNCHANGED vars
  BY <1>4 DEF Exit, Exited, Detect, Repair, Write, WriteFails, vars, workVars
<1>. QED
  BY <1>1, <1>2, <1>3, <1>4, StepCases

\* However a job is planned, executed, cancelled, stopped or recovered, its
\* execution is a bounded number of steps, for any limit of iterations: that is
\* what EntriesLeave rests on, with the fairness of its worker and cleanup task.
THEOREM JobRunsDown == Spec => JobComesNearer
<1>1. ASSUME NEW j \in Jobs
      PROVE  Spec => /\ [](StepsLeft(j) \in Nat)
                     /\ [][UNCHANGED worker[j] \/ StepsLeft(j)' < StepsLeft(j)]_vars
  <2>1. TypeOK /\ TypeOK' /\ SchedInv /\ JobInv /\ [Next]_vars
          => [UNCHANGED worker[j] \/ StepsLeft(j)' < StepsLeft(j)]_vars
    BY JobIsNearer
  <2>2. TypeOK => StepsLeft(j) \in Nat
    BY Places, RestFalls DEF WorkerPc
  <2>. QED
    BY <2>1, <2>2, JobCorrect, PTL DEF Spec
<1>. QED
  BY <1>1 DEF JobComesNearer
=============================================================================
