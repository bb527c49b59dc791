------------------------ MODULE ContainerLinkProofs ------------------------
(***************************************************************************)
(* Prompts and events of a container job, for any numbers of them, any     *)
(* capacities and any number of iterations.  The prompts received, the one *)
(* in an answer and those in the queue are one increasing line; what the   *)
(* agent loop has heard, what is in its channel and what the monitor holds *)
(* is another.  Each is a Delivery, and a worker ends in a bounded number  *)
(* of steps.                                                               *)
(***************************************************************************)
EXTENDS ContainerLink, SequenceTheorems, TLAPS

-----------------------------------------------------------------------------
(* Types *)

Kinds == {"message", "result", "other"}

RuntimeType ==
  /\ mode \in {"worker", "claude"}
  /\ worker \in [at : Places[mode], iteration : Nat \ {0}]
  /\ mode = "worker" => worker.iteration <= MaxIterations

PromptType ==
  /\ queue \in Seq(1..MaxPrompts) /\ got \in Seq(1..MaxPrompts)
  /\ pushed \in 0..MaxPrompts /\ final \subseteq 1..pushed
  /\ poll \in {"none", "sent", "prompt", "empty", "refused"}
  /\ answer \in 0..MaxPrompts /\ (poll = "prompt" <=> answer # 0)

MonitorRecord ==
  [at : {"none", "watch", "push", "ended"}, first : Nat \ {0}, next : Nat \ {0}]

EventType ==
  /\ log \in Seq(Kinds)
  /\ monitor \in MonitorRecord
  /\ inbox \in Seq(Nat) /\ Len(inbox) <= Room /\ heard \in Seq(Nat)

FlagType == token \in BOOLEAN /\ loop \in BOOLEAN /\ cut \in BOOLEAN /\ lagged \in BOOLEAN

Parts == RuntimeType /\ PromptType /\ EventType /\ FlagType

LEMMA TypeParts == TypeOK <=> Parts
  BY DEF TypeOK, Parts, RuntimeType, PromptType, EventType, MonitorRecord, FlagType, Kinds

LEMMA TypePartsNext == TypeOK' <=> Parts'
  BY DEF TypeOK, Parts, RuntimeType, PromptType, EventType, MonitorRecord, FlagType, Kinds

\* A runtime goes to a place of its own mode.
LEMMA GoType ==
  ASSUME RuntimeType, NEW phase \in Places[mode], Go(phase), UNCHANGED mode
  PROVE  RuntimeType'
BY DEF RuntimeType, Go

\* post_event changes at most the log, by one event, and cut.
LEMMA PostType ==
  ASSUME TypeOK, NEW kind \in Kinds, Post(kind)
  PROVE  /\ log' \in Seq(Kinds) /\ cut' \in BOOLEAN
         /\ log' = log \/ log' = Append(log, kind)
         /\ cut => cut'
<1>1. log \in Seq(Kinds) /\ cut \in BOOLEAN
  BY DEF TypeOK, Kinds
<1>2. Append(log, kind) \in Seq(Kinds)
  BY <1>1, AppendProperties
<1>3. CASE token /\ log' = Append(log, kind) /\ UNCHANGED cut
  BY <1>1, <1>2, <1>3
<1>4. CASE log' = log /\ cut' \in {TRUE, cut}
  BY <1>1, <1>4
<1>. QED
  BY <1>3, <1>4 DEF Post

\* The monitor changes its state or goes on to another event.
LEMMA MonitorType ==
  ASSUME EventType, NEW phase \in {"watch", "push", "ended"}, NEW n \in Nat \ {0}
  PROVE  /\ [monitor EXCEPT !.next = n] \in MonitorRecord
         /\ [monitor EXCEPT !.at = phase, !.next = n] \in MonitorRecord
         /\ [monitor EXCEPT !.at = phase, !.first = n, !.next = n] \in MonitorRecord
BY DEF EventType, MonitorRecord

\* What most steps leave alone keeps its type.
LEMMA PromptTypeKept == PromptType /\ UNCHANGED <<prompts, asking, got>> => PromptType'
  BY DEF PromptType, prompts, asking

LEMMA ForgetType == PromptType /\ Forget /\ UNCHANGED <<prompts, got>> => PromptType'
  BY LinkAssumption DEF PromptType, prompts, Forget

LEMMA EventTypeKept == EventType /\ log' \in Seq(Kinds) /\ UNCHANGED agent => EventType'
  BY DEF EventType, agent

LEMMA RuntimeTypeKept == RuntimeType /\ UNCHANGED <<mode, worker>> => RuntimeType'
  BY DEF RuntimeType

\* A step of the runtime that tells of nothing
LEMMA MoveType ==
  ASSUME TypeOK, RuntimeType', PromptType', UNCHANGED <<log, agent>>,
         token' \in BOOLEAN, cut' \in BOOLEAN
  PROVE  TypeOK'
<1>1. EventType' /\ FlagType'
  BY TypeParts, EventTypeKept DEF Parts, EventType, FlagType, agent
<1>. QED
  BY <1>1, TypePartsNext DEF Parts

\* A step of the runtime that may tell of something
LEMMA TellType ==
  ASSUME TypeOK, RuntimeType', NEW kind \in Kinds, Post(kind),
         UNCHANGED <<token, prompts, asking, got, agent>>
  PROVE  TypeOK'
<1>1. EventType' /\ FlagType' /\ PromptType'
  BY TypeParts, PostType, EventTypeKept, PromptTypeKept DEF Parts, FlagType, agent
<1>. QED
  BY <1>1, TypePartsNext DEF Parts

\* A step of the monitor or of the agent loop
LEMMA AgentType ==
  ASSUME TypeOK, UNCHANGED <<mode, worker, token, prompts, asking, got, cut>>,
         EventType', loop' \in BOOLEAN, lagged' \in BOOLEAN
  PROVE  TypeOK'
<1>1. RuntimeType' /\ PromptType' /\ FlagType'
  BY TypeParts, RuntimeTypeKept, PromptTypeKept DEF Parts, FlagType
<1>. QED
  BY <1>1, TypePartsNext DEF Parts

\* The channel between the user and the container
LEMMA PromptStepType == TypeOK /\ (Push \/ Serve \/ Poll) => TypeOK'
<1> SUFFICES ASSUME TypeOK, Push \/ Serve \/ Poll PROVE TypeOK'
  OBVIOUS
<1>0. Parts
  BY TypeParts
<1>1. PromptType'
  <2>1. CASE Push
    <3>1. pushed' \in 1..MaxPrompts /\ pushed' = pushed + 1
      BY <1>0, <2>1, LinkAssumption DEF Push, Parts, PromptType
    <3>2. Append(queue, pushed') \in Seq(1..MaxPrompts)
      BY <1>0, <3>1, AppendProperties DEF Parts, PromptType
    <3>3. final' \subseteq 1..pushed'
      <4>1. final \subseteq 1..pushed' /\ pushed' \in 1..pushed'
        BY <1>0, <3>1 DEF Parts, PromptType
      <4>2. final' = final \/ final' = final \cup {pushed'}
        BY <2>1 DEF Push
      <4>. QED
        BY <4>1, <4>2
    <3>. QED
      BY <1>0, <2>1, <3>1, <3>2, <3>3 DEF Push, Parts, PromptType, asking
  <2>2. CASE Serve
    <3>1. ASSUME queue # << >>
          PROVE  Head(queue) \in 1..MaxPrompts /\ Tail(queue) \in Seq(1..MaxPrompts)
      BY <1>0, <3>1, HeadTailProperties DEF Parts, PromptType
    <3>2. Head(queue) \in 1..MaxPrompts => Head(queue) \in 0..MaxPrompts /\ Head(queue) # 0
      BY LinkAssumption
    <3>. QED
      BY <1>0, <2>2, <3>1, <3>2 DEF Serve, Parts, PromptType
  <2>3. CASE Poll
    BY <1>0, <2>3 DEF Poll, Parts, PromptType, prompts
  <2>. QED
    BY <2>1, <2>2, <2>3
<1>2. UNCHANGED <<mode, worker, token, log, agent, cut>>
  BY DEF Push, Serve, Poll
<1>. QED
  BY <1>0, <1>1, <1>2, RuntimeTypeKept, MoveType DEF Parts, FlagType

\* The steps of the runtime that tell of nothing
LEMMA MoveStepType ==
  ASSUME TypeOK, Boot \/ Receive \/ PollFails \/ ReceivePrompt \/ TimesOut \/ SessionEnds \/ Report
                   \/ Stop \/ Restart
  PROVE  TypeOK'
<1>0. RuntimeType /\ PromptType /\ FlagType /\ Parts
  BY TypeParts DEF Parts
<1>1. CASE Boot
  <2>1. RuntimeType'
    BY <1>0, <1>1, GoType DEF Boot, Places, RuntimeType
  <2>. QED
    BY <1>0, <1>1, <2>1, PromptTypeKept, MoveType DEF Boot, FlagType
<1>2. CASE Receive \/ PollFails \/ TimesOut
  <2>1. RuntimeType'
    BY <1>0, <1>2, GoType DEF Receive, PollFails, TimesOut, Places, RuntimeType
  <2>2. PromptType' /\ UNCHANGED <<token, log, agent>> /\ cut' \in BOOLEAN
    BY <1>0, <1>2, ForgetType DEF Receive, PollFails, TimesOut, FlagType
  <2>. QED
    BY <1>0, <2>1, <2>2, MoveType DEF FlagType
<1>3. CASE ReceivePrompt
  <2>1. RuntimeType'
    <3>1. CASE worker' = [at |-> "session", iteration |-> worker.iteration + 1] /\ mode = "claude"
      BY <1>0, <1>3, <3>1 DEF ReceivePrompt, Places, RuntimeType
    <3>2. CASE mode = "worker" /\ Go("tell")
      BY <1>0, <1>3, <3>2, GoType DEF ReceivePrompt, Places
    <3>3. CASE mode = "claude" /\ Go("report")
      BY <1>0, <1>3, <3>3, GoType DEF ReceivePrompt, Places
    <3>. QED
      BY <1>3, <3>1, <3>2, <3>3 DEF ReceivePrompt
  <2>2. answer \in 1..MaxPrompts
    BY <1>0, <1>3 DEF ReceivePrompt, PromptType
  <2>3. got' \in Seq(1..MaxPrompts)
    BY <1>0, <1>3, <2>2, AppendProperties DEF ReceivePrompt, PromptType
  <2>4. PromptType'
    BY <1>0, <1>3, <2>3, LinkAssumption DEF ReceivePrompt, Forget, PromptType, prompts
  <2>. QED
    BY <1>0, <1>3, <2>1, <2>4, MoveType DEF ReceivePrompt, FlagType
<1>4. CASE SessionEnds
  <2>1. mode = "claude"
    BY <1>0, <1>4 DEF SessionEnds, At, RuntimeType, Places
  <2>2. RuntimeType'
    BY <1>0, <1>4, <2>1, GoType DEF SessionEnds, Failed, Places
  <2>. QED
    BY <1>0, <1>4, <2>2, PromptTypeKept, MoveType DEF SessionEnds, FlagType
<1>5. CASE Report
  <2>1. RuntimeType'
    BY <1>0, <1>5, GoType DEF Report, Places, RuntimeType
  <2>. QED
    BY <1>0, <1>5, <2>1, PromptTypeKept, MoveType DEF Report, FlagType
<1>6. CASE Stop
  <2>1. RuntimeType'
    BY <1>0, <1>6, GoType, RuntimeTypeKept DEF Stop, Places, RuntimeType
  <2>2. PromptType'
    BY <1>0, <1>6, ForgetType, PromptTypeKept DEF Stop
  <2>. QED
    BY <1>0, <1>6, <2>1, <2>2, MoveType DEF Stop, FlagType
<1>7. CASE Restart
  <2>1. RuntimeType' /\ PromptType'
    BY <1>0, <1>7, RuntimeTypeKept, EmptySeq DEF Restart, PromptType, asking
  <2>2. EventType'
    <3>1. << >> \in Seq(Nat) /\ Len(<< >>) <= Room
      BY LinkAssumption, EmptySeq
    <3>2. EventType
      BY <1>0 DEF Parts
    <3>3. monitor' \in MonitorRecord
      BY <1>7, <3>2 DEF Restart, EventType, MonitorRecord
    <3>. QED
      BY <1>7, <3>1, <3>2, <3>3 DEF Restart, EventType
  <2>. QED
    BY <1>0, <1>7, <2>1, <2>2, TypePartsNext DEF Restart, FlagType, Parts
<1>. QED
  BY <1>1, <1>2, <1>3, <1>4, <1>5, <1>6, <1>7

\* The steps of the runtime that may tell of something, and other jobs
LEMMA TellStepType ==
  ASSUME TypeOK, Tell \/ Think \/ Output \/ Result \/ OtherJob
  PROVE  TypeOK'
<1>0. RuntimeType /\ PromptType /\ EventType /\ FlagType /\ Parts
  BY TypeParts DEF Parts
<1>1. CASE Tell
  <2>1. RuntimeType'
    BY <1>0, <1>1, GoType DEF Tell, Places, RuntimeType
  <2>. QED
    BY <1>1, <2>1, TellType DEF Tell, Kinds
<1>2. CASE Think
  <2>1. mode = "worker" /\ worker.iteration \in Nat /\ MaxIterations \in Nat
        /\ worker.iteration <= MaxIterations
    BY <1>0, <1>2, LinkAssumption DEF Think, At, RuntimeType, Places
  <2>2. CASE Answered
    <3>1. PICK kind \in {"message", "other"} :
            /\ Post(kind)
            /\ \/ Go("result")
               \/ /\ worker.iteration < MaxIterations
                  /\ worker' = [at |-> "poll", iteration |-> worker.iteration + 1]
      BY <2>2 DEF Answered
    <3>4. RuntimeType'
      <4>1. CASE Go("result")
        BY <1>0, <1>2, <2>1, <4>1, GoType DEF Think, Places
      <4>2. CASE /\ worker.iteration < MaxIterations
                 /\ worker' = [at |-> "poll", iteration |-> worker.iteration + 1]
        <5>1. worker.iteration + 1 \in Nat \ {0} /\ worker.iteration + 1 <= MaxIterations
          BY <2>1, <4>2
        <5>2. worker' \in [at : Places["worker"], iteration : Nat \ {0}]
              /\ worker'.iteration <= MaxIterations
          BY <4>2, <5>1 DEF Places
        <5>3. mode' = "worker"
          BY <1>2, <2>1 DEF Think
        <5>. QED
          BY <5>2, <5>3 DEF RuntimeType
      <4>. QED
        BY <3>1, <4>1, <4>2
    <3>. QED
      BY <1>2, <3>1, <3>4, TellType DEF Think, Kinds
  <2>3. CASE Go("result") /\ UNCHANGED <<log, cut>>
    <3>1. RuntimeType'
      BY <1>0, <1>2, <2>1, <2>3, GoType DEF Think, Places
    <3>. QED
      BY <1>0, <1>2, <2>3, <3>1, PromptTypeKept, MoveType DEF Think, FlagType
  <2>. QED
    BY <1>2, <2>2, <2>3 DEF Think
<1>3. CASE Output
  <2>1. PICK kind \in {"message", "result", "other"} : Post(kind)
    BY <1>3 DEF Output
  <2>2. RuntimeType'
    BY <1>0, <1>3, RuntimeTypeKept DEF Output
  <2>. QED
    BY <1>3, <2>1, <2>2, TellType DEF Output, Kinds
<1>4. CASE Result
  <2>1. RuntimeType'
    <3>1. CASE mode = "worker" /\ Go("report")
      BY <1>0, <1>4, <3>1, GoType DEF Result, Places
    <3>2. CASE mode = "claude" /\ (Go("poll") \/ Go(Failed))
      BY <1>0, <1>4, <3>2, GoType DEF Result, Failed, Places
    <3>. QED
      BY <1>4, <3>1, <3>2 DEF Result
  <2>. QED
    BY <1>4, <2>1, TellType DEF Result, Kinds
<1>5. CASE OtherJob
  <2>1. log' \in Seq(Kinds)
    BY <1>0, <1>5, AppendProperties DEF OtherJob, EventType, Kinds
  <2>2. EventType' /\ UNCHANGED <<loop, lagged>>
    BY <1>0, <1>5, <2>1, EventTypeKept DEF OtherJob, agent
  <2>. QED
    BY <1>0, <1>5, <2>2, AgentType DEF OtherJob, FlagType
<1>. QED
  BY <1>1, <1>2, <1>3, <1>4, <1>5

\* The steps of the monitor and of the agent loop
LEMMA AgentStepType ==
  ASSUME TypeOK, Subscribe \/ Lag \/ Watch \/ Inject \/ Hear \/ Quit
  PROVE  TypeOK'
<1>0. EventType /\ FlagType
  BY TypeParts DEF Parts
<1>1. Len(log) \in Nat /\ Ring \in Nat
  BY <1>0, LenProperties, LinkAssumption DEF EventType
<1>2. CASE Subscribe
  <2>0. Len(log) + 1 \in Nat \ {0}
    BY <1>1
  <2>1. monitor' \in MonitorRecord
    BY <1>0, <1>2, <2>0, MonitorType DEF Subscribe
  <2>2. EventType'
    BY <1>0, <1>2, <2>1 DEF Subscribe, EventType
  <2>. QED
    BY <1>0, <1>2, <2>2, AgentType DEF Subscribe, FlagType
<1>3. CASE Lag
  <2>1. monitor.next \in Nat \ {0}
    BY <1>0 DEF EventType, MonitorRecord
  <2>2. Len(log) - Ring + 1 \in Nat \ {0}
    BY <1>1, <1>3, <2>1 DEF Lag, Behind
  <2>3. monitor' \in MonitorRecord
    BY <1>0, <1>3, <2>2, MonitorType DEF Lag
  <2>4. EventType'
    BY <1>0, <1>3, <2>3 DEF Lag, EventType
  <2>. QED
    BY <1>0, <1>3, <2>4, AgentType DEF Lag, FlagType
<1>4. CASE Watch
  <2>1. monitor.next + 1 \in Nat \ {0}
    BY <1>0 DEF EventType, MonitorRecord
  <2>2. monitor' \in MonitorRecord
    BY <1>0, <1>4, <2>1, MonitorType DEF Watch
  <2>3. EventType'
    BY <1>0, <1>4, <2>2 DEF Watch, EventType
  <2>. QED
    BY <1>0, <1>4, <2>3, AgentType DEF Watch, FlagType
<1>5. CASE Inject
  <2>1. Held \in Nat
    BY <1>0 DEF Held, EventType, MonitorRecord
  <2>2. Len(inbox) < Room => Append(inbox, Held) \in Seq(Nat) /\ Len(Append(inbox, Held)) <= Room
    BY <1>0, <2>1, AppendProperties, LenProperties, LinkAssumption DEF EventType
  <2>3. inbox' \in Seq(Nat) /\ Len(inbox') <= Room
    BY <1>0, <1>5, <2>2 DEF Inject, EventType
  <2>4. \E phase \in {"watch", "ended"} : monitor' = [monitor EXCEPT !.at = phase]
    BY <1>5 DEF Inject
  <2>5. monitor' \in MonitorRecord
    BY <1>0, <2>4 DEF EventType, MonitorRecord
  <2>6. EventType'
    BY <1>0, <1>5, <2>3, <2>5 DEF Inject, EventType
  <2>. QED
    BY <1>0, <1>5, <2>6, AgentType DEF Inject, FlagType
<1>6. CASE Hear
  <2>1. EventType'
    <3>1. Head(inbox) \in Nat /\ Tail(inbox) \in Seq(Nat) /\ Len(Tail(inbox)) = Len(inbox) - 1
      BY <1>0, <1>6, HeadTailProperties DEF Hear, EventType
    <3>2. Append(heard, Head(inbox)) \in Seq(Nat) /\ Len(inbox) \in Nat
      BY <1>0, <3>1, AppendProperties, LenProperties DEF EventType
    <3>. QED
      BY <1>0, <1>6, <3>1, <3>2, LinkAssumption DEF Hear, EventType
  <2>. QED
    BY <1>0, <1>6, <2>1, AgentType DEF Hear, FlagType
<1>7. CASE Quit
  <2>1. EventType'
    BY <1>0, <1>7, LinkAssumption, EmptySeq DEF Quit, EventType
  <2>. QED
    BY <1>0, <1>7, <2>1, AgentType DEF Quit, FlagType
<1>. QED
  BY <1>2, <1>3, <1>4, <1>5, <1>6, <1>7

LEMMA TypeInit == Init => TypeOK
<1> SUFFICES ASSUME Init PROVE TypeOK
  OBVIOUS
<1>1. << >> \in Seq(1..MaxPrompts) /\ << >> \in Seq(Nat) /\ << >> \in Seq(Kinds) /\ Len(<< >>) = 0
  BY EmptySeq
<1>2. RuntimeType
  BY LinkAssumption DEF Init, RuntimeType, Places
<1>3. PromptType
  BY <1>1, LinkAssumption DEF Init, PromptType
<1>4. EventType
  BY <1>1, LinkAssumption DEF Init, EventType, MonitorRecord
<1>. QED
  BY <1>2, <1>3, <1>4, TypeParts DEF Init, Parts, FlagType

LEMMA TypeStep == TypeOK /\ [Next]_vars => TypeOK'
<1> SUFFICES ASSUME TypeOK, [Next]_vars PROVE TypeOK'
  OBVIOUS
<1>1. CASE UNCHANGED vars
  BY <1>1 DEF vars, prompts, asking, agent, TypeOK
<1>2. CASE Next
  BY <1>2, PromptStepType, MoveStepType, TellStepType, AgentStepType DEF Next, Runtime, Monitor
<1>. QED
  BY <1>1, <1>2

\* The runtime is at a place of its own mode, an answer is there exactly when a
\* prompt was given, and the inject channel never holds more than it has room for.
THEOREM TypeCorrect == Spec => []TypeOK
  BY TypeInit, TypeStep, PTL DEF Spec
-----------------------------------------------------------------------------
(* Prompts *)

\* The prompts that have been taken from the queue, or lost with it
Served == pushed - Len(queue)

\* The queue holds the last prompts that have come, in their order.
InQueue == Len(queue) <= pushed /\ \A i \in 1..Len(queue) : queue[i] = Served + i

\* What the container has received comes before what is in an answer, and that
\* before the queue.
InOrder ==
  /\ answer <= Served
  /\ \A i \in 1..Len(got) : got[i] <= Served /\ (answer # 0 => got[i] < answer)
  /\ \A i \in 1..Len(got) - 1 : got[i] < got[i + 1]

\* While no connection has failed every prompt taken is received or in the
\* answer, unless a timeout or the end of the container has dropped that.
NoGap ==
  /\ \A i \in 1..Len(got) : got[i] = i
  /\ answer \in {0, Served}
  /\ Left \/ Served = Len(got) + (IF answer = 0 THEN 0 ELSE 1)

\* The bridge leaves its loop with a prompt that says done.
DoneLast ==
  mode = "claude" =>
    /\ \A i \in 1..Len(got) - 1 : got[i] \notin final
    /\ (\E i \in 1..Len(got) : got[i] \in final) => worker.at \in {"report", "over"}

Line == InQueue /\ InOrder /\ (cut \/ NoGap) /\ DoneLast

\* The lengths and numbers that the steps calculate with
LEMMA LineTypes ==
  ASSUME TypeOK
  PROVE  /\ Len(queue) \in Nat /\ Len(got) \in Nat /\ pushed \in Nat /\ answer \in Nat
         /\ \A i \in 1..Len(queue) : queue[i] \in Nat
         /\ \A i \in 1..Len(got) : got[i] \in 1..MaxPrompts /\ got[i] \in Nat
         /\ Served \in Int
<1>1. queue \in Seq(1..MaxPrompts) /\ got \in Seq(1..MaxPrompts) /\ pushed \in Nat /\ answer \in Nat
  BY LinkAssumption DEF TypeOK
<1>2. Len(queue) \in Nat /\ Len(got) \in Nat
  BY <1>1, LenProperties
<1>3. /\ \A i \in 1..Len(queue) : queue[i] \in 1..MaxPrompts
      /\ \A i \in 1..Len(got) : got[i] \in 1..MaxPrompts
  BY <1>1, ElementOfSeq
<1>. QED
  BY <1>1, <1>2, <1>3, LinkAssumption DEF Served

LEMMA LineInit == Init => Line
<1> SUFFICES ASSUME Init PROVE Line
  OBVIOUS
<1>1. Len(queue) = 0 /\ Len(got) = 0
  BY EmptySeq DEF Init
<1>2. pushed = 0 /\ answer = 0
  BY DEF Init
<1>3. Served = 0
  BY <1>1, <1>2 DEF Served
<1>. QED
  BY <1>1, <1>2, <1>3 DEF Line, InQueue, InOrder, NoGap, DoneLast

\* A step that moves neither prompts nor requests, and does not bring a runtime
\* back to its loop
LEMMA LineKept ==
  ASSUME Line, UNCHANGED <<mode, prompts, asking, got>>, cut => cut', Left => Left',
         worker.at \in {"report", "over"} => worker'.at \in {"report", "over"}
  PROVE  Line'
BY DEF Line, InQueue, InOrder, NoGap, DoneLast, Served, prompts, asking

\* The place of a runtime that goes on
LEMMA GoAt ==
  ASSUME TypeOK, NEW phase, Go(phase)
  PROVE  worker'.at = phase
BY DEF TypeOK, Go

\* jobs_prompt_handler: the number of a prompt that comes is greater than any.
LEMMA PushLine == ASSUME TypeOK, Line, Push PROVE Line'
<1>0. /\ Len(queue) \in Nat /\ Len(got) \in Nat /\ pushed \in Nat /\ answer \in Nat
      /\ \A i \in 1..Len(got) : got[i] \in Nat
  BY LineTypes
<1>1. /\ pushed' = pushed + 1 /\ pushed' \in 1..MaxPrompts
      /\ queue' = Append(queue, pushed') /\ UNCHANGED <<mode, worker, answer, got, cut>>
  BY <1>0, LinkAssumption DEF Push, asking, TypeOK
<1>2. /\ Len(queue') = Len(queue) + 1
      /\ \A i \in 1..Len(queue) : queue'[i] = queue[i]
      /\ queue'[Len(queue) + 1] = pushed'
  BY <1>1, AppendProperties DEF TypeOK
<1>3. Served' = Served
  BY <1>0, <1>1, <1>2 DEF Served
<1>4. InQueue'
  <2>1. Len(queue') <= pushed' /\ pushed' = Served + (Len(queue) + 1)
    BY <1>0, <1>1, <1>2 DEF Line, InQueue, Served
  <2>2. ASSUME NEW i \in 1..Len(queue') PROVE queue'[i] = Served + i
    <3>1. i \in 1..Len(queue) \/ i = Len(queue) + 1
      BY <1>0, <1>2
    <3>. QED
      BY <1>2, <2>1, <3>1 DEF Line, InQueue
  <2>. QED
    BY <1>3, <2>1, <2>2 DEF InQueue
<1>5. InOrder' /\ (cut \/ NoGap)'
  BY <1>1, <1>3 DEF Line, InOrder, NoGap, Left
<1>6. DoneLast'
  <2>1. \A i \in 1..Len(got) : got[i] # pushed'
    BY <1>0, <1>1 DEF Line, InOrder, InQueue, Served
  <2>2. final' \subseteq final \cup {pushed'}
    BY DEF Push
  <2>. QED
    BY <1>1, <2>1, <2>2 DEF Line, DoneLast
<1>. QED
  BY <1>4, <1>5, <1>6 DEF Line

\* get_prompt_handler: the head of the queue follows everything received.
LEMMA ServeLine == ASSUME TypeOK, Line, Serve PROVE Line'
<1>0. /\ Len(queue) \in Nat /\ Len(got) \in Nat /\ pushed \in Nat /\ answer \in Nat
      /\ \A i \in 1..Len(got) : got[i] \in Nat
  BY LineTypes
<1>1. UNCHANGED <<mode, worker, pushed, final, got, cut>> /\ answer = 0
  BY DEF Serve, TypeOK
<1>2. CASE queue # << >> /\ answer' = Head(queue) /\ queue' = Tail(queue)
  <2>1. /\ Len(queue') = Len(queue) - 1
        /\ \A i \in 1..Len(queue') : queue'[i] = queue[i + 1]
        /\ Len(queue) # 0 /\ answer' = queue[1]
    BY <1>2, HeadTailProperties, EmptySeq DEF TypeOK
  <2>2. Served' = Served + 1 /\ answer' = Served' /\ Served \in Nat
    BY <1>0, <1>1, <2>1 DEF Served, Line, InQueue
  <2>3. InQueue'
    BY <1>0, <1>1, <2>1, <2>2 DEF Line, InQueue
  <2>4. InOrder'
    BY <1>0, <1>1, <2>2 DEF Line, InOrder
  <2>5. NoGap => NoGap'
    BY <1>0, <1>1, <2>2 DEF NoGap, Left
  <2>. QED
    BY <1>1, <2>3, <2>4, <2>5 DEF Line, DoneLast
<1>3. CASE UNCHANGED <<queue, answer>>
  BY <1>1, <1>3, LineKept DEF prompts, asking, Left, Line, InQueue, InOrder, NoGap, DoneLast, Served
<1>. QED
  BY <1>2, <1>3 DEF Serve

\* The runtime has its answer, and goes on with the prompt.
LEMMA ReceivePromptLine == ASSUME TypeOK, Line, ReceivePrompt PROVE Line'
<1>0. /\ Len(queue) \in Nat /\ Len(got) \in Nat /\ pushed \in Nat /\ answer \in Nat
      /\ \A i \in 1..Len(got) : got[i] \in Nat /\ Served \in Int
  BY LineTypes
<1>1. /\ UNCHANGED <<mode, queue, pushed, final, cut>> /\ got' = Append(got, answer) /\ answer' = 0
      /\ answer \in 1..MaxPrompts /\ answer # 0 /\ worker.at = "poll"
  BY DEF ReceivePrompt, Forget, prompts, TypeOK, At
<1>2. /\ Len(got') = Len(got) + 1
      /\ \A i \in 1..Len(got) : got'[i] = got[i]
      /\ got'[Len(got) + 1] = answer
  BY <1>1, AppendProperties DEF TypeOK
<1>3. Served' = Served /\ ~ Left /\ Served \in Nat
  BY <1>0, <1>1 DEF Served, Left, Line, InQueue
<1>4. InQueue'
  BY <1>1, <1>3 DEF Line, InQueue
<1>5. InOrder'
  <2>1. answer' <= Served'
    BY <1>1, <1>3
  <2>2. \A i \in 1..Len(got') : got'[i] <= Served'
    BY <1>0, <1>1, <1>2, <1>3 DEF Line, InOrder
  <2>3. \A i \in 1..Len(got') - 1 : got'[i] < got'[i + 1]
    <3> SUFFICES ASSUME NEW i \in 1..Len(got) PROVE got'[i] < got'[i + 1]
      BY <1>0, <1>2
    <3>1. CASE i = Len(got)
      BY <1>0, <1>1, <1>2, <3>1 DEF Line, InOrder
    <3>2. CASE i # Len(got)
      <4>1. i \in 1..Len(got) - 1 /\ i + 1 \in 1..Len(got)
        BY <1>0, <3>2
      <4>. QED
        BY <1>2, <4>1 DEF Line, InOrder
    <3>. QED
      BY <3>1, <3>2
  <2>. QED
    BY <1>1, <2>1, <2>2, <2>3 DEF InOrder
<1>6. NoGap => NoGap'
  BY <1>0, <1>1, <1>2, <1>3 DEF NoGap
<1>7. DoneLast'
  <2>1. ASSUME mode = "claude"
        PROVE  \A i \in 1..Len(got) : got[i] \notin final /\ got'[i] \notin final'
    BY <1>1, <1>2, <2>1 DEF Line, DoneLast
  <2>2. CASE mode = "worker"
    BY <1>1, <2>2 DEF DoneLast
  <2>3. CASE mode = "claude" /\ answer \in final /\ Go("report")
    <3>1. worker'.at = "report"
      BY <2>3, GoAt
    <3>2. \A i \in 1..Len(got') - 1 : got'[i] \notin final'
      BY <1>0, <1>2, <2>1, <2>3
    <3>. QED
      BY <3>1, <3>2 DEF DoneLast
  <2>4. CASE mode = "claude" /\ answer \notin final
    <3>1. \A i \in 1..Len(got) : got[i] \notin final
      BY <2>1, <2>4
    <3>2. \A i \in 1..Len(got') : got'[i] \notin final'
      BY <1>0, <1>1, <1>2, <2>4, <3>1
    <3>. QED
      BY <3>2 DEF DoneLast
  <2>. QED
    BY <2>2, <2>3, <2>4 DEF ReceivePrompt
<1>. QED
  BY <1>1, <1>4, <1>5, <1>6, <1>7 DEF Line

\* A request is sent, answered without a prompt, or lost.
LEMMA RequestLine == ASSUME TypeOK, Line, Poll \/ Receive \/ PollFails \/ TimesOut PROVE Line'
<1>1. CASE Poll
  BY <1>1 DEF Poll, Line, InQueue, InOrder, NoGap, DoneLast, Served, Left, prompts
<1>2. CASE Receive
  <2>1. answer = 0 /\ answer' = 0 /\ worker.at = "poll" /\ UNCHANGED <<mode, prompts, got, cut>>
    BY <1>2 DEF Receive, Forget, At, TypeOK
  <2>. QED
    BY <2>1 DEF Line, InQueue, InOrder, NoGap, DoneLast, Served, Left, prompts
<1>3. CASE PollFails \/ TimesOut
  <2>1. answer' = 0 /\ UNCHANGED <<mode, prompts, got>> /\ worker.at \notin {"report", "over"}
        /\ (mode = "worker" => worker.at \notin {"report", "over"})
    BY <1>3 DEF PollFails, TimesOut, Forget, At
  <2>2. InQueue' /\ InOrder' /\ DoneLast'
    <3>1. Served' = Served /\ Served \in Nat
      BY <2>1, LineTypes DEF Served, prompts, Line, InQueue
    <3>2. DoneLast'
      BY <2>1 DEF Line, DoneLast, prompts
    <3>. QED
      BY <2>1, <3>1, <3>2 DEF Line, InQueue, InOrder, prompts
  <2>3. CASE PollFails
    BY <2>2, <2>3 DEF PollFails, Line
  <2>4. CASE TimesOut
    <3>1. Left' /\ UNCHANGED cut
      BY <2>4, GoAt DEF TimesOut, Left
    <3>2. NoGap => NoGap'
      BY <2>1, <3>1 DEF NoGap
    <3>. QED
      BY <2>2, <3>1, <3>2 DEF Line
  <2>. QED
    BY <1>3, <2>3, <2>4
<1>. QED
  BY <1>1, <1>2, <1>3

\* The container is killed, or the orchestrator restarts and forgets its queue.
LEMMA EndLine == ASSUME TypeOK, Line, Stop \/ Restart PROVE Line'
<1>0. Len(queue) \in Nat /\ pushed \in Nat /\ Served \in Nat
  BY LineTypes DEF Line, InQueue, Served
<1>1. CASE Stop
  <2>1. UNCHANGED <<mode, prompts, got, cut>>
    BY <1>1 DEF Stop
  <2>2. CASE Go("over") /\ Forget
    <3>1. worker'.at = "over" /\ answer' = 0
      BY <2>2, GoAt DEF Forget
    <3>2. Served' = Served
      BY <2>1 DEF Served, prompts
    <3>. QED
      BY <1>0, <2>1, <3>1, <3>2 DEF Line, InQueue, InOrder, NoGap, DoneLast, Left, prompts
  <2>3. CASE UNCHANGED <<worker, asking>>
    BY <2>1, <2>3, LineKept DEF Left
  <2>. QED
    BY <1>1, <2>2, <2>3 DEF Stop
<1>2. CASE Restart
  <2>1. Len(queue') = 0 /\ cut' /\ UNCHANGED <<mode, worker, pushed, final, answer, got>>
    BY <1>2, EmptySeq DEF Restart, asking
  <2>2. Served' = pushed /\ Served <= Served'
    BY <1>0, <2>1 DEF Served
  <2>3. InQueue'
    BY <1>0, <2>1, <2>2 DEF InQueue
  <2>4. InOrder'
    BY <1>0, <2>1, <2>2, LineTypes DEF Line, InOrder
  <2>. QED
    BY <2>1, <2>3, <2>4 DEF Line, DoneLast
<1>. QED
  BY <1>1, <1>2

\* Nothing else brings a runtime back to its loop.
LEMMA GoneStays ==
  ASSUME TypeOK, Boot \/ Tell \/ Think \/ Output \/ SessionEnds \/ Result \/ Report
  PROVE  /\ UNCHANGED <<mode, prompts, asking, got>>
         /\ cut => cut'
         /\ Left => Left'
         /\ worker.at \in {"report", "over"} => worker'.at \in {"report", "over"}
<1>0. mode \in {"worker", "claude"} /\ \A phase : Go(phase) => worker'.at = phase
  BY GoAt DEF TypeOK
<1>1. CASE Boot
  BY <1>0, <1>1 DEF Boot, At, Left
<1>2. ASSUME Tell PROVE cut => cut'
  BY <1>2, PostType DEF Tell, Kinds
<1>3. CASE Tell
  BY <1>2, <1>3 DEF Tell, At, Left
<1>4. ASSUME Think PROVE cut => cut'
  <2>1. ASSUME NEW kind \in {"message", "other"}, Post(kind) PROVE cut => cut'
    BY <2>1, PostType DEF Kinds
  <2>. QED
    BY <1>4, <2>1 DEF Think, Answered
<1>5. CASE Think
  BY <1>4, <1>5 DEF Think, At, Left
<1>6. CASE Output
  <2>1. ASSUME NEW kind \in {"message", "result", "other"}, Post(kind) PROVE cut => cut'
    BY <2>1, PostType DEF Kinds
  <2>. QED
    BY <1>6, <2>1 DEF Output, Left
<1>7. CASE SessionEnds
  BY <1>0, <1>7 DEF SessionEnds, At, Left
<1>8. CASE Result
  <2>1. cut => cut'
    BY <1>8, PostType DEF Result, Kinds
  <2>2. worker.at = "result" /\ UNCHANGED <<mode, prompts, asking, got>>
    BY <1>8 DEF Result, At
  <2>3. Left => Left'
    <3>1. CASE mode = "worker" /\ Go("report")
      BY <1>0, <1>8, <3>1 DEF Result, Left
    <3>2. CASE mode = "claude"
      BY <2>2, <3>2 DEF Left
    <3>. QED
      BY <1>8, <3>1, <3>2 DEF Result
  <2>. QED
    BY <2>1, <2>2, <2>3
<1>9. CASE Report
  BY <1>0, <1>9 DEF Report, At, Left
<1>. QED
  BY <1>1, <1>3, <1>5, <1>6, <1>7, <1>8, <1>9

LEMMA LineStep == TypeOK /\ Line /\ [Next]_vars => Line'
<1> SUFFICES ASSUME TypeOK, Line, [Next]_vars PROVE Line'
  OBVIOUS
<1>1. CASE Boot \/ Tell \/ Think \/ Output \/ SessionEnds \/ Result \/ Report
  BY <1>1, GoneStays, LineKept
<1>2. CASE UNCHANGED vars \/ Subscribe \/ OtherJob \/ Monitor \/ Hear \/ Quit
  <2>1. UNCHANGED <<mode, worker, prompts, asking, got, cut>>
    BY <1>2 DEF vars, Subscribe, OtherJob, Monitor, Lag, Watch, Inject, Hear, Quit
  <2>. QED
    BY <2>1, LineKept DEF Left
<1>3. CASE Push \/ Serve \/ ReceivePrompt
  BY <1>3, PushLine, ServeLine, ReceivePromptLine
<1>4. CASE Poll \/ Receive \/ PollFails \/ TimesOut \/ Stop \/ Restart
  BY <1>4, RequestLine, EndLine
<1>. QED
  BY <1>1, <1>2, <1>3, <1>4 DEF Next, Runtime

\* However polls, failed connections, revoked tokens and restarts interleave with
\* the user's prompts, the container receives them in their order, each at most
\* once, without a gap unless a connection fails, and the bridge none after one
\* that says done.
THEOREM PromptsInOrderCorrect == Spec => []PromptsInOrder
<1>1. TypeOK /\ Line /\ [Next]_vars /\ TypeOK' => Line'
  BY LineStep
<1>2. TypeOK /\ Line => PromptsInOrder
  <2> SUFFICES ASSUME TypeOK, Line PROVE PromptsInOrder
    OBVIOUS
  <2>1. \A i \in 1..Len(got) - 1 : got[i] < got[i + 1]
    BY DEF Line, InOrder
  <2>2. DOMAIN got = 1..Len(got) /\ Len(got) \in Nat
    BY LenProperties DEF TypeOK
  <2>3. cut \/ \A i \in DOMAIN got : got[i] = i
    BY <2>2 DEF Line, NoGap
  <2>. QED
    BY <2>1, <2>2, <2>3 DEF Line, DoneLast, PromptsInOrder
<1>. QED
  BY <1>1, <1>2, LineInit, TypeCorrect, PTL DEF Spec
-----------------------------------------------------------------------------
(* Events *)

Shown == {"message", "result"}

\* A sequence of events out of a log: increasing, between two numbers, each to
\* be shown, and all but the last messages
Telling(s, events, first, next) ==
  /\ \A i, j \in 1..Len(s) : i < j => s[i] < s[j] /\ events[s[i]] = "message"
  /\ \A i \in 1..Len(s) : first <= s[i] /\ s[i] < next /\ events[s[i]] \in Shown

\* Leaving out events from the middle or the end keeps it one.
LEMMA TellingWithout ==
  ASSUME NEW s \in Seq(Nat), NEW t \in Seq(Nat), NEW u \in Seq(Nat), NEW events,
         NEW first, NEW next, Telling((s \o t) \o u, events, first, next)
  PROVE  Telling(s \o u, events, first, next)
<1> DEFINE all == (s \o t) \o u
           some == s \o u
           place(i) == IF i <= Len(s) THEN i ELSE i + Len(t)
<1>1. Len(s) \in Nat /\ Len(t) \in Nat /\ Len(u) \in Nat
  BY LenProperties
<1>2. s \o t \in Seq(Nat) /\ Len(s \o t) = Len(s) + Len(t)
      /\ \A i \in 1..Len(s) : (s \o t)[i] = s[i]
  BY <1>1, ConcatProperties
<1>3. Len(all) = Len(s) + Len(t) + Len(u) /\ Len(some) = Len(s) + Len(u)
  BY <1>2, ConcatProperties
<1>4. ASSUME NEW i \in 1..Len(some)
      PROVE  place(i) \in 1..Len(all) /\ some[i] = all[place(i)]
  <2>1. CASE i <= Len(s)
    <3>1. i \in 1..Len(s) + Len(u) /\ i \in 1..Len(s \o t) + Len(u) /\ i \in 1..Len(s) + Len(t)
          /\ i <= Len(s \o t)
      BY <1>1, <1>2, <1>3, <2>1
    <3>2. some[i] = s[i] /\ all[i] = (s \o t)[i] /\ (s \o t)[i] = s[i]
      BY <1>2, <2>1, <3>1, ConcatProperties
    <3>. QED
      BY <1>1, <1>3, <2>1, <3>1, <3>2
  <2>2. CASE i > Len(s)
    <3> DEFINE k == i + Len(t)
    <3>1. i \in 1..Len(s) + Len(u) /\ k \in 1..Len(s \o t) + Len(u)
          /\ ~ (k <= Len(s \o t)) /\ ~ (i <= Len(s)) /\ k - Len(s \o t) = i - Len(s)
      BY <1>1, <1>2, <1>3, <2>2
    <3> HIDE DEF k
    <3>2. some[i] = u[i - Len(s)] /\ all[k] = u[k - Len(s \o t)]
      BY <1>2, <3>1, ConcatProperties
    <3>3. place(i) = k /\ k \in 1..Len(all)
      BY <1>1, <1>2, <1>3, <2>2, <3>1 DEF k
    <3>. QED
      BY <3>1, <3>2, <3>3
  <2>. QED
    BY <1>1, <1>3, <2>1, <2>2
<1>5. ASSUME NEW i \in 1..Len(some), NEW j \in 1..Len(some), i < j
      PROVE  place(i) < place(j)
  BY <1>1, <1>3, <1>5
<1> HIDE DEF all, some, place
<1>. QED
  BY <1>4, <1>5 DEF Telling, all, some

LEMMA TellingPrefix ==
  ASSUME NEW s \in Seq(Nat), NEW t \in Seq(Nat), NEW events, NEW first, NEW next,
         Telling(s \o t, events, first, next)
  PROVE  Telling(s, events, first, next)
<1>1. << >> \in Seq(Nat) /\ s \o t \in Seq(Nat)
  BY EmptySeq, ConcatProperties
<1>2. (s \o t) \o << >> = s \o t /\ s \o << >> = s
  BY <1>1, ConcatEmptySeq
<1>. QED
  BY <1>1, <1>2, TellingWithout

\* A longer log keeps it one, and so does a later next event.
LEMMA TellingOn ==
  ASSUME NEW s \in Seq(Nat), NEW events \in Seq(Kinds), NEW more \in Seq(Kinds),
         NEW first \in Nat \ {0}, NEW next \in Nat, NEW later \in Nat, next <= later,
         next <= Len(events) + 1,
         \A e \in 1..Len(events) : more[e] = events[e],
         Telling(s, events, first, next)
  PROVE  Telling(s, more, first, later)
<1>1. \A i \in 1..Len(s) : s[i] \in Nat
  BY ElementOfSeq
<1>2. Len(events) \in Nat
  BY LenProperties
<1>3. \A i \in 1..Len(s) : s[i] \in 1..Len(events) /\ s[i] < later
  BY <1>1, <1>2 DEF Telling
<1>. QED
  BY <1>3 DEF Telling

\* If all are messages, the next event may follow.
LEMMA TellingMore ==
  ASSUME NEW s \in Seq(Nat), NEW events, NEW first \in Nat, NEW next \in Nat,
         first <= next, events[next] \in Shown,
         \A i \in 1..Len(s) : events[s[i]] = "message",
         Telling(s, events, first, next)
  PROVE  Telling(Append(s, next), events, first, next + 1)
<1> DEFINE more == Append(s, next)
<1>1. Len(more) = Len(s) + 1 /\ Len(s) \in Nat /\ more[Len(s) + 1] = next
      /\ \A i \in 1..Len(s) : more[i] = s[i] /\ s[i] \in Nat
  BY AppendProperties, LenProperties, ElementOfSeq
<1> HIDE DEF more
<1>2. ASSUME NEW i \in 1..Len(more), NEW j \in 1..Len(more), i < j
      PROVE  more[i] < more[j] /\ events[more[i]] = "message"
  <2>1. i \in 1..Len(s) /\ (j \in 1..Len(s) \/ j = Len(s) + 1)
    BY <1>1, <1>2
  <2>. QED
    BY <1>1, <1>2, <2>1 DEF Telling
<1>3. ASSUME NEW i \in 1..Len(more)
      PROVE  first <= more[i] /\ more[i] < next + 1 /\ events[more[i]] \in Shown
  <2>1. i \in 1..Len(s) \/ i = Len(s) + 1
    BY <1>1
  <2>. QED
    BY <1>1, <2>1 DEF Telling
<1>. QED
  BY <1>2, <1>3 DEF Telling, more
\* What the monitor holds while it waits for room
Hand == IF monitor.at = "push" THEN <<Held>> ELSE << >>

\* None of the events since the monitor subscribed is missing.
Complete ==
  (loop /\ ~ lagged /\ monitor.at \in {"watch", "push"}) =>
    \A e \in monitor.first..monitor.next - 1 :
      log[e] \in Shown => \E i \in 1..Len(Told) : Told[i] = e

\* The monitor holds an event it has seen, and watches on only while all it has
\* told are messages.
TellInv ==
  /\ Telling(Told, log, monitor.first, monitor.next)
  /\ monitor.at = "watch" => \A i \in 1..Len(Told) : log[Told[i]] = "message"
  /\ monitor.at = "none" => heard = << >> /\ inbox = << >>
  /\ monitor.first <= monitor.next /\ monitor.next <= Len(log) + 1
  /\ monitor.at = "push" => monitor.first <= Held
  /\ Complete

LEMMA ToldTypes ==
  ASSUME TypeOK
  PROVE  /\ heard \in Seq(Nat) /\ inbox \in Seq(Nat) /\ Hand \in Seq(Nat)
         /\ Told = (heard \o inbox) \o Hand
         /\ heard \o inbox \in Seq(Nat) /\ Told \in Seq(Nat)
         /\ Len(Told) \in Nat /\ \A i \in 1..Len(Told) : Told[i] \in Nat
         /\ monitor.at # "push" => Told = heard \o inbox
         /\ log \in Seq(Kinds) /\ Len(log) \in Nat
         /\ monitor.first \in Nat \ {0} /\ monitor.next \in Nat \ {0} /\ Held \in Nat
<1>1. EventType
  BY TypeParts DEF Parts
<1>2. heard \in Seq(Nat) /\ inbox \in Seq(Nat) /\ log \in Seq(Kinds)
      /\ monitor.first \in Nat \ {0} /\ monitor.next \in Nat \ {0} /\ Held \in Nat
  BY <1>1 DEF EventType, MonitorRecord, Held
<1>3. Hand \in Seq(Nat)
  <2>1. << >> \in Seq(Nat) /\ <<Held>> \in Seq(Nat)
    BY <1>2, EmptySeq
  <2>. QED
    BY <2>1 DEF Hand
<1>4. heard \o inbox \in Seq(Nat)
  BY <1>2, ConcatProperties
<1>5. Told = (heard \o inbox) \o Hand
  BY DEF Told, Hand
<1>6. Told \in Seq(Nat)
  BY <1>3, <1>4, <1>5, ConcatProperties
<1>7. monitor.at # "push" => Told = heard \o inbox
  BY <1>4, <1>5, ConcatEmptySeq DEF Hand
<1>8. Len(Told) \in Nat /\ Len(log) \in Nat /\ \A i \in 1..Len(Told) : Told[i] \in Nat
  BY <1>2, <1>6, LenProperties, ElementOfSeq
<1>. QED
  BY <1>2, <1>3, <1>4, <1>5, <1>6, <1>7, <1>8

LEMMA TellInit == Init => TellInv
<1> SUFFICES ASSUME Init PROVE TellInv
  OBVIOUS
<1>1. monitor = [at |-> "none", first |-> 1, next |-> 1] /\ heard = << >> /\ inbox = << >>
      /\ log = << >>
  BY DEF Init
<1>2. Len(log) = 0 /\ Told = << >> /\ Len(Told) = 0
  <2>1. Told = << >>
    BY <1>1, TypeInit, ToldTypes, ConcatEmptySeq, EmptySeq
  <2>. QED
    BY <1>1, <2>1, EmptySeq
<1>. QED
  BY <1>1, <1>2 DEF TellInv, Telling, Complete

\* Events that are sent do not touch what the monitor has told.
LEMMA LogTell ==
  ASSUME TypeOK, TypeOK', TellInv, UNCHANGED agent,
         log' = log \/ \E kind \in Kinds : log' = Append(log, kind)
  PROVE  TellInv'
<1>1. UNCHANGED <<monitor, inbox, heard, loop, lagged>> /\ Told' = Told /\ Held' = Held
  BY DEF agent, Told, Held
<1>2. /\ log \in Seq(Kinds) /\ log' \in Seq(Kinds) /\ Len(log) \in Nat
      /\ monitor.first \in Nat \ {0} /\ monitor.next \in Nat \ {0} /\ Told \in Seq(Nat)
      /\ Len(Told) \in Nat /\ \A i \in 1..Len(Told) : Told[i] \in Nat
  BY ToldTypes DEF TypeOK, Kinds
<1>3. Len(log') \in Nat /\ Len(log) <= Len(log') /\ \A e \in 1..Len(log) : log'[e] = log[e]
  <2>1. CASE log' = log
    BY <1>2, <2>1
  <2>2. ASSUME NEW kind \in Kinds, log' = Append(log, kind)
        PROVE  Len(log') = Len(log) + 1 /\ \A e \in 1..Len(log) : log'[e] = log[e]
    BY <1>2, <2>2, AppendProperties
  <2>. QED
    BY <1>2, <2>1, <2>2
<1>4. monitor.next <= Len(log) + 1
  BY DEF TellInv
<1>5. Telling(Told, log', monitor.first, monitor.next)
  BY <1>2, <1>3, <1>4, TellingOn DEF TellInv
<1>6. \A i \in 1..Len(Told) : Told[i] \in 1..Len(log)
  BY <1>2, <1>4 DEF TellInv, Telling
<1>7. Complete'
  BY <1>1, <1>2, <1>3, <1>4 DEF TellInv, Complete
<1>. QED
  BY <1>1, <1>2, <1>3, <1>4, <1>5, <1>6, <1>7 DEF TellInv

\* The monitor is spawned, or finds that it has missed events.
LEMMA SubscribeTell == ASSUME TypeOK, TellInv, Subscribe \/ Lag PROVE TellInv'
<1>0. /\ monitor.first \in Nat \ {0} /\ monitor.next \in Nat \ {0} /\ Len(log) \in Nat
      /\ Told \in Seq(Nat) /\ log \in Seq(Kinds) /\ Ring \in Nat \ {0}
  BY ToldTypes, LinkAssumption
<1>1. monitor.at # "push" /\ monitor'.at = "watch" /\ UNCHANGED <<log, inbox, heard>>
  BY DEF Subscribe, Lag, TypeOK
<1>2. Told' = Told
  BY <1>1 DEF Told
<1>3. CASE Subscribe
  <2>1. monitor'.first = Len(log) + 1 /\ monitor'.next = Len(log) + 1 /\ monitor.at = "none"
    BY <1>3 DEF Subscribe, TypeOK
  <2>2. Told = << >> /\ Len(Told) = 0
    BY <2>1, ToldTypes, ConcatEmptySeq, EmptySeq DEF TellInv
  <2>. QED
    BY <1>0, <1>1, <1>2, <2>1, <2>2 DEF TellInv, Telling, Complete
<1>4. CASE Lag
  <2> DEFINE later == Len(log) - Ring + 1
  <2>1. monitor'.next = later /\ monitor'.first = monitor.first /\ monitor.at = "watch" /\ lagged'
    BY <1>4 DEF Lag, TypeOK
  <2>2. later \in Nat /\ monitor.next <= later /\ later <= Len(log) + 1
    BY <1>0, <1>4 DEF Lag, Behind
  <2> HIDE DEF later
  <2>3. Telling(Told, log, monitor.first, later)
    BY <1>0, <2>2, TellingOn DEF TellInv
  <2>. QED
    BY <1>0, <1>1, <1>2, <2>1, <2>2, <2>3 DEF TellInv, Complete
<1>. QED
  BY <1>3, <1>4
\* The monitor takes the next event, and holds it if it is to be shown.
LEMMA WatchTell == ASSUME TypeOK, TellInv, Watch PROVE TellInv'
<1>0. /\ monitor.first \in Nat \ {0} /\ monitor.next \in Nat \ {0} /\ Len(log) \in Nat
      /\ Told \in Seq(Nat) /\ log \in Seq(Kinds) /\ Ring \in Nat \ {0} /\ Len(Told) \in Nat
      /\ \A i \in 1..Len(Told) : Told[i] \in Nat
  BY ToldTypes, LinkAssumption
<1>1. /\ monitor.at = "watch" /\ UNCHANGED <<log, inbox, heard, loop, lagged>>
      /\ monitor'.first = monitor.first /\ monitor'.next = monitor.next + 1
      /\ monitor'.at = IF log[monitor.next] \in Shown THEN "push" ELSE "watch"
  BY DEF Watch, TypeOK, Shown
<1>2. monitor.next <= Len(log) /\ monitor.first <= monitor.next
  BY <1>0 DEF Watch, Behind, TellInv
<1>3. Told = heard \o inbox /\ heard \o inbox \in Seq(Nat)
  BY <1>1, ToldTypes
<1>4. CASE log[monitor.next] \in Shown
  <2>1. Held' = monitor.next
    BY <1>0, <1>1 DEF Held
  <2>2. Told' = Append(Told, monitor.next)
    BY <1>0, <1>1, <1>3, <1>4, <2>1, AppendIsConcat DEF Told
  <2>3. Telling(Told', log, monitor.first, monitor.next + 1)
    BY <1>0, <1>1, <1>2, <1>4, <2>2, TellingMore DEF TellInv
  <2>4. Len(Told') = Len(Told) + 1 /\ Told'[Len(Told) + 1] = monitor.next
        /\ \A i \in 1..Len(Told) : Told'[i] = Told[i]
    BY <1>0, <2>2, AppendProperties
  <2>5. Complete'
    <3> SUFFICES ASSUME loop, ~ lagged, NEW e \in monitor.first..monitor.next, log[e] \in Shown
                 PROVE  \E i \in 1..Len(Told') : Told'[i] = e
      BY <1>0, <1>1 DEF Complete
    <3>1. CASE e = monitor.next
      BY <1>0, <2>4, <3>1
    <3>2. CASE e # monitor.next
      <4>1. e \in monitor.first..monitor.next - 1
        BY <1>0, <3>2
      <4>2. PICK i \in 1..Len(Told) : Told[i] = e
        BY <1>1, <4>1 DEF TellInv, Complete
      <4>. QED
        BY <1>0, <2>4, <4>2
    <3>. QED
      BY <3>1, <3>2
  <2>. QED
    BY <1>0, <1>1, <1>2, <1>4, <2>1, <2>3, <2>5 DEF TellInv
<1>5. CASE log[monitor.next] \notin Shown
  <2>1. Told' = Told
    BY <1>1, <1>5 DEF Told
  <2>2. Telling(Told, log, monitor.first, monitor.next + 1)
    <3>1. monitor.next + 1 \in Nat /\ monitor.next <= monitor.next + 1
          /\ monitor.next <= Len(log) + 1
      BY <1>0, <1>2
    <3>. QED
      BY <1>0, <3>1, TellingOn DEF TellInv
  <2>3. Complete'
    <3> SUFFICES ASSUME loop, ~ lagged, NEW e \in monitor.first..monitor.next, log[e] \in Shown
                 PROVE  \E i \in 1..Len(Told) : Told[i] = e
      BY <1>0, <1>1, <2>1 DEF Complete
    <3>1. e \in monitor.first..monitor.next - 1
      BY <1>0, <1>5
    <3>. QED
      BY <1>1, <3>1 DEF TellInv, Complete
  <2>. QED
    BY <1>0, <1>1, <1>2, <1>5, <2>1, <2>2, <2>3 DEF TellInv
<1>. QED
  BY <1>4, <1>5

\* The monitor's message finds room, and it ends with a result; or the agent loop
\* is gone.
LEMMA InjectTell == ASSUME TypeOK, TellInv, Inject PROVE TellInv'
<1>0. /\ monitor.first \in Nat \ {0} /\ monitor.next \in Nat \ {0} /\ Held \in Nat
      /\ heard \in Seq(Nat) /\ inbox \in Seq(Nat) /\ heard \o inbox \in Seq(Nat)
      /\ Told \in Seq(Nat) /\ Len(Told) \in Nat
  BY ToldTypes
<1>1. /\ monitor.at = "push" /\ UNCHANGED <<log, heard, loop, lagged>>
      /\ monitor'.first = monitor.first /\ monitor'.next = monitor.next
  BY DEF Inject, TypeOK
<1>2. Told = (heard \o inbox) \o <<Held>>
  BY <1>1, ToldTypes DEF Hand
<1>3. CASE /\ inbox' = Append(inbox, Held)
           /\ monitor' = [monitor EXCEPT !.at = IF log[Held] = "result" THEN "ended" ELSE "watch"]
  <2>1. monitor'.at = IF log[Held] = "result" THEN "ended" ELSE "watch"
    BY <1>3 DEF TypeOK
  <2>2. Append(inbox, Held) = inbox \o <<Held>> /\ <<Held>> \in Seq(Nat)
    BY <1>0, AppendIsConcat
  <2>3. heard \o Append(inbox, Held) = (heard \o inbox) \o <<Held>>
    BY <1>0, <2>2, ConcatAssociative
  <2>4. Told' = (heard \o Append(inbox, Held)) \o << >>
    BY <1>1, <1>3, <2>1 DEF Told
  <2>5. Told' = Told
    BY <1>0, <1>2, <2>3, <2>4, ConcatEmptySeq
  <2>6. Told[Len(Told)] = Held /\ Len(Told) >= 1
    <3>1. <<Held>> \in Seq(Nat) /\ Len(<<Held>>) = 1 /\ <<Held>>[1] = Held /\ Len(heard \o inbox) \in Nat
      BY <1>0, LenProperties
    <3>2. Len(Told) = Len(heard \o inbox) + 1
      BY <1>0, <1>2, <3>1, ConcatProperties
    <3>3. Len(Told) \in 1..Len(heard \o inbox) + Len(<<Held>>) /\ ~ (Len(Told) <= Len(heard \o inbox))
          /\ Len(Told) - Len(heard \o inbox) = 1
      BY <3>1, <3>2
    <3>. QED
      BY <1>0, <1>2, <3>1, <3>2, <3>3, ConcatProperties
  <2>7. log[Held] # "result" => \A i \in 1..Len(Told) : log[Told[i]] = "message"
    <3> SUFFICES ASSUME log[Held] # "result", NEW i \in 1..Len(Told)
                 PROVE  log[Told[i]] = "message"
      OBVIOUS
    <3>1. CASE i = Len(Told)
      BY <2>6, <3>1 DEF TellInv, Telling, Shown
    <3>2. CASE i # Len(Told)
      <4>1. i < Len(Told) /\ Len(Told) \in 1..Len(Told)
        BY <1>0, <3>2
      <4>. QED
        BY <4>1 DEF TellInv, Telling
    <3>. QED
      BY <3>1, <3>2
  <2>8. Complete'
    BY <1>1, <2>1, <2>5 DEF TellInv, Complete
  <2>. QED
    BY <1>1, <2>1, <2>5, <2>7, <2>8 DEF TellInv
<1>4. CASE ~ loop /\ monitor' = [monitor EXCEPT !.at = "ended"] /\ UNCHANGED inbox
  <2>1. monitor'.at = "ended"
    BY <1>4 DEF TypeOK
  <2>2. Told' = heard \o inbox
    <3>1. Told' = (heard \o inbox) \o << >>
      BY <1>1, <1>4, <2>1 DEF Told
    <3>. QED
      BY <1>0, <3>1, ConcatEmptySeq
  <2>3. Telling(Told', log, monitor.first, monitor.next)
    <3>1. <<Held>> \in Seq(Nat)
      BY <1>0
    <3>. QED
      BY <1>0, <1>2, <2>2, <3>1, TellingPrefix DEF TellInv
  <2>. QED
    BY <1>1, <2>1, <2>3 DEF TellInv, Complete
<1>. QED
  BY <1>3, <1>4 DEF Inject

\* The agent loop takes a message, or returns; the process restarts.
LEMMA HearTell == ASSUME TypeOK, TellInv, Hear PROVE TellInv'
<1>1. heard \in Seq(Nat) /\ inbox \in Seq(Nat) /\ inbox # << >>
      /\ UNCHANGED <<log, monitor, loop, lagged>>
  BY ToldTypes DEF Hear
<1>2. heard' \o inbox' = heard \o inbox
  <2> DEFINE head == Head(inbox)
             tail == Tail(inbox)
  <2>1. head \in Nat /\ tail \in Seq(Nat) /\ inbox = <<head>> \o tail /\ <<head>> \in Seq(Nat)
    <3>1. head \in Nat /\ tail \in Seq(Nat) /\ Len(tail) = Len(inbox) - 1 /\ Len(inbox) \in Nat
          /\ \A i \in 1..Len(tail) : tail[i] = inbox[i + 1]
      BY <1>1, HeadTailProperties, LenProperties
    <3>2. <<head>> \in Seq(Nat) /\ Len(<<head>>) = 1 /\ <<head>>[1] = head /\ head = inbox[1]
      BY <1>1, <3>1
    <3> HIDE DEF head, tail
    <3>3. <<head>> \o tail \in Seq(Nat) /\ Len(<<head>> \o tail) = Len(inbox)
          /\ \A i \in 1..Len(inbox) :
               (<<head>> \o tail)[i] = IF i <= 1 THEN <<head>>[i] ELSE tail[i - 1]
      BY <3>1, <3>2, ConcatProperties
    <3>4. ASSUME NEW i \in 1..Len(inbox) PROVE (<<head>> \o tail)[i] = inbox[i]
      <4>1. i = 1 \/ i - 1 \in 1..Len(tail)
        BY <3>1
      <4>. QED
        BY <3>1, <3>2, <3>3, <4>1
    <3>. QED
      BY <1>1, <3>1, <3>2, <3>3, <3>4, SeqEqual
  <2>2. heard' = heard \o <<head>> /\ inbox' = tail
    BY <1>1, <2>1, AppendIsConcat DEF Hear
  <2> HIDE DEF head, tail
  <2>3. (heard \o <<head>>) \o tail = heard \o (<<head>> \o tail)
    BY <1>1, <2>1, ConcatAssociative
  <2>. QED
    BY <2>1, <2>2, <2>3
<1>3. Told' = Told /\ Held' = Held
  BY <1>1, <1>2 DEF Told, Held
<1>4. monitor.at # "none"
  BY <1>1 DEF TellInv
<1>. QED
  BY <1>1, <1>3, <1>4 DEF TellInv, Complete

LEMMA QuitTell == ASSUME TypeOK, TellInv, Quit PROVE TellInv'
<1>1. /\ heard \in Seq(Nat) /\ inbox \in Seq(Nat) /\ Hand \in Seq(Nat) /\ << >> \in Seq(Nat)
      /\ Told = (heard \o inbox) \o Hand /\ heard \o inbox \in Seq(Nat)
      /\ monitor.at # "push" => Told = heard \o inbox
  BY ToldTypes, EmptySeq
<1>2. UNCHANGED <<log, heard, monitor, lagged>> /\ inbox' = << >> /\ ~ loop'
  BY DEF Quit
<1>3. Told' = heard \o Hand /\ Held' = Held
  <2>1. Told' = (heard \o << >>) \o Hand
    BY <1>2 DEF Told, Hand, Held
  <2>. QED
    BY <1>1, <1>2, <2>1, ConcatEmptySeq DEF Held
<1>4. Telling(Told', log, monitor.first, monitor.next)
  BY <1>1, <1>3, TellingWithout DEF TellInv
<1>5. ASSUME monitor.at = "watch" PROVE \A i \in 1..Len(Told') : log[Told'[i]] = "message"
  <2>1. Told' = heard
    BY <1>1, <1>3, <1>5, ConcatEmptySeq DEF Hand
  <2>2. Len(heard) \in Nat /\ Len(inbox) \in Nat /\ Len(Told) = Len(heard) + Len(inbox)
        /\ \A i \in 1..Len(heard) + Len(inbox) : i <= Len(heard) => Told[i] = heard[i]
    BY <1>1, <1>5, ConcatProperties, LenProperties
  <2>3. \A i \in 1..Len(heard) : i \in 1..Len(Told) /\ Told[i] = heard[i]
    BY <2>2
  <2>. QED
    BY <1>5, <2>1, <2>3 DEF TellInv
<1>. QED
  BY <1>2, <1>3, <1>4, <1>5 DEF TellInv, Complete

LEMMA RestartTell == ASSUME TypeOK, TellInv, Restart PROVE TellInv'
<1>1. /\ heard \in Seq(Nat) /\ inbox \in Seq(Nat) /\ Hand \in Seq(Nat) /\ << >> \in Seq(Nat)
      /\ Told = (heard \o inbox) \o Hand /\ heard \o inbox \in Seq(Nat)
  BY ToldTypes, EmptySeq
<1>2. UNCHANGED <<log, heard, loop, lagged>> /\ inbox' = << >> /\ monitor'.at = "ended"
      /\ monitor'.first = monitor.first /\ monitor'.next = monitor.next
  BY DEF Restart, TypeOK
<1>3. Told' = heard
  <2>1. Told' = (heard \o << >>) \o << >>
    BY <1>2 DEF Told
  <2>. QED
    BY <1>1, <2>1, ConcatEmptySeq
<1>4. Telling(heard \o inbox, log, monitor.first, monitor.next)
  BY <1>1, TellingPrefix DEF TellInv
<1>5. Telling(heard, log, monitor.first, monitor.next)
  BY <1>1, <1>4, TellingPrefix
<1>. QED
  BY <1>2, <1>3, <1>5 DEF TellInv, Complete

\* What the runtimes and other jobs do with the log
LEMMA LogGrows ==
  ASSUME TypeOK, Next, ~ Restart, ~ Subscribe, ~ Monitor, ~ Hear, ~ Quit
  PROVE  UNCHANGED agent /\ (log' = log \/ \E kind \in Kinds : log' = Append(log, kind))
<1>0. ASSUME NEW kind \in Kinds, Post(kind)
      PROVE  log' = log \/ \E k \in Kinds : log' = Append(log, k)
  BY <1>0, PostType
<1>1. CASE Push \/ Serve \/ Boot \/ Poll \/ Receive \/ ReceivePrompt \/ SessionEnds \/ Report
             \/ PollFails \/ TimesOut \/ Stop
  BY <1>1 DEF Push, Serve, Boot, Poll, Receive, ReceivePrompt, SessionEnds, Report, PollFails,
              TimesOut, Stop
<1>2. CASE Tell \/ Result
  BY <1>0, <1>2 DEF Tell, Result, Kinds
<1>3. CASE Think
  BY <1>0, <1>3 DEF Think, Answered, Kinds
<1>4. CASE Output \/ OtherJob
  BY <1>0, <1>4 DEF Output, OtherJob, Kinds
<1>. QED
  BY <1>1, <1>2, <1>3, <1>4 DEF Next, Runtime

LEMMA TellStep == TypeOK /\ TypeOK' /\ TellInv /\ [Next]_vars => TellInv'
<1> SUFFICES ASSUME TypeOK, TypeOK', TellInv, [Next]_vars PROVE TellInv'
  OBVIOUS
<1>1. CASE UNCHANGED vars
  BY <1>1, LogTell DEF vars
<1>2. CASE Restart \/ Subscribe \/ Monitor \/ Hear \/ Quit
  BY <1>2, RestartTell, SubscribeTell, WatchTell, InjectTell, HearTell, QuitTell DEF Monitor
<1>3. CASE Next /\ ~ (Restart \/ Subscribe \/ Monitor \/ Hear \/ Quit)
  BY <1>3, LogGrows, LogTell
<1>. QED
  BY <1>1, <1>2, <1>3

\* However the events, the broadcast channel's overruns, the full inject channel,
\* the agent loop's end and a restart interleave, the agent loop hears messages
\* and then one result, in their order, and misses none while it runs unless the
\* monitor lagged.
THEOREM MonitorTellsCorrect == Spec => []MonitorTells
<1>1. TypeOK /\ TellInv => MonitorTells
  <2> SUFFICES ASSUME TypeOK, TellInv PROVE MonitorTells
    OBVIOUS
  <2>1. Len(Told) \in Nat /\ DOMAIN Told = 1..Len(Told)
    BY ToldTypes, LenProperties
  <2>2. \A i \in 1..Len(Told) - 1 : Told[i] < Told[i + 1] /\ log[Told[i]] = "message"
    <3> SUFFICES ASSUME NEW i \in 1..Len(Told) - 1
                 PROVE  Told[i] < Told[i + 1] /\ log[Told[i]] = "message"
      OBVIOUS
    <3>1. i \in 1..Len(Told) /\ i + 1 \in 1..Len(Told) /\ i < i + 1
      BY <2>1
    <3>. QED
      BY <3>1 DEF TellInv, Telling
  <2>3. \A i \in DOMAIN Told : Told[i] >= monitor.first /\ log[Told[i]] \in Shown
    <3>1. \A i \in 1..Len(Told) : Told[i] \in Nat /\ monitor.first \in Nat
      BY ToldTypes
    <3>. QED
      BY <2>1, <3>1 DEF TellInv, Telling
  <2>4. (loop /\ ~ lagged /\ monitor.at \in {"watch", "push"}) =>
          \A e \in monitor.first..monitor.next - 1 :
            log[e] \in Shown => \E i \in DOMAIN Told : Told[i] = e
    BY <2>1 DEF TellInv, Complete
  <2>. QED
    BY <2>2, <2>3, <2>4 DEF MonitorTells, Shown
<1>. QED
  BY <1>1, TellInit, TellStep, TypeCorrect, PTL DEF Spec
-----------------------------------------------------------------------------
(* The two ways *)

LEMMA AppendBehind ==
  ASSUME NEW S, NEW s \in Seq(S), NEW t \in Seq(S), NEW e \in S
  PROVE  Append(s \o t, e) = s \o Append(t, e)
<1>1. <<e>> \in Seq(S) /\ s \o t \in Seq(S)
  BY ConcatProperties
<1>2. Append(s \o t, e) = (s \o t) \o <<e>> /\ Append(t, e) = t \o <<e>>
  BY <1>1, AppendIsConcat
<1>. QED
  BY <1>1, <1>2, ConcatAssociative

LEMMA FirstInLine ==
  ASSUME NEW S, NEW e \in S, NEW t \in Seq(S)
  PROVE  <<e>> \o t # << >> /\ Head(<<e>> \o t) = e /\ Tail(<<e>> \o t) = t
<1>1. <<e>> \in Seq(S) /\ <<e>> # << >> /\ Len(<<e>>) = 1 /\ <<e>>[1] = e /\ Len(t) \in Nat
  BY LenProperties
<1> DEFINE s == <<e>> \o t
<1>2. /\ s \in Seq(S) /\ Len(s) = 1 + Len(t)
      /\ \A i \in 1..1 + Len(t) : s[i] = IF i <= 1 THEN <<e>>[i] ELSE t[i - 1]
  BY <1>1, ConcatProperties
<1>3. s # << >>
  BY <1>1, ConcatEqualIffEmpty
<1>4. Head(s) = e
  BY <1>1, <1>2, <1>3
<1>5. Tail(s) \in Seq(S) /\ Len(Tail(s)) = Len(t)
      /\ \A i \in 1..Len(Tail(s)) : Tail(s)[i] = t[i]
  BY <1>1, <1>2, <1>3, HeadTailProperties
<1>6. Tail(s) = t
  BY <1>5, SeqEqual
<1>. QED
  BY <1>3, <1>4, <1>6

LEMMA HeadThenTail ==
  ASSUME NEW S, NEW s \in Seq(S), s # << >>
  PROVE  /\ Head(s) \in S /\ Tail(s) \in Seq(S)
         /\ <<Head(s)>> \in Seq(S) /\ <<Head(s)>> \o Tail(s) = s
<1> DEFINE all == <<Head(s)>> \o Tail(s)
<1>1. /\ Len(s) \in Nat \ {0} /\ Len(Tail(s)) = Len(s) - 1
      /\ \A i \in 1..Len(Tail(s)) : Tail(s)[i] = s[i + 1]
      /\ Head(s) \in S /\ Tail(s) \in Seq(S)
  BY HeadTailProperties, EmptySeq
<1>2. <<Head(s)>> \in Seq(S) /\ Len(<<Head(s)>>) = 1 /\ <<Head(s)>>[1] = s[1]
  BY <1>1
<1>3. all \in Seq(S) /\ Len(all) = Len(s) /\ \A i \in 1..Len(s) : all[i] = s[i]
  BY <1>1, <1>2, ConcatProperties
<1>4. all = s
  BY <1>3, SeqEqual
<1>. QED
  BY <1>1, <1>2, <1>4

\* What is left of a sequence when its front or its end is lost
IsPart(part, line) ==
  \E first \in 1..Len(line) + 1, end \in 0..Len(line) : part = SubSeq(line, first, end)

LEMMA EndsAreParts ==
  ASSUME NEW S, NEW s \in Seq(S), NEW t \in Seq(S)
  PROVE  IsPart(s, s \o t) /\ IsPart(t, s \o t) /\ IsPart(<< >>, s \o t)
<1> DEFINE line == s \o t
<1>1. Len(s) \in Nat /\ Len(t) \in Nat
  BY LenProperties
<1>2. /\ line \in Seq(S) /\ Len(line) = Len(s) + Len(t)
      /\ \A i \in 1..Len(s) + Len(t) : line[i] = IF i <= Len(s) THEN s[i] ELSE t[i - Len(s)]
  BY ConcatProperties
<1>3. \A i \in 1..Len(line) : line[i] \in S
  BY <1>2, ElementOfSeq
<1> HIDE DEF line
<1>4. SubSeq(line, 1, Len(s)) = s
  <2>1. \A i \in 1..Len(s) : line[i] \in S
    BY <1>1, <1>2, <1>3
  <2>2. /\ SubSeq(line, 1, Len(s)) \in Seq(S)
        /\ Len(SubSeq(line, 1, Len(s))) = IF 1 <= Len(s) THEN Len(s) - 1 + 1 ELSE 0
        /\ \A i \in 1..Len(s) - 1 + 1 : SubSeq(line, 1, Len(s))[i] = line[1 + i - 1]
    BY <1>1, <2>1, SubSeqProperties
  <2>3. Len(SubSeq(line, 1, Len(s))) = Len(s)
        /\ \A i \in 1..Len(s) : SubSeq(line, 1, Len(s))[i] = s[i]
    BY <1>1, <1>2, <2>2
  <2>. QED
    BY <2>2, <2>3, SeqEqual
<1>5. SubSeq(line, Len(s) + 1, Len(line)) = t
  <2> DEFINE part == SubSeq(line, Len(s) + 1, Len(line))
  <2>1. \A i \in Len(s) + 1..Len(line) : line[i] \in S
    BY <1>1, <1>2, <1>3
  <2>2. /\ part \in Seq(S)
        /\ Len(part) = IF Len(s) + 1 <= Len(line) THEN Len(line) - (Len(s) + 1) + 1 ELSE 0
        /\ \A i \in 1..Len(line) - (Len(s) + 1) + 1 : part[i] = line[Len(s) + 1 + i - 1]
    BY <1>1, <1>2, <2>1, SubSeqProperties
  <2> HIDE DEF part
  <2>3. Len(part) = Len(t)
    BY <1>1, <1>2, <2>2
  <2>4. ASSUME NEW i \in 1..Len(t) PROVE part[i] = t[i]
    <3>1. i \in 1..Len(line) - (Len(s) + 1) + 1 /\ Len(s) + 1 + i - 1 = Len(s) + i
          /\ Len(s) + i \in 1..Len(s) + Len(t) /\ ~ (Len(s) + i <= Len(s))
          /\ Len(s) + i - Len(s) = i
      BY <1>1, <1>2
    <3>. QED
      BY <1>2, <2>2, <3>1
  <2>5. part = t
    BY <2>2, <2>3, <2>4, SeqEqual
  <2>. QED
    BY <2>5 DEF part
<1>6. SubSeq(line, 1, 0) = << >>
  BY SubSeqEmpty
<1>7. 1 \in 1..Len(line) + 1 /\ Len(s) + 1 \in 1..Len(line) + 1
      /\ {0, Len(s), Len(line)} \subseteq 0..Len(line)
  BY <1>1, <1>2
<1>8. IsPart(s, line)
  BY <1>4, <1>7 DEF IsPart
<1>9. IsPart(t, line)
  BY <1>5, <1>7 DEF IsPart
<1>10. IsPart(<< >>, line)
  BY <1>6, <1>7 DEF IsPart
<1>. QED
  BY <1>8, <1>9, <1>10 DEF line

-----------------------------------------------------------------------------
(* Prompts *)

Answer == IF poll = "prompt" THEN <<answer>> ELSE << >>
PromptLine == Answer \o queue
PromptsBroken == cut \/ Left

\* The steps of the way
LEMMA PromptWay ==
  ASSUME PromptsBroken => PromptsBroken',
         \/ pushed' = pushed + 1 /\ PromptLine' = Append(PromptLine, pushed') /\ got' = got
         \/ /\ PromptLine # << >> /\ pushed' = pushed
            /\ got' = Append(got, Head(PromptLine)) /\ PromptLine' = Tail(PromptLine)
         \/ /\ PromptsBroken' /\ IsPart(PromptLine', PromptLine)
            /\ pushed' = pushed /\ got' = got
         \/ PromptLine' = PromptLine /\ pushed' = pushed /\ got' = got
  PROVE  [Prompts!Next]_(Prompts!dvars)
<1>1. CASE pushed' = pushed + 1 /\ PromptLine' = Append(PromptLine, pushed') /\ got' = got
  BY <1>1 DEF Prompts!Next, Prompts!Send, PromptLine, Answer, PromptsBroken
<1>2. CASE /\ PromptLine # << >> /\ pushed' = pushed
           /\ got' = Append(got, Head(PromptLine)) /\ PromptLine' = Tail(PromptLine)
  BY <1>2 DEF Prompts!Next, Prompts!Take, PromptLine, Answer, PromptsBroken
<1>3. CASE /\ PromptsBroken' /\ IsPart(PromptLine', PromptLine)
           /\ pushed' = pushed /\ got' = got
  BY <1>3 DEF Prompts!Next, Prompts!Lose, PromptLine, Answer, PromptsBroken, IsPart
<1>4. CASE PromptLine' = PromptLine /\ pushed' = pushed /\ got' = got
  <2>1. CASE PromptsBroken'
    BY <1>4, <2>1 DEF Prompts!Next, Prompts!Break, PromptLine, Answer, PromptsBroken
  <2>2. CASE ~ PromptsBroken'
    BY <1>4, <2>2 DEF Prompts!dvars, PromptLine, Answer, PromptsBroken
  <2>. QED
    BY <2>1, <2>2
<1>. QED
  BY <1>1, <1>2, <1>3, <1>4

LEMMA PromptTypes ==
  ASSUME TypeOK
  PROVE  queue \in Seq(Nat) /\ Answer \in Seq(Nat) /\ << >> \in Seq(Nat) /\ pushed \in Nat /\ answer \in Nat
<1>1. queue \in Seq(1..MaxPrompts) /\ pushed \in Nat /\ answer \in Nat
  BY LinkAssumption DEF TypeOK
<1>2. queue \in Seq(Nat)
  BY <1>1, SeqMonotonic, LinkAssumption
<1>. QED
  BY <1>1, <1>2 DEF Answer

\* Nothing mends the way.
LEMMA StaysBroken ==
  ASSUME TypeOK, Next, PromptsBroken
  PROVE  PromptsBroken'
<1>1. CASE Boot \/ Tell \/ Think \/ Output \/ SessionEnds \/ Result \/ Report
  BY <1>1, GoneStays DEF PromptsBroken
<1>2. CASE Push \/ Serve \/ Poll
  BY <1>2 DEF Push, Serve, Poll, PromptsBroken, Left
<1>3. CASE Receive \/ ReceivePrompt \/ PollFails
  <2>1. worker.at = "poll" /\ ~ Left /\ (cut => cut')
    BY <1>3 DEF Receive, ReceivePrompt, PollFails, At, Left, TypeOK
  <2>. QED
    BY <2>1 DEF PromptsBroken
<1>4. CASE TimesOut
  BY <1>4, GoAt DEF TimesOut, PromptsBroken, Left
<1>5. CASE Stop
  BY <1>5, GoAt DEF Stop, PromptsBroken, Left
<1>6. CASE Restart
  BY <1>6 DEF Restart, PromptsBroken
<1>7. CASE Subscribe \/ OtherJob \/ Monitor \/ Hear \/ Quit
  BY <1>7 DEF Subscribe, OtherJob, Monitor, Lag, Watch, Inject, Hear, Quit, PromptsBroken, Left
<1>. QED
  BY <1>1, <1>2, <1>3, <1>4, <1>5, <1>6, <1>7 DEF Next, Runtime

LEMMA PromptMoves ==
  ASSUME TypeOK, [Next]_vars
  PROVE  [Prompts!Next]_(Prompts!dvars)
<1>0. queue \in Seq(Nat) /\ Answer \in Seq(Nat) /\ pushed \in Nat /\ answer \in Nat
  BY PromptTypes
<1>1. CASE UNCHANGED vars
  BY <1>1 DEF vars, prompts, asking, Prompts!dvars, Left
<1> SUFFICES ASSUME Next PROVE [Prompts!Next]_(Prompts!dvars)
  BY <1>1
<1>2. PromptsBroken => PromptsBroken'
  BY StaysBroken
<1>3. CASE UNCHANGED <<prompts, asking, got>>
  <2>1. PromptLine' = PromptLine /\ pushed' = pushed /\ got' = got
    BY <1>3 DEF prompts, asking, PromptLine, Answer
  <2>. QED
    BY <1>2, <2>1, PromptWay
<1>4. CASE Push
  <2>1. pushed' = pushed + 1 /\ queue' = Append(queue, pushed') /\ UNCHANGED asking /\ got' = got
    BY <1>4 DEF Push
  <2>2. Answer' = Answer /\ pushed' \in Nat
    BY <1>0, <2>1 DEF Answer, asking
  <2>3. PromptLine' = Append(PromptLine, pushed')
    BY <1>0, <2>1, <2>2, AppendBehind DEF PromptLine
  <2>. QED
    BY <1>2, <2>1, <2>3, PromptWay
<1>5. CASE Serve
  <2>1. got' = got /\ pushed' = pushed /\ Answer = << >> /\ PromptLine = queue
    BY <1>0, <1>5, ConcatEmptySeq DEF Serve, Answer, PromptLine
  <2>2. CASE queue # << >> /\ poll' = "prompt" /\ answer' = Head(queue) /\ queue' = Tail(queue)
    <3>1. Answer' = <<Head(queue)>> /\ Head(queue) \in Nat /\ Tail(queue) \in Seq(Nat)
      BY <1>0, <2>2, HeadTailProperties DEF Answer
    <3>2. <<Head(queue)>> \o Tail(queue) = queue
      BY <1>0, <2>2, HeadThenTail
    <3>3. PromptLine' = PromptLine
      BY <2>1, <2>2, <3>1, <3>2 DEF PromptLine
    <3>. QED
      BY <1>2, <2>1, <3>3, PromptWay
  <2>3. CASE poll' \in {"empty", "refused"} /\ UNCHANGED <<queue, answer>>
    <3>1. PromptLine' = PromptLine
      BY <1>0, <2>1, <2>3, ConcatEmptySeq DEF PromptLine, Answer
    <3>. QED
      BY <1>2, <2>1, <3>1, PromptWay
  <2>. QED
    BY <1>5, <2>2, <2>3 DEF Serve
<1>6. CASE ReceivePrompt
  <2>1. Answer = <<answer>> /\ got' = Append(got, answer) /\ pushed' = pushed /\ queue' = queue
        /\ Answer' = << >>
    BY <1>6 DEF ReceivePrompt, Forget, Answer, prompts
  <2>2. PromptLine # << >> /\ Head(PromptLine) = answer /\ Tail(PromptLine) = queue
    BY <1>0, <2>1, FirstInLine DEF PromptLine
  <2>3. PromptLine' = queue
    BY <1>0, <2>1, ConcatEmptySeq DEF PromptLine
  <2>. QED
    BY <1>2, <2>1, <2>2, <2>3, PromptWay
\* A request that ends without its answer, with the way broken or without a prompt
<1>7. ASSUME Forget, UNCHANGED <<prompts, got>>, PromptsBroken' \/ poll # "prompt"
      PROVE  [Prompts!Next]_(Prompts!dvars)
  <2>1. PromptLine' = queue /\ pushed' = pushed /\ got' = got
    BY <1>0, <1>7, ConcatEmptySeq DEF PromptLine, Forget, Answer, prompts
  <2>2. CASE PromptsBroken'
    <3>1. IsPart(queue, PromptLine)
      BY <1>0, EndsAreParts DEF PromptLine
    <3>. QED
      BY <1>2, <2>1, <2>2, <3>1, PromptWay
  <2>3. CASE poll # "prompt"
    <3>1. PromptLine = queue
      BY <1>0, <2>3, ConcatEmptySeq DEF PromptLine, Answer
    <3>. QED
      BY <1>2, <2>1, <3>1, PromptWay
  <2>. QED
    BY <1>7, <2>2, <2>3
<1>8. CASE Receive \/ PollFails \/ TimesOut
  BY <1>7, <1>8, GoAt DEF Receive, PollFails, TimesOut, PromptsBroken, Left
<1>9. CASE Poll
  <2>1. Answer = << >> /\ Answer' = << >> /\ UNCHANGED <<prompts, got>>
    BY <1>9 DEF Poll, Answer
  <2>2. PromptLine' = PromptLine /\ pushed' = pushed /\ got' = got
    BY <2>1 DEF PromptLine, prompts
  <2>. QED
    BY <1>2, <2>2, PromptWay
<1>10. CASE Stop
  BY <1>3, <1>7, <1>10, GoAt DEF Stop, PromptsBroken, Left
<1>11. CASE Restart
  <2>1. queue' = << >> /\ PromptsBroken' /\ Answer' = Answer /\ pushed' = pushed /\ got' = got
    BY <1>11 DEF Restart, PromptsBroken, Answer, asking
  <2>2. PromptLine' = Answer /\ IsPart(Answer, PromptLine)
    BY <1>0, <2>1, ConcatEmptySeq, EndsAreParts DEF PromptLine
  <2>. QED
    BY <1>2, <2>1, <2>2, PromptWay
<1>12. CASE Boot \/ Tell \/ Think \/ Output \/ SessionEnds \/ Result \/ Report
  BY <1>3, <1>12, GoneStays
<1>13. CASE Subscribe \/ OtherJob \/ Monitor \/ Hear \/ Quit
  BY <1>3, <1>13 DEF Subscribe, OtherJob, Monitor, Lag, Watch, Inject, Hear, Quit
<1>. QED
  BY <1>4, <1>5, <1>6, <1>8, <1>9, <1>10, <1>11, <1>12, <1>13 DEF Next, Runtime

-----------------------------------------------------------------------------
(* Events *)

EventLine == inbox \o Hand
EventsBroken == cut \/ ~ loop

LEMMA EventWay ==
  ASSUME EventsBroken => EventsBroken',
         \/ monitor'.next = monitor.next + 1 /\ EventLine' = Append(EventLine, monitor.next) /\ heard' = heard
         \/ monitor'.next > monitor.next /\ EventLine' = EventLine /\ heard' = heard
         \/ /\ EventLine # << >> /\ monitor'.next = monitor.next
            /\ heard' = Append(heard, Head(EventLine)) /\ EventLine' = Tail(EventLine)
         \/ /\ EventsBroken' /\ IsPart(EventLine', EventLine)
            /\ monitor'.next = monitor.next /\ heard' = heard
         \/ EventLine' = EventLine /\ monitor'.next = monitor.next /\ heard' = heard,
         monitor.next \in Nat, monitor'.next \in Nat
  PROVE  [Events!Next]_(Events!dvars)
<1>1. CASE monitor'.next = monitor.next + 1 /\ EventLine' = Append(EventLine, monitor.next) /\ heard' = heard
  <2>1. monitor'.next - 1 = monitor.next /\ monitor'.next - 1 = (monitor.next - 1) + 1
    BY <1>1
  <2>. QED
    BY <1>1, <2>1 DEF Events!Next, Events!Send, EventLine, Hand, Held, EventsBroken
<1>2. CASE monitor'.next > monitor.next /\ EventLine' = EventLine /\ heard' = heard
  <2>1. monitor'.next - 1 > monitor.next - 1
    BY <1>2
  <2>. QED
    BY <1>2, <2>1 DEF Events!Next, Events!Skip, EventLine, Hand, Held, EventsBroken
<1>3. CASE /\ EventLine # << >> /\ monitor'.next = monitor.next
           /\ heard' = Append(heard, Head(EventLine)) /\ EventLine' = Tail(EventLine)
  BY <1>3 DEF Events!Next, Events!Take, EventLine, Hand, Held, EventsBroken
<1>4. CASE /\ EventsBroken' /\ IsPart(EventLine', EventLine)
           /\ monitor'.next = monitor.next /\ heard' = heard
  BY <1>4 DEF Events!Next, Events!Lose, EventLine, Hand, Held, EventsBroken, IsPart
<1>5. CASE EventLine' = EventLine /\ monitor'.next = monitor.next /\ heard' = heard
  <2>1. CASE EventsBroken'
    BY <1>5, <2>1 DEF Events!Next, Events!Break, EventLine, Hand, Held, EventsBroken
  <2>2. CASE ~ EventsBroken'
    BY <1>5, <2>2 DEF Events!dvars, EventLine, Hand, Held, EventsBroken
  <2>. QED
    BY <2>1, <2>2
<1>. QED
  BY <1>1, <1>2, <1>3, <1>4, <1>5

LEMMA EventTypes ==
  ASSUME TypeOK
  PROVE  /\ inbox \in Seq(Nat) /\ heard \in Seq(Nat) /\ Hand \in Seq(Nat) /\ << >> \in Seq(Nat)
         /\ monitor \in MonitorRecord /\ monitor.next \in Nat \ {0} /\ Len(log) \in Nat
<1>1. inbox \in Seq(Nat) /\ heard \in Seq(Nat) /\ monitor \in MonitorRecord /\ Len(log) \in Nat
  BY LenProperties DEF TypeOK, MonitorRecord
<1>2. monitor.next \in Nat \ {0} /\ monitor.next - 1 \in Nat
  BY <1>1 DEF MonitorRecord
<1>. QED
  BY <1>1, <1>2 DEF Hand, Held

LEMMA EventMoves ==
  ASSUME TypeOK, TypeOK', TellInv, [Next]_vars
  PROVE  [Events!Next]_(Events!dvars)
<1>0. /\ inbox \in Seq(Nat) /\ Hand \in Seq(Nat) /\ << >> \in Seq(Nat)
      /\ monitor \in MonitorRecord /\ monitor.next \in Nat \ {0} /\ Len(log) \in Nat
      /\ monitor'.next \in Nat
  BY EventTypes DEF TypeOK
<1>1. CASE UNCHANGED vars
  BY <1>1 DEF vars, agent, Events!dvars, Held
<1> SUFFICES ASSUME Next PROVE [Events!Next]_(Events!dvars)
  BY <1>1
<1>2. CASE UNCHANGED agent /\ (cut => cut')
  <2>1. EventLine' = EventLine /\ monitor'.next = monitor.next /\ heard' = heard
    BY <1>2 DEF agent, EventLine, Hand, Held
  <2>2. EventsBroken => EventsBroken'
    BY <1>2 DEF agent, EventsBroken
  <2>. QED
    BY <1>0, <2>1, <2>2, EventWay
<1>3. CASE Push \/ Serve \/ Poll \/ Receive \/ ReceivePrompt \/ PollFails \/ TimesOut \/ Stop \/ OtherJob
  <2>1. UNCHANGED agent /\ (cut => cut')
    BY <1>3 DEF Push, Serve, Poll, Receive, ReceivePrompt, PollFails, TimesOut, Stop, OtherJob
  <2>. QED
    BY <1>2, <2>1
<1>4. CASE Boot \/ Tell \/ Think \/ Output \/ SessionEnds \/ Result \/ Report
  <2>1. UNCHANGED agent
    BY <1>4 DEF Boot, Tell, Think, Output, SessionEnds, Result, Report
  <2>. QED
    BY <1>2, <1>4, <2>1, GoneStays
<1>5. CASE Restart
  <2>1. monitor' = [monitor EXCEPT !.at = "ended"] /\ inbox' = << >> /\ heard' = heard /\ EventsBroken'
    BY <1>5 DEF Restart, EventsBroken
  <2>2. monitor'.next = monitor.next /\ Hand' = << >>
    BY <1>0, <2>1 DEF MonitorRecord, Hand, Held
  <2>3. EventLine' = << >> /\ IsPart(<< >>, EventLine)
    BY <1>0, <2>1, <2>2, ConcatEmptySeq, EndsAreParts DEF EventLine
  <2>. QED
    BY <1>0, <2>1, <2>2, <2>3, EventWay
<1>6. CASE Subscribe
  <2>1. monitor' = [monitor EXCEPT !.at = "watch", !.first = Len(log) + 1, !.next = Len(log) + 1]
        /\ monitor.at = "none" /\ UNCHANGED <<inbox, heard, loop, cut>>
    BY <1>6 DEF Subscribe
  <2>2. monitor'.next = Len(log) + 1 /\ Hand' = << >> /\ Hand = << >>
    BY <1>0, <2>1 DEF MonitorRecord, Hand, Held
  <2>3. EventLine' = EventLine /\ (EventsBroken => EventsBroken')
    BY <2>1, <2>2 DEF EventLine, EventsBroken
  <2>4. monitor'.next > monitor.next \/ monitor'.next = monitor.next
    BY <1>0, <2>2 DEF TellInv
  <2>. QED
    BY <1>0, <2>1, <2>3, <2>4, EventWay
<1>7. CASE Lag
  <2>1. monitor' = [monitor EXCEPT !.next = Len(log) - Ring + 1] /\ Behind > Ring
        /\ monitor.at = "watch" /\ UNCHANGED <<inbox, heard, loop, cut>>
    BY <1>7 DEF Lag
  <2>2. monitor'.next = Len(log) - Ring + 1 /\ Hand' = << >> /\ Hand = << >>
        /\ Len(log) - Ring + 1 \in Int
    BY <1>0, <2>1, LinkAssumption DEF MonitorRecord, Hand, Held
  <2>3. monitor'.next > monitor.next
    BY <1>0, <2>1, <2>2, LinkAssumption DEF Behind
  <2>. QED
    BY <1>0, <2>1, <2>2, <2>3, EventWay DEF EventLine, EventsBroken
<1>8. CASE Watch
  <2>1. monitor.at = "watch" /\ UNCHANGED <<inbox, heard, loop, cut>>
    BY <1>8 DEF Watch
  <2>2. Hand = << >> /\ EventLine = inbox
    BY <1>0, <2>1, ConcatEmptySeq DEF Hand, Held, EventLine
  <2>3. CASE monitor' = [monitor EXCEPT !.at = "push", !.next = monitor.next + 1]
    <3>1. monitor'.next = monitor.next + 1 /\ Hand' = <<monitor.next>>
      BY <1>0, <2>3 DEF MonitorRecord, Hand, Held
    <3>2. EventLine' = Append(EventLine, monitor.next)
      BY <1>0, <2>1, <2>2, <3>1, AppendIsConcat DEF EventLine
    <3>. QED
      BY <1>0, <2>1, <3>1, <3>2, EventWay DEF EventsBroken
  <2>4. CASE monitor' = [monitor EXCEPT !.next = monitor.next + 1]
    <3>1. monitor'.next = monitor.next + 1 /\ Hand' = << >>
      BY <1>0, <2>1, <2>4 DEF MonitorRecord, Hand, Held
    <3>2. EventLine' = EventLine /\ monitor'.next > monitor.next
      BY <1>0, <2>1, <2>2, <3>1 DEF EventLine
    <3>. QED
      BY <1>0, <2>1, <3>1, <3>2, EventWay DEF EventsBroken
  <2>. QED
    BY <1>8, <2>3, <2>4 DEF Watch
<1>9. CASE Inject
  <2>1. monitor.at = "push" /\ UNCHANGED <<heard, loop, cut>> /\ Hand = <<Held>> /\ Held \in Nat
    BY <1>0, <1>9 DEF Inject, Hand, Held
  <2>2. CASE loop /\ inbox' = Append(inbox, Held)
             /\ monitor' = [monitor EXCEPT !.at = IF log[Held] = "result" THEN "ended" ELSE "watch"]
    <3>1. monitor'.next = monitor.next /\ monitor'.at # "push"
      BY <1>0, <2>2 DEF MonitorRecord
    <3>2. Hand' = << >>
      BY <3>1 DEF Hand, Held
    <3>3. inbox' = inbox \o Hand /\ inbox \o Hand \in Seq(Nat)
      BY <1>0, <2>1, <2>2, AppendIsConcat, ConcatProperties
    <3>4. EventLine' = EventLine
      BY <3>2, <3>3, ConcatEmptySeq DEF EventLine
    <3>. QED
      BY <1>0, <2>1, <3>1, <3>4, EventWay DEF EventsBroken
  <2>3. CASE ~ loop /\ monitor' = [monitor EXCEPT !.at = "ended"] /\ UNCHANGED inbox
    <3>1. monitor'.next = monitor.next /\ Hand' = << >>
      BY <1>0, <2>3 DEF MonitorRecord, Hand, Held
    <3>2. EventLine' = inbox /\ IsPart(inbox, EventLine)
      BY <1>0, <2>3, <3>1, ConcatEmptySeq, EndsAreParts DEF EventLine
    <3>. QED
      BY <1>0, <2>1, <2>3, <3>1, <3>2, EventWay DEF EventsBroken
  <2>. QED
    BY <1>9, <2>2, <2>3 DEF Inject
<1>10. CASE Hear
  <2>1. inbox # << >> /\ heard' = Append(heard, Head(inbox)) /\ inbox' = Tail(inbox)
        /\ UNCHANGED <<monitor, loop, cut>> /\ Hand' = Hand
    BY <1>10 DEF Hear, Hand, Held
  <2> DEFINE h == Head(inbox)
             t == Tail(inbox)
  <2>2. h \in Nat /\ t \in Seq(Nat) /\ <<h>> \in Seq(Nat) /\ <<h>> \o t = inbox
    BY <1>0, <2>1, HeadThenTail
  <2> HIDE DEF h, t
  <2>3. EventLine = <<h>> \o (t \o Hand) /\ t \o Hand \in Seq(Nat)
    <3>1. inbox \o Hand = (<<h>> \o t) \o Hand
      BY <2>2
    <3>2. (<<h>> \o t) \o Hand = <<h>> \o (t \o Hand)
      <4>1. <<h>> \in Seq(Nat) /\ t \in Seq(Nat) /\ Hand \in Seq(Nat)
        BY <1>0, <2>2
      <4>. QED
        BY ONLY <4>1, ConcatAssociative
    <3>3. t \o Hand \in Seq(Nat)
      BY <1>0, <2>2, ConcatProperties
    <3>. QED
      BY <3>1, <3>2, <3>3 DEF EventLine
  <2>4. EventLine # << >> /\ Head(EventLine) = h /\ Tail(EventLine) = t \o Hand
    BY <2>2, <2>3, FirstInLine
  <2>5. EventLine' = Tail(EventLine) /\ heard' = Append(heard, Head(EventLine))
    BY <2>1, <2>4 DEF EventLine, h, t
  <2>. QED
    BY <1>0, <2>1, <2>4, <2>5, EventWay DEF EventsBroken
<1>11. CASE Quit
  <2>1. inbox' = << >> /\ UNCHANGED <<monitor, heard>> /\ EventsBroken' /\ Hand' = Hand
    BY <1>11 DEF Quit, EventsBroken, Hand, Held
  <2>2. EventLine' = Hand /\ IsPart(Hand, EventLine)
    BY <1>0, <2>1, ConcatEmptySeq, EndsAreParts DEF EventLine
  <2>. QED
    BY <1>0, <2>1, <2>2, EventWay
<1>. QED
  BY <1>3, <1>4, <1>5, <1>6, <1>7, <1>8, <1>9, <1>10, <1>11 DEF Next, Runtime, Monitor

\* Nothing is lost on the way between the user and the container, nor between the
\* monitor and the agent loop, until a connection fails or an end has gone, and
\* nothing ever comes twice or overtakes: get_prompt_handler takes a prompt out of
\* the queue with the answer, and spawn_job_monitor waits for room in the channel.
THEOREM DeliveredCorrect == Spec => Delivered
<1>1. Init => Prompts!Init /\ Events!Init
  <2> SUFFICES ASSUME Init PROVE Prompts!Init /\ Events!Init
    OBVIOUS
  <2>1. << >> \o << >> = << >>
    BY EmptySeq, ConcatEmptySeq
  <2>2. ~ Left
    BY DEF Init, Left
  <2>. QED
    BY <2>1, <2>2 DEF Init, Prompts!Init, Events!Init, Held
<1>2. TypeOK /\ TypeOK' /\ TellInv /\ [Next]_vars
        => [Prompts!Next]_(Prompts!dvars) /\ [Events!Next]_(Events!dvars)
  BY PromptMoves, EventMoves
<1>. QED
  BY <1>1, <1>2, TypeCorrect, TellInit, TellStep, PTL DEF Spec, Delivered, Prompts!Spec, Events!Spec
-----------------------------------------------------------------------------
(* A worker ends after a bounded number of steps *)

\* What the worker may still do after its LLM call of an iteration: its result
\* and its report, and five steps for every iteration that is left.
Rest(iteration) == (MaxIterations - iteration) * 5 + 2

\* An upper bound on the steps the worker and the answers to its polls still take
StepsLeft ==
  CASE worker.at = "over"   -> 0
    [] worker.at = "report" -> 1
    [] worker.at = "result" -> 2
    [] worker.at = "think"  -> Rest(worker.iteration) + 1
    [] worker.at = "tell"   -> Rest(worker.iteration) + 2
    [] worker.at = "poll"   -> Rest(worker.iteration)
                                 + (CASE poll = "none" -> 5 [] poll = "sent" -> 4 [] OTHER -> 3)
    [] worker.at = "boot"   -> Rest(worker.iteration) + 6

\* Whatever moves a worker or its poll brings it nearer its end.
WorkerComesNearer ==
  /\ [](mode = "worker" => StepsLeft \in Nat)
  /\ [][mode = "worker" => UNCHANGED <<worker, poll>> \/ StepsLeft' < StepsLeft]_vars

\* A request is on its way only while the runtime waits for it.
WaitsForPoll == poll # "none" => worker.at = "poll"

LEMMA WaitsStep == TypeOK /\ WaitsForPoll /\ [Next]_vars => WaitsForPoll'
<1> SUFFICES ASSUME TypeOK, WaitsForPoll, [Next]_vars PROVE WaitsForPoll'
  OBVIOUS
<1>1. CASE Boot \/ Tell \/ Think \/ Output \/ SessionEnds \/ Result \/ Report
  <2>1. UNCHANGED poll
    BY <1>1, GoneStays DEF asking
  <2>2. worker.at # "poll" \/ UNCHANGED worker
    BY <1>1 DEF Boot, Tell, Think, Output, SessionEnds, Result, Report, At
  <2>. QED
    BY <2>1, <2>2 DEF WaitsForPoll
<1>2. CASE Receive \/ ReceivePrompt \/ PollFails \/ TimesOut \/ Stop
  BY <1>2 DEF Receive, ReceivePrompt, PollFails, TimesOut, Stop, Forget, WaitsForPoll, asking
<1>3. CASE Push \/ Serve \/ Poll \/ Restart
  BY <1>3 DEF Push, Serve, Poll, Restart, At, WaitsForPoll, asking
<1>4. CASE UNCHANGED vars \/ Subscribe \/ OtherJob \/ Monitor \/ Hear \/ Quit
  BY <1>4 DEF vars, Subscribe, OtherJob, Monitor, Lag, Watch, Inject, Hear, Quit, WaitsForPoll, asking
<1>. QED
  BY <1>1, <1>2, <1>3, <1>4 DEF Next, Runtime

LEMMA RestFalls ==
  ASSUME NEW i \in 1..MaxIterations
  PROVE  /\ Rest(i) \in Nat /\ Rest(i) >= 2
         /\ i < MaxIterations => Rest(i) = Rest(i + 1) + 5 /\ Rest(i + 1) \in Nat
BY LinkAssumption DEF Rest

\* The bound by the place the worker is at
LEMMA WorkerPlaces ==
  ASSUME TypeOK, mode = "worker"
  PROVE  /\ worker.iteration \in 1..MaxIterations /\ worker.at \in Places["worker"]
         /\ worker.at = "over"   => StepsLeft = 0
         /\ worker.at = "report" => StepsLeft = 1
         /\ worker.at = "result" => StepsLeft = 2
         /\ worker.at = "think"  => StepsLeft = Rest(worker.iteration) + 1
         /\ worker.at = "tell"   => StepsLeft = Rest(worker.iteration) + 2
         /\ worker.at = "poll" /\ poll = "none" => StepsLeft = Rest(worker.iteration) + 5
         /\ worker.at = "poll" /\ poll = "sent" => StepsLeft = Rest(worker.iteration) + 4
         /\ worker.at = "poll" /\ poll \notin {"none", "sent"} => StepsLeft = Rest(worker.iteration) + 3
         /\ worker.at = "boot"   => StepsLeft = Rest(worker.iteration) + 6
<1>1. worker.iteration \in 1..MaxIterations /\ worker.at \in Places["worker"]
  BY LinkAssumption DEF TypeOK
<1>. QED
  BY <1>1 DEF StepsLeft

LEMMA WorkerPlacesNext ==
  ASSUME TypeOK', mode' = "worker"
  PROVE  /\ worker'.iteration \in 1..MaxIterations /\ worker'.at \in Places["worker"]
         /\ worker'.at = "over"   => StepsLeft' = 0
         /\ worker'.at = "report" => StepsLeft' = 1
         /\ worker'.at = "result" => StepsLeft' = 2
         /\ worker'.at = "think"  => StepsLeft' = Rest(worker'.iteration) + 1
         /\ worker'.at = "tell"   => StepsLeft' = Rest(worker'.iteration) + 2
         /\ worker'.at = "poll" /\ poll' = "none" => StepsLeft' = Rest(worker'.iteration) + 5
         /\ worker'.at = "poll" /\ poll' = "sent" => StepsLeft' = Rest(worker'.iteration) + 4
         /\ worker'.at = "poll" /\ poll' \notin {"none", "sent"} => StepsLeft' = Rest(worker'.iteration) + 3
         /\ worker'.at = "boot"   => StepsLeft' = Rest(worker'.iteration) + 6
<1>1. worker'.iteration \in 1..MaxIterations /\ worker'.at \in Places["worker"]
  BY LinkAssumption DEF TypeOK
<1>. QED
  BY <1>1 DEF StepsLeft

LEMMA WorkerStep ==
  ASSUME TypeOK, TypeOK', WaitsForPoll, WaitsForPoll', Next, mode = "worker"
  PROVE  UNCHANGED <<worker, poll>> \/ StepsLeft' < StepsLeft
<1> DEFINE i == worker.iteration
           Nearer == StepsLeft' < StepsLeft
<1>1. mode' = "worker"
  <2>1. UNCHANGED mode
    BY DEF Next, Runtime, Monitor, Push, Serve, Boot, Poll, Receive, ReceivePrompt, PollFails,
       Tell, Think, TimesOut, Output, SessionEnds, Result, Report, Stop, Restart, Subscribe,
       OtherJob, Lag, Watch, Inject, Hear, Quit
  <2>. QED
    BY <2>1
<1>2. i \in 1..MaxIterations /\ Rest(i) \in Nat /\ Rest(i) >= 2
  BY WorkerPlaces, RestFalls
\* A step to another place in the same iteration
<1>3. ASSUME NEW phase, Go(phase) PROVE worker'.at = phase /\ worker'.iteration = i
  BY <1>3 DEF TypeOK, Go
<1>4. CASE Push \/ Output \/ SessionEnds \/ Restart \/ Subscribe \/ OtherJob \/ Monitor \/ Hear \/ Quit
  BY <1>4 DEF Push, Output, SessionEnds, Restart, Subscribe, OtherJob, Monitor, Lag, Watch, Inject,
     Hear, Quit, asking, At, TypeOK, Places
<1>5. CASE Serve
  <2>1. UNCHANGED worker /\ poll = "sent" /\ poll' \in {"prompt", "empty", "refused"}
    BY <1>5 DEF Serve
  <2>2. worker.at = "poll"
    BY <2>1 DEF WaitsForPoll
  <2>3. StepsLeft = Rest(i) + 4 /\ StepsLeft' = Rest(i) + 3
    BY <1>1, <2>1, <2>2, WorkerPlaces, WorkerPlacesNext
  <2>. QED
    BY <1>2, <2>3
<1>6. CASE Boot
  <2>1. worker.at = "boot" /\ UNCHANGED poll /\ (Go("poll") \/ Go("over"))
    BY <1>6 DEF Boot, At, asking
  <2>2. poll' = "none"
    BY <2>1 DEF WaitsForPoll
  <2>3. StepsLeft = Rest(i) + 6
    BY <2>1, WorkerPlaces
  <2>4. StepsLeft' \in {0, Rest(i) + 5}
    BY <1>1, <1>3, <2>1, <2>2, WorkerPlacesNext
  <2>. QED
    BY <1>2, <2>3, <2>4
<1>7. CASE Poll
  <2>1. worker.at = "poll" /\ poll = "none" /\ poll' = "sent" /\ UNCHANGED worker
    BY <1>7 DEF Poll, At
  <2>2. StepsLeft = Rest(i) + 5 /\ StepsLeft' = Rest(i) + 4
    BY <1>1, <2>1, WorkerPlaces, WorkerPlacesNext
  <2>. QED
    BY <1>2, <2>2
<1>8. CASE Receive \/ ReceivePrompt \/ PollFails
  <2>1. worker.at = "poll" /\ poll # "none" /\ (Go("think") \/ Go("tell"))
    BY <1>8 DEF Receive, ReceivePrompt, PollFails, At
  <2>2. StepsLeft \in {Rest(i) + 3, Rest(i) + 4}
    BY <2>1, WorkerPlaces
  <2>3. StepsLeft' \in {Rest(i) + 1, Rest(i) + 2}
    BY <1>1, <1>3, <2>1, WorkerPlacesNext
  <2>. QED
    BY <1>2, <2>2, <2>3
<1>9. CASE Tell
  <2>1. worker.at = "tell" /\ Go("think")
    BY <1>9 DEF Tell, At
  <2>2. StepsLeft = Rest(i) + 2 /\ StepsLeft' = Rest(i) + 1
    BY <1>1, <1>3, <2>1, WorkerPlaces, WorkerPlacesNext
  <2>. QED
    BY <1>2, <2>2
<1>10. CASE Think
  <2>1. worker.at = "think" /\ StepsLeft = Rest(i) + 1
    BY <1>10, WorkerPlaces DEF Think, At
  <2>2. CASE Go("result")
    <3>1. StepsLeft' = 2
      BY <1>1, <1>3, <2>2, WorkerPlacesNext
    <3>. QED
      BY <1>2, <2>1, <3>1
  <2>3. CASE i < MaxIterations /\ worker' = [at |-> "poll", iteration |-> i + 1]
    <3>1. worker'.at = "poll" /\ worker'.iteration = i + 1 /\ poll' = "none"
      BY <1>10, <2>1, <2>3 DEF Think, WaitsForPoll, asking
    <3>2. StepsLeft' = Rest(i + 1) + 5
      BY <1>1, <3>1, WorkerPlacesNext
    <3>3. Rest(i) = Rest(i + 1) + 5 /\ Rest(i + 1) \in Nat
      BY <1>2, <2>3, RestFalls
    <3>. QED
      BY <2>1, <3>2, <3>3
  <2>. QED
    BY <1>10, <2>2, <2>3 DEF Think, Answered
<1>11. CASE TimesOut
  <2>1. worker.at \in {"poll", "tell", "think"} /\ Go("result")
    BY <1>11 DEF TimesOut
  <2>2. StepsLeft \in {Rest(i) + n : n \in 1..5}
    BY <2>1, WorkerPlaces
  <2>3. StepsLeft' = 2
    BY <1>1, <1>3, <2>1, WorkerPlacesNext
  <2>. QED
    BY <1>2, <2>2, <2>3
<1>12. CASE Result \/ Report
  <2>1. (worker.at = "result" /\ Go("report")) \/ (worker.at = "report" /\ Go("over"))
    BY <1>12 DEF Result, Report, At
  <2>2. (StepsLeft = 2 /\ StepsLeft' = 1) \/ (StepsLeft = 1 /\ StepsLeft' = 0)
    BY <1>1, <1>3, <2>1, WorkerPlaces, WorkerPlacesNext
  <2>. QED
    BY <2>2
<1>13. CASE Stop
  <2>1. UNCHANGED <<worker, asking>> \/ Go("over")
    BY <1>13 DEF Stop
  <2>2. CASE Go("over")
    <3>1. StepsLeft' = 0
      BY <1>1, <1>3, <2>2, WorkerPlacesNext
    <3>2. CASE worker.at = "over"
      <4>1. worker' = worker /\ poll = "none" /\ poll' = "none"
        BY <1>3, <2>2, <3>2 DEF Go, TypeOK, WaitsForPoll
      <4>. QED
        BY <4>1
    <3>3. CASE worker.at # "over"
      <4>1. StepsLeft \in {1, 2} \cup {Rest(i) + n : n \in 1..6}
        BY <3>3, WorkerPlaces DEF Places
      <4>. QED
        BY <1>2, <3>1, <4>1
    <3>. QED
      BY <3>2, <3>3
  <2>. QED
    BY <2>1, <2>2 DEF asking
<1>. QED
  BY <1>4, <1>5, <1>6, <1>7, <1>8, <1>9, <1>10, <1>11, <1>12, <1>13 DEF Next, Runtime

\* Whatever its polls, its LLM and its connections do, and whether or not its
\* container is stopped, every step of a worker or of the answer it waits for
\* brings it nearer its end: execution_loop counts an iteration for each call of
\* the LLM and leaves the loop at an error.  With the fairness of FairSpec this is
\* what WorkerEnds rests on.
THEOREM WorkerRunsDown == Spec => WorkerComesNearer
<1>1. Init => WaitsForPoll
  BY DEF Init, WaitsForPoll
<1>2. TypeOK /\ TypeOK' /\ WaitsForPoll /\ WaitsForPoll' /\ [Next]_vars
        => [mode = "worker" => UNCHANGED <<worker, poll>> \/ StepsLeft' < StepsLeft]_vars
  BY WorkerStep
<1>3. TypeOK => (mode = "worker" => StepsLeft \in Nat)
  BY WorkerPlaces, RestFalls DEF Places
<1>. QED
  BY <1>1, <1>2, <1>3, WaitsStep, TypeCorrect, PTL DEF Spec, WorkerComesNearer
=============================================================================
