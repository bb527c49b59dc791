--------------------------- MODULE ContainerLink ---------------------------
(***************************************************************************)
(* What goes between a container job and the agent that started it: the    *)
(* prompts a user queues and the container polls for, and the events the   *)
(* container posts, which a monitor forwards to the agent loop.  One job,  *)
(* run by WorkerRuntime or by ClaudeBridgeRuntime, whose requests may be   *)
(* refused, fail or lose their answer; SandboxJobs has the rest of its     *)
(* life.  The row of an event, written by a spawned task for the user to   *)
(* read, is left out.                                                      *)
(***************************************************************************)
EXTENDS Integers, Sequences

CONSTANTS
  MaxIterations,  \* WorkerConfig::max_iterations
  Ring,           \* capacity of the broadcast channel of job events
  Room,           \* capacity of the agent loop's inject channel
  MaxPrompts,     \* bound: prompts queued
  MaxEvents       \* bound: events after which Claude sessions and other jobs send none

ASSUME LinkAssumption ==
  /\ MaxIterations \in Nat \ {0} /\ Ring \in Nat \ {0} /\ Room \in Nat \ {0}
  /\ MaxPrompts \in Nat /\ MaxEvents \in Nat

VARIABLES
  mode,     \* JobMode: "worker" or "claude"
  worker,   \* where the runtime in the container is, and its iteration
  token,    \* the job's token is in the TokenStore
  queue,    \* prompt_queue of the job; prompts are numbered as they come
  pushed,   \* the number of prompts that have come
  final,    \* those with done
  poll,     \* GET /prompt: "none", "sent", and its answer: "prompt", "empty", "refused"
  answer,   \* the prompt in the answer, or 0
  got,      \* the prompts the container has received
  log,      \* what has been sent on the broadcast channel, by kind
  monitor,  \* the job monitor: its state, its first and its next event
  inbox,    \* messages of the monitor in the inject channel, by event
  heard,    \* those the agent loop has taken
  loop,     \* the agent loop takes messages
  cut,      \* a connection has failed, or the process restarted
  lagged    \* the monitor has missed events

prompts == <<queue, pushed, final>>
asking == <<poll, answer>>
agent == <<monitor, inbox, heard, loop, lagged>>
vars == <<mode, worker, token, prompts, asking, got, log, agent, cut>>

Over == worker.at = "over"

Init ==
  /\ mode \in {"worker", "claude"}
  /\ worker = [at |-> "boot", iteration |-> 1]
  /\ token = TRUE
  /\ queue = << >> /\ pushed = 0 /\ final = {}
  /\ poll = "none" /\ answer = 0 /\ got = << >>
  /\ log = << >>
  /\ monitor = [at |-> "none", first |-> 1, next |-> 1]
  /\ inbox = << >> /\ heard = << >>
  /\ loop = TRUE /\ cut = FALSE /\ lagged = FALSE

At(phase) == worker.at = phase
Go(phase) == worker' = [worker EXCEPT !.at = phase]

----------------------------------------------------------------------------
\* jobs_prompt_handler: whoever the row belongs to may queue a prompt, whether
\* or not the container is still there to poll
Push ==
  /\ pushed < MaxPrompts
  /\ pushed' = pushed + 1
  /\ queue' = Append(queue, pushed')
  /\ \/ UNCHANGED final
     \/ mode = "claude" /\ final' = final \cup {pushed'}   \* a worker ignores it
  /\ UNCHANGED <<mode, worker, token, asking, got, log, agent, cut>>

ServeAll ==   \* mutant: takes the job's queue out of the map with its first prompt
  /\ poll = "sent"
  /\ \/ /\ token /\ queue # << >>
        /\ poll' = "prompt" /\ answer' = Head(queue) /\ queue' = << >>
     \/ token /\ queue = << >> /\ poll' = "empty" /\ UNCHANGED <<queue, answer>>
     \/ ~ token /\ poll' = "refused" /\ UNCHANGED <<queue, answer>>
  /\ UNCHANGED <<mode, worker, token, pushed, final, got, log, agent, cut>>

ServeAgain ==   \* mutant: answers with a prompt and leaves it in the queue
  /\ poll = "sent"
  /\ \/ token /\ queue # << >> /\ poll' = "prompt" /\ answer' = Head(queue)
     \/ token /\ queue = << >> /\ poll' = "empty" /\ UNCHANGED answer
     \/ ~ token /\ poll' = "refused" /\ UNCHANGED answer
  /\ UNCHANGED <<mode, worker, token, prompts, got, log, agent, cut>>

\* get_prompt_handler, behind the check of the token
Serve ==
  /\ poll = "sent"
  /\ \/ /\ token /\ queue # << >>
        /\ poll' = "prompt" /\ answer' = Head(queue) /\ queue' = Tail(queue)
     \/ token /\ queue = << >> /\ poll' = "empty" /\ UNCHANGED <<queue, answer>>
     \/ ~ token /\ poll' = "refused" /\ UNCHANGED <<queue, answer>>
  /\ UNCHANGED <<mode, worker, token, pushed, final, got, log, agent, cut>>

\* post_event: nobody learns whether the event was accepted
Post(kind) ==
  \/ token /\ log' = Append(log, kind) /\ UNCHANGED cut
  \/ token /\ cut' = TRUE /\ UNCHANGED log
  \/ ~ token /\ UNCHANGED <<log, cut>>

----------------------------------------------------------------------------
\* Before its loop a runtime asks for the job and its credentials; an error
\* ends it without a report
Boot ==
  /\ At("boot")
  /\ \/ token /\ Go(IF mode = "worker" THEN "poll" ELSE "session") /\ UNCHANGED cut
     \/ token /\ Go("over") /\ cut' = TRUE
     \/ ~ token /\ Go("over") /\ UNCHANGED cut
  /\ UNCHANGED <<mode, token, prompts, asking, got, log, agent>>

Forget == poll' = "none" /\ answer' = 0

Poll ==
  /\ At("poll") /\ poll = "none"
  /\ poll' = "sent" /\ UNCHANGED answer
  /\ UNCHANGED <<mode, worker, token, prompts, got, log, agent, cut>>

\* Without a prompt the worker thinks, the bridge sleeps and polls again
Receive ==
  /\ At("poll") /\ poll \in {"empty", "refused"}
  /\ Forget
  /\ Go(IF mode = "worker" THEN "think" ELSE "poll")
  /\ UNCHANGED <<mode, token, prompts, got, log, agent, cut>>

\* The same after a failed connection, which takes with it what the orchestrator
\* may have answered
PollFails ==
  /\ At("poll") /\ poll # "none"
  /\ Forget /\ cut' = TRUE
  /\ Go(IF mode = "worker" THEN "think" ELSE "poll")
  /\ UNCHANGED <<mode, token, prompts, got, log, agent>>

\* A prompt: the worker adds it to its context, the bridge begins a session
\* with it, or ends if it says done
ReceivePrompt ==
  /\ At("poll") /\ poll = "prompt"
  /\ got' = Append(got, answer)
  /\ Forget
  /\ \/ mode = "worker" /\ Go("tell")
     \/ mode = "claude" /\ answer \in final /\ Go("report")
     \/ /\ mode = "claude" /\ answer \notin final
        /\ worker' = [at |-> "session", iteration |-> worker.iteration + 1]
  /\ UNCHANGED <<mode, token, prompts, log, agent, cut>>

----------------------------------------------------------------------------
\* The worker tells of a prompt it has received and the bridge of a session that
\* failed after the first, in events that no monitor forwards
Tell ==
  /\ At("tell")
  /\ Post("other")
  /\ Go(IF mode = "worker" THEN "think" ELSE "poll")
  /\ UNCHANGED <<mode, token, prompts, asking, got, agent>>

\* The LLM, asked through the orchestrator, answers with text or tool calls;
\* text that signals completion ends the loop, and so does the last iteration
Answered ==
  /\ token
  /\ \E kind \in {"message", "other"} :
       /\ Post(kind)
       /\ \/ kind = "message" /\ Go("result")
          \/ worker.iteration = MaxIterations /\ Go("result")
          \/ /\ worker.iteration < MaxIterations
             /\ worker' = [at |-> "poll", iteration |-> worker.iteration + 1]

ThinkAgain ==   \* mutant: after an error the loop asks for a prompt again
  /\ At("think")
  /\ \/ Answered
     \/ Go("poll") /\ UNCHANGED <<log, cut>>
  /\ UNCHANGED <<mode, token, prompts, asking, got, agent>>

Think ==
  /\ At("think")
  /\ \/ Answered
     \/ Go("result") /\ UNCHANGED <<log, cut>>   \* an error of the LLM or the orchestrator
  /\ UNCHANGED <<mode, token, prompts, asking, got, agent>>

\* The job's timeout drops whatever the loop is waiting for
TimesOut ==
  /\ mode = "worker" /\ worker.at \in {"poll", "tell", "think"}
  /\ Go("result") /\ Forget
  /\ UNCHANGED <<mode, token, prompts, got, log, agent, cut>>

\* ClaudeBridgeRuntime: the session's output is forwarded as it comes, the result
\* that Claude itself gives included; the bridge posts its own when the session
\* has ended
Output ==
  /\ At("session") /\ Len(log) < MaxEvents
  /\ \E kind \in {"message", "result", "other"} : Post(kind)
  /\ UNCHANGED <<mode, worker, token, prompts, asking, got, agent>>

Failed == IF worker.iteration = 1 THEN "report" ELSE "tell"
SessionEnds ==
  /\ At("session")
  /\ Go("result") \/ Go(Failed)   \* claude ran, or could not be started
  /\ UNCHANGED <<mode, token, prompts, asking, got, log, agent, cut>>

\* The loop of a worker and every session of the bridge end with a result; the
\* bridge is over if its first session failed, and polls after any other
Result ==
  /\ At("result")
  /\ Post("result")
  /\ \/ mode = "worker" /\ Go("report")
     \/ mode = "claude" /\ (Go("poll") \/ Go(Failed))
  /\ UNCHANGED <<mode, token, prompts, asking, got, agent>>

\* report_complete: complete_job stops the container and revokes the token, or
\* leaves that to who waits for the job; if the report fails the runtime ends
\* all the same
Report ==
  /\ At("report")
  /\ Go("over")
  /\ \/ token /\ token' \in BOOLEAN /\ UNCHANGED cut
     \/ token /\ cut' = TRUE /\ UNCHANGED token
     \/ ~ token /\ UNCHANGED <<token, cut>>
  /\ UNCHANGED <<mode, prompts, asking, got, log, agent>>

\* stop_job, for a cancellation or a deadline: the container is killed, unless
\* Docker fails, and the token revoked
Stop ==
  /\ token
  /\ token' = FALSE
  /\ \/ Go("over") /\ Forget
     \/ UNCHANGED <<worker, asking>>
  /\ UNCHANGED <<mode, prompts, got, log, agent, cut>>

\* The orchestrator's process restarts: the container stays, the rest is gone
Restart ==
  /\ token' = FALSE /\ queue' = << >> /\ cut' = TRUE
  /\ monitor' = [monitor EXCEPT !.at = "ended"]
  /\ inbox' = << >>
  /\ UNCHANGED <<mode, worker, pushed, final, asking, got, log, heard, loop, lagged>>

----------------------------------------------------------------------------
\* execute_sandbox, if it does not wait for the job: the monitor hears what is
\* sent from now on
Subscribe ==
  /\ monitor.at = "none"
  /\ monitor' = [monitor EXCEPT !.at = "watch", !.first = Len(log) + 1, !.next = Len(log) + 1]
  /\ UNCHANGED <<mode, worker, token, prompts, asking, got, log, inbox, heard, loop, cut, lagged>>

\* The channel is that of all jobs; the monitor skips what others send
OtherJob ==
  /\ Len(log) < MaxEvents
  /\ log' = Append(log, "other")
  /\ UNCHANGED <<mode, worker, token, prompts, asking, got, agent, cut>>

Behind == Len(log) - monitor.next + 1

\* recv returns Lagged once and goes on with the oldest event still there
Lag ==
  /\ monitor.at = "watch" /\ Behind > Ring
  /\ monitor' = [monitor EXCEPT !.next = Len(log) - Ring + 1]
  /\ lagged' = TRUE
  /\ UNCHANGED <<mode, worker, token, prompts, asking, got, log, inbox, heard, loop, cut>>

\* Messages of the assistant and the result are passed on, the rest is skipped
Watch ==
  /\ monitor.at = "watch" /\ Behind \in 1..Ring
  /\ monitor' = IF log[monitor.next] \in {"message", "result"}
                THEN [monitor EXCEPT !.at = "push", !.next = @ + 1]
                ELSE [monitor EXCEPT !.next = @ + 1]
  /\ UNCHANGED <<mode, worker, token, prompts, asking, got, log, inbox, heard, loop, cut, lagged>>

\* inject_tx.send waits for room and fails once the loop is gone; the monitor
\* exits then, and after the result
Held == monitor.next - 1
InjectTry ==   \* mutant: a message for which there is no room is dropped
  /\ monitor.at = "push"
  /\ inbox' = IF loop /\ Len(inbox) < Room THEN Append(inbox, Held) ELSE inbox
  /\ monitor' = [monitor EXCEPT !.at = IF log[Held] = "result" \/ ~ loop THEN "ended" ELSE "watch"]
  /\ UNCHANGED <<mode, worker, token, prompts, asking, got, log, heard, loop, cut, lagged>>

InjectOn ==   \* mutant: the monitor watches on after the result
  /\ monitor.at = "push"
  /\ \/ /\ loop /\ Len(inbox) < Room
        /\ inbox' = Append(inbox, Held)
        /\ monitor' = [monitor EXCEPT !.at = "watch"]
     \/ ~ loop /\ monitor' = [monitor EXCEPT !.at = "ended"] /\ UNCHANGED inbox
  /\ UNCHANGED <<mode, worker, token, prompts, asking, got, log, heard, loop, cut, lagged>>

Inject ==
  /\ monitor.at = "push"
  /\ \/ /\ loop /\ Len(inbox) < Room
        /\ inbox' = Append(inbox, Held)
        /\ monitor' = [monitor EXCEPT !.at = IF log[Held] = "result" THEN "ended" ELSE "watch"]
     \/ ~ loop /\ monitor' = [monitor EXCEPT !.at = "ended"] /\ UNCHANGED inbox
  /\ UNCHANGED <<mode, worker, token, prompts, asking, got, log, heard, loop, cut, lagged>>

Hear ==
  /\ loop /\ inbox # << >>
  /\ heard' = Append(heard, Head(inbox)) /\ inbox' = Tail(inbox)
  /\ UNCHANGED <<mode, worker, token, prompts, asking, got, log, monitor, loop, cut, lagged>>

\* The agent loop returns and the inject channel closes
Quit ==
  /\ loop
  /\ loop' = FALSE /\ inbox' = << >>
  /\ UNCHANGED <<mode, worker, token, prompts, asking, got, log, monitor, heard, cut, lagged>>

----------------------------------------------------------------------------
Runtime ==
  Boot \/ Poll \/ Receive \/ ReceivePrompt \/ Tell \/ Think \/ SessionEnds \/ Result \/ Report
Monitor == Lag \/ Watch \/ Inject

Next ==
  \/ Push \/ Serve
  \/ Runtime \/ PollFails \/ TimesOut \/ Output
  \/ Stop \/ Restart
  \/ Subscribe \/ OtherJob \/ Monitor \/ Hear \/ Quit

Spec == Init /\ [][Next]_vars

\* Tasks go on: requests are answered or fail, the LLM answers or its call
\* fails, a Claude session has a limit of turns, the agent loop takes messages.
\* The job's timeout is an extra.
FairSpec ==
  /\ Spec
  /\ WF_vars(Serve) /\ WF_vars(Runtime)
  /\ WF_vars(Monitor) /\ WF_vars(Hear)

----------------------------------------------------------------------------
\* The variables keep their types: a runtime is at a place of its own mode, a
\* request has an answer exactly when it was given a prompt, and the inject
\* channel never holds more than it has room for
Places == [worker |-> {"boot", "poll", "tell", "think", "result", "report", "over"},
           claude |-> {"boot", "session", "poll", "tell", "result", "report", "over"}]
TypeOK ==
  /\ mode \in {"worker", "claude"}
  /\ worker \in [at : Places[mode], iteration : Nat \ {0}]
  /\ mode = "worker" => worker.iteration <= MaxIterations
  /\ token \in BOOLEAN /\ loop \in BOOLEAN /\ cut \in BOOLEAN /\ lagged \in BOOLEAN
  /\ queue \in Seq(1..MaxPrompts) /\ got \in Seq(1..MaxPrompts)
  /\ pushed \in 0..MaxPrompts /\ final \subseteq 1..pushed
  /\ poll \in {"none", "sent", "prompt", "empty", "refused"}
  /\ answer \in 0..MaxPrompts /\ (poll = "prompt" <=> answer # 0)
  /\ log \in Seq({"message", "result", "other"})
  /\ monitor \in [at : {"none", "watch", "push", "ended"}, first : Nat \ {0}, next : Nat \ {0}]
  /\ inbox \in Seq(Nat) /\ Len(inbox) <= Room /\ heard \in Seq(Nat)

\* Prompts reach the container in the order in which they were queued, each at
\* most once and, unless a connection fails, without a gap; the bridge takes
\* none after one that says done (get_prompt_handler, ClaudeBridgeRuntime::run)
PromptsInOrder ==
  /\ \A i \in 1..Len(got) - 1 : got[i] < got[i + 1]
  /\ cut \/ \A i \in DOMAIN got : got[i] = i
  /\ mode = "claude" => \A i \in 1..Len(got) - 1 : got[i] \notin final

\* The runtime does not poll any more
Left == worker.at \in (IF mode = "worker" THEN {"result", "report", "over"} ELSE {"over"})

\* The queue with the answers to its polls, and the inject channel with what the
\* monitor holds, are two ways on which nothing is lost until a connection fails,
\* the runtime polls no more or the agent loop has gone, and on which nothing ever
\* comes twice or overtakes (get_prompt_handler, spawn_job_monitor)
Prompts == INSTANCE Delivery WITH
  MaySkip <- FALSE, last <- pushed, taken <- got, broken <- cut \/ Left,
  line <- (IF poll = "prompt" THEN <<answer>> ELSE << >>) \o queue
Events == INSTANCE Delivery WITH
  MaySkip <- TRUE, last <- monitor.next - 1, taken <- heard, broken <- cut \/ ~ loop,
  line <- inbox \o (IF monitor.at = "push" THEN <<Held>> ELSE << >>)
Delivered == Prompts!Spec /\ Events!Spec

\* A queued prompt is received, and a bridge told that it is done ends, unless
\* the job ends before, its token is revoked or a connection fails
Disturbed == Over \/ cut \/ ~ token
PromptArrives == \A p \in 1..MaxPrompts :
  /\ pushed >= p ~> (\E i \in DOMAIN got : got[i] = p) \/ Disturbed
  /\ (mode = "claude" /\ p \in final) ~> Disturbed

\* A worker ends, whatever its LLM and its connections do and even if nobody
\* stops its container (WorkerRuntime::execution_loop); a bridge that has lost
\* its token does not
WorkerEnds == mode = "worker" ~> Over

\* What the agent loop hears of a job are the assistant's messages and one
\* result, in their order, the result last, and none is missing of those sent
\* since the monitor subscribed unless it lagged (spawn_job_monitor)
Told == heard \o inbox \o (IF monitor.at = "push" THEN <<Held>> ELSE << >>)
MonitorTells ==
  /\ \A i \in 1..Len(Told) - 1 : Told[i] < Told[i + 1] /\ log[Told[i]] = "message"
  /\ \A i \in DOMAIN Told : Told[i] >= monitor.first /\ log[Told[i]] \in {"message", "result"}
  /\ (loop /\ ~ lagged /\ monitor.at \in {"watch", "push"}) =>
       \A e \in monitor.first..monitor.next - 1 :
         log[e] \in {"message", "result"} => \E i \in DOMAIN Told : Told[i] = e

\* A monitor for which there is a result ends, whether or not the agent loop
\* still runs, unless it lagged past it (spawn_job_monitor)
MonitorEnds ==
  (monitor.at # "none" /\ \E e \in monitor.first..Len(log) : log[e] = "result")
    ~> monitor.at = "ended" \/ lagged
=============================================================================
