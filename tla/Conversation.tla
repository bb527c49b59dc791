---------------------------- MODULE Conversation ----------------------------
(***************************************************************************)
(* The conversations of one session.  The main loop takes one message at a *)
(* time; a message starts a turn (LLM calls and tools until there is an    *)
(* answer, an error or a tool that needs approval), answers a request for  *)
(* approval, hands in a token, or commands the thread: undo, redo, resume, *)
(* interrupt, compact, clear, new, switch.  Handlers of the web gateway    *)
(* add threads and cancel token requests meanwhile.                        *)
(***************************************************************************)
EXTENDS Integers, Sequences

CONSTANTS
  Threads,         \* ids of threads
  Tools,           \* tools that require approval
  MaxTurns,        \* bound of the model: turns ever started
  MaxRequests,     \* bound of the model: approvals ever asked for
  MaxCalls,        \* bound of the model: tool calls in one answer of the LLM
  MaxCheckpoints,  \* max_checkpoints of an UndoManager
  MaxIterations,   \* MAX_TOOL_ITERATIONS
  Keeps            \* keep_recent of the compaction strategies

ASSUME TalkAssumption ==
  /\ MaxTurns \in Nat /\ MaxRequests \in Nat /\ MaxCalls \in Nat \ {0}
  /\ MaxCheckpoints \in Nat /\ MaxIterations \in Nat
ASSUME KeepsAssumption == Keeps \subseteq Nat \ {0}

VARIABLES
  live,     \* threads of the session
  active,   \* active_thread
  thread,   \* the threads, with Unborn for those to come
  past,     \* undo_stack of each thread's UndoManager
  future,   \* redo_stack
  auto,     \* auto_approved_tools
  loop,     \* the message in the main loop's hands and how far it is
  said,     \* turns started so far
  asked     \* approvals asked for so far

vars == <<live, active, thread, past, future, auto, loop, said, asked>>
undoing == <<past, future>>

NoThread == "none"
NoRequest == 0
Requests == 1..MaxRequests
NoPending == [req |-> NoRequest, tool |-> "none", turn |-> 0]
Pending == [req : Requests, tool : Tools, turn : 1..MaxTurns]

\* A turn is kept up to what messages() takes from it and
\* restore_from_messages puts back: its input, and whether it has a response
Turn == [id : 1..MaxTurns, answered : BOOLEAN]
States == {"idle", "processing", "awaiting", "interrupted"}
Thread == [state : States, turns : Seq(Turn), pending : Pending \cup {NoPending},
           auth : BOOLEAN]
Unborn == [state |-> "idle", turns |-> << >>, pending |-> NoPending, auth |-> FALSE]

\* iter: iterations of run_agentic_loop, used: tools_executed, left: calls of
\* the batch still to come, named: the request an approval names
Message == [phase : {"idle", "received", "token", "accepted", "compacted", "approved",
                      "model", "tools"},
            at : Threads \cup {NoThread}, on : Threads \cup {NoThread},
            named : Requests \cup {NoRequest}, iter : 0..MaxIterations,
            used : BOOLEAN, left : 0..MaxCalls]
NoMessage == [phase |-> "idle", at |-> NoThread, on |-> NoThread, named |-> NoRequest,
              iter |-> 0, used |-> FALSE, left |-> 0]

Last(s) == s[Len(s)]
AllButLast(s) == SubSeq(s, 1, Len(s) - 1)
Newest(s, k) == IF Len(s) > k THEN SubSeq(s, Len(s) - k + 1, Len(s)) ELSE s
Answered(turns) == IF turns = << >> THEN turns
                   ELSE Append(AllButLast(turns), [Last(turns) EXCEPT !.answered = TRUE])

----------------------------------------------------------------------------
Init ==
  /\ live = {}
  /\ active = NoThread
  /\ thread = [t \in Threads |-> Unborn]
  /\ past = [t \in Threads |-> << >>]
  /\ future = [t \in Threads |-> << >>]
  /\ auto = {}
  /\ loop = NoMessage
  /\ said = 0
  /\ asked = 0

\* What the steps of a message share
Put(t, row) == thread' = [thread EXCEPT ![t] = row]
Done == loop' = NoMessage
Continue(t, used) ==
  loop' = [loop EXCEPT !.phase = "model", !.on = t, !.iter = 0, !.used = used, !.left = 0]

\* complete_turn and fail_turn
FailKeepsState(r) == r   \* mutant: a failed turn leaves the thread processing
CompleteTurn(r) == [r EXCEPT !.state = "idle", !.turns = Answered(r.turns)]
FailTurn(r) == [r EXCEPT !.state = "idle"]
\* restore_from_messages
RestoreKeepsState(r, turns) == [r EXCEPT !.turns = turns]   \* mutant
RestoreFrom(r, turns) == [r EXCEPT !.state = "idle", !.turns = turns]

\* create_thread
Create(t) ==
  /\ t \notin live
  /\ live' = live \cup {t}
  /\ active' = t

\* The next message, for a thread resolve_thread finds or creates
Receive(t) ==
  /\ loop.phase = "idle"
  /\ loop' = [NoMessage EXCEPT !.phase = "received", !.at = t]
  /\ \/ t \in live /\ UNCHANGED <<live, active>>
     \/ Create(t)
  /\ UNCHANGED <<thread, undoing, auto, said, asked>>

----------------------------------------------------------------------------
\* Input is a token while the thread waits for one: auth mode ends first
Token ==
  /\ loop.phase = "received"
  /\ thread[loop.at].auth
  /\ Put(loop.at, [thread[loop.at] EXCEPT !.auth = FALSE])
  /\ loop' = [loop EXCEPT !.phase = "token"]
  /\ UNCHANGED <<live, active, undoing, auto, said, asked>>

\* An invalid token is asked for again
TokenChecked ==
  /\ loop.phase = "token"
  /\ \E again \in BOOLEAN :
       Put(loop.at, [thread[loop.at] EXCEPT !.auth = (@ \/ again)])
  /\ Done
  /\ UNCHANGED <<live, active, undoing, auto, said, asked>>

\* Mutant: input is not looked at for a token
InputAnyhow ==
  /\ loop.phase = "received"
  /\ \/ /\ thread[loop.at].state \in {"idle", "interrupted"}
        /\ said < MaxTurns
        /\ loop' = [loop EXCEPT !.phase = "accepted"]
     \/ Done
  /\ UNCHANGED <<live, active, thread, undoing, auto, said, asked>>

\* process_user_input up to the checkpoint: refused while a turn is under way
\* or waits for approval, by validation, or taken by a command
Input ==
  /\ loop.phase = "received"
  /\ ~thread[loop.at].auth
  /\ \/ /\ thread[loop.at].state \in {"idle", "interrupted"}
        /\ said < MaxTurns
        /\ loop' = [loop EXCEPT !.phase = "accepted"]
     \/ Done
  /\ UNCHANGED <<live, active, thread, undoing, auto, said, asked>>

\* compact: nothing to do or no summary, or the newest turns are kept
Compacted(turns) == {turns} \cup {Newest(turns, k) : k \in Keeps}

\* push_undo
PushUndo(s, turns) == Newest(Append(s, turns), MaxCheckpoints)

\* Auto-compaction, under the session's lock
AutoCompact ==
  /\ loop.phase = "accepted"
  /\ \E turns \in Compacted(thread[loop.at].turns) :
       Put(loop.at, [thread[loop.at] EXCEPT !.turns = turns])
  /\ loop' = [loop EXCEPT !.phase = "compacted"]
  /\ UNCHANGED <<live, active, undoing, auto, said, asked>>

\* Mutant: a checkpoint leaves the redo stack
BeginKeepsRedo ==
  LET t == loop.at
      turn == [id |-> said + 1, answered |-> FALSE]
  IN /\ loop.phase = "compacted"
     /\ past' = [past EXCEPT ![t] = PushUndo(@, thread[t].turns)]
     /\ Put(t, [thread[t] EXCEPT !.state = "processing", !.turns = Append(@, turn)])
     /\ said' = said + 1
     /\ Continue(t, FALSE)
     /\ UNCHANGED <<live, active, future, auto, asked>>

\* checkpoint, which begins a new branch of history, and start_turn
Begin ==
  LET t == loop.at
      turn == [id |-> said + 1, answered |-> FALSE]
  IN /\ loop.phase = "compacted"
     /\ past' = [past EXCEPT ![t] = PushUndo(@, thread[t].turns)]
     /\ future' = [future EXCEPT ![t] = << >>]
     /\ Put(t, [thread[t] EXCEPT !.state = "processing", !.turns = Append(@, turn)])
     /\ said' = said + 1
     /\ Continue(t, FALSE)
     /\ UNCHANGED <<live, active, auto, asked>>

----------------------------------------------------------------------------
\* run_agentic_loop on thread loop.on; a turn's end is a reply or a failure
End(row) == Put(loop.on, row) /\ Done

\* Out of iterations, over the cost limit, or the LLM fails
Fail ==
  /\ loop.phase = "model"
  /\ End(FailTurn(thread[loop.on]))
  /\ UNCHANGED <<live, active, undoing, auto, said, asked>>

\* The LLM answers in words: before any tool was used it is asked twice to
\* use one
Words ==
  /\ loop.phase = "model"
  /\ loop.iter < MaxIterations
  /\ IF ~loop.used /\ loop.iter + 1 < 3
     THEN loop' = [loop EXCEPT !.iter = @ + 1] /\ UNCHANGED thread
     ELSE End(CompleteTurn(thread[loop.on]))
  /\ UNCHANGED <<live, active, undoing, auto, said, asked>>

\* Mutant: a batch of calls is no iteration
CallsUncounted ==
  /\ loop.phase = "model"
  /\ loop.iter < MaxIterations
  /\ \E n \in 1..MaxCalls : loop' = [loop EXCEPT !.phase = "tools", !.used = TRUE, !.left = n]
  /\ UNCHANGED <<live, active, thread, undoing, auto, said, asked>>

\* The LLM answers with a batch of calls
Calls ==
  /\ loop.phase = "model"
  /\ loop.iter < MaxIterations
  /\ \E n \in 1..MaxCalls :
       loop' = [loop EXCEPT !.phase = "tools", !.iter = @ + 1, !.used = TRUE, !.left = n]
  /\ UNCHANGED <<live, active, thread, undoing, auto, said, asked>>

\* The next call runs: its tool needs no approval, or was approved for the
\* session and the parameters are harmless
RunCall ==
  /\ loop.phase = "tools"
  /\ loop' = [loop EXCEPT !.left = @ - 1, !.phase = IF loop.left = 1 THEN "model" ELSE @]
  /\ UNCHANGED <<live, active, thread, undoing, auto, said, asked>>

\* It was tool_auth and a token is awaited: the turn ends with instructions.
\* Auth mode begins a moment before; nothing looks at either in between.
AskToken(r) == [CompleteTurn(r) EXCEPT !.auth = TRUE]

CallAsksToken ==
  /\ loop.phase = "tools"
  /\ End(AskToken(thread[loop.on]))
  /\ UNCHANGED <<live, active, undoing, auto, said, asked>>

\* The next call needs approval: await_approval; the rest of the batch is lost
AwaitApproval(r, p) == [r EXCEPT !.state = "awaiting", !.pending = p]

CallAsksApproval ==
  /\ loop.phase = "tools"
  /\ asked < MaxRequests
  /\ asked' = asked + 1
  /\ \E tool \in Tools, risky \in BOOLEAN :
       /\ tool \in auto => risky
       /\ End(AwaitApproval(thread[loop.on],
                            [req |-> asked', tool |-> tool,
                             turn |-> Last(thread[loop.on].turns).id]))
  /\ UNCHANGED <<live, active, undoing, auto, said>>

----------------------------------------------------------------------------
\* Every other submission ends auth mode of the thread it is addressed to
Uncalled(t) == [thread[t] EXCEPT !.auth = FALSE]
Command(t) == loop.phase = "received" /\ t = loop.at

Undo(t) ==
  /\ Command(t)
  /\ IF past[t] = << >>
     THEN Put(t, Uncalled(t)) /\ UNCHANGED undoing
     ELSE /\ future' = [future EXCEPT ![t] = Append(@, thread[t].turns)]
          /\ past' = [past EXCEPT ![t] = AllButLast(@)]
          /\ Put(t, RestoreFrom(Uncalled(t), Last(past[t])))
  /\ Done
  /\ UNCHANGED <<live, active, auto, said, asked>>

Redo(t) ==
  /\ Command(t)
  /\ IF future[t] = << >>
     THEN Put(t, Uncalled(t)) /\ UNCHANGED undoing
     ELSE /\ past' = [past EXCEPT ![t] = PushUndo(@, thread[t].turns)]
          /\ future' = [future EXCEPT ![t] = AllButLast(@)]
          /\ Put(t, RestoreFrom(Uncalled(t), Last(future[t])))
  /\ Done
  /\ UNCHANGED <<live, active, auto, said, asked>>

\* restore(checkpoint_id), of a checkpoint still on the undo stack or of none
Resume(t) ==
  /\ Command(t)
  /\ \/ Put(t, Uncalled(t)) /\ UNCHANGED undoing
     \/ \E i \in DOMAIN past[t] :
          /\ future' = [future EXCEPT ![t] = << >>]
          /\ past' = [past EXCEPT ![t] = SubSeq(@, 1, i - 1)]
          /\ Put(t, RestoreFrom(Uncalled(t), past[t][i]))
  /\ Done
  /\ UNCHANGED <<live, active, auto, said, asked>>

Clear(t) ==
  /\ Command(t)
  /\ Put(t, [Uncalled(t) EXCEPT !.turns = << >>, !.state = "idle"])
  /\ past' = [past EXCEPT ![t] = << >>]
  /\ future' = [future EXCEPT ![t] = << >>]
  /\ Done
  /\ UNCHANGED <<live, active, auto, said, asked>>

Interrupt(t) ==
  /\ Command(t)
  /\ Put(t, IF thread[t].state \in {"processing", "awaiting"}
            THEN [Uncalled(t) EXCEPT !.state = "interrupted"] ELSE Uncalled(t))
  /\ Done
  /\ UNCHANGED <<live, active, undoing, auto, said, asked>>

Compact(t) ==
  /\ Command(t)
  /\ \E turns \in Compacted(thread[t].turns) : Put(t, [Uncalled(t) EXCEPT !.turns = turns])
  /\ Done
  /\ UNCHANGED <<live, active, undoing, auto, said, asked>>

\* /new, /switch, and those that leave the session as it is
Leave(t) ==
  /\ Command(t)
  /\ Put(t, Uncalled(t))
  /\ Done
  /\ \/ \E u \in Threads : Create(u)
     \/ \E u \in live : active' = u /\ UNCHANGED live
     \/ UNCHANGED <<live, active>>
  /\ UNCHANGED <<undoing, auto, said, asked>>

----------------------------------------------------------------------------
\* resolve_approval_thread: the addressed thread if it holds the request,
\* any other one only if the answer names what it holds
Holds(t, req) ==
  /\ thread[t].state = "awaiting"
  /\ thread[t].pending # NoPending
  /\ req # NoRequest => thread[t].pending.req = req
\* Mutant: a bare answer is taken for whatever thread waits for one
ResolveAnywhere(t, req) ==
  IF t \in live /\ Holds(t, req) THEN {t} ELSE {u \in live : Holds(u, req)}

ResolveApproval(t, req) ==
  IF t \in live /\ Holds(t, req) THEN {t}
  ELSE IF req = NoRequest THEN {} ELSE {u \in live : Holds(u, req)}

Answers == {NoRequest} \cup 1..asked

\* Two threads with one request would be ambiguous, none is an error
NoSuchApproval(t) ==
  /\ Command(t)
  /\ \E req \in Answers : \A u \in ResolveApproval(t, req) : ResolveApproval(t, req) # {u}
  /\ Put(t, Uncalled(t))
  /\ Done
  /\ UNCHANGED <<live, active, undoing, auto, said, asked>>

\* take_pending_approval, the tool's name kept when it is always approved
Approve(t) ==
  /\ Command(t)
  /\ \E req \in Answers, u \in Threads, always \in BOOLEAN :
       /\ ResolveApproval(t, req) = {u}
       /\ thread' = [thread EXCEPT ![t].auth = FALSE,
                                   ![u].pending = NoPending, ![u].state = "processing"]
       /\ auto' = IF always THEN auto \cup {thread[u].pending.tool} ELSE auto
       /\ loop' = [loop EXCEPT !.phase = "approved", !.on = u, !.named = req]
  /\ UNCHANGED <<live, active, undoing, said, asked>>

\* The approved tool has run: the turn goes on, or a token is awaited
RunApproved ==
  /\ loop.phase = "approved"
  /\ \/ Continue(loop.on, TRUE) /\ UNCHANGED thread
     \/ End(AskToken(thread[loop.on]))
  /\ UNCHANGED <<live, active, undoing, auto, said, asked>>

\* Rejected: clear_pending_approval
Reject(t) ==
  /\ Command(t)
  /\ \E req \in Answers, u \in Threads :
       /\ ResolveApproval(t, req) = {u}
       /\ thread' = [thread EXCEPT ![t].auth = FALSE,
                                   ![u].pending = NoPending, ![u].state = "idle"]
  /\ Done
  /\ UNCHANGED <<live, active, undoing, auto, said, asked>>

----------------------------------------------------------------------------
\* The web gateway: chat_new_thread_handler, clear_auth_mode
WebNewThread ==
  /\ \E t \in Threads : Create(t)
  /\ UNCHANGED <<thread, undoing, auto, loop, said, asked>>

CancelAuth ==
  /\ active \in live
  /\ thread[active].auth
  /\ Put(active, Uncalled(active))
  /\ UNCHANGED <<live, active, undoing, auto, loop, said, asked>>

\* What the main loop does with a message once it took it
Submission(t) ==
  Undo(t) \/ Redo(t) \/ Resume(t) \/ Clear(t) \/ Interrupt(t) \/ Compact(t) \/ Leave(t)
  \/ NoSuchApproval(t) \/ Approve(t) \/ Reject(t)

Work ==
  \/ Token \/ TokenChecked \/ Input \/ AutoCompact \/ Begin
  \/ Fail \/ Words \/ Calls \/ RunCall \/ CallAsksToken \/ CallAsksApproval
  \/ RunApproved \/ \E t \in Threads : Submission(t)

Next == Work \/ WebNewThread \/ CancelAuth \/ \E t \in Threads : Receive(t)

Spec == Init /\ [][Next]_vars

\* Calls of the LLM and of tools return: both have deadlines
FairSpec == Spec /\ WF_vars(Work)

----------------------------------------------------------------------------
\* All variables keep their types, and undo history stays within
\* max_checkpoints, redo stack included
TypeOK ==
  /\ live \subseteq Threads
  /\ active \in live \cup {NoThread}
  /\ thread \in [Threads -> Thread]
  /\ past \in [Threads -> Seq(Seq(Turn))]
  /\ future \in [Threads -> Seq(Seq(Turn))]
  /\ \A t \in Threads : Len(past[t]) + Len(future[t]) <= MaxCheckpoints
  /\ auto \subseteq Tools
  /\ loop \in Message
  /\ said \in 0..MaxTurns
  /\ asked \in 0..MaxRequests

\* Whenever the loop waits for the next message, every thread can be spoken
\* to: none is left "processing", and one that awaits approval holds the
\* request an answer will find.  process_user_input refuses both states, so a
\* thread left in one would be mute for ever
ThreadsAnswerable ==
  \A t \in Threads :
    /\ thread[t].state = "processing" => loop.phase # "idle" /\ loop.on = t
    /\ thread[t].state = "awaiting" => thread[t].pending # NoPending

\* An approval that can be given is one of the turn the thread ends with: undo,
\* redo, resume, clear and interrupt leave no request of a turn they took away
\* open, and none that compaction dropped
ApprovalIsCurrent ==
  \A t \in Threads :
    thread[t].state = "awaiting" =>
      /\ thread[t].turns # << >>
      /\ Last(thread[t].turns).id = thread[t].pending.turn

\* A thread never waits for an approval and for a token at once: the next
\* message would be taken for a token, or cancel the wait for it
OneQuestion ==
  \A t \in Threads : thread[t].auth => thread[t].state \notin {"processing", "awaiting"}

\* An answer that names no request approves nothing but a request of the
\* thread it was typed into (resolve_approval_thread)
NoCrossAnswer ==
  [][\A u \in Threads :
       thread[u].state = "awaiting" /\ thread'[u].state = "processing" =>
         \/ loop.at = u
         \/ loop'.named = thread[u].pending.req]_vars

\* Undo history is a line with a cursor: undo takes back what redo did and the
\* other way round, and neither loses a state (undo.rs)
TL == INSTANCE Timeline WITH
  line <- [t \in Threads |->
             [i \in 1..(Len(past[t]) + 1 + Len(future[t])) |->
                IF i <= Len(past[t]) THEN past[t][i]
                ELSE IF i = Len(past[t]) + 1 THEN thread[t].turns
                ELSE future[t][Len(past[t]) + 2 + Len(future[t]) - i]]],
  at <- [t \in Threads |-> Len(past[t]) + 1]
UndoLine == TL!Spec

\* Every message is dealt with: the iterations of a turn are bounded, so the
\* loop gets back to its stream
MessageEnds == loop.phase # "idle" ~> loop.phase = "idle"
=============================================================================
