------------------------------ MODULE Channels ------------------------------
(***************************************************************************)
(* The main loop and two of its channels: the HTTP channel, whose handlers *)
(* send one message each and may wait for the answer, and a WASM channel,  *)
(* whose callbacks (a webhook handler, the polling task) emit batches and  *)
(* whose typing indicator is repeated by a task.  Both put messages into a *)
(* bounded inbox under a read guard on its sender; shutting the channel    *)
(* down takes the sender away under the write guard.  The loop handles one *)
(* message at a time and reads nothing while it shuts down.                *)
(***************************************************************************)
EXTENDS Integers, Sequences, FiniteSets

CONSTANTS
  Requests,    \* HTTP requests, each a message of its own
  Callbacks,   \* WASM callbacks that may emit: Poller, and webhook handlers
  Poller,
  Tasks,       \* typing repeaters; enough to have one more than there are
  Capacity,    \* messages an inbox holds (256)
  MaxPending,  \* MAX_PENDING_RESPONSES
  MaxRounds    \* MAX_TOOL_ITERATIONS: how often a message is thought about

ASSUME ChannelsAssumption ==
  /\ Poller \in Callbacks
  /\ {"none", "wasm"} \cap (Requests \cup Tasks) = {}
  /\ Tasks # {}
  /\ {Capacity, MaxPending, MaxRounds} \subseteq Nat \ {0}

VARIABLES
  request,    \* how far the handler of each request is
  waits,      \* requests with wait_for_response
  pending,    \* pending_responses of the HTTP channel
  callback,   \* how far each callback is
  open,       \* inboxes whose sender is there
  inbox,      \* messages sent and not taken
  polling,    \* whether the polling task is alive and has been told to stop
  repeaters,  \* typing repeaters that run
  handle,     \* typing_task
  unsaid,     \* the answer to a WASM message that failed was withheld
  loop        \* what the main loop does

vars == <<request, waits, pending, callback, open, inbox, polling,
          repeaters, handle, unsaid, loop>>
http == <<request, waits, pending>>
typing == <<repeaters, handle, unsaid>>

Inboxes == {"http", "wasm"}
Active == {"check", "insert", "lock", "send", "wait", "cleanup"}

Init ==
  /\ request = [q \in Requests |-> "new"]
  /\ waits = {} /\ pending = {}
  /\ callback = [c \in Callbacks |-> "idle"]
  /\ open = Inboxes
  /\ inbox = [i \in Inboxes |-> <<>>]
  /\ polling = [alive |-> TRUE, told |-> FALSE]
  /\ repeaters = {} /\ handle = "none" /\ unsaid = FALSE
  /\ loop = [at |-> "wait", message |-> "none", rounds |-> 0, failed |-> FALSE,
             closing |-> {}, writer |-> "none"]

\* Who holds the read guard of a sender; a writer that waits keeps readers out
Readers(i) ==
  IF i = "http" THEN {q \in Requests : request[q] = "send"}
  ELSE {c \in Callbacks : callback[c] \in {"limit", "send"}}
MayRead(i) == loop.writer # i
HasRoom(i) == Len(inbox[i]) < Capacity
Put(i, m) == inbox' = [inbox EXCEPT ![i] = Append(@, m)]

----------------------------------------------------------------------------
\* A request of the HTTP channel
GoOn(q, phase) == request' = [request EXCEPT ![q] = phase]

\* webhook_handler: refused for its rate, secret or size, or processed
Arrive(q) ==
  /\ request[q] = "new"
  /\ \/ GoOn(q, "end") /\ UNCHANGED waits
     \/ GoOn(q, "check") /\ waits' = waits \cup {q}
     \/ GoOn(q, "lock") /\ UNCHANGED waits
  /\ UNCHANGED <<pending, callback, open, inbox, polling, typing, loop>>

CheckPending(q) ==
  /\ request[q] = "check"
  /\ GoOn(q, IF Cardinality(pending) >= MaxPending THEN "end" ELSE "insert")
  /\ UNCHANGED <<waits, pending, callback, open, inbox, polling, typing, loop>>

InsertLater(q) ==   \* mutant: a full table makes the request go on without an entry
  /\ request[q] = "insert"
  /\ pending' = IF Cardinality(pending) < MaxPending THEN pending \cup {q} ELSE pending
  /\ GoOn(q, "lock")
  /\ UNCHANGED <<waits, callback, open, inbox, polling, typing, loop>>
InsertPending(q) ==
  /\ request[q] = "insert"
  /\ pending' = pending \cup {q}
  /\ GoOn(q, "lock")
  /\ UNCHANGED <<waits, callback, open, inbox, polling, typing, loop>>

\* Without a sender the handler returns, and leaves its entry
LockSender(q) ==
  /\ request[q] = "lock"
  /\ MayRead("http")
  /\ GoOn(q, IF "http" \in open THEN "send" ELSE "end")
  /\ UNCHANGED <<waits, pending, callback, open, inbox, polling, typing, loop>>

Send(q) ==
  /\ request[q] = "send"
  /\ HasRoom("http")
  /\ Put("http", q)
  /\ GoOn(q, IF q \in waits THEN "wait" ELSE "cleanup")
  /\ UNCHANGED <<waits, pending, callback, open, polling, typing, loop>>

\* The timeout of a minute
EndWaitAnswered(q) ==   \* mutant: no timeout, whoever waits has its answer
  /\ request[q] = "wait"
  /\ q \notin pending
  /\ GoOn(q, "cleanup")
  /\ UNCHANGED <<waits, pending, callback, open, inbox, polling, typing, loop>>
EndWait(q) ==
  /\ request[q] = "wait"
  /\ GoOn(q, "cleanup")
  /\ UNCHANGED <<waits, pending, callback, open, inbox, polling, typing, loop>>

CleanUp(q) ==
  /\ request[q] = "cleanup"
  /\ pending' = pending \ {q}
  /\ GoOn(q, "end")
  /\ UNCHANGED <<waits, callback, open, inbox, polling, typing, loop>>

\* The client hangs up and the server drops the handler where it is; without an
\* entry it leaves no more than one that has ended
Drop(q) ==
  /\ request[q] \in Active
  /\ GoOn(q, IF q \in pending THEN "dropped" ELSE "end")
  /\ UNCHANGED <<waits, pending, callback, open, inbox, polling, typing, loop>>

----------------------------------------------------------------------------
\* A callback of the WASM channel
Proceed(c, phase) == callback' = [callback EXCEPT ![c] = phase]

\* A webhook, or the next poll, is done and has left messages to emit; it leaves
\* none when it fails or times out
Return(c) ==
  /\ callback[c] = "idle"
  /\ c = Poller => polling.alive
  /\ Proceed(c, "lock")
  /\ UNCHANGED <<http, open, inbox, polling, typing, loop>>

\* process_emitted_messages and dispatch_emitted_messages: the sender's guard,
\* then the limiter's, both kept until the batch is sent
LockInbox(c) ==
  /\ callback[c] = "lock"
  /\ MayRead("wasm")
  /\ Proceed(c, IF "wasm" \in open THEN "limit" ELSE "idle")
  /\ UNCHANGED <<http, open, inbox, polling, typing, loop>>

LockLimiter(c) ==
  /\ callback[c] = "limit"
  /\ \A d \in Callbacks : callback[d] # "send"
  /\ Proceed(c, "send")
  /\ UNCHANGED <<http, open, inbox, polling, typing, loop>>

Emit(c) ==
  /\ callback[c] = "send"
  /\ HasRoom("wasm")
  /\ Put("wasm", "wasm")
  /\ Proceed(c, "send") \/ Proceed(c, "idle")
  /\ UNCHANGED <<http, open, polling, typing, loop>>

\* The limiter refuses a message: the rest of the batch is lost
RateLimited(c) ==
  /\ callback[c] = "send"
  /\ Proceed(c, "idle")
  /\ UNCHANGED <<http, open, inbox, polling, typing, loop>>

\* A webhook's client hangs up
DropCallback(c) ==
  /\ c # Poller
  /\ callback[c] # "idle"
  /\ Proceed(c, "idle")
  /\ UNCHANGED <<http, open, inbox, polling, typing, loop>>

PollerStops ==
  /\ callback[Poller] = "idle"
  /\ polling.told /\ polling.alive
  /\ polling' = [polling EXCEPT !.alive = FALSE]
  /\ UNCHANGED <<http, callback, open, inbox, typing, loop>>

----------------------------------------------------------------------------
\* cancel_typing_task
CancelTyping == repeaters' = repeaters \ {handle} /\ handle' = "none" /\ unsaid' = FALSE
LoopAt(phase) == loop' = [loop EXCEPT !.at = phase]
Rested(a) == [a EXCEPT !.at = "wait", !.message = "none", !.rounds = 0, !.failed = FALSE]

Take(i) ==
  /\ loop.at = "wait"
  /\ inbox[i] # <<>>
  /\ inbox' = [inbox EXCEPT ![i] = Tail(@)]
  /\ loop' = [loop EXCEPT !.at = "busy", !.message = Head(inbox[i])]
  /\ UNCHANGED <<http, callback, open, polling, typing>>

\* handle_status_update with Thinking: the old repeater is cancelled, the
\* status is sent, a repeater is spawned and its handle stored
Think ==
  /\ loop.at = "busy" /\ loop.message = "wasm" /\ loop.rounds < MaxRounds
  /\ CancelTyping
  /\ loop' = [loop EXCEPT !.at = "thinking", !.rounds = @ + 1]
  /\ UNCHANGED <<http, callback, open, inbox, polling>>

StartTyping ==
  /\ loop.at = "thinking"
  /\ LET t == CHOOSE task \in Tasks \ repeaters : TRUE
     IN  repeaters' = repeaters \cup {t} /\ handle' = t
  /\ LoopAt("busy")
  /\ UNCHANGED <<http, callback, open, inbox, polling, unsaid>>

\* Any other status
OtherStatus ==
  /\ loop.at = "busy" /\ loop.message = "wasm"
  /\ CancelTyping
  /\ UNCHANGED <<http, callback, open, inbox, polling, loop>>

\* A turn ends with a status, an error without one
TellNothing ==   \* mutant: no status tells the end of the turn
  /\ loop.at = "busy"
  /\ UNCHANGED typing
  /\ LoopAt("answer")
  /\ UNCHANGED <<http, callback, open, inbox, polling>>
Tell ==
  /\ loop.at = "busy"
  /\ IF loop.message = "wasm" THEN CancelTyping ELSE UNCHANGED typing
  /\ LoopAt("answer")
  /\ UNCHANGED <<http, callback, open, inbox, polling>>

Fail ==
  /\ loop.at = "busy"
  /\ loop' = [loop EXCEPT !.at = "answer", !.failed = TRUE]
  /\ UNCHANGED <<http, callback, open, inbox, polling, typing>>

Respond ==
  /\ loop.at = "answer"
  /\ IF loop.message = "wasm" THEN CancelTyping /\ UNCHANGED <<request, pending>>
     ELSE /\ pending' = pending \ {loop.message}
          /\ request' = [q \in Requests |->
               IF q \in {loop.message} \cap pending /\ request[q] = "wait"
               THEN "cleanup" ELSE request[q]]
          /\ UNCHANGED typing
  /\ loop' = Rested(loop)
  /\ UNCHANGED <<waits, callback, open, inbox, polling>>

\* The answer is empty or the outbound hook keeps it back
Withhold ==
  /\ loop.at = "answer"
  /\ unsaid' = (unsaid \/ (loop.failed /\ loop.message = "wasm"))
  /\ loop' = Rested(loop)
  /\ UNCHANGED <<http, callback, open, inbox, polling, repeaters, handle>>

----------------------------------------------------------------------------
\* Ctrl-C between two messages, or /quit: shutdown_all, channel by channel
Quit ==
  /\ loop.at = "wait" \/ (loop.at = "busy" /\ loop.rounds = 0)
  /\ loop' = [Rested(loop) EXCEPT !.at = "closing", !.closing = Inboxes]
  /\ UNCHANGED <<http, callback, open, inbox, polling, typing>>

BeginClose(i) ==
  /\ loop.at = "closing" /\ loop.writer = "none"
  /\ i \in loop.closing
  /\ loop' = [loop EXCEPT !.writer = i]
  /\ IF i = "wasm"
     THEN CancelTyping /\ polling' = [polling EXCEPT !.told = TRUE]
     ELSE UNCHANGED <<typing, polling>>
  /\ UNCHANGED <<http, callback, open, inbox>>

CloseNever ==   \* mutant: the writer waits for handlers that have no guard yet, too
  /\ loop.at = "closing" /\ loop.writer # "none"
  /\ Readers(loop.writer) = {}
  /\ \A q \in Requests : request[q] # "lock"
  /\ open' = open \ {loop.writer}
  /\ loop' = [loop EXCEPT !.writer = "none", !.closing = @ \ {loop.writer}]
  /\ UNCHANGED <<http, callback, inbox, polling, typing>>
Close ==
  /\ loop.at = "closing" /\ loop.writer # "none"
  /\ Readers(loop.writer) = {}
  /\ open' = open \ {loop.writer}
  /\ loop' = [loop EXCEPT !.writer = "none", !.closing = @ \ {loop.writer}]
  /\ UNCHANGED <<http, callback, inbox, polling, typing>>

Stop ==
  /\ loop.at = "closing" /\ loop.closing = {}
  /\ LoopAt("done")
  /\ UNCHANGED <<http, callback, open, inbox, polling, typing>>

Serve(q) ==
  \/ CheckPending(q) \/ InsertPending(q) \/ LockSender(q) \/ Send(q)
  \/ EndWait(q) \/ CleanUp(q)
Deliver(c) == LockInbox(c) \/ LockLimiter(c) \/ Emit(c)
Handle == Think \/ StartTyping \/ Tell \/ Fail \/ Respond \/ Withhold
Shutdown == (\E i \in Inboxes : BeginClose(i)) \/ Close \/ Stop

Next ==
  \/ \E q \in Requests : Arrive(q) \/ Serve(q) \/ Drop(q)
  \/ \E c \in Callbacks : Return(c) \/ Deliver(c) \/ RateLimited(c) \/ DropCallback(c)
  \/ PollerStops
  \/ \E i \in Inboxes : Take(i)
  \/ Handle \/ OtherStatus \/ Quit \/ Shutdown

Spec == Init /\ [][Next]_vars

\* Handlers and callbacks get their turn, waiting for a guard, for room or for
\* the timeout of a minute; the merged stream looks at every inbox; a message is
\* dealt with within its rounds and the timeouts of the LLM; shutting down goes on
FairSpec ==
  /\ Spec
  /\ WF_vars(\E q \in Requests : Serve(q))
  /\ WF_vars(\E c \in Callbacks : Deliver(c))
  /\ SF_vars(Take("http"))
  /\ WF_vars(Handle)
  /\ WF_vars(Shutdown)

----------------------------------------------------------------------------
\* The variables keep their types and an inbox its capacity
TypeOK ==
  /\ request \in [Requests -> Active \cup {"new", "end", "dropped"}]
  /\ waits \subseteq Requests /\ pending \subseteq waits
  /\ callback \in [Callbacks -> {"idle", "lock", "limit", "send"}]
  /\ open \subseteq Inboxes
  /\ inbox \in [Inboxes -> Seq(Requests \cup {"wasm"})]
  /\ \A i \in Inboxes : Len(inbox[i]) <= Capacity
  /\ polling \in [alive : BOOLEAN, told : BOOLEAN]
  /\ repeaters \subseteq Tasks
  /\ handle \in Tasks \cup {"none"}
  /\ unsaid \in BOOLEAN
  /\ loop \in [at : {"wait", "busy", "thinking", "answer", "closing", "done"},
               message : Requests \cup {"none", "wasm"}, rounds : 0..MaxRounds,
               failed : BOOLEAN, closing : SUBSET Inboxes, writer : Inboxes \cup {"none"}]

\* A repeater that runs can be cancelled, being the one typing_task has the
\* handle of although it is spawned after an await; and it does not go on when
\* the loop has dealt with the message, unless that failed and its answer was
\* withheld
TypingEnds ==
  /\ repeaters = {handle} \ {"none"}
  /\ loop.at \in {"wait", "done"} /\ repeaters # {} => unsaid

\* pending_responses is right about the handlers, however they, the answers and
\* the timeouts interleave: until a waiting request is answered or gives up its
\* entry is there, and an entry of a handler that has returned is left only
\* when the handler found the channel closed, or was dropped
WaiterReachable ==
  /\ \A q \in waits : request[q] \in {"lock", "send", "wait"} => q \in pending
  /\ \A q \in pending : request[q] = "end" => "http" \notin open

\* When the loop has returned every channel is closed, and once a channel's sender
\* is taken away nothing comes into its inbox any more, whoever had looked for the
\* sender before (the guards of message_tx in shutdown, in the handlers and in
\* dispatch_emitted_messages)
ShutdownCloses ==
  /\ [](loop.at = "done" => open = {})
  /\ [][\A i \in Inboxes \ open : UNCHANGED inbox[i]]_vars

\* While the loop runs, every request's handler returns: the guard and room in
\* the inbox come to it, whatever the other channel does
RequestsReturn ==
  \A q \in Requests :
    request[q] \in Active ~> request[q] \in {"end", "dropped"} \/ loop.at \in {"closing", "done"}

\* A callback, or a handler, that keeps the guard shutdown waits for may itself
\* wait for room in an inbox nobody reads any more
SenderStuck == \E i \in Inboxes : loop.writer = i /\ Readers(i) # {} /\ ~HasRoom(i)

\* Shutting down ends, or stays for ever where a sender is stuck: however many
\* handlers and callbacks are about to send, to wait for a guard or to be dropped,
\* nothing else keeps the writers of the two channels from their turn
ShutdownEnds == loop.at = "closing" ~> loop.at = "done" \/ []SenderStuck

\* Shutting down ends (which the code does not keep, see the README)
ShutdownReturns == loop.at = "closing" ~> loop.at = "done"
=============================================================================
