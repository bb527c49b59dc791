--------------------------- MODULE ChannelsProofs ---------------------------
(***************************************************************************)
(* The main loop and its channels, for any number of requests, callbacks   *)
(* and messages, with what shutting down leaves and how many steps each    *)
(* party still takes; and the pairing files, for any number of senders,    *)
(* codes and commands: an old list may be written back at any time, so     *)
(* that the invariant of the store says of every copy what it says of the  *)
(* file.                                                                   *)
(***************************************************************************)
EXTENDS Channels, Pairing, FiniteSetTheorems, SequenceTheorems, TLAPS

-----------------------------------------------------------------------------
(* The invariant *)

\* The one repeater that runs is the one typing_task has the handle of, and the
\* loop is still to cancel it, unless an answer was withheld.
Typing ==
  /\ repeaters = {handle} \ {"none"}
  /\ loop.at = "thinking" => handle = "none" /\ loop.rounds > 0
  /\ loop.at = "wait" => loop.rounds = 0
  /\ loop.rounds > 0 => loop.message = "wasm"
  /\ handle # "none" =>
       \/ unsaid
       \/ loop.at = "busy" /\ loop.rounds > 0
       \/ loop.at = "answer" /\ loop.failed /\ loop.message = "wasm"

\* A request whose message is in an inbox or with the loop has been sent, so that
\* an answer never finds its handler before the wait.
Gone == {"wait", "cleanup", "end", "dropped"}
Sent ==
  /\ loop.message \in Requests => request[loop.message] \in Gone
  /\ \A i \in Inboxes : \A k \in 1..Len(inbox[i]) :
       inbox[i][k] \in Requests => request[inbox[i][k]] \in Gone

\* An entry is made by a handler that waits, and by none before it has looked at
\* the table.
Entries ==
  /\ \A q \in Requests : request[q] \in {"check", "insert"} => q \in waits
  /\ \A q \in waits : request[q] # "new"
  /\ \A q \in pending : request[q] \notin {"new", "check", "insert"}
  /\ WaiterReachable

IInv == TypeOK /\ Typing /\ Sent /\ Entries

-----------------------------------------------------------------------------
(* Types of the parts *)

Phases == Active \cup {"new", "end", "dropped"}
HttpType == request \in [Requests -> Phases] /\ waits \subseteq Requests /\ pending \subseteq waits
InboxType ==
  /\ inbox \in [Inboxes -> Seq(Requests \cup {"wasm"})]
  /\ \A i \in Inboxes : Len(inbox[i]) <= Capacity
TypingType == repeaters \subseteq Tasks /\ handle \in Tasks \cup {"none"} /\ unsaid \in BOOLEAN
LoopType ==
  loop \in [at : {"wait", "busy", "thinking", "answer", "closing", "done"},
            message : Requests \cup {"none", "wasm"}, rounds : 0..MaxRounds,
            failed : BOOLEAN, closing : SUBSET Inboxes, writer : Inboxes \cup {"none"}]
WasmType ==
  /\ callback \in [Callbacks -> {"idle", "lock", "limit", "send"}]
  /\ open \subseteq Inboxes
  /\ polling \in [alive : BOOLEAN, told : BOOLEAN]

LEMMA TypeParts == TypeOK <=> HttpType /\ InboxType /\ TypingType /\ LoopType /\ WasmType
  BY DEF TypeOK, HttpType, InboxType, TypingType, LoopType, WasmType, Phases

LEMMA TypePartsNext == TypeOK' <=> HttpType' /\ InboxType' /\ TypingType' /\ LoopType' /\ WasmType'
  BY DEF TypeOK, HttpType, InboxType, TypingType, LoopType, WasmType, Phases

LEMMA InvInit == Init => IInv
<1> SUFFICES ASSUME Init PROVE IInv
  OBVIOUS
<1>1. << >> \in Seq(Requests \cup {"wasm"}) /\ Len(<< >>) = 0
  BY EmptySeq
<1>2. InboxType
  BY <1>1, ChannelsAssumption DEF Init, InboxType
<1>3. LoopType
  BY ChannelsAssumption DEF Init, LoopType, Inboxes
<1>4. HttpType /\ TypingType /\ WasmType
  BY DEF Init, HttpType, TypingType, WasmType, Phases
<1>5. Typing
  BY DEF Init, Typing
<1>6. Sent
  BY <1>1, ChannelsAssumption DEF Init, Sent
<1>7. Entries
  BY DEF Init, Entries, WaiterReachable
<1>. QED
  BY <1>2, <1>3, <1>4, <1>5, <1>6, <1>7, TypeParts DEF IInv

-----------------------------------------------------------------------------
(* The HTTP channel *)

\* What a request's step may do: it moves its own handler, and changes nothing
\* else but the tables and the inbox.
LEMMA RequestStep ==
  ASSUME IInv, UNCHANGED <<callback, open, polling, typing, loop>>, HttpType', InboxType',
         Sent', Entries'
  PROVE  IInv'
<1>1. TypingType' /\ LoopType' /\ WasmType' /\ Typing'
  BY TypeParts DEF IInv, TypingType, LoopType, WasmType, Typing, typing
<1>. QED
  BY <1>1, TypePartsNext DEF IInv

LEMMA GoOnType ==
  ASSUME HttpType, NEW q \in Requests, NEW phase \in Phases, GoOn(q, phase)
  PROVE  /\ request' \in [Requests -> Phases]
         /\ request'[q] = phase
         /\ \A r \in Requests : r # q => request'[r] = request[r]
BY DEF HttpType, GoOn

\* A handler whose message has not been sent goes on.
LEMMA SentKept ==
  ASSUME TypeOK, Sent, NEW q \in Requests, NEW phase \in Phases, GoOn(q, phase),
         request[q] \in Gone => phase \in Gone, UNCHANGED <<inbox, loop>>
  PROVE  Sent'
<1>1. \A r \in Requests : request[r] \in Gone => request'[r] \in Gone
  BY TypeParts, GoOnType
<1>. QED
  BY <1>1 DEF Sent

\* A request's step that leaves the inbox alone
LEMMA HandlerStep ==
  ASSUME IInv, NEW q \in Requests, NEW phase \in Phases, GoOn(q, phase),
         request[q] \in Gone => phase \in Gone,
         waits' \subseteq Requests, pending' \subseteq waits', Entries',
         UNCHANGED <<callback, open, inbox, polling, typing, loop>>
  PROVE  IInv'
<1>1. TypeOK /\ Sent /\ HttpType /\ InboxType
  BY TypeParts DEF IInv
<1>2. HttpType' /\ InboxType' /\ Sent'
  BY <1>1, GoOnType, SentKept DEF HttpType, InboxType
<1>. QED
  BY <1>2, RequestStep

\* What the lemmas about a single handler need of the invariant
LEMMA HttpFacts ==
  ASSUME IInv
  PROVE  HttpType /\ Entries /\ WaiterReachable /\ Sent /\ InboxType /\ TypeOK
BY TypeParts DEF IInv, Entries

LEMMA ArriveInv == ASSUME IInv, NEW q \in Requests, Arrive(q) PROVE IInv'
<1>0. HttpType /\ Entries /\ WaiterReachable /\ request[q] = "new" /\ q \notin waits /\ q \notin pending
  BY HttpFacts DEF Arrive, Entries
<1>1. UNCHANGED <<pending, callback, open, inbox, polling, typing, loop>>
  BY DEF Arrive
<1>2. ASSUME NEW phase \in {"end", "check", "lock"}, GoOn(q, phase),
             waits' = IF phase = "check" THEN waits \cup {q} ELSE waits
      PROVE  IInv'
  <2>1. phase \in Phases /\ request[q] \notin Gone
    BY <1>0 DEF Phases, Active, Gone
  <2>2. request'[q] = phase /\ \A r \in Requests : r # q => request'[r] = request[r]
    BY <1>0, <1>2, <2>1, GoOnType
  <2>3. waits' \subseteq Requests /\ pending' \subseteq waits'
    BY <1>0, <1>1, <1>2 DEF HttpType
  <2>4. Entries'
    BY <1>0, <1>1, <1>2, <2>2 DEF Entries, WaiterReachable, HttpType
  <2>. QED
    BY <1>1, <1>2, <2>1, <2>3, <2>4, HandlerStep
<1>. QED
  BY <1>2 DEF Arrive

\* From the check of the table to the entry, which may exceed its limit
LEMMA EntryInv ==
  ASSUME IInv, NEW q \in Requests, CheckPending(q) \/ InsertPending(q) \/ LockSender(q)
  PROVE  IInv'
<1>0. HttpType /\ Entries /\ WaiterReachable
  BY HttpFacts
<1>1. UNCHANGED <<waits, callback, open, inbox, polling, typing, loop>>
  BY DEF CheckPending, InsertPending, LockSender
<1>2. CASE CheckPending(q)
  <2>1. PICK phase \in {"end", "insert"} : GoOn(q, phase)
    BY <1>2 DEF CheckPending
  <2>2. request[q] = "check" /\ UNCHANGED pending /\ phase \in Phases /\ request[q] \notin Gone
    BY <1>2 DEF CheckPending, Phases, Active, Gone
  <2>3. request'[q] = phase /\ \A r \in Requests : r # q => request'[r] = request[r]
    BY <1>0, <2>1, <2>2, GoOnType
  <2>4. Entries' /\ waits' \subseteq Requests /\ pending' \subseteq waits'
    BY <1>0, <1>1, <2>2, <2>3 DEF Entries, WaiterReachable, HttpType
  <2>. QED
    BY <1>1, <2>1, <2>2, <2>4, HandlerStep
<1>3. CASE InsertPending(q)
  <2>1. request[q] = "insert" /\ GoOn(q, "lock") /\ pending' = pending \cup {q}
        /\ "lock" \in Phases /\ request[q] \notin Gone /\ q \in waits
    BY <1>0, <1>3 DEF InsertPending, Phases, Active, Gone, Entries
  <2>2. request'[q] = "lock" /\ \A r \in Requests : r # q => request'[r] = request[r]
    BY <1>0, <2>1, GoOnType
  <2>3. Entries' /\ waits' \subseteq Requests /\ pending' \subseteq waits'
    BY <1>0, <1>1, <2>1, <2>2 DEF Entries, WaiterReachable, HttpType
  <2>. QED
    BY <1>1, <2>1, <2>3, HandlerStep
<1>4. CASE LockSender(q)
  <2>1. PICK phase \in {"send", "end"} : GoOn(q, phase) /\ (phase = "end" <=> "http" \notin open)
    BY <1>4 DEF LockSender
  <2>2. request[q] = "lock" /\ UNCHANGED pending /\ phase \in Phases /\ request[q] \notin Gone
    BY <1>4 DEF LockSender, Phases, Active, Gone
  <2>3. request'[q] = phase /\ \A r \in Requests : r # q => request'[r] = request[r]
    BY <1>0, <2>1, <2>2, GoOnType
  <2>4. Entries' /\ waits' \subseteq Requests /\ pending' \subseteq waits'
    BY <1>0, <1>1, <2>1, <2>2, <2>3 DEF Entries, WaiterReachable, HttpType
  <2>. QED
    BY <1>1, <2>1, <2>2, <2>4, HandlerStep
<1>. QED
  BY <1>2, <1>3, <1>4

\* The wait, the timeout, and a client that hangs up
LEMMA LeaveInv ==
  ASSUME IInv, NEW q \in Requests, EndWait(q) \/ CleanUp(q) \/ Drop(q)
  PROVE  IInv'
<1>0. HttpType /\ Entries /\ WaiterReachable
  BY HttpFacts
<1>1. UNCHANGED <<waits, callback, open, inbox, polling, typing, loop>>
  BY DEF EndWait, CleanUp, Drop
<1>2. CASE EndWait(q)
  <2>1. request[q] = "wait" /\ GoOn(q, "cleanup") /\ UNCHANGED pending
        /\ "cleanup" \in Phases /\ "cleanup" \in Gone
    BY <1>2 DEF EndWait, Phases, Active, Gone
  <2>2. request'[q] = "cleanup" /\ \A r \in Requests : r # q => request'[r] = request[r]
    BY <1>0, <2>1, GoOnType
  <2>3. Entries' /\ waits' \subseteq Requests /\ pending' \subseteq waits'
    BY <1>0, <1>1, <2>1, <2>2 DEF Entries, WaiterReachable, HttpType
  <2>. QED
    BY <1>1, <2>1, <2>3, HandlerStep
<1>3. CASE CleanUp(q)
  <2>1. request[q] = "cleanup" /\ GoOn(q, "end") /\ pending' = pending \ {q}
        /\ "end" \in Phases /\ "end" \in Gone
    BY <1>3 DEF CleanUp, Phases, Active, Gone
  <2>2. request'[q] = "end" /\ \A r \in Requests : r # q => request'[r] = request[r]
    BY <1>0, <2>1, GoOnType
  <2>3. Entries' /\ waits' \subseteq Requests /\ pending' \subseteq waits'
    BY <1>0, <1>1, <2>1, <2>2 DEF Entries, WaiterReachable, HttpType
  <2>. QED
    BY <1>1, <2>1, <2>3, HandlerStep
<1>4. CASE Drop(q)
  <2>1. PICK phase \in {"dropped", "end"} : GoOn(q, phase) /\ (phase = "end" <=> q \notin pending)
    BY <1>4 DEF Drop
  <2>2. UNCHANGED pending /\ phase \in Phases /\ phase \in Gone /\ request[q] \in Active
    BY <1>4 DEF Drop, Phases, Active, Gone
  <2>3. request'[q] = phase /\ \A r \in Requests : r # q => request'[r] = request[r]
    BY <1>0, <2>1, <2>2, GoOnType
  <2>4. Entries' /\ waits' \subseteq Requests /\ pending' \subseteq waits'
    BY <1>0, <1>1, <2>1, <2>2, <2>3 DEF Entries, WaiterReachable, HttpType
  <2>. QED
    BY <1>1, <2>1, <2>2, <2>4, HandlerStep
<1>. QED
  BY <1>2, <1>3, <1>4

\* A message that goes into an inbox keeps the inboxes' types.
LEMMA PutType ==
  ASSUME InboxType, NEW i \in Inboxes, NEW m \in Requests \cup {"wasm"}, HasRoom(i), Put(i, m)
  PROVE  /\ InboxType'
         /\ \A j \in Inboxes : \A k \in 1..Len(inbox'[j]) :
              \/ k \in 1..Len(inbox[j]) /\ inbox'[j][k] = inbox[j][k]
              \/ inbox'[j][k] = m
<1> DEFINE S == Requests \cup {"wasm"}
           more == Append(inbox[i], m)
<1>1. inbox[i] \in Seq(S) /\ Len(inbox[i]) \in Nat /\ Capacity \in Nat
  BY LenProperties, ChannelsAssumption DEF InboxType
<1>2. more \in Seq(S) /\ Len(more) = Len(inbox[i]) + 1 /\ more[Len(inbox[i]) + 1] = m
      /\ \A k \in 1..Len(inbox[i]) : more[k] = inbox[i][k]
  BY <1>1, AppendProperties
<1>3. inbox' = [inbox EXCEPT ![i] = more]
  BY DEF Put
<1> HIDE DEF more, S
<1>4. inbox'[i] = more /\ \A j \in Inboxes : j # i => inbox'[j] = inbox[j]
  BY <1>3 DEF InboxType
<1>5. inbox' \in [Inboxes -> Seq(S)]
  BY <1>2, <1>3 DEF InboxType, S
<1>6. Len(more) <= Capacity
  BY <1>1, <1>2 DEF HasRoom
<1>7. ASSUME NEW k \in 1..Len(more)
      PROVE  (k \in 1..Len(inbox[i]) /\ more[k] = inbox[i][k]) \/ more[k] = m
  <2>1. k \in 1..Len(inbox[i]) \/ k = Len(inbox[i]) + 1
    BY <1>1, <1>2
  <2>. QED
    BY <1>2, <2>1
<1>. QED
  BY <1>4, <1>5, <1>6, <1>7 DEF InboxType, S

LEMMA SendInv == ASSUME IInv, NEW q \in Requests, Send(q) PROVE IInv'
<1>0. HttpType /\ Entries /\ WaiterReachable /\ Sent /\ InboxType /\ TypeOK
  BY HttpFacts
<1>1. PICK phase \in {"wait", "cleanup"} : GoOn(q, phase) /\ (phase = "wait" <=> q \in waits)
  BY DEF Send
<1>2. request[q] = "send" /\ HasRoom("http") /\ Put("http", q) /\ phase \in Phases
      /\ UNCHANGED <<waits, pending, callback, open, polling, typing, loop>>
  BY DEF Send, Phases, Active
<1>3. request' \in [Requests -> Phases]
      /\ request'[q] = phase /\ \A r \in Requests : r # q => request'[r] = request[r]
  BY <1>0, <1>1, <1>2, GoOnType
<1>4. Entries' /\ HttpType'
  BY <1>0, <1>1, <1>2, <1>3 DEF Entries, WaiterReachable, HttpType
<1>5. /\ InboxType'
      /\ \A j \in Inboxes : \A k \in 1..Len(inbox'[j]) :
           \/ k \in 1..Len(inbox[j]) /\ inbox'[j][k] = inbox[j][k]
           \/ inbox'[j][k] = q
  BY <1>0, <1>2, PutType DEF Inboxes
<1>6. \A r \in Requests : request[r] \in Gone \/ r = q => request'[r] \in Gone
  BY <1>2, <1>3 DEF Gone
<1>7. Sent'
  BY <1>0, <1>2, <1>5, <1>6 DEF Sent
<1>. QED
  BY <1>2, <1>4, <1>5, <1>7, RequestStep
-----------------------------------------------------------------------------
(* The WASM channel *)

\* A callback's step leaves the handlers and the loop alone.
LEMMA CallbackStep ==
  ASSUME IInv, UNCHANGED <<http, open, typing, loop>>, InboxType', WasmType',
         \A j \in Inboxes : \A k \in 1..Len(inbox'[j]) :
           \/ k \in 1..Len(inbox[j]) /\ inbox'[j][k] = inbox[j][k]
           \/ inbox'[j][k] = "wasm"
  PROVE  IInv'
<1>1. HttpType' /\ TypingType' /\ LoopType' /\ Typing' /\ Entries'
  BY TypeParts DEF IInv, HttpType, TypingType, LoopType, Typing, Entries, WaiterReachable, http, typing
<1>2. Sent'
  BY ChannelsAssumption DEF IInv, Sent, http
<1>. QED
  BY <1>1, <1>2, TypePartsNext DEF IInv

LEMMA CallbackInv ==
  ASSUME IInv,
         \/ \E c \in Callbacks : Return(c) \/ Deliver(c) \/ RateLimited(c) \/ DropCallback(c)
         \/ PollerStops
  PROVE  IInv'
<1>0. InboxType /\ WasmType
  BY TypeParts DEF IInv
<1>1. ASSUME UNCHANGED <<http, open, inbox, typing, loop>>, WasmType' PROVE IInv'
  <2>1. InboxType'
    BY <1>0, <1>1 DEF InboxType
  <2>. QED
    BY <1>1, <2>1, CallbackStep
<1>2. ASSUME NEW c \in Callbacks, NEW phase \in {"idle", "lock", "limit", "send"},
             Proceed(c, phase), UNCHANGED <<open, polling>>
      PROVE  WasmType'
  BY <1>0, <1>2 DEF WasmType, Proceed
<1>3. ASSUME NEW c \in Callbacks,
             Return(c) \/ LockInbox(c) \/ LockLimiter(c) \/ RateLimited(c) \/ DropCallback(c)
      PROVE  IInv'
  <2>1. UNCHANGED <<http, open, inbox, typing, loop>> /\ UNCHANGED polling
        /\ \E phase \in {"idle", "lock", "limit", "send"} : Proceed(c, phase)
    BY <1>3 DEF Return, LockInbox, LockLimiter, RateLimited, DropCallback
  <2>. QED
    BY <1>1, <1>2, <2>1
<1>4. ASSUME NEW c \in Callbacks, Emit(c) PROVE IInv'
  <2>1. HasRoom("wasm") /\ Put("wasm", "wasm") /\ UNCHANGED <<http, open, polling, typing, loop>>
        /\ \E phase \in {"idle", "lock", "limit", "send"} : Proceed(c, phase)
    BY <1>4 DEF Emit
  <2>2. /\ InboxType'
        /\ \A j \in Inboxes : \A k \in 1..Len(inbox'[j]) :
             \/ k \in 1..Len(inbox[j]) /\ inbox'[j][k] = inbox[j][k]
             \/ inbox'[j][k] = "wasm"
    BY <1>0, <2>1, PutType DEF Inboxes
  <2>3. WasmType'
    BY <1>2, <2>1
  <2>. QED
    BY <2>1, <2>2, <2>3, CallbackStep
<1>5. CASE PollerStops
  BY <1>0, <1>1, <1>5 DEF PollerStops, WasmType
<1>. QED
  BY <1>3, <1>4, <1>5 DEF Deliver

-----------------------------------------------------------------------------
(* The main loop *)

\* A step of the loop that leaves the handlers and the inboxes alone
LEMMA LoopStep ==
  ASSUME IInv, UNCHANGED <<http, callback, inbox>>, TypingType', LoopType', WasmType', Typing',
         loop'.message \in {loop.message, "none"}, open' \subseteq open
  PROVE  IInv'
<1>1. HttpType' /\ InboxType'
  BY TypeParts DEF IInv, HttpType, InboxType, http
<1>2. Sent' /\ Entries'
  BY ChannelsAssumption DEF IInv, Sent, Entries, WaiterReachable, http
<1>. QED
  BY <1>1, <1>2, TypePartsNext DEF IInv

\* cancel_typing_task leaves no repeater.
LEMMA Cancelled ==
  ASSUME IInv, CancelTyping
  PROVE  repeaters' = {} /\ handle' = "none" /\ unsaid' = FALSE /\ TypingType'
BY DEF IInv, Typing, CancelTyping, TypingType

LEMMA LoopPhase ==
  ASSUME LoopType, NEW phase \in {"wait", "busy", "thinking", "answer", "closing", "done"},
         LoopAt(phase)
  PROVE  /\ LoopType' /\ loop'.at = phase /\ loop'.message = loop.message
         /\ loop'.rounds = loop.rounds /\ loop'.failed = loop.failed
BY DEF LoopType, LoopAt

LEMMA LoopRests ==
  ASSUME LoopType
  PROVE  /\ Rested(loop).at = "wait" /\ Rested(loop).message = "none" /\ Rested(loop).rounds = 0
         /\ Rested(loop).failed = FALSE
         /\ Rested(loop) \in
              [at : {"wait", "busy", "thinking", "answer", "closing", "done"},
               message : Requests \cup {"none", "wasm"}, rounds : 0..MaxRounds,
               failed : BOOLEAN, closing : SUBSET Inboxes, writer : Inboxes \cup {"none"}]
<1>1. 0 \in 0..MaxRounds
  BY ChannelsAssumption
<1>. QED
  BY <1>1 DEF LoopType, Rested

\* The loop takes a message, whose handler has sent it.
LEMMA TakeInv == ASSUME IInv, NEW i \in Inboxes, Take(i) PROVE IInv'
<1>0. HttpType /\ InboxType /\ TypingType /\ LoopType /\ WasmType /\ Typing /\ Sent /\ Entries
  BY TypeParts DEF IInv
<1> DEFINE S == Requests \cup {"wasm"}
           head == Head(inbox[i])
           tail == Tail(inbox[i])
<1>1. head \in S /\ tail \in Seq(S) /\ Len(tail) = Len(inbox[i]) - 1
      /\ (\A k \in 1..Len(tail) : tail[k] = inbox[i][k + 1])
      /\ Len(inbox[i]) \in Nat /\ Len(inbox[i]) # 0 /\ head = inbox[i][1]
  <2>1. inbox[i] \in Seq(S) /\ inbox[i] # << >>
    BY <1>0 DEF InboxType, Take
  <2>. QED
    BY <2>1, HeadTailProperties, LenProperties, EmptySeq
<1>2. inbox' = [inbox EXCEPT ![i] = tail] /\ loop.at = "wait"
      /\ loop' = [loop EXCEPT !.at = "busy", !.message = head]
      /\ UNCHANGED <<http, callback, open, polling, typing>>
  BY DEF Take
<1> HIDE DEF head, tail
<1>3. inbox'[i] = tail /\ \A j \in Inboxes : j # i => inbox'[j] = inbox[j]
  BY <1>0, <1>2 DEF InboxType
<1>4. InboxType'
  <2>1. Len(tail) <= Capacity
    BY <1>0, <1>1, ChannelsAssumption DEF InboxType
  <2>. QED
    BY <1>0, <1>1, <1>2, <1>3, <2>1 DEF InboxType, S
<1>5. loop'.at = "busy" /\ loop'.message = head /\ loop'.rounds = loop.rounds /\ LoopType'
  BY <1>0, <1>1, <1>2 DEF LoopType, S
<1>6. Sent'
  <2>1. head \in Requests => request[head] \in Gone
    BY <1>0, <1>1 DEF Sent
  <2>2. ASSUME NEW k \in 1..Len(tail) PROVE tail[k] \in Requests => request[tail[k]] \in Gone
    <3>1. k + 1 \in 1..Len(inbox[i])
      BY <1>1
    <3>. QED
      BY <1>0, <1>1, <3>1 DEF Sent
  <2>3. \A j \in Inboxes : \A k \in 1..Len(inbox'[j]) :
          inbox'[j][k] \in Requests => request[inbox'[j][k]] \in Gone
    BY <1>0, <1>3, <2>2 DEF Sent
  <2>. QED
    BY <1>2, <1>5, <2>1, <2>3 DEF Sent, http
<1>7. Typing'
  BY <1>0, <1>2, <1>5 DEF Typing, typing
<1>8. HttpType' /\ TypingType' /\ WasmType' /\ Entries'
  BY <1>0, <1>2 DEF HttpType, TypingType, WasmType, Entries, WaiterReachable, http, typing
<1>. QED
  BY <1>4, <1>5, <1>6, <1>7, <1>8, TypePartsNext DEF IInv

\* The statuses of a turn
LEMMA ThinkInv == ASSUME IInv, Think PROVE IInv'
<1>1. LoopType /\ TypingType /\ WasmType
  BY TypeParts DEF IInv
<1>2. loop' = [loop EXCEPT !.at = "thinking", !.rounds = @ + 1] /\ loop.message = "wasm"
      /\ loop.rounds < MaxRounds /\ CancelTyping /\ UNCHANGED <<http, callback, open, inbox, polling>>
  BY DEF Think
<1>3. loop.rounds + 1 \in 0..MaxRounds /\ loop.rounds + 1 > 0
  BY <1>1, <1>2, ChannelsAssumption DEF LoopType
<1>4. LoopType' /\ loop'.at = "thinking" /\ loop'.message = "wasm" /\ loop'.rounds = loop.rounds + 1
  BY <1>1, <1>2, <1>3 DEF LoopType
<1>5. Typing' /\ TypingType'
  BY <1>2, <1>3, <1>4, Cancelled DEF Typing
<1>. QED
  BY <1>1, <1>2, <1>4, <1>5, LoopStep DEF WasmType

LEMMA StartTypingInv == ASSUME IInv, StartTyping PROVE IInv'
<1>1. LoopType /\ TypingType /\ WasmType /\ Typing
  BY TypeParts DEF IInv
<1>2. LoopAt("busy") /\ loop.at = "thinking" /\ UNCHANGED <<http, callback, open, inbox, polling, unsaid>>
  BY DEF StartTyping
<1>3. repeaters = {} /\ loop.rounds > 0 /\ loop.message = "wasm"
  BY <1>1, <1>2 DEF Typing
<1> DEFINE t == CHOOSE task \in Tasks \ repeaters : TRUE
<1>4. t \in Tasks
  BY <1>3, ChannelsAssumption
<1>5. repeaters' = repeaters \cup {t} /\ handle' = t
  BY DEF StartTyping
<1> HIDE DEF t
<1>6. t # "none"
  BY <1>4, ChannelsAssumption
<1>7. LoopType' /\ loop'.at = "busy" /\ loop'.message = "wasm" /\ loop'.rounds > 0
  BY <1>1, <1>2, <1>3, LoopPhase
<1>8. TypingType' /\ Typing'
  BY <1>1, <1>2, <1>3, <1>4, <1>5, <1>6, <1>7 DEF TypingType, Typing
<1>. QED
  BY <1>1, <1>2, <1>3, <1>7, <1>8, LoopStep DEF WasmType

LEMMA TellInv == ASSUME IInv, OtherStatus \/ Tell \/ Fail PROVE IInv'
<1>0. LoopType /\ TypingType /\ WasmType /\ Typing
  BY TypeParts DEF IInv
<1>1. CASE OtherStatus
  <2>1. CancelTyping /\ UNCHANGED <<http, callback, open, inbox, polling, loop>> /\ loop.at = "busy"
    BY <1>1 DEF OtherStatus
  <2>2. TypingType' /\ Typing' /\ LoopType'
    BY <1>0, <2>1, Cancelled DEF Typing, LoopType
  <2>. QED
    BY <1>0, <2>1, <2>2, LoopStep DEF WasmType
<1>2. CASE Tell
  <2>1. LoopAt("answer") /\ loop.at = "busy" /\ UNCHANGED <<http, callback, open, inbox, polling>>
    BY <1>2 DEF Tell
  <2>2. LoopType' /\ loop'.at = "answer" /\ loop'.message = loop.message /\ loop'.rounds = loop.rounds
    BY <1>0, <2>1, LoopPhase
  <2>3. TypingType' /\ Typing'
    <3>1. CASE loop.message = "wasm"
      BY <1>2, <2>2, <3>1, Cancelled DEF Tell, Typing
    <3>2. CASE loop.message # "wasm"
      <4>1. UNCHANGED <<repeaters, handle, unsaid>>
        BY <1>2, <3>2 DEF Tell, typing
      <4>2. handle # "none" => unsaid
        BY <1>0, <2>1, <3>2 DEF Typing
      <4>. QED
        BY <1>0, <2>2, <4>1, <4>2 DEF Typing, TypingType
    <3>. QED
      BY <3>1, <3>2
  <2>. QED
    BY <1>0, <2>1, <2>2, <2>3, LoopStep DEF WasmType
<1>3. CASE Fail
  <2>1. loop' = [loop EXCEPT !.at = "answer", !.failed = TRUE] /\ loop.at = "busy"
        /\ UNCHANGED <<http, callback, open, inbox, polling, typing>>
    BY <1>3 DEF Fail
  <2>2. LoopType' /\ loop'.at = "answer" /\ loop'.message = loop.message /\ loop'.rounds = loop.rounds
        /\ loop'.failed
    BY <1>0, <2>1 DEF LoopType
  <2>3. TypingType' /\ Typing'
    BY <1>0, <2>1, <2>2 DEF Typing, TypingType, typing
  <2>. QED
    BY <1>0, <2>1, <2>2, <2>3, LoopStep DEF WasmType
<1>. QED
  BY <1>1, <1>2, <1>3

\* The answer is kept back, which may leave the repeater of a message that failed.
LEMMA WithholdInv == ASSUME IInv, Withhold PROVE IInv'
<1>0. LoopType /\ TypingType /\ WasmType /\ Typing
  BY TypeParts DEF IInv
<1>1. unsaid' = (unsaid \/ (loop.failed /\ loop.message = "wasm")) /\ loop' = Rested(loop)
      /\ loop.at = "answer" /\ UNCHANGED <<http, callback, open, inbox, polling, repeaters, handle>>
  BY DEF Withhold
<1>2. LoopType' /\ loop'.at = "wait" /\ loop'.message = "none" /\ loop'.rounds = 0
  BY <1>0, <1>1, LoopRests DEF LoopType
<1>3. unsaid' \in BOOLEAN /\ (handle # "none" => unsaid')
  <2>1. handle # "none" => unsaid \/ (loop.failed /\ loop.message = "wasm")
    BY <1>0, <1>1 DEF Typing
  <2>. QED
    BY <1>1, <2>1
<1>4. TypingType' /\ Typing'
  BY <1>0, <1>1, <1>2, <1>3 DEF Typing, TypingType
<1>. QED
  BY <1>0, <1>1, <1>2, <1>4, LoopStep DEF WasmType
\* The answer of a WASM message cancels the repeater; that of a request takes its
\* entry, and wakes its handler if it waits.
LEMMA RespondInv == ASSUME IInv, Respond PROVE IInv'
<1>0. HttpType /\ InboxType /\ LoopType /\ TypingType /\ WasmType /\ Typing /\ Sent /\ Entries
      /\ WaiterReachable
  BY TypeParts DEF IInv, Entries
<1>1. loop' = Rested(loop) /\ loop.at = "answer" /\ UNCHANGED <<waits, callback, open, inbox, polling>>
  BY DEF Respond
<1>2. LoopType' /\ loop'.at = "wait" /\ loop'.message = "none" /\ loop'.rounds = 0
  BY <1>0, <1>1, LoopRests DEF LoopType
<1>3. CASE loop.message = "wasm"
  <2>1. CancelTyping /\ UNCHANGED http
    BY <1>1, <1>3 DEF Respond, http
  <2>2. TypingType' /\ Typing'
    BY <1>2, <2>1, Cancelled DEF Typing
  <2>. QED
    BY <1>0, <1>1, <1>2, <2>1, <2>2, LoopStep DEF WasmType
<1>4. CASE loop.message # "wasm"
  <2> DEFINE woken == {loop.message} \cap pending
  <2>1. /\ pending' = pending \ {loop.message}
        /\ request' = [q \in Requests |->
             IF q \in woken /\ request[q] = "wait" THEN "cleanup" ELSE request[q]]
        /\ UNCHANGED <<repeaters, handle, unsaid>>
    BY <1>4 DEF Respond, typing
  <2>2. \A q \in Requests :
          request'[q] = IF q \in woken /\ request[q] = "wait" THEN "cleanup" ELSE request[q]
    BY <2>1
  <2>3. HttpType'
    BY <1>0, <1>1, <2>1 DEF HttpType, Phases, Active
  <2>4. Entries'
    <3>1. \A q \in Requests \cap {loop.message} : request[q] \in Gone
      BY <1>0 DEF Sent
    <3>2. \A q \in waits : request'[q] \in {"lock", "send", "wait"} => q \in pending'
      BY <1>0, <2>1, <2>2, <3>1 DEF WaiterReachable, HttpType, Gone
    <3>3. \A q \in pending' : request'[q] = "end" => "http" \notin open'
      BY <1>0, <1>1, <2>1, <2>2 DEF WaiterReachable, HttpType
    <3>. QED
      BY <1>0, <1>1, <2>1, <2>2, <3>2, <3>3 DEF Entries, WaiterReachable, HttpType
  <2>5. Sent'
    <3>1. \A q \in Requests : request[q] \in Gone => request'[q] \in Gone
      BY <2>2 DEF Gone
    <3>. QED
      BY <1>0, <1>1, <1>2, <3>1, ChannelsAssumption DEF Sent
  <2>6. Typing' /\ TypingType'
    <3>1. handle # "none" => unsaid
      BY <1>0, <1>1, <1>4 DEF Typing
    <3>. QED
      BY <1>0, <1>2, <2>1, <3>1 DEF Typing, TypingType
  <2>7. InboxType' /\ WasmType'
    BY <1>0, <1>1 DEF InboxType, WasmType
  <2>. QED
    BY <1>2, <2>3, <2>4, <2>5, <2>6, <2>7, TypePartsNext DEF IInv
<1>. QED
  BY <1>3, <1>4

\* Shutting down: each inbox's writer, after the typing indicator is cancelled
LEMMA ShutdownInv == ASSUME IInv, Quit \/ Shutdown PROVE IInv'
<1>0. LoopType /\ TypingType /\ WasmType /\ Typing
  BY TypeParts DEF IInv
<1>1. CASE Quit
  <2>1. loop' = [Rested(loop) EXCEPT !.at = "closing", !.closing = Inboxes]
        /\ (loop.at = "wait" \/ (loop.at = "busy" /\ loop.rounds = 0))
        /\ UNCHANGED <<http, callback, open, inbox, polling, typing>>
    BY <1>1 DEF Quit
  <2>2. LoopType' /\ loop'.at = "closing" /\ loop'.message = "none" /\ loop'.rounds = 0
    <3> DEFINE rested == Rested(loop)
    <3>1. /\ rested.message = "none" /\ rested.rounds = 0
          /\ rested \in
               [at : {"wait", "busy", "thinking", "answer", "closing", "done"},
                message : Requests \cup {"none", "wasm"}, rounds : 0..MaxRounds,
                failed : BOOLEAN, closing : SUBSET Inboxes, writer : Inboxes \cup {"none"}]
      BY <1>0, LoopRests
    <3>2. loop' = [rested EXCEPT !.at = "closing", !.closing = Inboxes]
      BY <2>1
    <3> HIDE DEF rested
    <3>. QED
      BY <3>1, <3>2 DEF LoopType
  <2>3. Typing' /\ TypingType'
    <3>1. handle # "none" => unsaid
      BY <1>0, <2>1 DEF Typing
    <3>. QED
      BY <1>0, <2>1, <2>2, <3>1 DEF Typing, TypingType, typing
  <2>. QED
    BY <1>0, <2>1, <2>2, <2>3, LoopStep DEF WasmType
<1>2. ASSUME NEW i \in Inboxes, BeginClose(i) PROVE IInv'
  <2>1. loop.at = "closing" /\ loop' = [loop EXCEPT !.writer = i]
        /\ UNCHANGED <<http, callback, open, inbox>>
    BY <1>2 DEF BeginClose
  <2>2. LoopType' /\ loop'.at = "closing" /\ loop'.message = loop.message /\ loop'.rounds = loop.rounds
    BY <1>0, <2>1 DEF LoopType
  <2>3. CASE i = "wasm"
    <3>1. CancelTyping /\ polling' = [polling EXCEPT !.told = TRUE]
      BY <1>2, <2>3 DEF BeginClose
    <3>2. TypingType' /\ Typing' /\ WasmType'
      BY <1>0, <2>1, <2>2, <3>1, Cancelled DEF Typing, WasmType
    <3>. QED
      BY <2>1, <2>2, <3>2, LoopStep
  <2>4. CASE i # "wasm"
    <3>1. UNCHANGED <<repeaters, handle, unsaid, polling>>
      BY <1>2, <2>4 DEF BeginClose, typing
    <3>2. TypingType' /\ Typing' /\ WasmType'
      BY <1>0, <2>1, <2>2, <3>1 DEF Typing, TypingType, WasmType
    <3>. QED
      BY <2>1, <2>2, <3>2, LoopStep
  <2>. QED
    BY <2>3, <2>4
<1>3. CASE Close
  <2>1. loop.at = "closing" /\ open' = open \ {loop.writer}
        /\ loop' = [loop EXCEPT !.writer = "none", !.closing = @ \ {loop.writer}]
        /\ UNCHANGED <<http, callback, inbox, polling, typing>>
    BY <1>3 DEF Close
  <2>2. LoopType' /\ loop'.at = "closing" /\ loop'.message = loop.message /\ loop'.rounds = loop.rounds
    BY <1>0, <2>1 DEF LoopType
  <2>3. TypingType' /\ Typing' /\ WasmType'
    BY <1>0, <2>1, <2>2 DEF Typing, TypingType, WasmType, typing
  <2>. QED
    BY <2>1, <2>2, <2>3, LoopStep
<1>4. CASE Stop
  <2>1. loop.at = "closing" /\ LoopAt("done") /\ UNCHANGED <<http, callback, open, inbox, polling, typing>>
    BY <1>4 DEF Stop
  <2>2. LoopType' /\ loop'.at = "done" /\ loop'.message = loop.message /\ loop'.rounds = loop.rounds
    BY <1>0, <2>1, LoopPhase
  <2>3. TypingType' /\ Typing' /\ WasmType'
    BY <1>0, <2>1, <2>2 DEF Typing, TypingType, WasmType, typing
  <2>. QED
    BY <2>1, <2>2, <2>3, LoopStep
<1>. QED
  BY <1>1, <1>2, <1>3, <1>4 DEF Shutdown

-----------------------------------------------------------------------------
LEMMA InvStep == IInv /\ [Next]_vars => IInv'
<1> SUFFICES ASSUME IInv, [Next]_vars PROVE IInv'
  OBVIOUS
<1>1. CASE UNCHANGED vars
  BY <1>1 DEF vars, IInv, TypeOK, Typing, Sent, Entries, WaiterReachable
<1>2. ASSUME NEW q \in Requests, Arrive(q) \/ Serve(q) \/ Drop(q) PROVE IInv'
  BY <1>2, ArriveInv, EntryInv, SendInv, LeaveInv DEF Serve
<1>3. CASE \/ \E c \in Callbacks : Return(c) \/ Deliver(c) \/ RateLimited(c) \/ DropCallback(c)
           \/ PollerStops
  BY <1>3, CallbackInv
<1>4. CASE (\E i \in Inboxes : Take(i)) \/ Handle \/ OtherStatus
  BY <1>4, TakeInv, ThinkInv, StartTypingInv, TellInv, RespondInv, WithholdInv DEF Handle
<1>5. CASE Quit \/ Shutdown
  BY <1>5, ShutdownInv
<1>. QED
  BY <1>1, <1>2, <1>3, <1>4, <1>5 DEF Next

LEMMA Invariance == Spec => []IInv
BY InvInit, InvStep, PTL DEF Spec

\* Handlers, callbacks and the loop keep their types, and no inbox holds more than
\* it has room for.
THEOREM TypeCorrect == Spec => []TypeOK
<1>1. IInv => TypeOK
  BY DEF IInv
<1>. QED
  BY <1>1, Invariance, PTL

\* WasmChannel::cancel_typing_task always has the handle of the repeater that
\* runs, and none runs between messages unless the answer to one that failed was
\* withheld.
THEOREM TypingEndsCorrect == Spec => []TypingEnds
<1>1. IInv => TypingEnds
  BY DEF IInv, Typing, TypingEnds
<1>. QED
  BY <1>1, Invariance, PTL

\* HttpChannel's pending_responses has the entry of every request that may still
\* be answered, and keeps one of a handler that has returned only when the channel
\* was closed or the handler dropped.
THEOREM WaiterReachableCorrect == Spec => []WaiterReachable
<1>1. IInv => WaiterReachable
  BY DEF IInv, Entries
<1>. QED
  BY <1>1, Invariance, PTL

-----------------------------------------------------------------------------
(* Closing *)

\* The loop closes what it has still to close, one channel after the other, and
\* whoever holds the guard of a sender has seen it there.
Closing ==
  /\ loop.writer # "none" => loop.at = "closing" /\ loop.writer \in loop.closing
  /\ loop.at = "closing" => open = loop.closing
  /\ loop.at = "done" => open = {}
  /\ loop.at \notin {"closing", "done"} => open = Inboxes
  /\ \A q \in Requests : request[q] = "send" => "http" \in open
  /\ \A c \in Callbacks : callback[c] \in {"limit", "send"} => "wasm" \in open

\* A step of a handler that gets no guard, or that found the sender there
LEMMA HandlerCloses ==
  ASSUME IInv, Closing, NEW q \in Requests, UNCHANGED <<callback, open, loop>>,
         \E phase \in Phases : GoOn(q, phase) /\ (phase = "send" => "http" \in open)
  PROVE  Closing'
BY DEF Closing, IInv, TypeOK, GoOn

LEMMA CallbackCloses ==
  ASSUME IInv, Closing, NEW c \in Callbacks, UNCHANGED <<http, open, loop>>,
         \E phase : Proceed(c, phase) /\ (phase \in {"limit", "send"} => "wasm" \in open)
  PROVE  Closing'
BY DEF Closing, IInv, TypeOK, Proceed, http

\* A step of the loop on a message
LEMMA LoopCloses ==
  ASSUME Closing, UNCHANGED <<callback, open>>, loop.at \notin {"closing", "done"},
         loop'.at \notin {"closing", "done"}, loop'.writer = loop.writer,
         \A q \in Requests : request'[q] = "send" => request[q] = "send"
  PROVE  Closing'
BY DEF Closing

LEMMA ClosingStep == IInv /\ Closing /\ [Next]_vars => Closing'
<1> SUFFICES ASSUME IInv, Closing, [Next]_vars PROVE Closing'
  OBVIOUS
<1>0. LoopType /\ WasmType /\ HttpType /\ Typing
  BY TypeParts DEF IInv
<1>1. CASE UNCHANGED vars \/ PollerStops \/ OtherStatus
  BY <1>1 DEF vars, PollerStops, OtherStatus, http, Closing
<1>2. ASSUME NEW q \in Requests, Arrive(q) \/ Serve(q) \/ Drop(q) PROVE Closing'
  <2>1. UNCHANGED <<callback, open, loop>>
    BY <1>2 DEF Arrive, Serve, Drop, CheckPending, InsertPending, LockSender, Send, EndWait, CleanUp
  <2>2. \E phase \in Phases : GoOn(q, phase) /\ (phase = "send" => "http" \in open)
    BY <1>2 DEF Arrive, Serve, Drop, CheckPending, InsertPending, LockSender, Send, EndWait, CleanUp,
       Phases, Active
  <2>. QED
    BY <2>1, <2>2, HandlerCloses
<1>3. ASSUME NEW c \in Callbacks, Return(c) \/ Deliver(c) \/ RateLimited(c) \/ DropCallback(c)
      PROVE  Closing'
  <2>1. UNCHANGED <<http, open, loop>>
    BY <1>3 DEF Return, Deliver, RateLimited, DropCallback, LockInbox, LockLimiter, Emit
  <2>2. callback[c] \in {"limit", "send"} => "wasm" \in open
    BY DEF Closing
  <2>3. \E phase : Proceed(c, phase) /\ (phase \in {"limit", "send"} => "wasm" \in open)
    BY <1>3, <2>2 DEF Return, Deliver, RateLimited, DropCallback, LockInbox, LockLimiter, Emit
  <2>. QED
    BY <2>1, <2>3, CallbackCloses
<1>4. CASE (\E i \in Inboxes : Take(i)) \/ Think \/ StartTyping \/ Tell \/ Fail
  <2>1. UNCHANGED <<request, callback, open>> /\ loop.at \in {"wait", "busy", "thinking"}
    BY <1>4 DEF Take, Think, StartTyping, Tell, Fail, http
  <2>2. loop'.at \in {"busy", "thinking", "answer"} /\ loop'.writer = loop.writer
    BY <1>0, <1>4 DEF Take, Think, StartTyping, Tell, Fail, LoopAt, LoopType
  <2>. QED
    BY <2>1, <2>2, LoopCloses
<1>5. CASE Respond \/ Withhold
  <2>1. UNCHANGED <<callback, open>> /\ loop.at = "answer"
        /\ \A q \in Requests : request'[q] = "send" => request[q] = "send"
    BY <1>5 DEF Respond, Withhold, http
  <2>2. loop'.at = "wait" /\ loop'.writer = loop.writer
    BY <1>0, <1>5 DEF Respond, Withhold, Rested, LoopType
  <2>. QED
    BY <2>1, <2>2, LoopCloses
<1>6. CASE Quit
  <2>1. loop'.at = "closing" /\ loop'.closing = Inboxes /\ loop'.writer = loop.writer
    BY <1>0, <1>6 DEF Quit, Rested, LoopType
  <2>2. loop.at \in {"wait", "busy"} /\ UNCHANGED <<request, callback, open>>
    BY <1>6 DEF Quit, http
  <2>. QED
    BY <2>1, <2>2 DEF Closing
<1>7. ASSUME NEW i \in Inboxes, BeginClose(i) PROVE Closing'
  <2>1. loop'.at = "closing" /\ loop'.closing = loop.closing /\ loop'.writer = i
        /\ i \in loop.closing /\ loop.at = "closing" /\ UNCHANGED <<request, callback, open>>
    BY <1>0, <1>7 DEF BeginClose, LoopType, http
  <2>. QED
    BY <2>1 DEF Closing
<1>8. CASE Close
  <2>1. /\ loop'.at = "closing" /\ loop'.closing = loop.closing \ {loop.writer}
        /\ loop'.writer = "none" /\ loop.at = "closing" /\ UNCHANGED <<request, callback>>
        /\ open' = open \ {loop.writer} /\ Readers(loop.writer) = {}
        /\ loop.writer # "none"
    BY <1>0, <1>8 DEF Close, LoopType, http
  <2>2. loop.writer = "http" => \A q \in Requests : request[q] # "send"
    BY <2>1 DEF Readers
  <2>3. loop.writer # "http" => \A c \in Callbacks : callback[c] \notin {"limit", "send"}
    BY <2>1 DEF Readers
  <2>4. loop.writer \in {"http", "wasm"}
    BY <1>0, <2>1 DEF LoopType, Inboxes
  <2>. QED
    BY <2>1, <2>2, <2>3, <2>4 DEF Closing
<1>9. CASE Stop
  <2>1. loop'.at = "done" /\ loop'.writer = loop.writer /\ loop.at = "closing" /\ loop.closing = {}
        /\ UNCHANGED <<request, callback, open>>
    BY <1>0, <1>9 DEF Stop, LoopAt, LoopType, http
  <2>. QED
    BY <2>1 DEF Closing
<1>. QED
  BY <1>1, <1>2, <1>3, <1>4, <1>5, <1>6, <1>7, <1>8, <1>9 DEF Next, Handle, Shutdown

\* Only the guard of a sender lets anybody put something into an inbox, and the
\* loop that takes is not one that closes.
LEMMA ClosedInbox ==
  ASSUME IInv, Closing, [Next]_vars, NEW i \in Inboxes \ open
  PROVE  inbox'[i] = inbox[i]
<1>0. inbox \in [Inboxes -> Seq(Requests \cup {"wasm"})]
  BY DEF IInv, TypeOK
<1>1. ASSUME NEW q \in Requests, Send(q) PROVE inbox'[i] = inbox[i]
  <2>1. "http" \in open /\ inbox' = [inbox EXCEPT !["http"] = Append(inbox["http"], q)]
    BY <1>1 DEF Send, Put, Closing
  <2>. QED
    BY <1>0, <2>1
<1>2. ASSUME NEW c \in Callbacks, Emit(c) PROVE inbox'[i] = inbox[i]
  <2>1. "wasm" \in open /\ inbox' = [inbox EXCEPT !["wasm"] = Append(inbox["wasm"], "wasm")]
    BY <1>2 DEF Emit, Put, Closing
  <2>. QED
    BY <1>0, <2>1
<1>3. ASSUME NEW k \in Inboxes, Take(k) PROVE inbox'[i] = inbox[i]
  BY <1>3 DEF Take, Closing
<1>4. CASE UNCHANGED inbox
  BY <1>4
<1>5. ASSUME NEW q \in Requests, Arrive(q) \/ Serve(q) \/ Drop(q) PROVE Send(q) \/ UNCHANGED inbox
  BY <1>5 DEF Arrive, Serve, Drop, CheckPending, InsertPending, LockSender, EndWait, CleanUp
<1>6. ASSUME NEW c \in Callbacks, Return(c) \/ Deliver(c) \/ RateLimited(c) \/ DropCallback(c)
      PROVE  Emit(c) \/ UNCHANGED inbox
  BY <1>6 DEF Return, Deliver, RateLimited, DropCallback, LockInbox, LockLimiter
<1>7. CASE Handle \/ OtherStatus \/ Quit \/ Shutdown \/ PollerStops \/ UNCHANGED vars
  BY <1>7 DEF Handle, Think, StartTyping, Tell, Fail, Respond, Withhold, OtherStatus, Quit,
     Shutdown, BeginClose, Close, Stop, PollerStops, vars
<1>. QED
  BY <1>1, <1>2, <1>3, <1>4, <1>5, <1>6, <1>7 DEF Next

\* However handlers and callbacks that have or await the guard meet the writer,
\* shutdown_all leaves no channel open, and a closed one takes nothing in.
THEOREM ShutdownClosesCorrect == Spec => ShutdownCloses
<1>1. Init => Closing
  BY DEF Init, Closing
<1>2. Closing => (loop.at = "done" => open = {})
  BY DEF Closing
<1>3. IInv /\ Closing /\ [Next]_vars => [\A i \in Inboxes \ open : UNCHANGED inbox[i]]_vars
  BY ClosedInbox
<1>. QED
  BY <1>1, <1>2, <1>3, ClosingStep, Invariance, PTL DEF Spec, ShutdownCloses

-----------------------------------------------------------------------------
(* Handlers and the loop end what they have begun in a bounded number of steps *)

\* An upper bound on the steps of a handler
HandlerLeft(q) ==
  CASE request[q] = "new"     -> 7
    [] request[q] = "check"   -> 6
    [] request[q] = "insert"  -> 5
    [] request[q] = "lock"    -> 4
    [] request[q] = "send"    -> 3
    [] request[q] = "wait"    -> 2
    [] request[q] = "cleanup" -> 1
    [] OTHER                  -> 0

\* and of the loop on a message, or while it shuts down
ToClose == (IF "http" \in loop.closing THEN 2 ELSE 0) + (IF "wasm" \in loop.closing THEN 2 ELSE 0)
LoopLeft ==
  CASE loop.at = "done"     -> 0
    [] loop.at = "closing"  -> 1 + ToClose - (IF loop.writer = "none" THEN 0 ELSE 1)
    [] loop.at = "wait"     -> 6
    [] loop.at = "answer"   -> 7
    [] loop.at = "busy"     -> 8 + 2 * (MaxRounds - loop.rounds)
    [] loop.at = "thinking" -> 9 + 2 * (MaxRounds - loop.rounds)

\* Whatever moves a handler, an answer of the loop included, brings it nearer its
\* return, and whatever moves the loop brings it nearer its next wait or its end.
AllComeNearer ==
  /\ [](LoopLeft \in Nat /\ \A q \in Requests : HandlerLeft(q) \in Nat)
  /\ \A q \in Requests : [][UNCHANGED request[q] \/ HandlerLeft(q)' < HandlerLeft(q)]_vars
  /\ [][loop.at = "wait" \/ UNCHANGED loop \/ LoopLeft' < LoopLeft]_vars

LEMMA HandlerIsNearer ==
  ASSUME IInv, [Next]_vars, NEW k \in Requests
  PROVE  request'[k] = request[k] \/ HandlerLeft(k)' < HandlerLeft(k)
<1>1. ASSUME NEW q \in Requests, Arrive(q) \/ Serve(q) \/ Drop(q)
      PROVE  request'[k] = request[k] \/ HandlerLeft(k)' < HandlerLeft(k)
  <2>1. \E phase : GoOn(q, phase)
    BY <1>1 DEF Arrive, Serve, Drop, CheckPending, InsertPending, LockSender, Send, EndWait, CleanUp
  <2>2. CASE k # q
    BY <2>1, <2>2 DEF GoOn, IInv, TypeOK
  <2>3. CASE k = q
    BY <1>1, <2>3 DEF Arrive, Serve, Drop, CheckPending, InsertPending, LockSender, Send, EndWait,
       CleanUp, GoOn, IInv, TypeOK, Active, HandlerLeft
  <2>. QED
    BY <2>2, <2>3
<1>2. CASE Respond
  <2>1. request'[k] = request[k] \/ (request[k] = "wait" /\ request'[k] = "cleanup")
    BY <1>2 DEF Respond
  <2>. QED
    BY <2>1 DEF HandlerLeft
<1>3. CASE \/ \E c \in Callbacks : Return(c) \/ Deliver(c) \/ RateLimited(c) \/ DropCallback(c)
           \/ PollerStops
           \/ \E i \in Inboxes : Take(i)
           \/ Think \/ StartTyping \/ Tell \/ Fail \/ Withhold \/ OtherStatus \/ Quit \/ Shutdown
           \/ UNCHANGED vars
  BY <1>3 DEF Return, Deliver, RateLimited, DropCallback, LockInbox, LockLimiter, Emit, PollerStops,
     Take, Think, StartTyping, Tell, Fail, Withhold, OtherStatus, Quit, Shutdown, BeginClose, Close,
     Stop, vars, http
<1>. QED
  BY <1>1, <1>2, <1>3 DEF Next, Handle

LEMMA LoopIsNearer ==
  ASSUME IInv, Closing, [Next]_vars
  PROVE  loop.at = "wait" \/ UNCHANGED loop \/ LoopLeft' < LoopLeft
<1>0. /\ LoopType /\ loop.rounds \in 0..MaxRounds /\ MaxRounds \in Nat
      /\ ToClose \in 0..4
  BY TypeParts, ChannelsAssumption DEF IInv, LoopType, ToClose
<1>1. CASE Think
  <2>1. loop.at = "busy" /\ loop'.at = "thinking" /\ loop'.rounds = loop.rounds + 1
        /\ loop.rounds < MaxRounds
    BY <1>0, <1>1 DEF Think, LoopType
  <2>2. LoopLeft = 8 + 2 * (MaxRounds - loop.rounds)
        /\ LoopLeft' = 9 + 2 * (MaxRounds - (loop.rounds + 1))
    BY <2>1 DEF LoopLeft
  <2>. QED
    BY <1>0, <2>1, <2>2
<1>2. CASE StartTyping
  <2>1. loop.at = "thinking" /\ loop'.at = "busy" /\ loop'.rounds = loop.rounds
    BY <1>0, <1>2 DEF StartTyping, LoopAt, LoopType
  <2>2. LoopLeft = 9 + 2 * (MaxRounds - loop.rounds) /\ LoopLeft' = 8 + 2 * (MaxRounds - loop.rounds)
    BY <2>1 DEF LoopLeft
  <2>. QED
    BY <1>0, <2>2
<1>3. CASE Tell \/ Fail
  <2>1. loop.at = "busy" /\ loop'.at = "answer"
    BY <1>0, <1>3 DEF Tell, Fail, LoopAt, LoopType
  <2>2. LoopLeft = 8 + 2 * (MaxRounds - loop.rounds) /\ LoopLeft' = 7
    BY <2>1 DEF LoopLeft
  <2>. QED
    BY <1>0, <2>2
<1>4. CASE Respond \/ Withhold
  <2>1. loop.at = "answer" /\ loop'.at = "wait"
    BY <1>0, <1>4, LoopRests DEF Respond, Withhold
  <2>. QED
    BY <2>1 DEF LoopLeft
<1>5. CASE Quit
  <2>1. loop.at = "wait" \/ loop.at = "busy"
    BY <1>5 DEF Quit
  <2>2. loop'.at = "closing" /\ ToClose' \in 0..4
    BY <1>0, <1>5 DEF Quit, Rested, LoopType, ToClose
  <2>3. LoopLeft' <= 5
    BY <2>2 DEF LoopLeft
  <2>4. loop.at = "busy" => LoopLeft = 8 + 2 * (MaxRounds - loop.rounds)
    BY DEF LoopLeft
  <2>5. LoopLeft' \in Int
    BY <2>2 DEF LoopLeft
  <2>. QED
    BY <1>0, <2>1, <2>3, <2>4, <2>5
<1>6. ASSUME NEW i \in Inboxes, BeginClose(i) PROVE LoopLeft' < LoopLeft
  <2>1. loop.at = "closing" /\ loop.writer = "none" /\ loop'.at = "closing" /\ loop'.writer # "none"
        /\ loop'.closing = loop.closing
    BY <1>0, <1>6 DEF BeginClose, LoopType, Inboxes
  <2>2. LoopLeft = 1 + ToClose - 0 /\ LoopLeft' = 1 + ToClose - 1
    BY <2>1 DEF LoopLeft, ToClose
  <2>. QED
    BY <1>0, <2>2
<1>7. CASE Close
  <2>1. loop.at = "closing" /\ loop.writer \in loop.closing /\ loop.writer \in {"http", "wasm"}
        /\ loop'.at = "closing" /\ loop'.writer = "none" /\ loop'.closing = loop.closing \ {loop.writer}
    BY <1>0, <1>7 DEF Close, LoopType, Closing, Inboxes
  <2>2. ToClose' = ToClose - 2
    BY <2>1 DEF ToClose
  <2>3. LoopLeft = 1 + ToClose - 1 /\ LoopLeft' = 1 + (ToClose - 2) - 0
    <3>1. loop.writer # "none"
      BY <2>1
    <3>. QED
      BY <2>1, <2>2, <3>1 DEF LoopLeft
  <2>. QED
    BY <1>0, <2>3
<1>8. CASE Stop
  <2>1. loop.at = "closing" /\ loop'.at = "done" /\ loop.closing = {} /\ loop.writer = "none"
    BY <1>0, <1>8 DEF Stop, LoopAt, LoopType, Closing
  <2>. QED
    BY <2>1 DEF LoopLeft, ToClose
<1>9. CASE \/ \E q \in Requests : Arrive(q) \/ Serve(q) \/ Drop(q)
           \/ \E c \in Callbacks : Return(c) \/ Deliver(c) \/ RateLimited(c) \/ DropCallback(c)
           \/ PollerStops \/ OtherStatus \/ UNCHANGED vars
  BY <1>9 DEF Arrive, Serve, Drop, CheckPending, InsertPending, LockSender, Send, EndWait, CleanUp,
     Return, Deliver, RateLimited, DropCallback, LockInbox, LockLimiter, Emit, PollerStops,
     OtherStatus, vars
<1>10. ASSUME NEW i \in Inboxes, Take(i) PROVE loop.at = "wait"
  BY <1>10 DEF Take
<1>. QED
  BY <1>1, <1>2, <1>3, <1>4, <1>5, <1>6, <1>7, <1>8, <1>9, <1>10 DEF Next, Handle, Shutdown

\* Neither bound falls below zero.
LEMMA LeftIsNat ==
  ASSUME IInv, Closing
  PROVE  LoopLeft \in Nat /\ \A q \in Requests : HandlerLeft(q) \in Nat
<1>1. loop.at \in {"wait", "busy", "thinking", "answer", "closing", "done"}
      /\ MaxRounds - loop.rounds \in Nat /\ ToClose \in Nat
  BY TypeParts, ChannelsAssumption DEF IInv, LoopType, ToClose
<1>2. LoopLeft \in Nat
  BY <1>1 DEF LoopLeft
<1>3. ASSUME NEW q \in Requests PROVE HandlerLeft(q) \in Nat
  BY DEF HandlerLeft
<1>. QED
  BY <1>2, <1>3

\* A handler never goes back, not even when its answer comes, and the loop thinks
\* about a message within MAX_TOOL_ITERATIONS and closes each channel once: what
\* RequestsReturn and ShutdownEnds rest on, with the guards and the room they need.
THEOREM AllRunDown == Spec => AllComeNearer
<1>1. Init => Closing
  BY DEF Init, Closing
<1>2. ASSUME NEW q \in Requests
      PROVE  Spec => [][UNCHANGED request[q] \/ HandlerLeft(q)' < HandlerLeft(q)]_vars
  <2>1. IInv /\ [Next]_vars => [UNCHANGED request[q] \/ HandlerLeft(q)' < HandlerLeft(q)]_vars
    BY HandlerIsNearer
  <2>. QED
    BY <2>1, Invariance, PTL DEF Spec
<1>3. IInv /\ Closing /\ [Next]_vars => [loop.at = "wait" \/ UNCHANGED loop \/ LoopLeft' < LoopLeft]_vars
  BY LoopIsNearer
<1>4. Spec => [][loop.at = "wait" \/ UNCHANGED loop \/ LoopLeft' < LoopLeft]_vars
  BY <1>1, <1>3, ClosingStep, Invariance, PTL DEF Spec
<1>5. IInv /\ Closing => LoopLeft \in Nat /\ \A q \in Requests : HandlerLeft(q) \in Nat
  BY LeftIsNat
<1>6. Spec => [](LoopLeft \in Nat /\ \A q \in Requests : HandlerLeft(q) \in Nat)
  BY <1>1, <1>5, ClosingStep, Invariance, PTL DEF Spec
<1>. QED
  BY <1>2, <1>4, <1>6 DEF AllComeNearer

-----------------------------------------------------------------------------
(* The pairing store *)

Rows(c) == command[c].rows
Unique(rows) == \A r, s \in rows : r.id = s.id \/ r.code = s.code => r = s
Fits(rows) ==
  /\ rows \subseteq Request
  /\ IsFiniteSet(rows) /\ Cardinality(rows) <= MaxPairings
  /\ Unique(rows)

\* The inductive invariant
PairingInv ==
  /\ PairingTypeOK
  /\ Fits(requests)
  /\ \A c \in Commands : Fits(Rows(c))
  /\ AllowedInTime

LEMMA NothingFits == Fits({})
  BY FS_EmptySet, PairingAssumption DEF Fits, Unique

LEMMA LessFits ==
  ASSUME NEW rows, NEW less \in SUBSET rows, Fits(rows)
  PROVE  Fits(less)
<1>1. IsFiniteSet(less) /\ Cardinality(less) <= Cardinality(rows)
  BY FS_Subset DEF Fits
<1>2. Cardinality(less) \in Nat /\ Cardinality(rows) \in Nat
  BY <1>1, FS_CardinalityType DEF Fits
<1>3. Cardinality(less) <= MaxPairings
  BY <1>1, <1>2, PairingAssumption DEF Fits
<1> QED
  BY <1>1, <1>3 DEF Fits, Unique

LEMMA OneMoreFits ==
  ASSUME NEW rows, Fits(rows), Cardinality(rows) < MaxPairings,
         NEW r \in Request,
         r.id \notin {s.id : s \in rows}, r.code \notin {s.code : s \in rows}
  PROVE  Fits(rows \cup {r})
<1>1. IsFiniteSet(rows \cup {r})
      /\ (r \notin rows => Cardinality(rows \cup {r}) = Cardinality(rows) + 1)
  BY FS_AddElement DEF Fits
<1>2. r \notin rows
  OBVIOUS
<1>3. Cardinality(rows) \in Nat
  BY FS_CardinalityType DEF Fits
<1>4. Cardinality(rows \cup {r}) <= MaxPairings
  BY <1>1, <1>2, <1>3, PairingAssumption
<1>5. Unique(rows \cup {r})
  BY DEF Unique, Fits
<1> QED
  BY <1>1, <1>4, <1>5 DEF Fits

LEMMA PairingInitInv == PairingInit => PairingInv
<1> SUFFICES ASSUME PairingInit PROVE PairingInv
  OBVIOUS
<1>1. Fits(requests) /\ \A c \in Commands : Fits(Rows(c))
  BY NothingFits DEF PairingInit, Idle, Rows
<1>2. PairingTypeOK
  BY DEF PairingInit, PairingTypeOK, Idle, At
<1>3. AllowedInTime
  BY DEF PairingInit, AllowedInTime, Idle, At
<1> QED
  BY <1>1, <1>2, <1>3 DEF PairingInv

\* What a step that writes rows that fit has to show beside
LEMMA WriteFits ==
  ASSUME PairingInv, NEW rows, Write(rows), Fits(rows)
  PROVE  Fits(requests') /\ requests' \subseteq Request /\ expired' \subseteq Request
BY DEF PairingInv, Write, Fits, PairingTypeOK

LEMMA FreshFits == ASSUME PairingInv PROVE Fits(Fresh)
BY LessFits DEF PairingInv, Fresh

\* A step that leaves the commands and allowFrom alone
LEMMA CommandsKept ==
  ASSUME PairingInv, UNCHANGED <<allow, command, admitted>>,
         Fits(requests'), expired' \subseteq Request
  PROVE  PairingInv'
BY DEF PairingInv, PairingTypeOK, AllowedInTime, Fits, Unique, Rows, At

LEMMA PairingStep == PairingInv /\ [PairingNext]_pairingVars => PairingInv'
<1> SUFFICES ASSUME PairingInv, [PairingNext]_pairingVars PROVE PairingInv'
  OBVIOUS
<1>1. CASE UNCHANGED pairingVars
  <2>1. UNCHANGED <<requests, expired>> /\ UNCHANGED <<allow, command, admitted>>
    BY <1>1 DEF pairingVars
  <2>2. Fits(requests') /\ expired' \subseteq Request
    BY <2>1 DEF PairingInv, PairingTypeOK
  <2> QED
    BY <2>1, <2>2, CommandsKept
<1>2. ASSUME NEW r \in requests \cup Copies, Expire(r) PROVE PairingInv'
  <2>1. r \in Request
    BY DEF PairingInv, Fits, Copies, Rows
  <2>2. expired' \subseteq Request /\ Fits(requests')
    BY <1>2, <2>1 DEF Expire, PairingInv, PairingTypeOK
  <2> QED
    BY <1>2, <2>2, CommandsKept DEF Expire
<1>3. ASSUME NEW id \in Senders, Renew(id) PROVE PairingInv'
  <2>1. Fits(requests') /\ expired' \subseteq Request
    BY <1>3, FreshFits, WriteFits DEF Renew
  <2> QED
    BY <1>3, <2>1, CommandsKept DEF Renew
<1>4. ASSUME NEW id \in Senders, Ask(id) PROVE PairingInv'
  <2>1. PICK code \in Codes \ {r.code : r \in Fresh} :
          Write(Fresh \cup {[id |-> id, code |-> code]})
    BY <1>4 DEF Ask
  <2> DEFINE r == [id |-> id, code |-> code]
  <2>2. r \in Request /\ r.id = id /\ r.code = code
    BY DEF Request
  <2> HIDE DEF r
  <2>3. Fits(Fresh \cup {r})
    BY <1>4, <2>2, FreshFits, OneMoreFits DEF Ask
  <2>4. Fits(requests') /\ expired' \subseteq Request
    BY <2>1, <2>3, WriteFits DEF r
  <2> QED
    BY <1>4, <2>4, CommandsKept DEF Ask
<1>5. ASSUME NEW c \in Commands, ListReads(c) PROVE PairingInv'
  <2> DEFINE new == [at |-> "truncate", rows |-> Fresh, id |-> "none"]
  <2>1. command' = [command EXCEPT ![c] = new] /\ UNCHANGED <<requests, expired, allow, admitted>>
    BY <1>5 DEF ListReads
  <2>2. Fits(new.rows) /\ new.rows \subseteq Request
    BY FreshFits DEF Fits
  <2>3. new \in [at : {"idle", "truncate", "write", "open", "add"},
                 rows : SUBSET Request, id : Senders \cup {"none"}] /\ new.at = "truncate"
    BY <2>2
  <2> HIDE DEF new
  <2>4. PairingTypeOK'
    BY <2>1, <2>3 DEF PairingInv, PairingTypeOK, At
  <2>5. Fits(requests)' /\ \A d \in Commands : Fits(Rows(d))'
    BY <2>1, <2>2 DEF PairingInv, PairingTypeOK, Rows, Fits, Unique
  <2>6. AllowedInTime'
    BY <2>1, <2>3 DEF PairingInv, PairingTypeOK, AllowedInTime, At
  <2> QED
    BY <2>4, <2>5, <2>6 DEF PairingInv
<1>6. ASSUME NEW c \in Commands, ListTruncates(c) PROVE PairingInv'
  <2>1. Fits(requests') /\ expired' \subseteq Request /\ requests' \subseteq Request
    <3>1. CASE Write({})
      BY <3>1, NothingFits, WriteFits
    <3>2. CASE UNCHANGED <<requests, expired>>
      BY <3>2 DEF PairingInv, PairingTypeOK
    <3> QED
      BY <1>6, <3>1, <3>2 DEF ListTruncates
  <2>2. command' = [command EXCEPT ![c].at = "write"] /\ UNCHANGED <<allow, admitted>>
    BY <1>6 DEF ListTruncates
  <2>3. PairingTypeOK'
    BY <2>1, <2>2 DEF PairingInv, PairingTypeOK, At
  <2>4. \A d \in Commands : Fits(Rows(d))'
    BY <2>2 DEF PairingInv, PairingTypeOK, Rows, Fits, Unique
  <2>5. AllowedInTime'
    BY <2>2 DEF PairingInv, PairingTypeOK, AllowedInTime, At
  <2> QED
    BY <2>1, <2>3, <2>4, <2>5 DEF PairingInv, Fits, Unique
<1>7. ASSUME NEW c \in Commands, ListWrites(c) PROVE PairingInv'
  <2>1. Fits(requests') /\ expired' \subseteq Request /\ requests' \subseteq Request
    BY <1>7, WriteFits DEF ListWrites, PairingInv, Rows
  <2>2. command' = [command EXCEPT ![c] = Idle] /\ UNCHANGED <<allow, admitted>>
    BY <1>7 DEF ListWrites, Rest
  <2>3. PairingTypeOK'
    BY <2>1, <2>2 DEF PairingInv, PairingTypeOK, At, Idle
  <2>4. \A d \in Commands : Fits(Rows(d))'
    BY <2>2, NothingFits DEF PairingInv, PairingTypeOK, Rows, Fits, Unique, Idle
  <2>5. AllowedInTime'
    BY <2>2 DEF PairingInv, PairingTypeOK, AllowedInTime, At, Idle
  <2> QED
    BY <2>1, <2>3, <2>4, <2>5 DEF PairingInv, Fits, Unique
<1>8. ASSUME NEW c \in Commands, NEW r \in requests, Approve(c, r) PROVE PairingInv'
  <2> DEFINE new == [at |-> "open", rows |-> {}, id |-> r.id]
  <2>1. command' = [command EXCEPT ![c] = new] /\ UNCHANGED allow
        /\ Write(Fresh \ {r}) /\ admitted' = admitted \cup {r.id}
    BY <1>8 DEF Approve, Admit, Fresh
  <2>2. Fits(Fresh \ {r})
    BY FreshFits, LessFits
  <2>3. Fits(requests') /\ expired' \subseteq Request /\ requests' \subseteq Request
    BY <2>1, <2>2, WriteFits
  <2>4. r.id \in Senders
    BY DEF PairingInv, PairingTypeOK, Request
  <2>5. new \in [at : {"idle", "truncate", "write", "open", "add"},
                 rows : SUBSET Request, id : Senders \cup {"none"}]
        /\ new.rows = {} /\ new.id = r.id
    BY <2>4
  <2> HIDE DEF new
  <2>6. PairingTypeOK'
    BY <2>1, <2>3, <2>4, <2>5 DEF PairingInv, PairingTypeOK, At
  <2>7. \A d \in Commands : Fits(Rows(d))'
    BY <2>1, <2>5, NothingFits DEF PairingInv, PairingTypeOK, Rows, Fits, Unique
  <2>8. AllowedInTime'
    BY <2>1, <2>5 DEF PairingInv, PairingTypeOK, AllowedInTime, At
  <2> QED
    BY <2>3, <2>6, <2>7, <2>8 DEF PairingInv, Fits, Unique
<1>9. ASSUME NEW c \in Commands, AllowOpens(c) PROVE PairingInv'
  <2>1. command' = [command EXCEPT ![c].at = "add"] /\ allow' \in {{}, allow}
        /\ At(c, "open") /\ UNCHANGED <<requests, expired, admitted>>
    BY <1>9 DEF AllowOpens
  <2>2. PairingTypeOK'
    BY <2>1 DEF PairingInv, PairingTypeOK, At
  <2>3. Fits(requests)' /\ \A d \in Commands : Fits(Rows(d))'
    BY <2>1 DEF PairingInv, PairingTypeOK, Rows, Fits, Unique
  <2>4. AllowedInTime'
    BY <2>1 DEF PairingInv, PairingTypeOK, AllowedInTime, At
  <2> QED
    BY <2>2, <2>3, <2>4 DEF PairingInv
<1>10. ASSUME NEW c \in Commands, AllowAdds(c) PROVE PairingInv'
  <2>1. command' = [command EXCEPT ![c] = Idle] /\ allow' = allow \cup {command[c].id}
        /\ At(c, "add") /\ UNCHANGED <<requests, expired, admitted>>
    BY <1>10 DEF AllowAdds, Rest
  <2>2. command[c].id \in Senders /\ command[c].id \in admitted
    BY <2>1 DEF PairingInv, PairingTypeOK, AllowedInTime
  <2>3. PairingTypeOK'
    BY <2>1, <2>2 DEF PairingInv, PairingTypeOK, At, Idle
  <2>4. Fits(requests)' /\ \A d \in Commands : Fits(Rows(d))'
    BY <2>1, NothingFits DEF PairingInv, PairingTypeOK, Rows, Fits, Unique, Idle
  <2>5. AllowedInTime'
    BY <2>1, <2>2 DEF PairingInv, PairingTypeOK, AllowedInTime, At, Idle
  <2> QED
    BY <2>3, <2>4, <2>5 DEF PairingInv
<1>11. ASSUME NEW c \in Commands, Crash(c) PROVE PairingInv'
  <2>1. command' = [command EXCEPT ![c] = Idle] /\ UNCHANGED <<requests, expired, allow, admitted>>
    BY <1>11 DEF Crash, Rest
  <2>2. PairingTypeOK'
    BY <2>1 DEF PairingInv, PairingTypeOK, At, Idle
  <2>3. Fits(requests)' /\ \A d \in Commands : Fits(Rows(d))'
    BY <2>1, NothingFits DEF PairingInv, PairingTypeOK, Rows, Fits, Unique, Idle
  <2>4. AllowedInTime'
    BY <2>1 DEF PairingInv, PairingTypeOK, AllowedInTime, At, Idle
  <2> QED
    BY <2>2, <2>3, <2>4 DEF PairingInv
<1>12. CASE KilledWriting
  <2>1. Fits(requests') /\ expired' \subseteq Request
    BY <1>12, NothingFits, WriteFits DEF KilledWriting
  <2> QED
    BY <1>12, <2>1, CommandsKept DEF KilledWriting
<1> QED
  BY <1>1, <1>2, <1>3, <1>4, <1>5, <1>6, <1>7, <1>8, <1>9, <1>10, <1>11, <1>12 DEF PairingNext

LEMMA PairingInvariance == PairingSpec => []PairingInv
BY PairingInitInv, PairingStep, PTL DEF PairingSpec

\* The store's variables keep their types: whatever list_pending writes back is
\* a list of requests, and an approval carries its sender to allowFrom
THEOREM PairingTypeCorrect == PairingSpec => []PairingTypeOK
<1>1. PairingInv => PairingTypeOK
  BY DEF PairingInv
<1> QED
  BY <1>1, PairingInvariance, PTL

\* upsert_request's limit holds although list_pending writes what it read before
THEOREM NeverTooMany == PairingSpec => []PendingBound
<1>1. PairingInv => PendingBound
  BY DEF PairingInv, Fits, PendingBound
<1> QED
  BY <1>1, PairingInvariance, PTL

\* generate_unique_code's codes stay unique, in the file and in every copy
THEOREM OneSenderPerCode == PairingSpec => []CodesUnique
<1>1. PairingInv => CodesUnique
  BY DEF PairingInv, Fits, Unique, Rows, CodesUnique
<1> QED
  BY <1>1, PairingInvariance, PTL

\* add_allow_from is given no sender but one approve has found pending in time
THEOREM OnlyApproved == PairingSpec => []AllowedInTime
<1>1. PairingInv => AllowedInTime
  BY DEF PairingInv
<1> QED
  BY <1>1, PairingInvariance, PTL
=============================================================================
