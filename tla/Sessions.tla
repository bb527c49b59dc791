------------------------------ MODULE Sessions ------------------------------
(***************************************************************************)
(* Which thread a message of one user lands on.  The main loop hydrates a  *)
(* thread it is given the id of, finds or makes the thread of any other    *)
(* key, and speaks in it; handlers of the web gateway make sessions and    *)
(* threads, a task prunes the session when it seems idle, turns are stored *)
(* by tasks of their own, and the process may be restarted.  Sessions are  *)
(* reference-counted: whoever holds one keeps using it after it is pruned. *)
(***************************************************************************)
EXTENDS Integers, TLC

CONSTANTS
  Threads,      \* ids of threads
  Names,        \* thread names of channels which are not ids, or no name
  Sessions,     \* session objects; enough to have one more than are held
  MaxTurns      \* bound of the model: turns of a thread

ASSUME SessionsAssumption ==
  /\ Threads \cap Names = {}
  /\ {"none", "unkeyed"} \cap (Threads \cup Names \cup Sessions) = {}
  /\ MaxTurns \in Nat

VARIABLES
  current,   \* the user's entry of sessions
  inside,    \* threads of each session
  turns,     \* how many turns a session's threads have
  stale,     \* sessions whose last_active_at is long ago
  map,       \* thread_map
  maker,     \* the key a thread was made for, "unkeyed" when it had none
  rows,      \* turns of each conversation in the database
  saving,    \* tasks that are about to store a turn
  loop,      \* the message in the main loop's hands
  web,       \* the session a handler of the gateway holds
  pruner     \* how far the pruning task is

vars == <<current, inside, turns, stale, map, maker, rows, saving, loop, web, pruner>>

NoSession == "none"
NoThread == "none"
Keys == Threads \cup Names
Makers == Keys \cup {"none", "unkeyed"}
Unborn(t) == maker[t] = "none"

\* find, check, load, insert, map, track: maybe_hydrate_thread
\* resolve, lookup, create, bind: resolve_thread
\* run: handle_message has session and thread; new: it has a session for /new
Phases == {"idle", "find", "check", "load", "insert", "map", "track",
           "resolve", "lookup", "create", "bind", "run", "new"}
Message == [phase : Phases, key : Keys \cup {"none"}, session : Sessions \cup {NoSession},
            thread : Threads \cup {NoThread}, found : 0..MaxTurns]
NoMessage == [phase |-> "idle", key |-> "none", session |-> NoSession,
              thread |-> NoThread, found |-> 0]

Empty == [t \in Threads |-> 0]

Init ==
  /\ current = NoSession
  /\ inside = [s \in Sessions |-> {}]
  /\ turns = [s \in Sessions |-> Empty]
  /\ stale = {}
  /\ map = [k \in Keys |-> NoThread]
  /\ maker = [t \in Threads |-> "none"]
  /\ rows = Empty
  /\ saving = Empty
  /\ loop = NoMessage
  /\ web = NoSession
  /\ pruner = "idle"

\* get_or_create_session: the user's session, or a new one
Unheld == Sessions \ {current, loop.session, web}
Tracked(s) ==
  \/ current = s /\ UNCHANGED <<current, inside, turns, stale>>
  \/ /\ current = NoSession
     /\ s \in Unheld
     /\ current' = s
     /\ inside' = [inside EXCEPT ![s] = {}]
     /\ turns' = [turns EXCEPT ![s] = Empty]
     /\ stale' = stale \ {s}

\* create_thread, with an id nobody has seen yet
CreateThread(s, t, k) ==
  /\ Unborn(t)
  /\ maker' = [maker EXCEPT ![t] = k]
  /\ inside' = [inside EXCEPT ![s] = @ \cup {t}]
  /\ turns' = [turns EXCEPT ![s][t] = 0]
  /\ stale' = stale \ {s}

Enter(phase) == loop' = [loop EXCEPT !.phase = phase]
EnterWith(phase, s) == loop' = [loop EXCEPT !.phase = phase, !.session = s]
Done == loop' = NoMessage

----------------------------------------------------------------------------
\* A message with a key; an id is one the gateway has shown, or that of the
\* assistant's conversation, which begins as a row
Receive(k) ==
  /\ loop.phase = "idle"
  /\ loop' = [NoMessage EXCEPT !.phase = IF k \in Threads THEN "find" ELSE "resolve", !.key = k]
  /\ IF k \in Threads /\ Unborn(k)
     THEN maker' = [maker EXCEPT ![k] = "unkeyed"]
     ELSE UNCHANGED maker
  /\ UNCHANGED <<current, inside, turns, stale, map, rows, saving, web, pruner>>

\* maybe_hydrate_thread: nothing to do for a thread in memory
Find ==
  /\ loop.phase = "find"
  /\ \E s \in Sessions : Tracked(s) /\ EnterWith("check", s)
  /\ UNCHANGED <<map, maker, rows, saving, web, pruner>>

CheckNothing ==   \* mutant: a thread in memory is loaded over
  /\ loop.phase = "check"
  /\ Enter("load")
  /\ UNCHANGED <<current, inside, turns, stale, map, maker, rows, saving, web, pruner>>
Check ==
  /\ loop.phase = "check"
  /\ IF loop.key \in inside[loop.session] THEN EnterWith("resolve", NoSession) ELSE Enter("load")
  /\ UNCHANGED <<current, inside, turns, stale, map, maker, rows, saving, web, pruner>>

\* A failing read counts as no history
Load ==
  /\ loop.phase = "load"
  /\ \E n \in {rows[loop.key], 0} : loop' = [loop EXCEPT !.phase = "insert", !.found = n]
  /\ UNCHANGED <<current, inside, turns, stale, map, maker, rows, saving, web, pruner>>

Insert ==
  /\ loop.phase = "insert"
  /\ inside' = [inside EXCEPT ![loop.session] = @ \cup {loop.key}]
  /\ turns' = [turns EXCEPT ![loop.session][loop.key] = loop.found]
  /\ stale' = stale \ {loop.session}
  /\ loop' = [loop EXCEPT !.phase = "map", !.found = 0]
  /\ UNCHANGED <<current, map, maker, rows, saving, web, pruner>>

\* register_thread
Register ==
  /\ loop.phase = "map"
  /\ map' = [map EXCEPT ![loop.key] = loop.key]
  /\ Enter("track")
  /\ UNCHANGED <<current, inside, turns, stale, maker, rows, saving, web, pruner>>

Track ==
  /\ loop.phase = "track"
  /\ current' = IF current = NoSession THEN loop.session ELSE current
  /\ EnterWith("resolve", NoSession)
  /\ UNCHANGED <<inside, turns, stale, map, maker, rows, saving, web, pruner>>

----------------------------------------------------------------------------
\* resolve_thread: the thread the map gives the key if the session has it,
\* a new one otherwise
Resolve ==
  /\ loop.phase = "resolve"
  /\ \E s \in Sessions : Tracked(s) /\ EnterWith("lookup", s)
  /\ UNCHANGED <<map, maker, rows, saving, web, pruner>>

LookupMapped ==   \* mutant: whatever the map says
  /\ loop.phase = "lookup"
  /\ IF map[loop.key] # NoThread
     THEN loop' = [loop EXCEPT !.phase = "run", !.thread = map[loop.key]]
     ELSE Enter("create")
  /\ UNCHANGED <<current, inside, turns, stale, map, maker, rows, saving, web, pruner>>
Lookup ==
  /\ loop.phase = "lookup"
  /\ IF map[loop.key] \in inside[loop.session]
     THEN loop' = [loop EXCEPT !.phase = "run", !.thread = map[loop.key]]
     ELSE Enter("create")
  /\ UNCHANGED <<current, inside, turns, stale, map, maker, rows, saving, web, pruner>>

CreateOrReuse ==   \* mutant: a new key continues a thread there is
  /\ loop.phase = "create"
  /\ \E t \in Threads :
       /\ loop' = [loop EXCEPT !.phase = "bind", !.thread = t]
       /\ IF inside[loop.session] = {} THEN CreateThread(loop.session, t, loop.key)
          ELSE t \in inside[loop.session] /\ UNCHANGED <<maker, inside, turns, stale>>
  /\ UNCHANGED <<current, map, rows, saving, web, pruner>>
Create ==
  /\ loop.phase = "create"
  /\ \E t \in Threads :
       /\ CreateThread(loop.session, t, loop.key)
       /\ loop' = [loop EXCEPT !.phase = "bind", !.thread = t]
  /\ UNCHANGED <<current, map, rows, saving, web, pruner>>

Bind ==
  /\ loop.phase = "bind"
  /\ map' = [map EXCEPT ![loop.key] = loop.thread]
  /\ Enter("run")
  /\ UNCHANGED <<current, inside, turns, stale, maker, rows, saving, web, pruner>>

----------------------------------------------------------------------------
\* A turn, stored unless it went through an approval
Speak ==
  LET s == loop.session  t == loop.thread
  IN /\ loop.phase = "run"
     /\ t \in inside[s]
     /\ turns[s][t] < MaxTurns /\ rows[t] + saving[t] < MaxTurns
     /\ turns' = [turns EXCEPT ![s][t] = @ + 1]
     /\ \E n \in {0, 1} : saving' = [saving EXCEPT ![t] = @ + n]
     /\ Done
     /\ UNCHANGED <<current, inside, stale, map, maker, rows, web, pruner>>

\* /new, in the user's session, whatever session the message came with
NewBegins ==
  /\ loop.phase = "run"
  /\ \E s \in Sessions : Tracked(s) /\ EnterWith("new", s)
  /\ UNCHANGED <<map, maker, rows, saving, web, pruner>>

NewCreates ==
  /\ loop.phase = "new"
  /\ \E t \in Threads : CreateThread(loop.session, t, "unkeyed")
  /\ Done
  /\ UNCHANGED <<current, map, rows, saving, web, pruner>>

\* /switch to a thread of the session, and what changes nothing here
Switch ==
  /\ loop.phase = "run"
  /\ stale' \in {stale, stale \ {current}}
  /\ Done
  /\ UNCHANGED <<current, inside, turns, map, maker, rows, saving, web, pruner>>

\* persist_turn's task
Save(t) ==
  /\ saving[t] > 0
  /\ saving' = [saving EXCEPT ![t] = @ - 1]
  /\ \E n \in {0, 1} : rows' = [rows EXCEPT ![t] = @ + n]
  /\ UNCHANGED <<current, inside, turns, stale, map, maker, loop, web, pruner>>

----------------------------------------------------------------------------
\* Handlers of the gateway: all get the session, chat_new_thread_handler then
\* makes a thread
WebBegins ==
  /\ web = NoSession
  /\ \E s \in Sessions : Tracked(s) /\ web' = s
  /\ UNCHANGED <<map, maker, rows, saving, loop, pruner>>

WebCreates ==
  /\ web # NoSession
  /\ \E t \in Threads : CreateThread(web, t, "unkeyed")
  /\ web' = NoSession
  /\ UNCHANGED <<current, map, rows, saving, loop, pruner>>

WebReads ==
  /\ web # NoSession
  /\ web' = NoSession
  /\ UNCHANGED <<current, inside, turns, stale, map, maker, rows, saving, loop, pruner>>

\* prune_stale_sessions: the judgement, the removal, the cleanup of the map
GoesStale ==
  /\ current # NoSession
  /\ stale' = stale \cup {current}
  /\ UNCHANGED <<current, inside, turns, map, maker, rows, saving, loop, web, pruner>>

PruneJudges ==
  /\ pruner = "idle"
  /\ current # NoSession /\ current \in stale
  /\ pruner' = "remove"
  /\ UNCHANGED <<current, inside, turns, stale, map, maker, rows, saving, loop, web>>

PruneRemoves ==
  /\ pruner = "remove"
  /\ current' = NoSession
  /\ pruner' = "unmap"
  /\ UNCHANGED <<inside, turns, stale, map, maker, rows, saving, loop, web>>

PruneUnmaps ==
  /\ pruner = "unmap"
  /\ map' = [k \in Keys |-> NoThread]
  /\ pruner' = "idle"
  /\ UNCHANGED <<current, inside, turns, stale, maker, rows, saving, loop, web>>

\* A restart: only the rows are left
Crash ==
  /\ current' = NoSession
  /\ inside' = [s \in Sessions |-> {}]
  /\ turns' = [s \in Sessions |-> Empty]
  /\ stale' = {}
  /\ map' = [k \in Keys |-> NoThread]
  /\ saving' = Empty
  /\ loop' = NoMessage
  /\ web' = NoSession
  /\ pruner' = "idle"
  /\ UNCHANGED <<maker, rows>>

Hydrate == Find \/ Check \/ Load \/ Insert \/ Register \/ Track
ResolveThread == Resolve \/ Lookup \/ Create \/ Bind
Prune == GoesStale \/ PruneJudges \/ PruneRemoves \/ PruneUnmaps

Next ==
  \/ \E k \in Keys : Receive(k)
  \/ Hydrate \/ ResolveThread
  \/ Speak \/ NewBegins \/ NewCreates \/ Switch
  \/ \E t \in Threads : Save(t)
  \/ WebBegins \/ WebCreates \/ WebReads
  \/ Prune \/ Crash

Spec == Init /\ [][Next]_vars

----------------------------------------------------------------------------
\* The variables keep their types, a turn is stored once at most, and whoever
\* works with a session has one
TypeOK ==
  /\ current \in Sessions \cup {NoSession}
  /\ inside \in [Sessions -> SUBSET Threads]
  /\ turns \in [Sessions -> [Threads -> 0..MaxTurns]]
  /\ stale \subseteq Sessions
  /\ map \in [Keys -> Threads \cup {NoThread}]
  /\ maker \in [Threads -> Makers]
  /\ rows \in [Threads -> 0..MaxTurns] /\ saving \in [Threads -> 0..MaxTurns]
  /\ \A t \in Threads : rows[t] + saving[t] <= MaxTurns
  /\ loop \in Message
  /\ loop.phase \notin {"idle", "find", "resolve"} => loop.session \in Sessions
  /\ web \in Sessions \cup {NoSession}
  /\ pruner \in {"idle", "remove", "unmap"}
  /\ pruner = "remove" => current # NoSession

\* The session and thread resolve_thread returns belong together, although map
\* and sessions are under different locks and pruned one after the other: a
\* turn never fails because its thread is not in the session it was given
TurnHasThread ==
  loop.phase \in {"bind", "run"} => loop.thread \in inside[loop.session]

\* A message is handled on the thread it names or on one made for its key: no
\* restart, pruning, hydration or web handler leads it into a conversation of
\* another channel's key or of the gateway
OwnThread ==
  loop.phase = "run" => loop.thread = loop.key \/ maker[loop.thread] = loop.key

\* Hydration never replaces a thread by what the database has of it: the turns
\* in memory, some not yet stored, stay
KeepsTurns ==
  [][\A s \in Sessions : \A t \in inside[s] \cap inside'[s] : turns'[s][t] >= turns[s][t]]_vars

\* For the runs: ids are interchangeable, and what a session nobody holds any
\* more had in it is of no interest
Symmetry == Permutations(Threads) \cup Permutations(Sessions)
Held == {current, loop.session, web} \cap Sessions
View == <<current, [s \in Held |-> <<inside[s], turns[s], s \in stale>>], map, maker, rows,
          saving, loop, web, pruner>>

\* A message that names a thread is handled on that thread
RoutedRight ==
  loop.phase = "run" /\ loop.key \in Threads => loop.thread = loop.key
=============================================================================
