--------------------------- MODULE SessionsProofs ---------------------------
(***************************************************************************)
(* Which thread a message lands on, proved for any number of threads, keys *)
(* and sessions.  The main argument: what the loop, the map and a thread's *)
(* maker say of each other survives every step of the pruner, the handlers *)
(* and a restart, because a session somebody holds is never emptied and an *)
(* id is given away once (see Fits).                                       *)
(***************************************************************************)
EXTENDS Sessions, TLAPS

\* What get_or_create_session does: it empties nobody's session.
LEMMA TrackedStep ==
  ASSUME TypeOK, NEW s \in Sessions, Tracked(s)
  PROVE  /\ current' = s
         /\ inside' \in [Sessions -> SUBSET Threads]
         /\ turns' \in [Sessions -> [Threads -> 0..MaxTurns]]
         /\ stale' \subseteq Sessions
         /\ \A r \in Sessions :
              \/ inside'[r] = inside[r] /\ turns'[r] = turns[r]
              \/ inside'[r] = {} /\ r \notin {current, loop.session, web}
<1>1. CASE current = s
  BY <1>1 DEF Tracked, TypeOK, Unheld, NoSession
<1>2. CASE current # s
  <2>1. Empty \in [Threads -> 0..MaxTurns]
    BY SessionsAssumption DEF Empty
  <2>2. /\ s \notin {current, loop.session, web} /\ current' = s
        /\ inside' = [inside EXCEPT ![s] = {}]
        /\ turns' = [turns EXCEPT ![s] = Empty]
        /\ stale' = stale \ {s}
    BY <1>2 DEF Tracked, Unheld
  <2>3. inside' \in [Sessions -> SUBSET Threads] /\ stale' \subseteq Sessions
    BY <2>2 DEF TypeOK
  <2>4. turns' \in [Sessions -> [Threads -> 0..MaxTurns]]
    BY <2>1, <2>2 DEF TypeOK
  <2>. QED
    BY <2>2, <2>3, <2>4 DEF TypeOK
<1>. QED
  BY <1>1, <1>2

\* What create_thread does: the thread is one that nobody had.
LEMMA CreateStep ==
  ASSUME TypeOK, NEW s \in Sessions, NEW t \in Threads, NEW k \in Makers,
         CreateThread(s, t, k)
  PROVE  /\ inside' \in [Sessions -> SUBSET Threads]
         /\ turns' \in [Sessions -> [Threads -> 0..MaxTurns]]
         /\ stale' \subseteq Sessions
         /\ maker' \in [Threads -> Makers]
         /\ maker[t] = "none" /\ maker'[t] = k
         /\ \A u \in Threads \ {t} : maker'[u] = maker[u]
         /\ t \in inside'[s]
         /\ \A r \in Sessions : inside[r] \subseteq inside'[r] /\ inside'[r] \subseteq inside[r] \cup {t}
         /\ \A r \in Sessions : \A u \in Threads : r # s \/ u # t => turns'[r][u] = turns[r][u]
<1>1. 0 \in 0..MaxTurns
  BY SessionsAssumption
<1>. QED
  BY <1>1 DEF CreateThread, TypeOK, Unborn

----------------------------------------------------------------------------
(* Types *)

\* The key of a message that is being hydrated is the id of a thread there is.
KeyFits ==
  /\ loop.phase # "idle" => loop.key \in Keys
  /\ loop.phase \in {"find", "check", "load", "insert", "map", "track"} =>
       loop.key \in Threads /\ maker[loop.key] # "none"

\* What the changes of the loop do to its fields.
LoopBecomes(p, s, t, n) ==
  /\ loop' \in Message
  /\ loop'.key = loop.key
  /\ loop'.phase = p /\ loop'.session = s /\ loop'.thread = t /\ loop'.found = n

LEMMA EnterStep ==
  ASSUME loop \in Message, NEW p \in Phases, Enter(p)
  PROVE  LoopBecomes(p, loop.session, loop.thread, loop.found)
BY DEF Enter, LoopBecomes, Message

LEMMA EnterWithStep ==
  ASSUME loop \in Message, NEW p \in Phases, NEW s \in Sessions \cup {NoSession},
         EnterWith(p, s)
  PROVE  LoopBecomes(p, s, loop.thread, loop.found)
BY DEF EnterWith, LoopBecomes, Message

LEMMA ThreadStep ==
  ASSUME loop \in Message, NEW p \in Phases, NEW t \in Threads,
         loop' = [loop EXCEPT !.phase = p, !.thread = t]
  PROVE  LoopBecomes(p, loop.session, t, loop.found)
BY DEF LoopBecomes, Message

LEMMA FoundStep ==
  ASSUME loop \in Message, NEW p \in Phases, NEW n \in 0..MaxTurns,
         loop' = [loop EXCEPT !.phase = p, !.found = n]
  PROVE  LoopBecomes(p, loop.session, loop.thread, n)
BY DEF LoopBecomes, Message

LEMMA DoneStep ==
  NoMessage \in Message /\ NoMessage.phase = "idle"
<1>1. 0 \in 0..MaxTurns
  BY SessionsAssumption
<1>. QED
  BY <1>1 DEF Message, NoMessage, Phases, NoSession, NoThread

\* The fields of a message that is in the loop's hands.
LEMMA LoopFields ==
  ASSUME TypeOK, KeyFits, loop.phase \notin {"idle", "find", "resolve"}
  PROVE  loop.session \in Sessions /\ loop.key \in Keys /\ loop.found \in 0..MaxTurns
BY DEF TypeOK, KeyFits, Message

LEMMA TypeInit == Init => TypeOK /\ KeyFits
<1>1. 0 \in 0..MaxTurns
  BY SessionsAssumption
<1>2. Empty \in [Threads -> 0..MaxTurns]
  BY <1>1 DEF Empty
<1>. QED
  BY <1>1, <1>2, SessionsAssumption
  DEF Init, TypeOK, KeyFits, Empty, NoMessage, Message, Phases, NoSession, NoThread, Makers

LEMMA TypeNext == TypeOK /\ KeyFits /\ [Next]_vars => TypeOK' /\ KeyFits'
<1>. SUFFICES ASSUME TypeOK, KeyFits, [Next]_vars PROVE TypeOK' /\ KeyFits'
  OBVIOUS
<1>. USE DEF LoopBecomes
<1>m. loop \in Message
  BY DEF TypeOK
<1>n. \A p \in {"find", "check", "load", "insert", "map", "track", "resolve", "lookup",
             "create", "bind", "run", "new"} : p \in Phases
  BY DEF Phases
<1>1. ASSUME NEW k \in Keys, Receive(k) PROVE TypeOK' /\ KeyFits'
  <2>1. loop' \in Message /\ loop'.key = k /\ loop'.phase \in {"find", "resolve"}
        /\ (loop'.phase = "find" => k \in Threads)
    <3>1. CASE k \in Threads
      <4>1. loop' = [NoMessage EXCEPT !.phase = "find", !.key = k]
        BY <1>1, <3>1 DEF Receive
      <4>. QED
        BY <1>n, <3>1, <4>1, DoneStep DEF Message
    <3>2. CASE k \notin Threads
      <4>1. loop' = [NoMessage EXCEPT !.phase = "resolve", !.key = k]
        BY <1>1, <3>2 DEF Receive
      <4>. QED
        BY <1>n, <4>1, DoneStep DEF Message
    <3>. QED
      BY <3>1, <3>2
  <2>2. maker' \in [Threads -> Makers]
        /\ (k \in Threads => maker'[k] # "none")
    BY <1>1 DEF Receive, TypeOK, Makers, Unborn
  <2>. QED
    BY <1>1, <2>1, <2>2 DEF Receive, TypeOK, KeyFits
<1>2. CASE Find
  <2>1. PICK s \in Sessions : Tracked(s) /\ EnterWith("check", s)
    BY <1>2 DEF Find
  <2>2. LoopBecomes("check", s, loop.thread, loop.found)
    BY <1>m, <1>n, <2>1, EnterWithStep
  <2>3. current' \in Sessions /\ inside' \in [Sessions -> SUBSET Threads]
        /\ turns' \in [Sessions -> [Threads -> 0..MaxTurns]] /\ stale' \subseteq Sessions
    BY <2>1, TrackedStep
  <2>. QED
    BY <1>2, <2>2, <2>3, SessionsAssumption DEF Find, TypeOK, KeyFits, NoSession
<1>3. CASE Check
  <2>1. \/ LoopBecomes("resolve", NoSession, loop.thread, loop.found)
        \/ LoopBecomes("load", loop.session, loop.thread, loop.found)
    BY <1>3, <1>m, <1>n, EnterStep, EnterWithStep DEF Check
  <2>. QED
    BY <1>3, <2>1 DEF Check, TypeOK, KeyFits
<1>4. CASE Load
  <2>1. 0 \in 0..MaxTurns /\ rows[loop.key] \in 0..MaxTurns
    BY <1>4, SessionsAssumption DEF Load, TypeOK, KeyFits
  <2>2. \E n \in 0..MaxTurns : LoopBecomes("insert", loop.session, loop.thread, n)
    BY <1>4, <1>m, <1>n, <2>1, FoundStep DEF Load
  <2>. QED
    BY <1>4, <2>2 DEF Load, TypeOK, KeyFits
<1>5. CASE Insert
  <2>1. loop.session \in Sessions /\ loop.key \in Threads /\ loop.found \in 0..MaxTurns
    BY <1>5, LoopFields DEF Insert, KeyFits
  <2>2. inside' \in [Sessions -> SUBSET Threads] /\ stale' \subseteq Sessions
    BY <1>5, <2>1 DEF Insert, TypeOK
  <2>3. turns' \in [Sessions -> [Threads -> 0..MaxTurns]]
    BY <1>5, <2>1 DEF Insert, TypeOK
  <2>4. LoopBecomes("map", loop.session, loop.thread, 0)
    <3>1. 0 \in 0..MaxTurns
      BY SessionsAssumption
    <3>. QED
      BY <1>5, <1>m, <1>n, <3>1, FoundStep DEF Insert
  <2>. QED
    BY <1>5, <2>1, <2>2, <2>3, <2>4 DEF Insert, TypeOK, KeyFits
<1>6. CASE Register
  <2>1. LoopBecomes("track", loop.session, loop.thread, loop.found)
    BY <1>6, <1>m, <1>n, EnterStep DEF Register
  <2>. QED
    BY <1>6, <2>1 DEF Register, TypeOK, KeyFits
<1>7. CASE Track
  <2>1. LoopBecomes("resolve", NoSession, loop.thread, loop.found)
    BY <1>7, <1>m, <1>n, EnterWithStep DEF Track
  <2>2. current' \in Sessions \cup {NoSession} /\ (current # NoSession => current' = current)
    BY <1>7, LoopFields DEF Track, TypeOK
  <2>. QED
    BY <1>7, <2>1, <2>2 DEF Track, TypeOK, KeyFits
<1>8. CASE Resolve
  <2>1. PICK s \in Sessions : Tracked(s) /\ EnterWith("lookup", s)
    BY <1>8 DEF Resolve
  <2>2. LoopBecomes("lookup", s, loop.thread, loop.found)
    BY <1>m, <1>n, <2>1, EnterWithStep
  <2>3. current' \in Sessions /\ inside' \in [Sessions -> SUBSET Threads]
        /\ turns' \in [Sessions -> [Threads -> 0..MaxTurns]] /\ stale' \subseteq Sessions
    BY <2>1, TrackedStep
  <2>. QED
    BY <1>8, <2>2, <2>3, SessionsAssumption DEF Resolve, TypeOK, KeyFits, NoSession
<1>9. CASE Lookup
  <2>1. loop.session \in Sessions
    BY <1>9, LoopFields DEF Lookup
  <2>2. \/ map[loop.key] \in Threads /\ LoopBecomes("run", loop.session, map[loop.key], loop.found)
        \/ LoopBecomes("create", loop.session, loop.thread, loop.found)
    BY <1>9, <1>m, <1>n, <2>1, EnterStep, ThreadStep DEF Lookup, TypeOK
  <2>. QED
    BY <1>9, <2>2 DEF Lookup, TypeOK, KeyFits
<1>10. CASE Create
  <2>1. PICK t \in Threads : CreateThread(loop.session, t, loop.key)
                             /\ loop' = [loop EXCEPT !.phase = "bind", !.thread = t]
    BY <1>10 DEF Create
  <2>2. loop.session \in Sessions /\ loop.key \in Makers
    BY <1>10, LoopFields DEF Create, Makers
  <2>3. LoopBecomes("bind", loop.session, t, loop.found)
    BY <1>m, <1>n, <2>1, ThreadStep
  <2>4. inside' \in [Sessions -> SUBSET Threads] /\ stale' \subseteq Sessions
        /\ turns' \in [Sessions -> [Threads -> 0..MaxTurns]] /\ maker' \in [Threads -> Makers]
    BY <2>1, <2>2, CreateStep
  <2>. QED
    BY <1>10, <2>3, <2>4 DEF Create, TypeOK, KeyFits
<1>11. CASE Bind
  <2>1. LoopBecomes("run", loop.session, loop.thread, loop.found)
    BY <1>11, <1>m, <1>n, EnterStep DEF Bind
  <2>2. loop.thread \in Threads \cup {NoThread} /\ loop.key \in Keys
    BY <1>11, <1>m, LoopFields DEF Bind, Message
  <2>. QED
    BY <1>11, <2>1, <2>2 DEF Bind, TypeOK, KeyFits
<1>12. CASE Speak
  <2>1. loop.session \in Sessions /\ loop.thread \in Threads
    BY <1>12, LoopFields DEF Speak, TypeOK
  <2>2. turns' \in [Sessions -> [Threads -> 0..MaxTurns]]
    <3>1. turns[loop.session][loop.thread] + 1 \in 0..MaxTurns
      BY <1>12, <2>1, SessionsAssumption DEF Speak, TypeOK
    <3>. QED
      BY <1>12, <2>1, <3>1 DEF Speak, TypeOK
  <2>3. saving' \in [Threads -> 0..MaxTurns]
        /\ \A t \in Threads : rows[t] + saving'[t] <= MaxTurns
    <3>1. PICK n \in {0, 1} : saving' = [saving EXCEPT ![loop.thread] = @ + n]
      BY <1>12 DEF Speak
    <3>2. saving[loop.thread] + n \in 0..MaxTurns
          /\ rows[loop.thread] + (saving[loop.thread] + n) <= MaxTurns
      BY <1>12, <2>1, SessionsAssumption DEF Speak, TypeOK
    <3>. QED
      BY <2>1, <3>1, <3>2 DEF TypeOK
  <2>. QED
    BY <1>12, <2>2, <2>3, DoneStep DEF Speak, Done, TypeOK, KeyFits
<1>13. CASE NewBegins
  <2>1. PICK s \in Sessions : Tracked(s) /\ EnterWith("new", s)
    BY <1>13 DEF NewBegins
  <2>2. LoopBecomes("new", s, loop.thread, loop.found)
    BY <1>m, <1>n, <2>1, EnterWithStep
  <2>3. current' \in Sessions /\ inside' \in [Sessions -> SUBSET Threads]
        /\ turns' \in [Sessions -> [Threads -> 0..MaxTurns]] /\ stale' \subseteq Sessions
    BY <2>1, TrackedStep
  <2>. QED
    BY <1>13, <2>2, <2>3, SessionsAssumption DEF NewBegins, TypeOK, KeyFits, NoSession
<1>14. CASE NewCreates
  <2>1. PICK t \in Threads : CreateThread(loop.session, t, "unkeyed")
    BY <1>14 DEF NewCreates
  <2>2. loop.session \in Sessions /\ "unkeyed" \in Makers
    BY <1>14, LoopFields DEF NewCreates, Makers
  <2>3. inside' \in [Sessions -> SUBSET Threads] /\ stale' \subseteq Sessions
        /\ turns' \in [Sessions -> [Threads -> 0..MaxTurns]] /\ maker' \in [Threads -> Makers]
    BY <2>1, <2>2, CreateStep
  <2>. QED
    BY <1>14, <2>3, DoneStep DEF NewCreates, Done, TypeOK, KeyFits
<1>15. CASE Switch
  <2>1. stale' \subseteq Sessions
    BY <1>15 DEF Switch, TypeOK
  <2>. QED
    BY <1>15, <2>1, DoneStep DEF Switch, Done, TypeOK, KeyFits
<1>16. ASSUME NEW t \in Threads, Save(t) PROVE TypeOK' /\ KeyFits'
  <2>1. PICK n \in {0, 1} : rows' = [rows EXCEPT ![t] = @ + n]
    BY <1>16 DEF Save
  <2>2. saving[t] - 1 \in 0..MaxTurns /\ rows[t] + n \in 0..MaxTurns
        /\ (rows[t] + n) + (saving[t] - 1) <= MaxTurns
    BY <1>16, SessionsAssumption DEF Save, TypeOK
  <2>3. rows' \in [Threads -> 0..MaxTurns] /\ saving' \in [Threads -> 0..MaxTurns]
        /\ \A u \in Threads : rows'[u] + saving'[u] <= MaxTurns
    BY <1>16, <2>1, <2>2 DEF Save, TypeOK
  <2>. QED
    BY <1>16, <2>3 DEF Save, TypeOK, KeyFits
<1>17. CASE WebBegins
  <2>1. PICK s \in Sessions : Tracked(s) /\ web' = s
    BY <1>17 DEF WebBegins
  <2>2. current' \in Sessions /\ inside' \in [Sessions -> SUBSET Threads]
        /\ turns' \in [Sessions -> [Threads -> 0..MaxTurns]] /\ stale' \subseteq Sessions
    BY <2>1, TrackedStep
  <2>. QED
    BY <1>17, <2>1, <2>2, SessionsAssumption DEF WebBegins, TypeOK, KeyFits, NoSession
<1>18. CASE WebCreates
  <2>1. PICK t \in Threads : CreateThread(web, t, "unkeyed")
    BY <1>18 DEF WebCreates
  <2>2. web \in Sessions /\ "unkeyed" \in Makers
    BY <1>18 DEF WebCreates, TypeOK, Makers
  <2>3. inside' \in [Sessions -> SUBSET Threads] /\ stale' \subseteq Sessions
        /\ turns' \in [Sessions -> [Threads -> 0..MaxTurns]] /\ maker' \in [Threads -> Makers]
    BY <2>1, <2>2, CreateStep
  <2>4. maker'[t] = "unkeyed" /\ \A u \in Threads \ {t} : maker'[u] = maker[u]
    BY <2>1, <2>2, CreateStep
  <2>5. KeyFits'
    BY <1>18, <2>4 DEF WebCreates, KeyFits
  <2>. QED
    BY <1>18, <2>3, <2>5 DEF WebCreates, TypeOK
<1>19. CASE WebReads
  BY <1>19 DEF WebReads, TypeOK, KeyFits
<1>20. CASE Prune
  BY <1>20 DEF Prune, GoesStale, PruneJudges, PruneRemoves, PruneUnmaps, TypeOK, KeyFits
<1>21. CASE Crash
  <2>1. 0 \in 0..MaxTurns /\ Empty \in [Threads -> 0..MaxTurns]
    BY SessionsAssumption DEF Empty
  <2>2. \A t \in Threads : rows[t] + Empty[t] <= MaxTurns
    BY DEF Empty, TypeOK
  <2>. QED
    BY <1>21, <2>1, <2>2, DoneStep DEF Crash, TypeOK, KeyFits
<1>22. CASE UNCHANGED vars
  BY <1>22 DEF vars, TypeOK, KeyFits
<1>. QED
  BY <1>1, <1>2, <1>3, <1>4, <1>5, <1>6, <1>7, <1>8, <1>9, <1>10, <1>11, <1>12, <1>13,
     <1>14, <1>15, <1>16, <1>17, <1>18, <1>19, <1>20, <1>21, <1>22
  DEF Next, Hydrate, ResolveThread

LEMMA TypesCorrect == Spec => [](TypeOK /\ KeyFits)
BY TypeInit, TypeNext, PTL DEF Spec

----------------------------------------------------------------------------
(* Threads, their makers and the map *)

\* A thread of a session has been made or shown, so its id is never given to a
\* new one; the map leads a key to the thread that is its own; and what
\* hydration is about to load is not in the session it will put it in.
Born == \A s \in Sessions : \A t \in inside[s] : maker[t] # "none"
MapFits == \A k \in Keys : map[k] # NoThread => map[k] = k \/ maker[map[k]] = k
BindFits == loop.phase = "bind" => maker[loop.thread] = loop.key
Missing == loop.phase \in {"load", "insert"} => loop.key \notin inside[loop.session]

Fits == Born /\ MapFits /\ BindFits /\ Missing /\ TurnHasThread /\ OwnThread

LEMMA FitsInit == Init => Fits
BY DEF Init, Fits, Born, MapFits, BindFits, Missing, TurnHasThread, OwnThread, NoMessage

\* What a step may do to threads that somebody relies on: a session the loop
\* holds keeps its threads and gains only new ones, and makers stay.
Keeps ==
  /\ \A t \in Threads : maker[t] # "none" => maker'[t] = maker[t]
  /\ \A s \in Sessions : \A t \in inside'[s] : t \in inside[s] \/ maker'[t] # "none"
  /\ loop.session \in Sessions =>
       /\ inside[loop.session] \subseteq inside'[loop.session]
       /\ \A t \in inside'[loop.session] \ inside[loop.session] : maker[t] = "none"

LEMMA TrackedKeeps ==
  ASSUME TypeOK, Born, NEW s \in Sessions, Tracked(s), maker' = maker
  PROVE  Keeps
<1>1. ASSUME NEW r \in Sessions
      PROVE  inside'[r] = inside[r] \/ (inside'[r] = {} /\ r # loop.session)
  BY TrackedStep
<1>. QED
  BY <1>1 DEF Keeps, Born

LEMMA CreateKeeps ==
  ASSUME TypeOK, Born, NEW s \in Sessions, NEW t \in Threads, NEW k \in Makers \ {"none"},
         CreateThread(s, t, k)
  PROVE  Keeps
<1>1. /\ maker[t] = "none" /\ maker'[t] = k
      /\ \A u \in Threads \ {t} : maker'[u] = maker[u]
      /\ \A r \in Sessions : inside[r] \subseteq inside'[r] /\ inside'[r] \subseteq inside[r] \cup {t}
  BY CreateStep
<1>. QED
  BY <1>1 DEF Keeps, Born, TypeOK

LEMMA KeysAreNames == \A k \in Keys : k # "none" /\ k # "unkeyed"
BY SessionsAssumption DEF Keys

\* What survives any step that keeps threads and makers.
LEMMA Kept ==
  ASSUME TypeOK, KeyFits, Fits, Keeps
  PROVE  /\ Born'
         /\ map' = map => MapFits'
         /\ loop' = loop => BindFits' /\ Missing' /\ TurnHasThread' /\ OwnThread'
<1>1. Born'
  <2>1. \A s \in Sessions : inside[s] \subseteq Threads
    BY DEF TypeOK
  <2>. QED
    BY <2>1 DEF Keeps, Fits, Born
<1>2. ASSUME map' = map PROVE MapFits'
  BY <1>2, KeysAreNames DEF Keeps, Fits, MapFits, TypeOK, NoThread
<1>3. ASSUME loop' = loop PROVE BindFits' /\ Missing' /\ TurnHasThread' /\ OwnThread'
  <2>1. CASE loop.phase \in {"bind", "run"}
    <3>1. loop.session \in Sessions /\ loop.key \in Keys /\ loop.thread \in inside[loop.session]
      BY <2>1, LoopFields DEF Fits, TurnHasThread
    <3>2. loop.thread \in Threads /\ loop.thread \in inside'[loop.session]
      BY <3>1 DEF TypeOK, Keeps
    <3>. QED
      BY <1>3, <2>1, <3>1, <3>2, KeysAreNames
      DEF Keeps, Fits, BindFits, Missing, TurnHasThread, OwnThread
  <2>2. CASE loop.phase \in {"load", "insert"}
    <3>1. loop.session \in Sessions /\ loop.key \in Threads /\ maker[loop.key] # "none"
      BY <2>2, LoopFields DEF KeyFits
    <3>. QED
      BY <1>3, <2>2, <3>1 DEF Keeps, Fits, BindFits, Missing, TurnHasThread, OwnThread
  <2>. QED
    BY <1>3, <2>1, <2>2 DEF BindFits, Missing, TurnHasThread, OwnThread
<1>. QED
  BY <1>1, <1>2, <1>3

LEMMA FitsNext == TypeOK /\ KeyFits /\ Fits /\ [Next]_vars => Fits'
<1>. SUFFICES ASSUME TypeOK, KeyFits, Fits, [Next]_vars PROVE Fits'
  OBVIOUS
<1>. USE DEF LoopBecomes
<1>b. Born
  BY DEF Fits
<1>m. loop \in Message
  BY DEF TypeOK
<1>n. \A p \in {"check", "load", "insert", "map", "track", "resolve", "lookup",
                "create", "bind", "run", "new"} : p \in Phases
  BY DEF Phases
\* Steps that neither map a key nor end in a phase with a promise
<1>q. ASSUME Keeps, map' = map, loop'.phase \notin {"load", "insert", "bind", "run"}
      PROVE  Fits'
  BY <1>q, Kept DEF Fits, BindFits, Missing, TurnHasThread, OwnThread
<1>l. ASSUME Keeps, map' = map, loop' = loop PROVE Fits'
  BY <1>l, Kept DEF Fits
<1>u. ASSUME inside' = inside, maker' = maker PROVE Keeps
  BY <1>u, <1>b DEF Keeps, Born
<1>1. ASSUME NEW k \in Keys, Receive(k) PROVE Fits'
  <2>1. Keeps
    BY <1>1, <1>b DEF Receive, Keeps, Born, TypeOK, Unborn
  <2>2. loop'.phase \in {"find", "resolve"}
    BY <1>1 DEF Receive, NoMessage
  <2>. QED
    BY <1>1, <1>q, <2>1, <2>2 DEF Receive
<1>2. CASE Find
  <2>1. PICK s \in Sessions : Tracked(s) /\ EnterWith("check", s)
    BY <1>2 DEF Find
  <2>2. Keeps
    BY <1>2, <1>b, <2>1, TrackedKeeps DEF Find
  <2>3. loop'.phase = "check"
    BY <1>m, <1>n, <2>1, EnterWithStep
  <2>. QED
    BY <1>2, <1>q, <2>2, <2>3 DEF Find
<1>3. CASE Check
  <2>1. Keeps
    BY <1>3, <1>u DEF Check
  <2>2. CASE loop.key \in inside[loop.session]
    <3>1. loop'.phase = "resolve"
      BY <1>3, <1>m, <1>n, <2>2, EnterWithStep DEF Check
    <3>. QED
      BY <1>3, <1>q, <2>1, <3>1 DEF Check
  <2>3. CASE loop.key \notin inside[loop.session]
    <3>1. LoopBecomes("load", loop.session, loop.thread, loop.found)
      BY <1>3, <1>m, <1>n, <2>3, EnterStep DEF Check
    <3>. QED
      BY <1>3, <2>1, <2>3, <3>1, Kept
      DEF Check, Fits, BindFits, Missing, TurnHasThread, OwnThread
  <2>. QED
    BY <2>2, <2>3
<1>4. CASE Load
  <2>1. Keeps
    BY <1>4, <1>u DEF Load
  <2>2. \E n \in 0..MaxTurns : LoopBecomes("insert", loop.session, loop.thread, n)
    <3>1. 0 \in 0..MaxTurns /\ rows[loop.key] \in 0..MaxTurns
      BY <1>4, SessionsAssumption DEF Load, TypeOK, KeyFits
    <3>. QED
      BY <1>4, <1>m, <1>n, <3>1, FoundStep DEF Load
  <2>. QED
    BY <1>4, <2>1, <2>2, Kept DEF Load, Fits, BindFits, Missing, TurnHasThread, OwnThread
<1>5. CASE Insert
  <2>1. loop.session \in Sessions /\ loop.key \in Threads /\ maker[loop.key] # "none"
    BY <1>5, LoopFields DEF Insert, KeyFits
  <2>2. Born'
    BY <1>5, <1>b, <2>1 DEF Insert, Born, TypeOK
  <2>3. loop'.phase = "map"
    BY <1>5, <1>m DEF Insert, Message
  <2>. QED
    BY <1>5, <2>2, <2>3 DEF Insert, Fits, MapFits, BindFits, Missing, TurnHasThread, OwnThread
<1>6. CASE Register
  <2>1. loop'.phase = "track"
    BY <1>6, <1>m, <1>n, EnterStep DEF Register
  <2>2. MapFits'
    BY <1>6, LoopFields DEF Register, Fits, MapFits, TypeOK
  <2>. QED
    BY <1>6, <1>b, <2>1, <2>2
    DEF Register, Fits, Born, BindFits, Missing, TurnHasThread, OwnThread
<1>7. CASE Track
  <2>1. loop'.phase = "resolve"
    BY <1>7, <1>m, <1>n, EnterWithStep DEF Track
  <2>. QED
    BY <1>7, <1>q, <1>u, <2>1 DEF Track
<1>8. CASE Resolve
  <2>1. PICK s \in Sessions : Tracked(s) /\ EnterWith("lookup", s)
    BY <1>8 DEF Resolve
  <2>2. Keeps
    BY <1>8, <1>b, <2>1, TrackedKeeps DEF Resolve
  <2>3. loop'.phase = "lookup"
    BY <1>m, <1>n, <2>1, EnterWithStep
  <2>. QED
    BY <1>8, <1>q, <2>2, <2>3 DEF Resolve
<1>9. CASE Lookup
  <2>1. loop.session \in Sessions /\ loop.key \in Keys
    BY <1>9, LoopFields DEF Lookup
  <2>2. Keeps
    BY <1>9, <1>u DEF Lookup
  <2>3. CASE map[loop.key] \in inside[loop.session]
    <3>1. map[loop.key] \in Threads
      BY <2>1, <2>3 DEF TypeOK
    <3>2. LoopBecomes("run", loop.session, map[loop.key], loop.found)
      BY <1>9, <1>m, <1>n, <2>3, <3>1, ThreadStep DEF Lookup
    <3>3. map[loop.key] = loop.key \/ maker[map[loop.key]] = loop.key
      BY <2>1, <3>1, SessionsAssumption DEF Fits, MapFits, NoThread
    <3>. QED
      BY <1>9, <2>2, <2>3, <3>2, <3>3, Kept
      DEF Lookup, Fits, BindFits, Missing, TurnHasThread, OwnThread
  <2>4. CASE map[loop.key] \notin inside[loop.session]
    <3>1. loop'.phase = "create"
      BY <1>9, <1>m, <1>n, <2>4, EnterStep DEF Lookup
    <3>. QED
      BY <1>9, <1>q, <2>2, <3>1 DEF Lookup
  <2>. QED
    BY <2>3, <2>4
<1>10. CASE Create
  <2>1. PICK t \in Threads : CreateThread(loop.session, t, loop.key)
                             /\ loop' = [loop EXCEPT !.phase = "bind", !.thread = t]
    BY <1>10 DEF Create
  <2>2. loop.session \in Sessions /\ loop.key \in Keys /\ loop.key \in Makers \ {"none"}
    BY <1>10, LoopFields, KeysAreNames DEF Create, Makers
  <2>3. LoopBecomes("bind", loop.session, t, loop.found)
    BY <1>m, <1>n, <2>1, ThreadStep
  <2>4. Keeps /\ t \in inside'[loop.session] /\ maker'[t] = loop.key
    BY <1>b, <2>1, <2>2, CreateKeeps, CreateStep
  <2>. QED
    BY <1>10, <2>3, <2>4, Kept DEF Create, Fits, BindFits, Missing, TurnHasThread, OwnThread
<1>11. CASE Bind
  <2>1. LoopBecomes("run", loop.session, loop.thread, loop.found)
    BY <1>11, <1>m, <1>n, EnterStep DEF Bind
  <2>2. maker[loop.thread] = loop.key
    BY <1>11 DEF Bind, Fits, BindFits
  <2>3. MapFits'
    BY <1>11, <2>2 DEF Bind, Fits, MapFits, TypeOK
  <2>. QED
    BY <1>11, <1>b, <2>1, <2>2, <2>3
    DEF Bind, Fits, Born, BindFits, Missing, TurnHasThread, OwnThread
<1>12. CASE Speak
  BY <1>12, <1>q, <1>u, DoneStep DEF Speak, Done
<1>13. CASE NewBegins
  <2>1. PICK s \in Sessions : Tracked(s) /\ EnterWith("new", s)
    BY <1>13 DEF NewBegins
  <2>2. Keeps
    BY <1>13, <1>b, <2>1, TrackedKeeps DEF NewBegins
  <2>3. loop'.phase = "new"
    BY <1>m, <1>n, <2>1, EnterWithStep
  <2>. QED
    BY <1>13, <1>q, <2>2, <2>3 DEF NewBegins
<1>14. CASE NewCreates
  <2>1. PICK t \in Threads : CreateThread(loop.session, t, "unkeyed")
    BY <1>14 DEF NewCreates
  <2>2. loop.session \in Sessions /\ "unkeyed" \in Makers \ {"none"}
    BY <1>14, LoopFields DEF NewCreates, Makers
  <2>3. Keeps
    BY <1>b, <2>1, <2>2, CreateKeeps
  <2>. QED
    BY <1>14, <1>q, <2>3, DoneStep DEF NewCreates, Done
<1>15. CASE Switch
  BY <1>15, <1>q, <1>u, DoneStep DEF Switch, Done
<1>16. ASSUME NEW t \in Threads, Save(t) PROVE Fits'
  BY <1>16, <1>l, <1>u DEF Save
<1>17. CASE WebBegins
  <2>1. Keeps
    BY <1>17, <1>b, TrackedKeeps DEF WebBegins
  <2>. QED
    BY <1>17, <1>l, <2>1 DEF WebBegins
<1>18. CASE WebCreates
  <2>1. PICK t \in Threads : CreateThread(web, t, "unkeyed")
    BY <1>18 DEF WebCreates
  <2>2. web \in Sessions /\ "unkeyed" \in Makers \ {"none"}
    BY <1>18 DEF WebCreates, TypeOK, Makers
  <2>3. Keeps
    BY <1>b, <2>1, <2>2, CreateKeeps
  <2>. QED
    BY <1>18, <1>l, <2>3 DEF WebCreates
<1>19. CASE WebReads
  BY <1>19, <1>l, <1>u DEF WebReads
<1>20. CASE Prune
  <2>1. CASE PruneUnmaps
    <3>1. Keeps /\ MapFits'
      BY <1>u, <2>1 DEF PruneUnmaps, MapFits
    <3>. QED
      BY <2>1, <3>1, Kept DEF PruneUnmaps, Fits
  <2>2. CASE GoesStale \/ PruneJudges \/ PruneRemoves
    BY <1>l, <1>u, <2>2 DEF GoesStale, PruneJudges, PruneRemoves
  <2>. QED
    BY <1>20, <2>1, <2>2 DEF Prune
<1>21. CASE Crash
  BY <1>21, DoneStep DEF Crash, Fits, Born, MapFits, BindFits, Missing, TurnHasThread, OwnThread
<1>22. CASE UNCHANGED vars
  BY <1>22, <1>l, <1>u DEF vars
<1>. QED
  BY <1>1, <1>2, <1>3, <1>4, <1>5, <1>6, <1>7, <1>8, <1>9, <1>10, <1>11, <1>12, <1>13,
     <1>14, <1>15, <1>16, <1>17, <1>18, <1>19, <1>20, <1>21, <1>22
  DEF Next, Hydrate, ResolveThread

LEMMA FitsCorrect == Spec => [](TypeOK /\ KeyFits /\ Fits)
BY TypesCorrect, FitsInit, FitsNext, PTL DEF Spec

----------------------------------------------------------------------------
\* The variables keep their types: in particular whoever works with a session
\* has one, and a turn is stored once at most.
THEOREM TypeCorrect == Spec => []TypeOK
BY TypesCorrect, PTL

\* The thread and the session that resolve_thread returns belong together.
THEOREM TurnHasThreadCorrect == Spec => []TurnHasThread
BY FitsCorrect, PTL DEF Fits

\* A message is handled on the thread it names or on one made for its key.
THEOREM OwnThreadCorrect == Spec => []OwnThread
BY FitsCorrect, PTL DEF Fits

\* No step takes turns from a thread that stays in its session: it is put
\* there either by a hydration that found it missing, or with a new id.
LEMMA KeepsStep ==
  ASSUME TypeOK, KeyFits, Fits, [Next]_vars
  PROVE  \A s \in Sessions : \A t \in inside[s] \cap inside'[s] : turns'[s][t] >= turns[s][t]
<1>. SUFFICES ASSUME NEW s \in Sessions, NEW t \in inside[s] \cap inside'[s]
              PROVE  turns'[s][t] >= turns[s][t]
  OBVIOUS
<1>t. t \in Threads /\ turns[s][t] \in 0..MaxTurns /\ maker[t] # "none"
  BY DEF TypeOK, Fits, Born
<1>i. turns[s][t] \in Int /\ turns[s][t] >= turns[s][t] /\ turns[s][t] + 1 >= turns[s][t]
  BY <1>t, SessionsAssumption
<1>1. ASSUME turns' = turns PROVE turns'[s][t] >= turns[s][t]
  BY <1>1, <1>i
<1>2. ASSUME NEW r \in Sessions, Tracked(r) PROVE turns'[s][t] >= turns[s][t]
  <2>1. (inside'[s] = inside[s] /\ turns'[s] = turns[s]) \/ inside'[s] = {}
    BY <1>2, TrackedStep
  <2>. QED
    BY <1>i, <2>1
<1>3. ASSUME NEW r \in Sessions, NEW u \in Threads, NEW k \in Makers, CreateThread(r, u, k)
      PROVE  turns'[s][t] >= turns[s][t]
  <2>1. maker[u] = "none" /\ (s # r \/ t # u => turns'[s][t] = turns[s][t])
    BY <1>3, <1>t, CreateStep
  <2>. QED
    BY <1>t, <1>i, <2>1
<1>4. CASE Insert
  <2>1. loop.session \in Sessions /\ loop.key \in Threads /\ loop.key \notin inside[loop.session]
    BY <1>4, LoopFields DEF Insert, KeyFits, Fits, Missing
  <2>2. turns'[s][t] = turns[s][t]
    BY <1>4, <1>t, <2>1 DEF Insert, TypeOK
  <2>. QED
    BY <1>i, <2>2
<1>5. CASE Speak
  <2>1. loop.session \in Sessions /\ loop.thread \in Threads
    BY <1>5, LoopFields DEF Speak, TypeOK
  <2>2. turns'[s][t] \in {turns[s][t], turns[s][t] + 1}
    BY <1>5, <1>t, <2>1 DEF Speak, TypeOK
  <2>. QED
    BY <1>i, <2>2
<1>6. CASE Create
  BY <1>6, <1>3, LoopFields DEF Create, Makers
<1>7. CASE NewCreates
  BY <1>7, <1>3, LoopFields DEF NewCreates, Makers
<1>8. CASE WebCreates
  BY <1>8, <1>3 DEF WebCreates, Makers, TypeOK
<1>9. CASE Find \/ Resolve \/ NewBegins \/ WebBegins
  BY <1>9, <1>2 DEF Find, Resolve, NewBegins, WebBegins
<1>10. CASE Crash
  BY <1>10 DEF Crash
<1>11. CASE \/ \E k \in Keys : Receive(k)
            \/ Check \/ Load \/ Register \/ Track \/ Lookup \/ Bind \/ Switch
            \/ \E u \in Threads : Save(u)
            \/ WebReads \/ Prune \/ UNCHANGED vars
  BY <1>11, <1>1 DEF Receive, Check, Load, Register, Track, Lookup, Bind, Switch, Save,
     WebReads, Prune, GoesStale, PruneJudges, PruneRemoves, PruneUnmaps, vars
<1>. QED
  BY <1>4, <1>5, <1>6, <1>7, <1>8, <1>9, <1>10, <1>11 DEF Next, Hydrate, ResolveThread

\* Hydration never replaces a thread that is in memory.
THEOREM KeepsTurnsCorrect == Spec => KeepsTurns
<1>1. TypeOK /\ KeyFits /\ Fits /\ [Next]_vars =>
        [\A s \in Sessions : \A t \in inside[s] \cap inside'[s] :
           turns'[s][t] >= turns[s][t]]_vars
  BY KeepsStep
<1>. QED
  BY <1>1, FitsCorrect, PTL DEF Spec, KeepsTurns
=============================================================================
