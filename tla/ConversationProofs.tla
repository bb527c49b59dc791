------------------------- MODULE ConversationProofs -------------------------
(***************************************************************************)
(* Types, turns, approvals and undo history of Conversation, for any       *)
(* number of threads, tools, turns, checkpoints and iterations; and how    *)
(* many steps a message still takes.                                       *)
(***************************************************************************)
EXTENDS Conversation, SequenceTheorems, TLAPS

-----------------------------------------------------------------------------
(* Sequences *)

LEMMA FrontAndLast ==
  ASSUME NEW S, NEW s \in Seq(S), s # << >>
  PROVE  /\ Len(s) \in Nat \ {0}
         /\ AllButLast(s) \in Seq(S)
         /\ Len(AllButLast(s)) = Len(s) - 1
         /\ \A i \in 1..(Len(s) - 1) : AllButLast(s)[i] = s[i]
         /\ Last(s) \in S
<1>1. Len(s) \in Nat \ {0} /\ \A i \in 1..Len(s) : s[i] \in S
  BY EmptySeq, LenProperties, ElementOfSeq
<1>2. \A i \in 1..(Len(s) - 1) : s[i] \in S
  BY <1>1
<1>3. /\ SubSeq(s, 1, Len(s) - 1) \in Seq(S)
      /\ Len(SubSeq(s, 1, Len(s) - 1)) = IF 1 <= Len(s) - 1 THEN Len(s) - 1 - 1 + 1 ELSE 0
      /\ \A i \in 1..(Len(s) - 1 - 1 + 1) : SubSeq(s, 1, Len(s) - 1)[i] = s[1 + i - 1]
  BY <1>1, <1>2, SubSeqProperties
<1>4. AllButLast(s) \in Seq(S) /\ Len(AllButLast(s)) = Len(s) - 1
  <2>1. \A n \in Nat \ {0} : (IF 1 <= n - 1 THEN n - 1 - 1 + 1 ELSE 0) = n - 1
    OBVIOUS
  <2>. QED
    BY <1>1, <1>3, <2>1 DEF AllButLast
<1>5. ASSUME NEW i \in 1..(Len(s) - 1) PROVE AllButLast(s)[i] = s[i]
  BY <1>1, <1>3 DEF AllButLast
<1>6. Last(s) \in S
  BY <1>1 DEF Last
<1>. QED
  BY <1>1, <1>4, <1>5, <1>6

\* What is kept of a sequence is its end
LEMMA NewestKept ==
  ASSUME NEW S, NEW s \in Seq(S), NEW k \in Nat
  PROVE  /\ Newest(s, k) \in Seq(S)
         /\ Len(Newest(s, k)) = IF Len(s) > k THEN k ELSE Len(s)
         /\ \A i \in 1..Len(Newest(s, k)) :
              Newest(s, k)[i] = s[Len(s) - Len(Newest(s, k)) + i]
<1>1. Len(s) \in Nat /\ \A i \in 1..Len(s) : s[i] \in S
  BY LenProperties, ElementOfSeq
<1>2. CASE Len(s) > k
  <2>1. \A i \in (Len(s) - k + 1)..Len(s) : s[i] \in S
    BY <1>1, <1>2
  <2>2. /\ SubSeq(s, Len(s) - k + 1, Len(s)) \in Seq(S)
        /\ Len(SubSeq(s, Len(s) - k + 1, Len(s))) =
             IF Len(s) - k + 1 <= Len(s) THEN Len(s) - (Len(s) - k + 1) + 1 ELSE 0
        /\ \A i \in 1..(Len(s) - (Len(s) - k + 1) + 1) :
             SubSeq(s, Len(s) - k + 1, Len(s))[i] = s[Len(s) - k + 1 + i - 1]
    BY <1>1, <2>1, SubSeqProperties
  <2>. QED
    BY <1>1, <1>2, <2>2 DEF Newest
<1>3. CASE ~(Len(s) > k)
  BY <1>1, <1>3 DEF Newest
<1>. QED
  BY <1>2, <1>3

\* Compaction keeps the last turn
LEMMA CompactionKeepsLast ==
  ASSUME NEW turns \in Seq(Turn), NEW c \in Compacted(turns)
  PROVE  /\ c \in Seq(Turn)
         /\ turns # << >> => c # << >> /\ Last(c) = Last(turns)
<1>1. CASE c = turns
  BY <1>1
<1>2. ASSUME NEW k \in Keeps, c = Newest(turns, k)
      PROVE  /\ c \in Seq(Turn)
             /\ turns # << >> => c # << >> /\ Last(c) = Last(turns)
  <2>1. k \in Nat \ {0}
    BY KeepsAssumption
  <2>2. /\ c \in Seq(Turn)
        /\ Len(c) = IF Len(turns) > k THEN k ELSE Len(turns)
        /\ \A i \in 1..Len(c) : c[i] = turns[Len(turns) - Len(c) + i]
    BY <1>2, <2>1, NewestKept
  <2>3. SUFFICES ASSUME turns # << >> PROVE c # << >> /\ Last(c) = Last(turns)
    BY <2>2
  <2>4. Len(turns) \in Nat \ {0}
    BY <2>3, EmptySeq, LenProperties
  <2>5. Len(c) \in Nat \ {0}
    BY <2>1, <2>2, <2>4
  <2>6. c[Len(c)] = turns[Len(turns)]
    BY <2>2, <2>4, <2>5
  <2>. QED
    BY <2>2, <2>5, <2>6, EmptySeq DEF Last
<1>. QED
  BY <1>1, <1>2 DEF Compacted

LEMMA AnsweredTurns ==
  ASSUME NEW turns \in Seq(Turn)
  PROVE  Answered(turns) \in Seq(Turn)
<1>1. CASE turns = << >>
  BY <1>1 DEF Answered
<1>2. CASE turns # << >>
  <2>1. AllButLast(turns) \in Seq(Turn) /\ Last(turns) \in Turn
    BY <1>2, FrontAndLast
  <2>2. [Last(turns) EXCEPT !.answered = TRUE] \in Turn
    BY <2>1 DEF Turn
  <2>. QED
    BY <1>2, <2>1, <2>2, AppendProperties DEF Answered
<1>. QED
  BY <1>1, <1>2

\* push_undo: the newest checkpoints, the pushed one last
LEMMA PushedUndo ==
  ASSUME NEW s \in Seq(Seq(Turn)), NEW turns \in Seq(Turn)
  PROVE  /\ PushUndo(s, turns) \in Seq(Seq(Turn))
         /\ Len(PushUndo(s, turns)) =
              IF Len(s) + 1 > MaxCheckpoints THEN MaxCheckpoints ELSE Len(s) + 1
         /\ \A i \in 1..Len(PushUndo(s, turns)) :
              PushUndo(s, turns)[i] =
                IF i < Len(PushUndo(s, turns))
                THEN s[Len(s) + 1 - Len(PushUndo(s, turns)) + i] ELSE turns
<1>1. /\ Append(s, turns) \in Seq(Seq(Turn))
      /\ Len(Append(s, turns)) = Len(s) + 1
      /\ \A i \in 1..Len(s) : Append(s, turns)[i] = s[i]
      /\ Append(s, turns)[Len(s) + 1] = turns
  BY AppendProperties
<1>2. MaxCheckpoints \in Nat /\ Len(s) \in Nat
  BY TalkAssumption, LenProperties
<1>. DEFINE p == PushUndo(s, turns)
            a == Append(s, turns)
<1>a. p = Newest(a, MaxCheckpoints) /\ a \in Seq(Seq(Turn)) /\ Len(a) = Len(s) + 1
  BY <1>1 DEF PushUndo
<1>b. /\ Newest(a, MaxCheckpoints) \in Seq(Seq(Turn))
      /\ Len(Newest(a, MaxCheckpoints)) = IF Len(a) > MaxCheckpoints THEN MaxCheckpoints ELSE Len(a)
      /\ \A i \in 1..Len(Newest(a, MaxCheckpoints)) :
           Newest(a, MaxCheckpoints)[i] = a[Len(a) - Len(Newest(a, MaxCheckpoints)) + i]
  <2>. HIDE DEF a
  <2>. QED
    BY <1>a, <1>2, NewestKept
<1>3. /\ p \in Seq(Seq(Turn))
      /\ Len(p) = IF Len(s) + 1 > MaxCheckpoints THEN MaxCheckpoints ELSE Len(s) + 1
      /\ \A i \in 1..Len(p) : p[i] = Append(s, turns)[Len(s) + 1 - Len(p) + i]
  <2>. HIDE DEF a, p
  <2>1. p \in Seq(Seq(Turn))
    BY <1>a, <1>b
  <2>2. Len(p) = IF Len(s) + 1 > MaxCheckpoints THEN MaxCheckpoints ELSE Len(s) + 1
    BY <1>a, <1>b
  <2>3. ASSUME NEW i \in 1..Len(p) PROVE p[i] = a[Len(s) + 1 - Len(p) + i]
    <3>1. p = Newest(a, MaxCheckpoints) /\ Len(a) = Len(s) + 1
      BY <1>a
    <3>2. Newest(a, MaxCheckpoints)[i] = a[Len(a) - Len(Newest(a, MaxCheckpoints)) + i]
      BY <1>b, <3>1
    <3>. QED
      BY <3>1, <3>2
  <2>. QED
    BY <2>1, <2>2, <2>3 DEF a
<1>4. ASSUME NEW i \in 1..Len(p)
      PROVE  p[i] = IF i < Len(p) THEN s[Len(s) + 1 - Len(p) + i] ELSE turns
  <2>. HIDE DEF p
  <2>1. Len(p) \in Nat /\ Len(p) <= Len(s) + 1
    BY <1>2, <1>3
  <2>2. p[i] = Append(s, turns)[Len(s) + 1 - Len(p) + i]
    BY <1>3
  <2>3. CASE i < Len(p)
    <3>1. Len(s) + 1 - Len(p) + i \in 1..Len(s)
      BY <1>2, <2>1, <2>3
    <3>. QED
      BY <1>1, <2>2, <2>3, <3>1
  <2>4. CASE i = Len(p)
    <3>1. Len(s) + 1 - Len(p) + i = Len(s) + 1
      BY <1>2, <2>1, <2>4
    <3>. QED
      BY <1>1, <2>2, <2>4, <3>1
  <2>. QED
    BY <2>1, <2>3, <2>4
<1>. HIDE DEF p
<1>5. /\ p \in Seq(Seq(Turn))
      /\ Len(p) = IF Len(s) + 1 > MaxCheckpoints THEN MaxCheckpoints ELSE Len(s) + 1
      /\ \A i \in 1..Len(p) :
           p[i] = IF i < Len(p) THEN s[Len(s) + 1 - Len(p) + i] ELSE turns
  BY <1>3, <1>4
<1>. QED
  BY <1>5 DEF p

-----------------------------------------------------------------------------
(* The inductive invariant *)

ThreadTypes == thread \in [Threads -> Thread]
StackTypes ==
  /\ past \in [Threads -> Seq(Seq(Turn))]
  /\ future \in [Threads -> Seq(Seq(Turn))]
  /\ \A t \in Threads : Len(past[t]) + Len(future[t]) <= MaxCheckpoints
RestTypes ==
  /\ live \subseteq Threads
  /\ active \in live \cup {NoThread}
  /\ auto \subseteq Tools
  /\ loop \in Message
  /\ said \in 0..MaxTurns
  /\ asked \in 0..MaxRequests

\* What ThreadsAnswerable, ApprovalIsCurrent and OneQuestion ask of a thread
RowFits(r) ==
  /\ r.state = "awaiting" => /\ r.pending # NoPending
                             /\ r.turns # << >>
                             /\ Last(r.turns).id = r.pending.turn
  /\ r.auth => r.state \notin {"processing", "awaiting"}
RowsFit == \A t \in Threads : RowFits(thread[t])

\* What the loop knows of the thread it works on, by how far the message is
Working == loop.phase \in {"approved", "model", "tools"}
LoopFits ==
  /\ loop.phase # "idle" => loop.at \in Threads
  /\ loop.phase = "token" => thread[loop.at].state \notin {"processing", "awaiting"}
  /\ loop.phase \in {"accepted", "compacted"} =>
       /\ thread[loop.at].state \notin {"processing", "awaiting"}
       /\ ~thread[loop.at].auth
       /\ said < MaxTurns
  /\ Working => /\ loop.on \in Threads
                /\ thread[loop.on].state = "processing"
                /\ thread[loop.on].turns # << >>
  /\ loop.phase = "tools" => loop.left >= 1
  /\ \A t \in Threads : thread[t].state = "processing" => Working /\ loop.on = t

IInv == ThreadTypes /\ StackTypes /\ RestTypes /\ RowsFit /\ LoopFits

LEMMA InitHolds == Init => IInv
<1>. SUFFICES ASSUME Init PROVE IInv
  OBVIOUS
<1>1. Unborn \in Thread
  <2>1. << >> \in Seq(Turn)
    BY EmptySeq
  <2>. QED
    BY <2>1 DEF Unborn, Thread, States
<1>2. ThreadTypes
  BY <1>1 DEF Init, ThreadTypes
<1>3. StackTypes
  <2>1. << >> \in Seq(Seq(Turn)) /\ Len(<< >>) = 0
    BY EmptySeq
  <2>. QED
    BY <2>1, TalkAssumption DEF Init, StackTypes
<1>4. RestTypes
  BY TalkAssumption DEF Init, RestTypes, NoMessage, Message
<1>5. RowsFit /\ LoopFits
  BY DEF Init, RowsFit, RowFits, LoopFits, Working, Unborn, NoMessage
<1>. QED
  BY <1>2, <1>3, <1>4, <1>5 DEF IInv

LEMMA RowPut ==
  ASSUME ThreadTypes, NEW t \in Threads, NEW r \in Thread, Put(t, r)
  PROVE  /\ ThreadTypes'
         /\ thread'[t] = r
         /\ \A u \in Threads : u # t => thread'[u] = thread[u]
  BY DEF ThreadTypes, Put

\* Parts of a row
LEMMA RowParts ==
  ASSUME NEW r \in Thread
  PROVE  /\ r.turns \in Seq(Turn)
         /\ r.pending \in Pending \cup {NoPending}
         /\ r.auth \in BOOLEAN
         /\ r.state \in States
         /\ [r EXCEPT !.auth = FALSE] \in Thread
         /\ [r EXCEPT !.auth = TRUE] \in Thread
         /\ \A st \in States : [r EXCEPT !.state = st] \in Thread
         /\ \A turns \in Seq(Turn) : [r EXCEPT !.turns = turns] \in Thread
         /\ \A turns \in Seq(Turn), st \in States :
              [r EXCEPT !.state = st, !.turns = turns] \in Thread
  BY DEF Thread

\* No thread is at work before a turn begins
LEMMA NobodyWorks ==
  ASSUME LoopFits, ~Working, NEW t \in Threads
  PROVE  thread[t].state # "processing"
  BY DEF LoopFits

\* The message is dealt with, and one thread has a new row
LEMMA MessageDone ==
  ASSUME IInv, NEW t \in Threads, NEW r \in Thread, Put(t, r), Done,
         RowFits(r), r.state # "processing", Working => loop.on = t
  PROVE  ThreadTypes' /\ RowsFit' /\ LoopFits' /\ loop' \in Message
<1>1. /\ ThreadTypes'
      /\ thread'[t] = r
      /\ \A u \in Threads : u # t => thread'[u] = thread[u]
  BY RowPut DEF IInv
<1>2. RowsFit'
  <2>. SUFFICES ASSUME NEW u \in Threads PROVE RowFits(thread'[u])
    BY DEF RowsFit, RowFits
  <2>. QED
    BY <1>1 DEF IInv, RowsFit
<1>3. loop'.phase = "idle" /\ loop' = NoMessage
  BY DEF Done, NoMessage
<1>4. \A u \in Threads : thread'[u].state # "processing"
  BY <1>1 DEF IInv, LoopFits
<1>5. loop' \in Message
  BY <1>3, TalkAssumption DEF Message, NoMessage
<1>. QED
  BY <1>1, <1>2, <1>3, <1>4, <1>5 DEF LoopFits, Working

-----------------------------------------------------------------------------
(* Each step keeps it *)

\* Turns and stacks untouched
LEMMA StacksKept ==
  ASSUME StackTypes, UNCHANGED undoing
  PROVE  StackTypes'
  BY DEF StackTypes, undoing

LEMMA ReceiveKeeps ==
  ASSUME IInv, NEW t \in Threads, Receive(t)
  PROVE  IInv'
<1>1. loop' = [NoMessage EXCEPT !.phase = "received", !.at = t] /\ UNCHANGED thread
  BY DEF Receive
<1>a. loop' = [phase |-> "received", at |-> t, on |-> NoThread, named |-> NoRequest,
               iter |-> 0, used |-> FALSE, left |-> 0]
  BY <1>1 DEF NoMessage
<1>2. /\ loop'.phase = "received" /\ loop'.at = t /\ loop' \in Message
  BY <1>a, TalkAssumption DEF Message
<1>3. RestTypes'
  BY <1>2 DEF Receive, Create, IInv, RestTypes
<1>4. \A u \in Threads : thread[u].state # "processing"
  BY DEF Receive, IInv, LoopFits, Working
<1>5. LoopFits'
  BY <1>1, <1>2, <1>4 DEF LoopFits, Working
<1>6. StackTypes' /\ ThreadTypes' /\ RowsFit'
  BY <1>1, StacksKept DEF Receive, IInv, ThreadTypes, RowsFit, RowFits
<1>. QED
  BY <1>3, <1>5, <1>6 DEF IInv

LEMMA TokenKeeps ==
  ASSUME IInv, Token
  PROVE  IInv'
<1>. DEFINE t == loop.at
            r == [thread[t] EXCEPT !.auth = FALSE]
<1>1. loop.phase = "received" /\ t \in Threads /\ thread[t].auth /\ ~Working
  BY DEF Token, IInv, LoopFits, Working
<1>2. thread[t] \in Thread
  BY <1>1 DEF IInv, ThreadTypes
<1>3. r \in Thread /\ r.state = thread[t].state /\ ~r.auth
  BY <1>2, RowParts DEF Thread
<1>4. /\ ThreadTypes' /\ thread'[t] = r
      /\ \A u \in Threads : u # t => thread'[u] = thread[u]
  BY <1>1, <1>3, RowPut DEF Token, IInv
<1>5. RowFits(thread[t]) /\ thread[t].state \notin {"processing", "awaiting"}
  BY <1>1 DEF IInv, RowsFit, RowFits
<1>6. RowsFit'
  <2>. SUFFICES ASSUME NEW u \in Threads PROVE RowFits(thread'[u])
    BY DEF RowsFit, RowFits
  <2>. QED
    BY <1>3, <1>4, <1>5 DEF IInv, RowsFit, RowFits
<1>7. loop'.phase = "token" /\ loop'.at = t /\ loop' \in Message
  BY <1>1 DEF Token, IInv, RestTypes, Message
<1>8. \A u \in Threads : thread'[u].state # "processing"
  BY <1>1, <1>3, <1>4, <1>5 DEF IInv, LoopFits
<1>9. LoopFits'
  BY <1>1, <1>3, <1>4, <1>5, <1>7, <1>8 DEF LoopFits, Working
<1>10. StackTypes' /\ RestTypes'
  BY <1>7, StacksKept DEF Token, IInv, RestTypes
<1>. QED
  BY <1>4, <1>6, <1>9, <1>10 DEF IInv

LEMMA TokenCheckedKeeps ==
  ASSUME IInv, TokenChecked
  PROVE  IInv'
<1>. DEFINE t == loop.at
<1>1. /\ t \in Threads /\ ~Working
      /\ thread[t].state \notin {"processing", "awaiting"}
  BY DEF TokenChecked, IInv, LoopFits, Working
<1>2. PICK again \in BOOLEAN : Put(t, [thread[t] EXCEPT !.auth = (@ \/ again)])
  BY DEF TokenChecked
<1>. DEFINE r == [thread[t] EXCEPT !.auth = (@ \/ again)]
<1>3. thread[t] \in Thread
  BY <1>1 DEF IInv, ThreadTypes
<1>4. r \in Thread /\ r.state = thread[t].state
  BY <1>3 DEF Thread
<1>5. RowFits(r)
  BY <1>1, <1>4 DEF RowFits
<1>6. ThreadTypes' /\ RowsFit' /\ LoopFits' /\ loop' \in Message
  BY <1>1, <1>2, <1>4, <1>5, MessageDone DEF TokenChecked
<1>7. StackTypes' /\ RestTypes'
  BY <1>6, StacksKept DEF TokenChecked, IInv, RestTypes
<1>. QED
  BY <1>6, <1>7 DEF IInv

LEMMA InputKeeps ==
  ASSUME IInv, Input
  PROVE  IInv'
<1>. DEFINE t == loop.at
<1>1. /\ t \in Threads /\ ~Working /\ ~thread[t].auth /\ UNCHANGED <<thread, said>>
  BY DEF Input, IInv, LoopFits, Working
<1>2. \A u \in Threads : thread[u].state # "processing"
  BY <1>1, NobodyWorks DEF IInv
<1>3. CASE Done
  BY <1>1, <1>2, <1>3, TalkAssumption
  DEF Done, NoMessage, Message, LoopFits, Working, IInv, ThreadTypes, RowsFit, RowFits,
      RestTypes, StackTypes, Input, undoing
<1>4. CASE /\ thread[t].state \in {"idle", "interrupted"} /\ said < MaxTurns
           /\ loop' = [loop EXCEPT !.phase = "accepted"]
  <2>1. loop' \in Message /\ loop'.phase = "accepted" /\ loop'.at = t
    BY <1>4 DEF IInv, RestTypes, Message
  <2>2. LoopFits'
    BY <1>1, <1>2, <1>4, <2>1 DEF LoopFits, Working
  <2>3. ThreadTypes' /\ StackTypes' /\ RestTypes' /\ RowsFit'
    BY <1>1, <2>1 DEF IInv, ThreadTypes, RowsFit, RowFits, RestTypes, StackTypes, Input, undoing
  <2>. QED
    BY <2>2, <2>3 DEF IInv
<1>. QED
  BY <1>3, <1>4 DEF Input

LEMMA AutoCompactKeeps ==
  ASSUME IInv, AutoCompact
  PROVE  IInv'
<1>. DEFINE t == loop.at
<1>1. /\ t \in Threads /\ ~Working /\ ~thread[t].auth /\ said < MaxTurns
      /\ thread[t].state \notin {"processing", "awaiting"}
  BY DEF AutoCompact, IInv, LoopFits, Working
<1>2. thread[t] \in Thread
  BY <1>1 DEF IInv, ThreadTypes
<1>3. PICK turns \in Compacted(thread[t].turns) : Put(t, [thread[t] EXCEPT !.turns = turns])
  BY DEF AutoCompact
<1>. DEFINE r == [thread[t] EXCEPT !.turns = turns]
<1>4. turns \in Seq(Turn)
  BY <1>2, RowParts, CompactionKeepsLast
<1>5. r \in Thread /\ r.state = thread[t].state /\ ~r.auth
  BY <1>1, <1>2, <1>4 DEF Thread
<1>6. /\ ThreadTypes' /\ thread'[t] = r
      /\ \A u \in Threads : u # t => thread'[u] = thread[u]
  BY <1>1, <1>3, <1>5, RowPut DEF IInv
<1>7. RowsFit'
  <2>. SUFFICES ASSUME NEW u \in Threads PROVE RowFits(thread'[u])
    BY DEF RowsFit, RowFits
  <2>. QED
    BY <1>1, <1>5, <1>6 DEF IInv, RowsFit, RowFits
<1>8. loop'.phase = "compacted" /\ loop'.at = t /\ loop' \in Message
  BY DEF AutoCompact, IInv, RestTypes, Message
<1>9. \A u \in Threads : thread'[u].state # "processing"
  BY <1>1, <1>5, <1>6 DEF IInv, LoopFits
<1>10. LoopFits'
  BY <1>1, <1>5, <1>6, <1>8, <1>9 DEF AutoCompact, LoopFits, Working
<1>11. StackTypes' /\ RestTypes'
  BY <1>8, StacksKept DEF AutoCompact, IInv, RestTypes
<1>. QED
  BY <1>6, <1>7, <1>10, <1>11 DEF IInv

LEMMA BeginKeeps ==
  ASSUME IInv, Begin
  PROVE  IInv'
<1>. DEFINE t == loop.at
            turn == [id |-> said + 1, answered |-> FALSE]
            turns == Append(thread[t].turns, turn)
            r == [thread[t] EXCEPT !.state = "processing", !.turns = turns]
<1>1. /\ t \in Threads /\ ~Working /\ ~thread[t].auth /\ said < MaxTurns
      /\ said \in Nat
  BY TalkAssumption DEF Begin, IInv, LoopFits, Working, RestTypes
<1>2. thread[t] \in Thread
  BY <1>1 DEF IInv, ThreadTypes
<1>3. turn \in Turn
  BY <1>1, TalkAssumption DEF Turn
<1>4. turns \in Seq(Turn) /\ turns # << >>
  <2>1. thread[t].turns \in Seq(Turn)
    BY <1>2, RowParts
  <2>. HIDE DEF turn
  <2>. QED
    BY <1>3, <2>1, AppendProperties
<1>5. Put(t, r)
  BY <1>2 DEF Begin, Thread, Put
<1>6. r \in Thread /\ r.state = "processing" /\ ~r.auth /\ r.turns = turns
  <2>. HIDE DEF turns
  <2>. QED
    BY <1>1, <1>2, <1>4 DEF Thread, States
<1>7. /\ ThreadTypes' /\ thread'[t] = r
      /\ \A u \in Threads : u # t => thread'[u] = thread[u]
  <2>. HIDE DEF r
  <2>. QED
    BY <1>1, <1>5, <1>6, RowPut DEF IInv
<1>8. RowsFit'
  <2>. SUFFICES ASSUME NEW u \in Threads PROVE RowFits(thread'[u])
    BY DEF RowsFit, RowFits
  <2>1. RowFits(r)
    BY <1>6 DEF RowFits
  <2>. QED
    BY <1>7, <2>1 DEF IInv, RowsFit
<1>9. /\ loop'.phase = "model" /\ loop'.at = t /\ loop'.on = t /\ loop' \in Message
  <2>1. loop \in Message
    BY DEF IInv, RestTypes
  <2>2. loop' = [loop EXCEPT !.phase = "model", !.on = t, !.iter = 0, !.used = FALSE, !.left = 0]
    BY DEF Begin, Continue
  <2>3. 0 \in 0..MaxIterations /\ 0 \in 0..MaxCalls
    BY TalkAssumption
  <2>. QED
    BY <1>1, <2>1, <2>2, <2>3 DEF Message
<1>10. \A u \in Threads : thread'[u].state = "processing" => u = t
  BY <1>1, <1>7, NobodyWorks DEF IInv
<1>11. LoopFits'
  <2>. HIDE DEF r, turns, t
  <2>. QED
    BY <1>1, <1>4, <1>6, <1>7, <1>9, <1>10 DEF LoopFits, Working
<1>12. StackTypes'
  <2>1. /\ past[t] \in Seq(Seq(Turn)) /\ thread[t].turns \in Seq(Turn)
        /\ past \in [Threads -> Seq(Seq(Turn))] /\ future \in [Threads -> Seq(Seq(Turn))]
    BY <1>1, <1>2, RowParts DEF IInv, StackTypes
  <2>2. /\ past' = [past EXCEPT ![t] = PushUndo(past[t], thread[t].turns)]
        /\ future' = [future EXCEPT ![t] = << >>]
    BY DEF Begin
  <2>3. /\ PushUndo(past[t], thread[t].turns) \in Seq(Seq(Turn))
        /\ Len(PushUndo(past[t], thread[t].turns)) <= MaxCheckpoints
    BY <2>1, PushedUndo, TalkAssumption, LenProperties
  <2>4. << >> \in Seq(Seq(Turn)) /\ Len(<< >>) = 0
    BY EmptySeq
  <2>5. past' \in [Threads -> Seq(Seq(Turn))] /\ future' \in [Threads -> Seq(Seq(Turn))]
    BY <2>1, <2>2, <2>3, <2>4
  <2>6. ASSUME NEW u \in Threads PROVE Len(past'[u]) + Len(future'[u]) <= MaxCheckpoints
    <3>1. CASE u = t
      <4>1. past'[u] = PushUndo(past[t], thread[t].turns) /\ future'[u] = << >>
        BY <2>1, <2>2, <3>1
      <4>2. Len(PushUndo(past[t], thread[t].turns)) \in Nat
        BY <2>3, LenProperties
      <4>. QED
        BY <2>3, <2>4, <4>1, <4>2, TalkAssumption
    <3>2. CASE u # t
      BY <2>1, <2>2, <3>2 DEF IInv, StackTypes
    <3>. QED
      BY <3>1, <3>2
  <2>. QED
    BY <2>5, <2>6 DEF StackTypes
<1>13. RestTypes'
  <2>1. said' \in 0..MaxTurns
    BY <1>1, TalkAssumption DEF Begin
  <2>. QED
    BY <1>9, <2>1 DEF Begin, IInv, RestTypes
<1>. QED
  BY <1>7, <1>8, <1>11, <1>12, <1>13 DEF IInv

\* A turn under way, on the thread the loop works on
LEMMA AtWork ==
  ASSUME IInv, Working
  PROVE  /\ loop.on \in Threads /\ thread[loop.on] \in Thread
         /\ thread[loop.on].state = "processing" /\ ~thread[loop.on].auth
         /\ thread[loop.on].turns # << >>
  BY DEF IInv, LoopFits, RowsFit, RowFits, ThreadTypes

\* The loop works on, or waits for an approved call
LEMMA WorksOn ==
  ASSUME IInv, Working, UNCHANGED <<live, active, thread, undoing, auto, said, asked>>,
         loop' \in Message, loop'.phase \in {"approved", "model", "tools"},
         loop'.phase = "tools" => loop'.left >= 1,
         loop'.at = loop.at, loop'.on = loop.on
  PROVE  IInv'
<1>1. LoopFits'
  BY DEF IInv, LoopFits, Working
<1>. QED
  BY <1>1 DEF IInv, ThreadTypes, StackTypes, undoing, RestTypes, RowsFit, RowFits

\* A turn ends on the thread the loop works on
LEMMA TurnEnds ==
  ASSUME IInv, Working, NEW r \in Thread, End(r), RowFits(r), r.state # "processing",
         UNCHANGED <<live, active, undoing, auto, said>>, asked' \in 0..MaxRequests
  PROVE  IInv'
<1>1. ThreadTypes' /\ RowsFit' /\ LoopFits' /\ loop' \in Message
  BY AtWork, MessageDone DEF End
<1>2. StackTypes' /\ RestTypes'
  BY <1>1, StacksKept DEF IInv, RestTypes
<1>. QED
  BY <1>1, <1>2 DEF IInv

LEMMA TurnRows ==
  ASSUME IInv, Working
  PROVE  LET r == thread[loop.on] IN
         /\ FailTurn(r) \in Thread /\ RowFits(FailTurn(r)) /\ FailTurn(r).state = "idle"
         /\ CompleteTurn(r) \in Thread /\ RowFits(CompleteTurn(r))
         /\ CompleteTurn(r).state = "idle"
         /\ AskToken(r) \in Thread /\ RowFits(AskToken(r)) /\ AskToken(r).state = "idle"
<1>. DEFINE r == thread[loop.on]
<1>1. r \in Thread /\ ~r.auth
  BY AtWork
<1>. HIDE DEF r
<1>2. Answered(r.turns) \in Seq(Turn)
  BY <1>1, RowParts, AnsweredTurns
<1>3. FailTurn(r) \in Thread /\ FailTurn(r).state = "idle" /\ RowFits(FailTurn(r))
  BY <1>1 DEF FailTurn, Thread, States, RowFits
<1>4. CompleteTurn(r) \in Thread /\ CompleteTurn(r).state = "idle"
  BY <1>1, <1>2 DEF CompleteTurn, Thread, States
<1>5. RowFits(CompleteTurn(r))
  BY <1>4 DEF RowFits
<1>6. AskToken(r) \in Thread /\ AskToken(r).state = "idle"
  BY <1>4 DEF AskToken, Thread
<1>7. RowFits(AskToken(r))
  BY <1>6 DEF RowFits
<1>. QED
  BY <1>3, <1>4, <1>5, <1>6, <1>7 DEF r

LEMMA FailKeeps ==
  ASSUME IInv, Fail
  PROVE  IInv'
<1>1. Working
  BY DEF Fail, Working
<1>2. asked' \in 0..MaxRequests
  BY DEF Fail, IInv, RestTypes
<1>. QED
  BY <1>1, <1>2, TurnRows, TurnEnds DEF Fail

LEMMA WordsKeeps ==
  ASSUME IInv, Words
  PROVE  IInv'
<1>1. Working /\ loop \in Message /\ loop.iter < MaxIterations
  BY DEF Words, Working, IInv, RestTypes
<1>2. CASE ~loop.used /\ loop.iter + 1 < 3
  <2>1. loop' = [loop EXCEPT !.iter = loop.iter + 1] /\ UNCHANGED thread
    BY <1>2 DEF Words
  <2>2. loop.iter + 1 \in 0..MaxIterations
    BY <1>1, TalkAssumption DEF Message
  <2>3. /\ loop' \in Message /\ loop'.phase = "model" /\ loop'.at = loop.at
        /\ loop'.on = loop.on
    BY <1>1, <2>1, <2>2 DEF Message, Words
  <2>. QED
    BY <1>1, <2>1, <2>3, WorksOn DEF Words
<1>3. CASE ~(~loop.used /\ loop.iter + 1 < 3)
  <2>1. End(CompleteTurn(thread[loop.on]))
    BY <1>3 DEF Words
  <2>2. asked' \in 0..MaxRequests
    BY DEF Words, IInv, RestTypes
  <2>. QED
    BY <1>1, <2>1, <2>2, TurnRows, TurnEnds DEF Words
<1>. QED
  BY <1>2, <1>3

LEMMA CallsKeeps ==
  ASSUME IInv, Calls
  PROVE  IInv'
<1>1. Working /\ loop \in Message /\ loop.iter < MaxIterations
  BY DEF Calls, Working, IInv, RestTypes
<1>2. PICK n \in 1..MaxCalls :
        loop' = [loop EXCEPT !.phase = "tools", !.iter = loop.iter + 1, !.used = TRUE, !.left = n]
  BY DEF Calls
<1>3. loop.iter + 1 \in 0..MaxIterations /\ n \in 0..MaxCalls /\ n >= 1
  BY <1>1, TalkAssumption DEF Message
<1>4. /\ loop' \in Message /\ loop'.phase = "tools" /\ loop'.at = loop.at
      /\ loop'.on = loop.on /\ loop'.left = n
  BY <1>1, <1>2, <1>3 DEF Message
<1>. QED
  BY <1>1, <1>3, <1>4, WorksOn DEF Calls

LEMMA RunCallKeeps ==
  ASSUME IInv, RunCall
  PROVE  IInv'
<1>1. Working /\ loop \in Message /\ loop.left >= 1 /\ loop.phase = "tools"
  BY DEF RunCall, Working, IInv, RestTypes, LoopFits
<1>2. loop.left - 1 \in 0..MaxCalls
  BY <1>1, TalkAssumption DEF Message
<1>3. CASE loop.left = 1
  <2>1. loop' = [loop EXCEPT !.left = loop.left - 1, !.phase = "model"]
    BY <1>3 DEF RunCall
  <2>2. loop' \in Message /\ loop'.phase = "model" /\ loop'.at = loop.at /\ loop'.on = loop.on
    BY <1>1, <1>2, <2>1 DEF Message
  <2>. QED
    BY <1>1, <2>2, WorksOn DEF RunCall
<1>4. CASE loop.left # 1
  <2>1. loop' = [loop EXCEPT !.left = loop.left - 1, !.phase = loop.phase]
    BY <1>4 DEF RunCall
  <2>2. loop.left - 1 >= 1
    BY <1>1, <1>4, TalkAssumption DEF Message
  <2>3. /\ loop' \in Message /\ loop'.phase = "tools" /\ loop'.at = loop.at
        /\ loop'.on = loop.on /\ loop'.left = loop.left - 1
    BY <1>1, <1>2, <2>1 DEF Message
  <2>. QED
    BY <1>1, <2>2, <2>3, WorksOn DEF RunCall
<1>. QED
  BY <1>3, <1>4

LEMMA CallAsksTokenKeeps ==
  ASSUME IInv, CallAsksToken
  PROVE  IInv'
<1>1. Working
  BY DEF CallAsksToken, Working
<1>2. asked' \in 0..MaxRequests
  BY DEF CallAsksToken, IInv, RestTypes
<1>. QED
  BY <1>1, <1>2, TurnRows, TurnEnds DEF CallAsksToken

LEMMA CallAsksApprovalKeeps ==
  ASSUME IInv, CallAsksApproval
  PROVE  IInv'
<1>1. Working
  BY DEF CallAsksApproval, Working
<1>2. PICK tool \in Tools :
        End(AwaitApproval(thread[loop.on],
                          [req |-> asked', tool |-> tool,
                           turn |-> Last(thread[loop.on].turns).id]))
  BY DEF CallAsksApproval
<1>. DEFINE r == thread[loop.on]
            p == [req |-> asked', tool |-> tool, turn |-> Last(r.turns).id]
<1>3. r \in Thread /\ ~r.auth /\ r.turns # << >> /\ r.turns \in Seq(Turn)
  BY <1>1, AtWork, RowParts
<1>4. Last(r.turns) \in Turn
  BY <1>3, FrontAndLast
<1>5. asked' \in 1..MaxRequests
  BY TalkAssumption DEF CallAsksApproval, IInv, RestTypes
<1>6. p \in Pending /\ p # NoPending
  <2>1. Last(r.turns).id \in 1..MaxTurns
    BY <1>4 DEF Turn
  <2>. QED
    BY <1>5, <2>1 DEF Pending, NoPending, Requests, NoRequest
<1>7. /\ AwaitApproval(r, p) \in Thread /\ AwaitApproval(r, p).state = "awaiting"
      /\ AwaitApproval(r, p).pending = p /\ AwaitApproval(r, p).turns = r.turns
      /\ ~AwaitApproval(r, p).auth
  <2>. HIDE DEF r, p
  <2>. QED
    BY <1>3, <1>6 DEF AwaitApproval, Thread, States
<1>8. RowFits(AwaitApproval(r, p))
  <2>1. p.turn = Last(r.turns).id
    OBVIOUS
  <2>. HIDE DEF r, p
  <2>. QED
    BY <1>3, <1>6, <1>7, <2>1 DEF RowFits
<1>9. asked' \in 0..MaxRequests
  BY <1>5
<1>. HIDE DEF r, p
<1>10. End(AwaitApproval(r, p))
  BY <1>2 DEF r, p
<1>. QED
  BY <1>1, <1>7, <1>8, <1>9, <1>10, TurnEnds DEF CallAsksApproval

LEMMA RunApprovedKeeps ==
  ASSUME IInv, RunApproved
  PROVE  IInv'
<1>1. Working /\ loop \in Message
  BY DEF RunApproved, Working, IInv, RestTypes
<1>2. CASE Continue(loop.on, TRUE) /\ UNCHANGED thread
  <2>1. loop' = [loop EXCEPT !.phase = "model", !.on = loop.on, !.iter = 0, !.used = TRUE, !.left = 0]
    BY <1>2 DEF Continue
  <2>2. 0 \in 0..MaxIterations /\ 0 \in 0..MaxCalls
    BY TalkAssumption
  <2>3. /\ loop' \in Message /\ loop'.phase = "model" /\ loop'.at = loop.at
        /\ loop'.on = loop.on
    BY <1>1, <2>1, <2>2 DEF Message
  <2>. QED
    BY <1>1, <1>2, <2>3, WorksOn DEF RunApproved
<1>3. CASE End(AskToken(thread[loop.on]))
  <2>1. asked' \in 0..MaxRequests
    BY DEF RunApproved, IInv, RestTypes
  <2>. QED
    BY <1>1, <1>3, <2>1, TurnRows, TurnEnds DEF RunApproved
<1>. QED
  BY <1>2, <1>3 DEF RunApproved

-----------------------------------------------------------------------------
(* Commands *)

\* A command finds no thread at work; its own thread loses auth mode
LEMMA Commanded ==
  ASSUME IInv, NEW t \in Threads, Command(t)
  PROVE  /\ ~Working /\ thread[t] \in Thread /\ thread[t].state # "processing"
         /\ Uncalled(t) \in Thread /\ RowFits(Uncalled(t)) /\ ~Uncalled(t).auth
         /\ Uncalled(t).state = thread[t].state /\ Uncalled(t).turns = thread[t].turns
         /\ Uncalled(t).pending = thread[t].pending
         /\ thread[t].turns \in Seq(Turn)
<1>1. ~Working
  BY DEF Command, Working
<1>2. thread[t] \in Thread /\ RowFits(thread[t])
  BY DEF IInv, ThreadTypes, RowsFit
<1>3. /\ Uncalled(t) \in Thread /\ ~Uncalled(t).auth
      /\ Uncalled(t).state = thread[t].state /\ Uncalled(t).turns = thread[t].turns
      /\ Uncalled(t).pending = thread[t].pending
  BY <1>2 DEF Uncalled, Thread
<1>4. RowFits(Uncalled(t))
  BY <1>2, <1>3 DEF RowFits
<1>. QED
  BY <1>1, <1>2, <1>3, <1>4, NobodyWorks, RowParts DEF IInv

\* A command that restores turns, or does not
LEMMA CommandEnds ==
  ASSUME IInv, NEW t \in Threads, Command(t), NEW r \in Thread, Put(t, r), Done,
         RowFits(r), r.state # "processing", StackTypes',
         live' \subseteq Threads, active' \in live' \cup {NoThread},
         UNCHANGED <<auto, said, asked>>
  PROVE  IInv'
<1>1. ThreadTypes' /\ RowsFit' /\ LoopFits' /\ loop' \in Message
  BY Commanded, MessageDone
<1>2. RestTypes'
  BY <1>1 DEF IInv, RestTypes
<1>. QED
  BY <1>1, <1>2 DEF IInv

LEMMA RestoredRow ==
  ASSUME IInv, NEW t \in Threads, Command(t), NEW turns \in Seq(Turn)
  PROVE  LET r == RestoreFrom(Uncalled(t), turns) IN
         /\ r \in Thread /\ r.state = "idle" /\ r.turns = turns /\ RowFits(r)
<1>1. Uncalled(t) \in Thread /\ ~Uncalled(t).auth
  BY Commanded
<1>. DEFINE r == RestoreFrom(Uncalled(t), turns)
<1>2. r \in Thread /\ r.state = "idle" /\ r.turns = turns
  BY <1>1 DEF RestoreFrom, Thread, States
<1>3. RowFits(r)
  BY <1>2 DEF RowFits
<1>. QED
  BY <1>2, <1>3

\* One checkpoint popped here, one pushed there
LEMMA StacksMoved ==
  ASSUME StackTypes, NEW t \in Threads,
         NEW p \in Seq(Seq(Turn)), NEW f \in Seq(Seq(Turn)),
         Len(p) + Len(f) <= MaxCheckpoints,
         past' = [past EXCEPT ![t] = p], future' = [future EXCEPT ![t] = f]
  PROVE  /\ StackTypes'
         /\ past'[t] = p /\ future'[t] = f
         /\ \A u \in Threads : u # t => past'[u] = past[u] /\ future'[u] = future[u]
<1>1. /\ past'[t] = p /\ future'[t] = f
      /\ \A u \in Threads : u # t => past'[u] = past[u] /\ future'[u] = future[u]
  BY DEF StackTypes
<1>2. past' \in [Threads -> Seq(Seq(Turn))] /\ future' \in [Threads -> Seq(Seq(Turn))]
  BY DEF StackTypes
<1>3. ASSUME NEW u \in Threads PROVE Len(past'[u]) + Len(future'[u]) <= MaxCheckpoints
  BY <1>1 DEF StackTypes
<1>. QED
  BY <1>1, <1>2, <1>3 DEF StackTypes

\* A command that leaves stacks and threads of the session alone
LEMMA PlainCommand ==
  ASSUME IInv, NEW t \in Threads, Command(t), NEW r \in Thread, Put(t, r), Done,
         RowFits(r), r.state # "processing",
         UNCHANGED <<live, active, undoing, auto, said, asked>>
  PROVE  IInv'
<1>1. StackTypes' /\ live' \subseteq Threads /\ active' \in live' \cup {NoThread}
  BY StacksKept DEF IInv, RestTypes
<1>. QED
  BY <1>1, CommandEnds

LEMMA UndoKeeps ==
  ASSUME IInv, NEW t \in Threads, Undo(t)
  PROVE  IInv'
<1>1. Command(t) /\ Done /\ StackTypes
  BY DEF Undo, IInv
<1>2. live' \subseteq Threads /\ active' \in live' \cup {NoThread}
  BY DEF Undo, IInv, RestTypes
<1>3. CASE past[t] = << >>
  <2>1. Put(t, Uncalled(t)) /\ UNCHANGED <<live, active, undoing, auto, said, asked>>
    BY <1>3 DEF Undo
  <2>. QED
    BY <1>1, <2>1, Commanded, PlainCommand
<1>4. CASE past[t] # << >>
  <2>1. /\ future' = [future EXCEPT ![t] = Append(future[t], thread[t].turns)]
        /\ past' = [past EXCEPT ![t] = AllButLast(past[t])]
        /\ Put(t, RestoreFrom(Uncalled(t), Last(past[t])))
    BY <1>4 DEF Undo
  <2>2. past[t] \in Seq(Seq(Turn)) /\ future[t] \in Seq(Seq(Turn))
    BY <1>1 DEF StackTypes
  <2>3. thread[t].turns \in Seq(Turn)
    BY <1>1, Commanded
  <2>4. /\ AllButLast(past[t]) \in Seq(Seq(Turn)) /\ Last(past[t]) \in Seq(Turn)
        /\ Len(AllButLast(past[t])) = Len(past[t]) - 1 /\ Len(past[t]) \in Nat \ {0}
    BY <1>4, <2>2, FrontAndLast
  <2>5. /\ Append(future[t], thread[t].turns) \in Seq(Seq(Turn))
        /\ Len(Append(future[t], thread[t].turns)) = Len(future[t]) + 1
        /\ Len(future[t]) \in Nat
    BY <2>2, <2>3, AppendProperties, LenProperties
  <2>6. Len(AllButLast(past[t])) + Len(Append(future[t], thread[t].turns)) <= MaxCheckpoints
    BY <1>1, <2>4, <2>5, TalkAssumption DEF StackTypes
  <2>7. StackTypes'
    BY <1>1, <2>1, <2>4, <2>5, <2>6, StacksMoved
  <2>. QED
    BY <1>1, <1>2, <2>1, <2>4, <2>7, RestoredRow, CommandEnds DEF Undo
<1>. QED
  BY <1>3, <1>4

LEMMA Room ==
  ASSUME NEW p \in Nat, NEW f \in Nat, p + f <= MaxCheckpoints
  PROVE  /\ MaxCheckpoints \in Nat
         /\ f # 0 => ~(p + 1 > MaxCheckpoints) /\ (p + 1) + (f - 1) <= MaxCheckpoints
         /\ \A i \in 1..p : (i - 1) + 0 <= MaxCheckpoints
<1>1. MaxCheckpoints \in Nat
  BY TalkAssumption
<1>. QED
  BY <1>1

\* The redo stack leaves room: nothing is trimmed
LEMMA RedoFits ==
  ASSUME StackTypes, NEW t \in Threads, future[t] # << >>, NEW turns \in Seq(Turn)
  PROVE  /\ PushUndo(past[t], turns) \in Seq(Seq(Turn))
         /\ Len(PushUndo(past[t], turns)) = Len(past[t]) + 1
         /\ \A i \in 1..Len(past[t]) : PushUndo(past[t], turns)[i] = past[t][i]
         /\ PushUndo(past[t], turns)[Len(past[t]) + 1] = turns
         /\ Len(past[t]) \in Nat /\ Len(future[t]) \in Nat \ {0}
         /\ Len(past[t]) + Len(future[t]) <= MaxCheckpoints
<1>1. past[t] \in Seq(Seq(Turn)) /\ future[t] \in Seq(Seq(Turn))
  BY DEF StackTypes
<1>2. /\ Len(past[t]) \in Nat /\ Len(future[t]) \in Nat \ {0}
      /\ Len(past[t]) + Len(future[t]) <= MaxCheckpoints
  BY <1>1, LenProperties, EmptySeq DEF StackTypes
<1>. DEFINE q == PushUndo(past[t], turns)
<1>3. /\ q \in Seq(Seq(Turn))
      /\ Len(q) = IF Len(past[t]) + 1 > MaxCheckpoints THEN MaxCheckpoints ELSE Len(past[t]) + 1
      /\ \A i \in 1..Len(q) :
           q[i] = IF i < Len(q) THEN past[t][Len(past[t]) + 1 - Len(q) + i] ELSE turns
  BY <1>1, PushedUndo
<1>. HIDE DEF q
<1>4. Len(q) = Len(past[t]) + 1
  <2>1. ~(Len(past[t]) + 1 > MaxCheckpoints)
    BY <1>2, Room
  <2>. QED
    BY <1>3, <2>1
<1>5. ASSUME NEW i \in 1..Len(past[t]) PROVE q[i] = past[t][i]
  <2>1. i \in 1..Len(q) /\ i < Len(q) /\ Len(past[t]) + 1 - Len(q) + i = i
    BY <1>2, <1>4
  <2>. QED
    BY <1>3, <2>1
<1>6. q[Len(past[t]) + 1] = turns
  <2>1. Len(past[t]) + 1 \in 1..Len(q) /\ ~(Len(past[t]) + 1 < Len(q))
    BY <1>2, <1>4
  <2>. QED
    BY <1>3, <2>1
<1>. QED
  BY <1>2, <1>3, <1>4, <1>5, <1>6 DEF q

LEMMA RedoKeeps ==
  ASSUME IInv, NEW t \in Threads, Redo(t)
  PROVE  IInv'
<1>1. Command(t) /\ Done /\ StackTypes
  BY DEF Redo, IInv
<1>2. live' \subseteq Threads /\ active' \in live' \cup {NoThread}
  BY DEF Redo, IInv, RestTypes
<1>3. CASE future[t] = << >>
  <2>1. Put(t, Uncalled(t)) /\ UNCHANGED <<live, active, undoing, auto, said, asked>>
    BY <1>3 DEF Redo
  <2>. QED
    BY <1>1, <2>1, Commanded, PlainCommand
<1>4. CASE future[t] # << >>
  <2>1. /\ past' = [past EXCEPT ![t] = PushUndo(past[t], thread[t].turns)]
        /\ future' = [future EXCEPT ![t] = AllButLast(future[t])]
        /\ Put(t, RestoreFrom(Uncalled(t), Last(future[t])))
    BY <1>4 DEF Redo
  <2>2. thread[t].turns \in Seq(Turn)
    BY <1>1, Commanded
  <2>3. future[t] \in Seq(Seq(Turn))
    BY <1>1 DEF StackTypes
  <2>4. /\ AllButLast(future[t]) \in Seq(Seq(Turn)) /\ Last(future[t]) \in Seq(Turn)
        /\ Len(AllButLast(future[t])) = Len(future[t]) - 1
    BY <1>4, <2>3, FrontAndLast
  <2>5. /\ PushUndo(past[t], thread[t].turns) \in Seq(Seq(Turn))
        /\ Len(PushUndo(past[t], thread[t].turns)) = Len(past[t]) + 1
        /\ Len(past[t]) \in Nat /\ Len(future[t]) \in Nat \ {0}
        /\ Len(past[t]) + Len(future[t]) <= MaxCheckpoints
    BY <1>1, <1>4, <2>2, RedoFits
  <2>6. Len(PushUndo(past[t], thread[t].turns)) + Len(AllButLast(future[t])) <= MaxCheckpoints
    <3>1. (Len(past[t]) + 1) + (Len(future[t]) - 1) <= MaxCheckpoints
      BY <2>5, Room
    <3>. QED
      BY <2>4, <2>5, <3>1
  <2>7. StackTypes'
    BY <1>1, <2>1, <2>4, <2>5, <2>6, StacksMoved
  <2>. QED
    BY <1>1, <1>2, <2>1, <2>4, <2>7, RestoredRow, CommandEnds DEF Redo
<1>. QED
  BY <1>3, <1>4

\* What is left of the undo stack below a checkpoint
LEMMA Below ==
  ASSUME NEW s \in Seq(Seq(Turn)), NEW i \in DOMAIN s
  PROVE  /\ i \in 1..Len(s) /\ Len(s) \in Nat /\ s[i] \in Seq(Turn)
         /\ SubSeq(s, 1, i - 1) \in Seq(Seq(Turn))
         /\ Len(SubSeq(s, 1, i - 1)) = i - 1
         /\ \A j \in 1..(i - 1) : SubSeq(s, 1, i - 1)[j] = s[j]
<1>1. i \in 1..Len(s) /\ Len(s) \in Nat /\ \A j \in 1..Len(s) : s[j] \in Seq(Turn)
  BY LenProperties, ElementOfSeq
<1>2. \A j \in 1..(i - 1) : s[j] \in Seq(Turn)
  BY <1>1
<1>3. /\ SubSeq(s, 1, i - 1) \in Seq(Seq(Turn))
      /\ Len(SubSeq(s, 1, i - 1)) = IF 1 <= i - 1 THEN i - 1 - 1 + 1 ELSE 0
      /\ \A j \in 1..(i - 1 - 1 + 1) : SubSeq(s, 1, i - 1)[j] = s[1 + j - 1]
  BY <1>1, <1>2, SubSeqProperties
<1>4. (IF 1 <= i - 1 THEN i - 1 - 1 + 1 ELSE 0) = i - 1
  BY <1>1
<1>5. ASSUME NEW j \in 1..(i - 1) PROVE SubSeq(s, 1, i - 1)[j] = s[j]
  BY <1>1, <1>3
<1>. QED
  BY <1>1, <1>3, <1>4, <1>5

LEMMA ResumeKeeps ==
  ASSUME IInv, NEW t \in Threads, Resume(t)
  PROVE  IInv'
<1>1. Command(t) /\ Done /\ StackTypes
  BY DEF Resume, IInv
<1>2. live' \subseteq Threads /\ active' \in live' \cup {NoThread}
  BY DEF Resume, IInv, RestTypes
<1>3. CASE Put(t, Uncalled(t)) /\ UNCHANGED undoing
  BY <1>1, <1>3, Commanded, PlainCommand DEF Resume
<1>4. ASSUME NEW i \in DOMAIN past[t],
             future' = [future EXCEPT ![t] = << >>],
             past' = [past EXCEPT ![t] = SubSeq(past[t], 1, i - 1)],
             Put(t, RestoreFrom(Uncalled(t), past[t][i]))
      PROVE  IInv'
  <2>1. past[t] \in Seq(Seq(Turn)) /\ << >> \in Seq(Seq(Turn)) /\ Len(<< >>) = 0
    BY <1>1, EmptySeq DEF StackTypes
  <2>2. /\ i \in 1..Len(past[t]) /\ past[t][i] \in Seq(Turn)
        /\ SubSeq(past[t], 1, i - 1) \in Seq(Seq(Turn))
        /\ Len(SubSeq(past[t], 1, i - 1)) = i - 1
    BY <2>1, Below
  <2>3. Len(past[t]) \in Nat /\ Len(future[t]) \in Nat
        /\ Len(past[t]) + Len(future[t]) <= MaxCheckpoints
    BY <1>1, LenProperties DEF StackTypes
  <2>4. Len(SubSeq(past[t], 1, i - 1)) + Len(<< >>) <= MaxCheckpoints
    <3>1. (i - 1) + 0 <= MaxCheckpoints
      BY <2>2, <2>3, Room
    <3>. QED
      BY <2>1, <2>2, <3>1
  <2>5. StackTypes'
    BY <1>1, <1>4, <2>1, <2>2, <2>4, StacksMoved
  <2>. QED
    BY <1>1, <1>2, <1>4, <2>2, <2>5, RestoredRow, CommandEnds DEF Resume
<1>. QED
  BY <1>3, <1>4 DEF Resume

LEMMA ClearKeeps ==
  ASSUME IInv, NEW t \in Threads, Clear(t)
  PROVE  IInv'
<1>. DEFINE r == [Uncalled(t) EXCEPT !.turns = << >>, !.state = "idle"]
<1>1. Command(t) /\ Done /\ StackTypes /\ Put(t, r)
  BY DEF Clear, IInv
<1>2. << >> \in Seq(Turn) /\ << >> \in Seq(Seq(Turn)) /\ Len(<< >>) = 0
  BY EmptySeq
<1>3. r \in Thread /\ r.state = "idle"
  BY <1>1, <1>2, Commanded DEF Thread, States
<1>4. RowFits(r)
  BY <1>3 DEF RowFits
<1>5. StackTypes'
  <2>1. Len(<< >>) + Len(<< >>) <= MaxCheckpoints
    BY <1>2, TalkAssumption
  <2>. QED
    BY <1>1, <1>2, <2>1, StacksMoved DEF Clear
<1>6. live' \subseteq Threads /\ active' \in live' \cup {NoThread}
  BY DEF Clear, IInv, RestTypes
<1>. HIDE DEF r
<1>. QED
  BY <1>1, <1>3, <1>4, <1>5, <1>6, CommandEnds DEF Clear

LEMMA InterruptKeeps ==
  ASSUME IInv, NEW t \in Threads, Interrupt(t)
  PROVE  IInv'
<1>1. Command(t) /\ Done
  BY DEF Interrupt
<1>2. CASE thread[t].state \in {"processing", "awaiting"}
  <2>. DEFINE r == [Uncalled(t) EXCEPT !.state = "interrupted"]
  <2>1. Put(t, r)
    BY <1>2 DEF Interrupt
  <2>2. r \in Thread /\ r.state = "interrupted" /\ ~r.auth
    BY <1>1, Commanded DEF Thread, States
  <2>3. RowFits(r)
    BY <2>2 DEF RowFits
  <2>. HIDE DEF r
  <2>. QED
    BY <1>1, <2>1, <2>2, <2>3, PlainCommand DEF Interrupt
<1>3. CASE thread[t].state \notin {"processing", "awaiting"}
  <2>1. Put(t, Uncalled(t))
    BY <1>3 DEF Interrupt
  <2>. QED
    BY <1>1, <2>1, Commanded, PlainCommand DEF Interrupt
<1>. QED
  BY <1>2, <1>3

LEMMA CompactKeeps ==
  ASSUME IInv, NEW t \in Threads, Compact(t)
  PROVE  IInv'
<1>1. Command(t) /\ Done
  BY DEF Compact
<1>2. PICK turns \in Compacted(thread[t].turns) : Put(t, [Uncalled(t) EXCEPT !.turns = turns])
  BY DEF Compact
<1>. DEFINE r == [Uncalled(t) EXCEPT !.turns = turns]
<1>3. /\ turns \in Seq(Turn)
      /\ thread[t].turns # << >> => turns # << >> /\ Last(turns) = Last(thread[t].turns)
  BY <1>1, Commanded, CompactionKeepsLast
<1>4. /\ r \in Thread /\ r.state = Uncalled(t).state /\ r.turns = turns
      /\ r.pending = Uncalled(t).pending /\ ~r.auth
  BY <1>1, <1>3, Commanded DEF Thread
<1>5. RowFits(r)
  BY <1>1, <1>3, <1>4, Commanded DEF RowFits
<1>6. r.state # "processing"
  BY <1>1, <1>4, Commanded
<1>. HIDE DEF r
<1>7. Put(t, r)
  BY <1>2 DEF r
<1>. QED
  BY <1>1, <1>4, <1>5, <1>6, <1>7, PlainCommand DEF Compact

LEMMA LeaveKeeps ==
  ASSUME IInv, NEW t \in Threads, Leave(t)
  PROVE  IInv'
<1>1. Command(t) /\ Done /\ Put(t, Uncalled(t)) /\ UNCHANGED undoing
  BY DEF Leave
<1>2. live' \subseteq Threads /\ active' \in live' \cup {NoThread}
  BY DEF Leave, Create, IInv, RestTypes
<1>3. StackTypes'
  BY <1>1, StacksKept DEF IInv
<1>. QED
  BY <1>1, <1>2, <1>3, Commanded, CommandEnds DEF Leave

LEMMA NoSuchApprovalKeeps ==
  ASSUME IInv, NEW t \in Threads, NoSuchApproval(t)
  PROVE  IInv'
  BY Commanded, PlainCommand DEF NoSuchApproval

\* The thread an answer is for holds a request
LEMMA Resolved ==
  ASSUME NEW t, NEW u, NEW req, ResolveApproval(t, req) = {u}
  PROVE  Holds(u, req)
<1>1. u \in ResolveApproval(t, req)
  OBVIOUS
<1>. QED
  BY <1>1 DEF ResolveApproval

\* An answer leaves auth mode of one thread and settles the request of another,
\* or of the same
Settled(t, u, st) ==
  thread' = [thread EXCEPT ![t].auth = FALSE, ![u].pending = NoPending, ![u].state = st]

LEMMA SettledRows ==
  ASSUME ThreadTypes, NEW t \in Threads, NEW u \in Threads, NEW st \in States,
         Settled(t, u, st)
  PROVE  /\ ThreadTypes'
         /\ thread'[u].state = st /\ thread'[u].turns = thread[u].turns
         /\ thread'[u].auth => thread[u].auth
         /\ \A v \in Threads : v # u =>
              /\ thread'[v].state = thread[v].state
              /\ thread'[v].turns = thread[v].turns
              /\ thread'[v].pending = thread[v].pending
              /\ thread'[v].auth => thread[v].auth
<1>. DEFINE g == [thread EXCEPT ![t].auth = FALSE]
            h == [g EXCEPT ![u] = [g[u] EXCEPT !.pending = NoPending, !.state = st]]
<1>1. thread \in [Threads -> Thread]
  BY DEF ThreadTypes
<1>2. g = [thread EXCEPT ![t] = [thread[t] EXCEPT !.auth = FALSE]]
  OBVIOUS
<1>3. thread[t] \in Thread /\ [thread[t] EXCEPT !.auth = FALSE] \in Thread
  BY <1>1, RowParts
<1>4. /\ g \in [Threads -> Thread]
      /\ g[t] = [thread[t] EXCEPT !.auth = FALSE]
      /\ \A v \in Threads : v # t => g[v] = thread[v]
  BY <1>1, <1>2, <1>3
<1>5. /\ g[t].state = thread[t].state /\ g[t].turns = thread[t].turns
      /\ g[t].pending = thread[t].pending /\ ~g[t].auth
  BY <1>3, <1>4 DEF Thread
<1>6. \A v \in Threads :
        /\ g[v].state = thread[v].state /\ g[v].turns = thread[v].turns
        /\ g[v].pending = thread[v].pending
        /\ g[v].auth => thread[v].auth
  BY <1>4, <1>5
<1>7. thread' = h
  BY <1>4 DEF Settled
<1>. HIDE DEF g
<1>. DEFINE r == [g[u] EXCEPT !.pending = NoPending, !.state = st]
<1>8. /\ r \in Thread /\ r.state = st /\ r.turns = g[u].turns /\ r.auth = g[u].auth
  BY <1>4 DEF Thread
<1>9. thread' = [g EXCEPT ![u] = r]
  BY <1>7
<1>. HIDE DEF r, h
<1>10. /\ thread' \in [Threads -> Thread] /\ thread'[u] = r
       /\ \A v \in Threads : v # u => thread'[v] = g[v]
  BY <1>4, <1>8, <1>9
<1>11. ThreadTypes'
  BY <1>10 DEF ThreadTypes
<1>12. /\ thread'[u].state = st /\ thread'[u].turns = thread[u].turns
       /\ thread'[u].auth => thread[u].auth
  BY <1>6, <1>8, <1>10
<1>13. ASSUME NEW v \in Threads, v # u
       PROVE  /\ thread'[v].state = thread[v].state
              /\ thread'[v].turns = thread[v].turns
              /\ thread'[v].pending = thread[v].pending
              /\ thread'[v].auth => thread[v].auth
  BY <1>6, <1>10, <1>13
<1>. QED
  BY <1>11, <1>12, <1>13

LEMMA ApproveKeeps ==
  ASSUME IInv, NEW t \in Threads, Approve(t)
  PROVE  IInv'
<1>1. PICK req \in Answers, u \in Threads, always \in BOOLEAN :
        /\ ResolveApproval(t, req) = {u}
        /\ Settled(t, u, "processing")
        /\ auto' = IF always THEN auto \cup {thread[u].pending.tool} ELSE auto
        /\ loop' = [loop EXCEPT !.phase = "approved", !.on = u, !.named = req]
  BY DEF Approve, Settled
<1>2. Command(t) /\ loop \in Message /\ ~Working /\ loop.at = t
  BY DEF Approve, Command, Working, IInv, RestTypes
<1>3. Holds(u, req)
  BY <1>1, Resolved
<1>4. /\ RowFits(thread[u]) /\ thread[u] \in Thread /\ thread[u].state = "awaiting"
      /\ thread[u].pending # NoPending
  BY <1>3 DEF Holds, IInv, RowsFit, ThreadTypes
<1>5. ~thread[u].auth /\ thread[u].turns # << >> /\ thread[u].pending.tool \in Tools
  <2>1. thread[u].pending \in Pending
    BY <1>4, RowParts
  <2>. QED
    BY <1>4, <2>1 DEF RowFits, Pending
<1>6. /\ ThreadTypes'
      /\ thread'[u].state = "processing" /\ thread'[u].turns = thread[u].turns
      /\ thread'[u].auth => thread[u].auth
      /\ \A v \in Threads : v # u =>
           /\ thread'[v].state = thread[v].state
           /\ thread'[v].turns = thread[v].turns
           /\ thread'[v].pending = thread[v].pending
           /\ thread'[v].auth => thread[v].auth
  BY <1>1, SettledRows DEF IInv, States
<1>7. RowsFit'
  <2>. SUFFICES ASSUME NEW v \in Threads PROVE RowFits(thread'[v])
    BY DEF RowsFit, RowFits
  <2>1. CASE v = u
    BY <1>5, <1>6, <2>1 DEF RowFits
  <2>2. CASE v # u
    BY <1>6, <2>2 DEF IInv, RowsFit, RowFits
  <2>. QED
    BY <2>1, <2>2
<1>8. req \in Requests \cup {NoRequest}
  <2>1. asked \in 0..MaxRequests
    BY DEF IInv, RestTypes
  <2>. QED
    BY <2>1, TalkAssumption DEF Answers, Requests
<1>9. loop' \in Message /\ loop'.phase = "approved" /\ loop'.on = u /\ loop'.at = t
  BY <1>1, <1>2, <1>8 DEF Message
<1>10. \A v \in Threads : thread'[v].state = "processing" => v = u
  BY <1>2, <1>6, NobodyWorks DEF IInv
<1>11. LoopFits'
  BY <1>5, <1>6, <1>9, <1>10 DEF LoopFits, Working
<1>12. StackTypes' /\ RestTypes'
  BY <1>1, <1>5, <1>9, StacksKept DEF Approve, IInv, RestTypes
<1>. QED
  BY <1>6, <1>7, <1>11, <1>12 DEF IInv

LEMMA RejectKeeps ==
  ASSUME IInv, NEW t \in Threads, Reject(t)
  PROVE  IInv'
<1>1. PICK req \in Answers, u \in Threads :
        ResolveApproval(t, req) = {u} /\ Settled(t, u, "idle")
  BY DEF Reject, Settled
<1>2. ~Working
  BY DEF Reject, Command, Working
<1>3. Holds(u, req)
  BY <1>1, Resolved
<1>4. ~thread[u].auth
  BY <1>3 DEF Holds, IInv, RowsFit, RowFits
<1>5. /\ ThreadTypes'
      /\ thread'[u].state = "idle" /\ thread'[u].turns = thread[u].turns
      /\ thread'[u].auth => thread[u].auth
      /\ \A v \in Threads : v # u =>
           /\ thread'[v].state = thread[v].state
           /\ thread'[v].turns = thread[v].turns
           /\ thread'[v].pending = thread[v].pending
           /\ thread'[v].auth => thread[v].auth
  BY <1>1, SettledRows DEF IInv, States
<1>6. RowsFit'
  <2>. SUFFICES ASSUME NEW v \in Threads PROVE RowFits(thread'[v])
    BY DEF RowsFit, RowFits
  <2>1. CASE v = u
    BY <1>4, <1>5, <2>1 DEF RowFits
  <2>2. CASE v # u
    BY <1>5, <2>2 DEF IInv, RowsFit, RowFits
  <2>. QED
    BY <2>1, <2>2
<1>7. \A v \in Threads : thread'[v].state # "processing"
  BY <1>2, <1>5, NobodyWorks DEF IInv
<1>8. loop' = NoMessage /\ loop'.phase = "idle" /\ loop' \in Message
  BY TalkAssumption DEF Reject, Done, NoMessage, Message
<1>9. LoopFits'
  BY <1>7, <1>8 DEF LoopFits, Working
<1>10. StackTypes' /\ RestTypes'
  BY <1>8, StacksKept DEF Reject, IInv, RestTypes
<1>. QED
  BY <1>5, <1>6, <1>9, <1>10 DEF IInv

LEMMA WebNewThreadKeeps ==
  ASSUME IInv, WebNewThread
  PROVE  IInv'
<1>1. live' \subseteq Threads /\ active' \in live' \cup {NoThread}
  BY DEF WebNewThread, Create, IInv, RestTypes
<1>2. UNCHANGED <<thread, past, future, auto, loop, said, asked>>
  BY DEF WebNewThread, undoing
<1>3. ThreadTypes' /\ StackTypes' /\ RowsFit' /\ LoopFits'
  BY <1>2 DEF IInv, ThreadTypes, StackTypes, RowsFit, RowFits, LoopFits, Working
<1>4. RestTypes'
  BY <1>1, <1>2 DEF IInv, RestTypes
<1>. QED
  BY <1>3, <1>4 DEF IInv

LEMMA CancelAuthKeeps ==
  ASSUME IInv, CancelAuth
  PROVE  IInv'
<1>1. active \in Threads
  BY DEF CancelAuth, IInv, RestTypes
<1>2. Put(active, Uncalled(active))
  BY DEF CancelAuth
<1>3. thread[active] \in Thread
  BY <1>1 DEF IInv, ThreadTypes
<1>4. /\ Uncalled(active) \in Thread
      /\ Uncalled(active).state = thread[active].state
      /\ Uncalled(active).turns = thread[active].turns
      /\ Uncalled(active).pending = thread[active].pending
      /\ ~Uncalled(active).auth
  BY <1>3 DEF Uncalled, Thread
<1>5. RowFits(Uncalled(active))
  BY <1>1, <1>4 DEF IInv, RowsFit, RowFits
<1>a. /\ ThreadTypes'
      /\ thread'[active] = Uncalled(active)
      /\ \A u \in Threads : u # active => thread'[u] = thread[u]
  BY <1>1, <1>2, <1>4, RowPut DEF IInv
<1>6. RowsFit'
  <2>. SUFFICES ASSUME NEW u \in Threads PROVE RowFits(thread'[u])
    BY DEF RowsFit, RowFits
  <2>. QED
    BY <1>5, <1>a DEF IInv, RowsFit
<1>7. UNCHANGED <<live, active, past, future, auto, loop, said, asked>>
  BY DEF CancelAuth, undoing
<1>8. \A u \in Threads : thread'[u].state = thread[u].state /\ thread'[u].turns = thread[u].turns
  BY <1>4, <1>a
<1>b. \A u \in Threads : thread'[u].auth => thread[u].auth
  BY <1>4, <1>a
<1>9. LoopFits'
  BY <1>7, <1>8, <1>b DEF IInv, LoopFits, Working
<1>10. StackTypes' /\ RestTypes'
  BY <1>7 DEF IInv, StackTypes, RestTypes
<1>. QED
  BY <1>a, <1>6, <1>9, <1>10 DEF IInv

-----------------------------------------------------------------------------
(* Every step together *)

LEMMA SubmissionKeeps ==
  ASSUME IInv, NEW t \in Threads, Submission(t)
  PROVE  IInv'
<1>1. CASE Undo(t)
  BY <1>1, UndoKeeps
<1>2. CASE Redo(t)
  BY <1>2, RedoKeeps
<1>3. CASE Resume(t)
  BY <1>3, ResumeKeeps
<1>4. CASE Clear(t)
  BY <1>4, ClearKeeps
<1>5. CASE Interrupt(t)
  BY <1>5, InterruptKeeps
<1>6. CASE Compact(t)
  BY <1>6, CompactKeeps
<1>7. CASE Leave(t)
  BY <1>7, LeaveKeeps
<1>8. CASE NoSuchApproval(t)
  BY <1>8, NoSuchApprovalKeeps
<1>9. CASE Approve(t)
  BY <1>9, ApproveKeeps
<1>10. CASE Reject(t)
  BY <1>10, RejectKeeps
<1>. QED
  BY <1>1, <1>2, <1>3, <1>4, <1>5, <1>6, <1>7, <1>8, <1>9, <1>10 DEF Submission

LEMMA StutterKeeps ==
  ASSUME IInv, UNCHANGED vars
  PROVE  IInv'
<1>1. ThreadTypes' /\ StackTypes' /\ RestTypes'
  BY DEF vars, IInv, ThreadTypes, StackTypes, RestTypes
<1>2. RowsFit' /\ LoopFits'
  BY DEF vars, IInv, RowsFit, RowFits, LoopFits, Working
<1>. QED
  BY <1>1, <1>2 DEF IInv

LEMMA NextKeeps == IInv /\ [Next]_vars => IInv'
<1>. SUFFICES ASSUME IInv, [Next]_vars PROVE IInv'
  OBVIOUS
<1>1. CASE Token
  BY <1>1, TokenKeeps
<1>2. CASE TokenChecked
  BY <1>2, TokenCheckedKeeps
<1>3. CASE Input
  BY <1>3, InputKeeps
<1>4. CASE AutoCompact
  BY <1>4, AutoCompactKeeps
<1>5. CASE Begin
  BY <1>5, BeginKeeps
<1>6. CASE Fail
  BY <1>6, FailKeeps
<1>7. CASE Words
  BY <1>7, WordsKeeps
<1>8. CASE Calls
  BY <1>8, CallsKeeps
<1>9. CASE RunCall
  BY <1>9, RunCallKeeps
<1>10. CASE CallAsksToken
  BY <1>10, CallAsksTokenKeeps
<1>11. CASE CallAsksApproval
  BY <1>11, CallAsksApprovalKeeps
<1>12. CASE RunApproved
  BY <1>12, RunApprovedKeeps
<1>13. CASE \E t \in Threads : Submission(t)
  BY <1>13, SubmissionKeeps
<1>14. CASE WebNewThread
  BY <1>14, WebNewThreadKeeps
<1>15. CASE CancelAuth
  BY <1>15, CancelAuthKeeps
<1>16. CASE \E t \in Threads : Receive(t)
  BY <1>16, ReceiveKeeps
<1>17. CASE UNCHANGED vars
  BY <1>17, StutterKeeps
<1>. QED
  BY <1>1, <1>2, <1>3, <1>4, <1>5, <1>6, <1>7, <1>8, <1>9, <1>10, <1>11, <1>12,
     <1>13, <1>14, <1>15, <1>16, <1>17 DEF Next, Work

LEMMA AlwaysIInv == Spec => []IInv
  BY InitHolds, NextKeeps, PTL DEF Spec

\* The variables keep their types, and undo and redo stack together never hold
\* more than max_checkpoints (push_undo drops the oldest)
THEOREM TypeCorrect == Spec => []TypeOK
<1>1. IInv => TypeOK
  BY DEF IInv, ThreadTypes, StackTypes, RestTypes, TypeOK
<1>. QED
  BY <1>1, AlwaysIInv, PTL

\* No message leaves a thread in a state process_user_input refuses for ever
THEOREM NoneMute == Spec => []ThreadsAnswerable
<1>1. IInv => ThreadsAnswerable
  BY DEF IInv, RowsFit, RowFits, LoopFits, Working, ThreadsAnswerable
<1>. QED
  BY <1>1, AlwaysIInv, PTL

\* The request an approval can settle is of the turn the thread ends with
\* (await_approval, restore_from_messages, compact)
THEOREM ApprovalsCurrent == Spec => []ApprovalIsCurrent
<1>1. IInv => ApprovalIsCurrent
  BY DEF IInv, RowsFit, RowFits, ApprovalIsCurrent
<1>. QED
  BY <1>1, AlwaysIInv, PTL

\* A thread in auth mode neither works nor waits for approval (handle_message,
\* run_agentic_loop)
THEOREM OneQuestionAtATime == Spec => []OneQuestion
<1>1. IInv => OneQuestion
  BY DEF IInv, RowsFit, RowFits, OneQuestion
<1>. QED
  BY <1>1, AlwaysIInv, PTL

-----------------------------------------------------------------------------
(* Answers to approvals *)

\* An answer that starts a thread's work names its request or was typed into it
CrossesNot ==
  \A u \in Threads :
    thread[u].state = "awaiting" /\ thread'[u].state = "processing" =>
      loop.at = u \/ loop'.named = thread[u].pending.req

\* Only the thread the loop works on is "processing" after a step
LEMMA WorkedOn ==
  ASSUME IInv', NEW u \in Threads, thread'[u].state = "processing"
  PROVE  loop'.phase \in {"approved", "model", "tools"} /\ loop'.on = u
  BY DEF IInv, LoopFits, Working

LEMMA ApproveCrossesNot ==
  ASSUME IInv, IInv', NEW t \in Threads, Approve(t)
  PROVE  CrossesNot
<1>1. PICK req \in Answers, v \in Threads :
        /\ ResolveApproval(t, req) = {v}
        /\ loop' = [loop EXCEPT !.phase = "approved", !.on = v, !.named = req]
  BY DEF Approve
<1>2. loop'.on = v /\ loop'.named = req /\ loop.at = t
  BY <1>1 DEF Approve, Command, IInv, RestTypes, Message
<1>3. v = t \/ (req # NoRequest /\ Holds(v, req))
  <2>1. v \in ResolveApproval(t, req)
    BY <1>1
  <2>. QED
    BY <2>1 DEF ResolveApproval
<1>4. v = loop.at \/ loop'.named = thread[v].pending.req
  BY <1>2, <1>3 DEF Holds
<1>. QED
  BY <1>2, <1>4, WorkedOn DEF CrossesNot

LEMMA NextCrossesNot ==
  ASSUME IInv, IInv', [Next]_vars
  PROVE  CrossesNot
<1>1. CASE UNCHANGED thread
  BY <1>1 DEF CrossesNot
<1>2. CASE loop'.phase \notin {"approved", "model", "tools"}
  BY <1>2, WorkedOn DEF CrossesNot
<1>3. CASE Working /\ loop'.on = loop.on
  <2>1. thread[loop.on].state = "processing"
    BY <1>3 DEF IInv, LoopFits
  <2>. QED
    BY <1>3, <2>1, WorkedOn DEF CrossesNot
<1>4. CASE Begin
  <2>1. loop'.on = loop.at
    BY <1>4 DEF Begin, Continue, IInv, RestTypes, Message
  <2>2. thread[loop.at].state # "awaiting"
    BY <1>4 DEF Begin, IInv, LoopFits
  <2>. QED
    BY <2>1, <2>2, WorkedOn DEF CrossesNot
<1>5. CASE \E t \in Threads : Approve(t)
  BY <1>5, ApproveCrossesNot
<1>6. CASE Done
  BY <1>2, <1>6 DEF Done, NoMessage
<1>7. CASE Token \/ AutoCompact
  <2>1. loop'.phase \in {"token", "compacted"}
    BY <1>7 DEF Token, AutoCompact, IInv, RestTypes, Message
  <2>. QED
    BY <1>2, <2>1
<1>8. CASE TokenChecked \/ Input \/ Fail \/ CallAsksToken \/ CallAsksApproval
  BY <1>1, <1>6, <1>8 DEF TokenChecked, Input, Fail, CallAsksToken, CallAsksApproval, End
<1>9. CASE Words \/ Calls \/ RunCall
  BY <1>1, <1>6, <1>9 DEF Words, Calls, RunCall, End
<1>10. CASE RunApproved
  BY <1>1, <1>6, <1>10 DEF RunApproved, End
<1>11. CASE \E t \in Threads : Submission(t)
  BY <1>5, <1>6, <1>11 DEF Submission, Undo, Redo, Resume, Clear, Interrupt, Compact,
     Leave, NoSuchApproval, Reject
<1>12. CASE CancelAuth
  <2>1. loop' = loop
    BY <1>12 DEF CancelAuth
  <2>. QED
    BY <1>2, <1>3, <2>1 DEF Working
<1>13. CASE WebNewThread \/ (\E t \in Threads : Receive(t)) \/ UNCHANGED vars
  BY <1>1, <1>13 DEF WebNewThread, Receive, vars
<1>. QED
  BY <1>4, <1>7, <1>8, <1>9, <1>10, <1>11, <1>12, <1>13 DEF Next, Work

\* A bare yes or no settles only a request of the thread it was typed into; in
\* any other thread the request must be named (resolve_approval_thread)
THEOREM NoCrossAnswers == Spec => NoCrossAnswer
<1>1. IInv /\ IInv' /\ [Next]_vars => CrossesNot
  BY NextCrossesNot
<1>2. CrossesNot => [\A u \in Threads :
       thread[u].state = "awaiting" /\ thread'[u].state = "processing" =>
         \/ loop.at = u
         \/ loop'.named = thread[u].pending.req]_vars
  BY DEF CrossesNot
<1>. QED
  BY <1>1, <1>2, AlwaysIInv, PTL DEF Spec, NoCrossAnswer

-----------------------------------------------------------------------------
(* Undo and redo as a line with a cursor *)

\* The line of a thread with p behind it, turns now and f taken back
LineOf(p, turns, f) ==
  [i \in 1..(Len(p) + 1 + Len(f)) |->
     IF i <= Len(p) THEN p[i]
     ELSE IF i = Len(p) + 1 THEN turns
     ELSE f[Len(p) + 2 + Len(f) - i]]
State == Seq(Turn)   \* of a conversation
Lines == [t \in Threads |-> LineOf(past[t], thread[t].turns, future[t])]
At == [t \in Threads |-> Len(past[t]) + 1]

\* What is where on it
IsLine(l, p, x, f) ==
  /\ l \in Seq(State)
  /\ Len(l) = Len(p) + 1 + Len(f)
  /\ Len(p) \in Nat /\ Len(f) \in Nat
  /\ \A i \in 1..Len(p) : l[i] = p[i]
  /\ l[Len(p) + 1] = x
  /\ \A i \in (Len(p) + 2)..(Len(p) + 1 + Len(f)) : l[i] = f[Len(p) + 2 + Len(f) - i]

LEMMA LineProperties ==
  ASSUME NEW p \in Seq(State), NEW f \in Seq(State), NEW x \in State
  PROVE  IsLine(LineOf(p, x, f), p, x, f)
<1>. DEFINE n == Len(p) + 1 + Len(f)
            l == LineOf(p, x, f)
<1>1. /\ Len(p) \in Nat /\ Len(f) \in Nat /\ n \in Nat
      /\ \A i \in 1..Len(p) : p[i] \in State
      /\ \A i \in 1..Len(f) : f[i] \in State
  BY LenProperties, ElementOfSeq
<1>2. ASSUME NEW i \in 1..n
      PROVE  /\ l[i] = IF i <= Len(p) THEN p[i]
                       ELSE IF i = Len(p) + 1 THEN x ELSE f[Len(p) + 2 + Len(f) - i]
             /\ l[i] \in State
  <2>1. l[i] = IF i <= Len(p) THEN p[i]
               ELSE IF i = Len(p) + 1 THEN x ELSE f[Len(p) + 2 + Len(f) - i]
    BY DEF LineOf
  <2>2. CASE i <= Len(p)
    BY <1>1, <2>1, <2>2
  <2>3. CASE i = Len(p) + 1
    BY <1>1, <2>1, <2>3
  <2>4. CASE i > Len(p) + 1
    <3>1. Len(p) + 2 + Len(f) - i \in 1..Len(f) /\ ~(i <= Len(p)) /\ i # Len(p) + 1
      BY <1>1, <2>4
    <3>2. f[Len(p) + 2 + Len(f) - i] \in State
      BY <1>1, <3>1
    <3>3. l[i] = f[Len(p) + 2 + Len(f) - i]
      BY <2>1, <3>1
    <3>. QED
      BY <2>1, <3>2, <3>3
  <2>5. i <= Len(p) \/ i = Len(p) + 1 \/ i > Len(p) + 1
    BY <1>1
  <2>. QED
    BY <2>2, <2>3, <2>4, <2>5, Zenon
<1>3. l \in [1..n -> State]
  BY <1>2 DEF LineOf
<1>. HIDE DEF l
<1>4. l \in Seq(State)
  BY <1>1, <1>3, SeqDef
<1>5. Len(l) = n
  <2>1. Len(l) \in Nat /\ DOMAIN l = 1..Len(l)
    BY <1>4, LenProperties
  <2>2. 1..Len(l) = 1..n
    BY <1>3, <2>1
  <2>. HIDE DEF n
  <2>3. n \in Nat /\ n # 0
    BY <1>1 DEF n
  <2>4. n \in 1..Len(l)
    <3>1. n \in 1..n
      BY <2>3
    <3>. QED
      BY <2>2, <3>1
  <2>5. Len(l) \in 1..n
    <3>1. Len(l) \in 1..Len(l)
      BY <2>1, <2>4
    <3>. QED
      BY <2>2, <3>1
  <2>6. \A a, b \in Nat : a \in 1..b /\ b \in 1..a => a = b
    OBVIOUS
  <2>7. Len(l) = n
    BY <2>1, <2>3, <2>4, <2>5, <2>6, Zenon
  <2>. QED
    BY <2>7 DEF n
<1>6. ASSUME NEW i \in 1..Len(p) PROVE l[i] = p[i]
  BY <1>1, <1>2
<1>7. l[Len(p) + 1] = x
  BY <1>1, <1>2
<1>8. ASSUME NEW i \in (Len(p) + 2)..(Len(p) + 1 + Len(f))
      PROVE  l[i] = f[Len(p) + 2 + Len(f) - i]
  BY <1>1, <1>2
<1>. QED
  BY <1>1, <1>4, <1>5, <1>6, <1>7, <1>8 DEF l, IsLine

\* Talking changes what is under the cursor
LEMMA LineRewritten ==
  ASSUME NEW p \in Seq(State), NEW f \in Seq(State), NEW x \in State, NEW y \in State
  PROVE  /\ Len(LineOf(p, y, f)) = Len(LineOf(p, x, f))
         /\ \A i \in DOMAIN LineOf(p, x, f) :
              i # Len(p) + 1 => LineOf(p, y, f)[i] = LineOf(p, x, f)[i]
<1>1. Len(LineOf(p, y, f)) = Len(LineOf(p, x, f))
  <2>. DEFINE l == LineOf(p, x, f)
              m == LineOf(p, y, f)
  <2>1. IsLine(l, p, x, f) /\ IsLine(m, p, y, f)
    BY LineProperties
  <2>. HIDE DEF l, m
  <2>2. Len(m) = Len(l)
    BY <2>1 DEF IsLine
  <2>. QED
    BY <2>2 DEF l, m
<1>2. ASSUME NEW i \in DOMAIN LineOf(p, x, f), i # Len(p) + 1
      PROVE  LineOf(p, y, f)[i] = LineOf(p, x, f)[i]
  BY <1>2 DEF LineOf
<1>. QED
  BY <1>1, <1>2

\* The last of p becomes the present, the present the first to redo
LEMMA LineSteppedBack ==
  ASSUME NEW p \in Seq(State), NEW f \in Seq(State), NEW x \in State, p # << >>
  PROVE  LineOf(AllButLast(p), Last(p), Append(f, x)) = LineOf(p, x, f)
<1>. DEFINE q == AllButLast(p)
            g == Append(f, x)
<1>1. /\ Len(p) \in Nat \ {0} /\ q \in Seq(State) /\ Len(q) = Len(p) - 1
      /\ \A i \in 1..(Len(p) - 1) : q[i] = p[i]
      /\ Last(p) \in State
  BY FrontAndLast
<1>2. /\ g \in Seq(State) /\ Len(g) = Len(f) + 1 /\ Len(f) \in Nat
      /\ \A i \in 1..Len(f) : g[i] = f[i]
      /\ g[Len(f) + 1] = x
  BY AppendProperties, LenProperties
<1>. HIDE DEF q, g
<1>3. Len(q) + 1 + Len(g) = Len(p) + 1 + Len(f)
  BY <1>1, <1>2
<1>. DEFINE l == LineOf(p, x, f)
            m == LineOf(q, Last(p), g)
<1>a. IsLine(l, p, x, f)
  BY LineProperties
<1>b. IsLine(m, q, Last(p), g)
  BY <1>1, <1>2, LineProperties, Zenon
<1>. HIDE DEF l, m
<1>4. ASSUME NEW i \in 1..(Len(p) + 1 + Len(f))
      PROVE  m[i] = l[i]
  <2>1. CASE i < Len(p)
    <3>1. i \in 1..Len(q) /\ i \in 1..Len(p) /\ i \in 1..(Len(p) - 1)
      BY <1>1, <2>1
    <3>2. m[i] = q[i]
      BY <1>1, <1>2, <3>1, <1>a, <1>b DEF IsLine
    <3>3. l[i] = p[i]
      BY <3>1, <1>a, <1>b DEF IsLine
    <3>. QED
      BY <1>1, <3>1, <3>2, <3>3
  <2>2. CASE i = Len(p)
    <3>1. i = Len(q) + 1 /\ i \in 1..Len(p)
      BY <1>1, <2>2
    <3>2. m[i] = Last(p)
      BY <1>1, <1>2, <3>1, <1>a, <1>b DEF IsLine
    <3>3. l[i] = p[i]
      BY <3>1, <1>a, <1>b DEF IsLine
    <3>. QED
      BY <2>2, <3>2, <3>3 DEF Last
  <2>3. CASE i = Len(p) + 1
    <3>1. /\ i \in (Len(q) + 2)..(Len(q) + 1 + Len(g))
          /\ Len(q) + 2 + Len(g) - i = Len(f) + 1
      BY <1>1, <1>2, <2>3
    <3>2. m[i] = g[Len(q) + 2 + Len(g) - i]
      BY <1>1, <1>2, <3>1, <1>a, <1>b DEF IsLine
    <3>3. l[i] = x
      BY <2>3, <1>a, <1>b DEF IsLine
    <3>. QED
      BY <1>2, <3>1, <3>2, <3>3
  <2>4. CASE i > Len(p) + 1
    <3>1. /\ i \in (Len(q) + 2)..(Len(q) + 1 + Len(g))
          /\ i \in (Len(p) + 2)..(Len(p) + 1 + Len(f))
          /\ Len(q) + 2 + Len(g) - i = Len(p) + 2 + Len(f) - i
          /\ Len(p) + 2 + Len(f) - i \in 1..Len(f)
      BY <1>1, <1>2, <2>4
    <3>2. m[i] = g[Len(q) + 2 + Len(g) - i]
      BY <1>1, <1>2, <3>1, <1>a, <1>b DEF IsLine
    <3>3. l[i] = f[Len(p) + 2 + Len(f) - i]
      BY <3>1, <1>a, <1>b DEF IsLine
    <3>. QED
      BY <1>2, <3>1, <3>2, <3>3
  <2>5. i < Len(p) \/ i = Len(p) \/ i = Len(p) + 1 \/ i > Len(p) + 1
    BY <1>1, <1>2
  <2>. QED
    BY <2>1, <2>2, <2>3, <2>4, <2>5, Zenon
<1>5. /\ m \in Seq(State) /\ l \in Seq(State)
      /\ Len(m) = Len(l)
      /\ Len(m) = Len(p) + 1 + Len(f)
  BY <1>1, <1>2, <1>3, <1>a, <1>b DEF IsLine
<1>6. m = l
  BY <1>4, <1>5, SeqEqual
<1>. QED
  BY <1>6 DEF q, g, l, m

\* Redo is undo from where it leads to: q is p with the present on top
LEMMA LineSteppedForward ==
  ASSUME NEW p \in Seq(State), NEW f \in Seq(State), NEW x \in State, f # << >>,
         NEW q \in Seq(State), Len(q) = Len(p) + 1,
         \A i \in 1..Len(p) : q[i] = p[i], q[Len(p) + 1] = x
  PROVE  LineOf(q, Last(f), AllButLast(f)) = LineOf(p, x, f)
<1>. DEFINE g == AllButLast(f)
<1>1. /\ Len(f) \in Nat \ {0} /\ g \in Seq(State) /\ Len(g) = Len(f) - 1
      /\ \A i \in 1..(Len(f) - 1) : g[i] = f[i]
      /\ Last(f) \in State
  BY FrontAndLast
<1>2. Len(p) \in Nat
  BY LenProperties
<1>. HIDE DEF g
<1>3. Len(q) + 1 + Len(g) = Len(p) + 1 + Len(f)
  BY <1>1, <1>2
<1>. DEFINE l == LineOf(p, x, f)
            m == LineOf(q, Last(f), g)
<1>a. IsLine(l, p, x, f)
  BY LineProperties
<1>b. IsLine(m, q, Last(f), g)
  BY <1>1, LineProperties, Zenon
<1>. HIDE DEF l, m
<1>4. ASSUME NEW i \in 1..(Len(p) + 1 + Len(f))
      PROVE  m[i] = l[i]
  <2>1. CASE i <= Len(p)
    <3>1. i \in 1..Len(q) /\ i \in 1..Len(p)
      BY <1>2, <2>1
    <3>2. m[i] = q[i]
      BY <1>1, <3>1, <1>a, <1>b DEF IsLine
    <3>3. l[i] = p[i]
      BY <3>1, <1>a, <1>b DEF IsLine
    <3>. QED
      BY <3>1, <3>2, <3>3
  <2>2. CASE i = Len(p) + 1
    <3>1. i \in 1..Len(q)
      BY <1>2, <2>2
    <3>2. m[i] = q[i]
      BY <1>1, <3>1, <1>a, <1>b DEF IsLine
    <3>3. l[i] = x
      BY <2>2, <1>a, <1>b DEF IsLine
    <3>. QED
      BY <2>2, <3>2, <3>3
  <2>3. CASE i = Len(p) + 2
    <3>1. /\ i = Len(q) + 1
          /\ i \in (Len(p) + 2)..(Len(p) + 1 + Len(f))
          /\ Len(p) + 2 + Len(f) - i = Len(f)
      BY <1>1, <1>2, <2>3
    <3>2. m[i] = Last(f)
      BY <1>1, <3>1, <1>a, <1>b DEF IsLine
    <3>3. l[i] = f[Len(p) + 2 + Len(f) - i]
      BY <3>1, <1>a, <1>b DEF IsLine
    <3>. QED
      BY <3>1, <3>2, <3>3 DEF Last
  <2>4. CASE i > Len(p) + 2
    <3>1. /\ i \in (Len(q) + 2)..(Len(q) + 1 + Len(g))
          /\ i \in (Len(p) + 2)..(Len(p) + 1 + Len(f))
          /\ Len(q) + 2 + Len(g) - i = Len(p) + 2 + Len(f) - i
          /\ Len(p) + 2 + Len(f) - i \in 1..(Len(f) - 1)
      BY <1>1, <1>2, <2>4
    <3>2. m[i] = g[Len(q) + 2 + Len(g) - i]
      BY <1>1, <3>1, <1>a, <1>b DEF IsLine
    <3>3. l[i] = f[Len(p) + 2 + Len(f) - i]
      BY <3>1, <1>a, <1>b DEF IsLine
    <3>. QED
      BY <1>1, <3>1, <3>2, <3>3
  <2>5. i <= Len(p) \/ i = Len(p) + 1 \/ i = Len(p) + 2 \/ i > Len(p) + 2
    BY <1>1, <1>2
  <2>. QED
    BY <2>1, <2>2, <2>3, <2>4, <2>5, Zenon
<1>5. /\ m \in Seq(State) /\ l \in Seq(State)
      /\ Len(m) = Len(l)
      /\ Len(m) = Len(p) + 1 + Len(f)
  BY <1>1, <1>3, <1>a, <1>b DEF IsLine
<1>6. m = l
  BY <1>4, <1>5, SeqEqual
<1>. QED
  BY <1>6 DEF g, l, m

\* A new turn: what fits of the past and the present stays behind
LEMMA LineBranched ==
  ASSUME NEW p \in Seq(State), NEW f \in Seq(State),
         NEW x \in State, NEW y \in State
  PROVE  LET q == PushUndo(p, x)
             l == LineOf(p, x, f)
             m == LineOf(q, y, << >>)
             kept == IF Len(p) + 1 > MaxCheckpoints THEN MaxCheckpoints ELSE Len(p) + 1
         IN /\ Len(m) = kept + 1 /\ Len(q) + 1 = kept + 1
            /\ \A i \in 1..kept : m[i] = l[Len(p) + 1 - kept + i]
<1>. DEFINE q == PushUndo(p, x)
            l == LineOf(p, x, f)
            m == LineOf(q, y, << >>)
            kept == IF Len(p) + 1 > MaxCheckpoints THEN MaxCheckpoints ELSE Len(p) + 1
<1>1. /\ q \in Seq(State) /\ Len(q) = kept
      /\ \A i \in 1..Len(q) :
           q[i] = IF i < Len(q) THEN p[Len(p) + 1 - Len(q) + i] ELSE x
  BY PushedUndo DEF State
<1>2. Len(p) \in Nat /\ MaxCheckpoints \in Nat
  BY LenProperties, TalkAssumption
<1>3. kept \in Nat /\ kept <= Len(p) + 1
  BY <1>2
<1>a. << >> \in Seq(State) /\ Len(<< >>) = 0
  BY EmptySeq
<1>b. IsLine(l, p, x, f)
  BY LineProperties
<1>c. IsLine(m, q, y, << >>)
  BY <1>1, <1>a, LineProperties
<1>. HIDE DEF q, kept, l, m
<1>4. /\ Len(m) = kept + 1
      /\ \A i \in 1..kept : m[i] = q[i]
  BY <1>1, <1>3, <1>a, <1>c DEF IsLine
<1>5. ASSUME NEW i \in 1..kept PROVE m[i] = l[Len(p) + 1 - kept + i]
  <2>1. m[i] = IF i < kept THEN p[Len(p) + 1 - kept + i] ELSE x
    BY <1>1, <1>4
  <2>2. CASE i < kept
    <3>1. Len(p) + 1 - kept + i \in 1..Len(p)
      BY <1>2, <1>3, <2>2
    <3>2. l[Len(p) + 1 - kept + i] = p[Len(p) + 1 - kept + i]
      BY <3>1, <1>b DEF IsLine
    <3>. QED
      BY <2>1, <2>2, <3>2
  <2>3. CASE i = kept
    <3>1. Len(p) + 1 - kept + i = Len(p) + 1
      BY <1>2, <1>3, <2>3
    <3>2. l[Len(p) + 1] = x
      BY <1>b DEF IsLine
    <3>3. ~(i < kept)
      BY <1>3, <2>3
    <3>. QED
      BY <2>1, <3>1, <3>2, <3>3
  <2>. QED
    BY <1>3, <2>2, <2>3
<1>. QED
  BY <1>1, <1>4, <1>5 DEF q, kept, l, m

\* Back to a checkpoint: the line ends there
LEMMA LineReturned ==
  ASSUME NEW p \in Seq(State), NEW f \in Seq(State), NEW x \in State,
         NEW k \in 1..Len(p), NEW q \in Seq(State), Len(q) = k - 1,
         \A i \in 1..(k - 1) : q[i] = p[i]
  PROVE  /\ Len(LineOf(q, p[k], << >>)) = k
         /\ \A i \in 1..k : LineOf(q, p[k], << >>)[i] = LineOf(p, x, f)[i]
<1>1. << >> \in Seq(State) /\ Len(<< >>) = 0 /\ Len(p) \in Nat /\ p[k] \in State
  BY EmptySeq, LenProperties, ElementOfSeq
<1>. DEFINE m == LineOf(q, p[k], << >>)
<1>a. IsLine(m, q, p[k], << >>) /\ IsLine(LineOf(p, x, f), p, x, f)
  BY <1>1, LineProperties
<1>. HIDE DEF m
<1>2. /\ Len(m) = Len(q) + 1 + Len(<< >>)
      /\ \A i \in 1..Len(q) : m[i] = q[i]
      /\ m[Len(q) + 1] = p[k]
  BY <1>a DEF IsLine
<1>3. \A i \in 1..Len(p) : LineOf(p, x, f)[i] = p[i]
  BY <1>a DEF IsLine
<1>. HIDE DEF m
<1>4. Len(m) = k
  BY <1>1, <1>2
<1>5. ASSUME NEW i \in 1..k PROVE m[i] = LineOf(p, x, f)[i]
  <2>1. CASE i < k
    <3>1. i \in 1..Len(q) /\ i \in 1..(k - 1) /\ i \in 1..Len(p)
      BY <1>1, <2>1
    <3>. QED
      BY <1>2, <1>3, <3>1
  <2>2. CASE i = k
    <3>1. i = Len(q) + 1 /\ i \in 1..Len(p)
      BY <1>1, <2>2
    <3>. QED
      BY <1>2, <1>3, <2>2, <3>1
  <2>. QED
    BY <2>1, <2>2
<1>. QED
  BY <1>4, <1>5 DEF m

\* Nothing behind, nothing ahead, nothing said
LEMMA LineForgotten == LineOf(<< >>, << >>, << >>) = << << >> >>
<1>1. << >> \in State /\ << >> \in Seq(State) /\ Len(<< >>) = 0
  BY EmptySeq DEF State
<1>. DEFINE l == LineOf(<< >>, << >>, << >>)
<1>2. l \in Seq(State) /\ Len(l) = 1 /\ l[1] = << >>
  <2>1. /\ l \in Seq(State) /\ Len(l) = Len(<< >>) + 1 + Len(<< >>)
        /\ l[Len(<< >>) + 1] = << >>
    BY <1>1, LineProperties DEF IsLine
  <2>. QED
    BY <1>1, <2>1
<1>. HIDE DEF l
<1>3. << << >> >> \in Seq(State) /\ Len(<< << >> >>) = 1 /\ << << >> >>[1] = << >>
  BY <1>1
<1>4. \A i \in 1..Len(l) : l[i] = << << >> >>[i]
  BY <1>2, <1>3
<1>5. l = << << >> >>
  BY <1>2, <1>3, <1>4, SeqEqual
<1>. QED
  BY <1>5 DEF l

\* A step that moves one thread's line
LEMMA OneMoves ==
  ASSUME NEW t \in Threads,
         \A u \in Threads : u # t => Lines'[u] = Lines[u] /\ At'[u] = At[u],
         \/ /\ At'[t] = At[t]
            /\ Len(Lines'[t]) = Len(Lines[t])
            /\ \A i \in DOMAIN Lines[t] : i # At[t] => Lines'[t][i] = Lines[t][i]
         \/ LET kept == IF At[t] > MaxCheckpoints THEN MaxCheckpoints ELSE At[t]
            IN /\ Len(Lines'[t]) = kept + 1
               /\ At'[t] = kept + 1
               /\ \A i \in 1..kept : Lines'[t][i] = Lines[t][At[t] - kept + i]
         \/ At[t] > 1 /\ At'[t] = At[t] - 1 /\ Lines'[t] = Lines[t]
         \/ At[t] < Len(Lines[t]) /\ At'[t] = At[t] + 1 /\ Lines'[t] = Lines[t]
         \/ /\ At'[t] \in 1..(At[t] - 1)
            /\ Len(Lines'[t]) = At'[t]
            /\ \A i \in 1..At'[t] : Lines'[t][i] = Lines[t][i]
         \/ Lines'[t] = << << >> >> /\ At'[t] = 1
  PROVE  TL!Next
<1>1. TL!Move(t)
  BY Zenon DEF TL!Move, TL!Rewrite, TL!Branch, TL!Back, TL!Forward, TL!Return, TL!Forget,
     Lines, LineOf, At
<1>2. \A u \in Threads \ {t} :
        /\ [s \in Threads |->
             [i \in 1..(Len(past[s]) + 1 + Len(future[s])) |->
                IF i <= Len(past[s]) THEN past[s][i]
                ELSE IF i = Len(past[s]) + 1 THEN thread[s].turns
                ELSE future[s][Len(past[s]) + 2 + Len(future[s]) - i]]]'[u]
           = [s \in Threads |->
             [i \in 1..(Len(past[s]) + 1 + Len(future[s])) |->
                IF i <= Len(past[s]) THEN past[s][i]
                ELSE IF i = Len(past[s]) + 1 THEN thread[s].turns
                ELSE future[s][Len(past[s]) + 2 + Len(future[s]) - i]]][u]
        /\ [s \in Threads |-> Len(past[s]) + 1]'[u] = [s \in Threads |-> Len(past[s]) + 1][u]
  BY Zenon DEF Lines, LineOf, At
<1>. QED
  BY <1>1, <1>2, Zenon DEF TL!Next

\* What a step does to the lines
LEMMA LinesMoved ==
  ASSUME IInv, IInv', NEW t \in Threads,
         \A u \in Threads : u # t => /\ past'[u] = past[u] /\ future'[u] = future[u]
                                     /\ thread'[u].turns = thread[u].turns
  PROVE  /\ \A u \in Threads : u # t => Lines'[u] = Lines[u] /\ At'[u] = At[u]
         /\ Lines[t] = LineOf(past[t], thread[t].turns, future[t])
         /\ Lines'[t] = LineOf(past'[t], thread'[t].turns, future'[t])
         /\ At[t] = Len(past[t]) + 1 /\ At'[t] = Len(past'[t]) + 1
         /\ past[t] \in Seq(State) /\ past'[t] \in Seq(State)
         /\ future[t] \in Seq(State) /\ future'[t] \in Seq(State)
         /\ thread[t].turns \in State /\ thread'[t].turns \in State
<1>1. /\ past \in [Threads -> Seq(State)] /\ past' \in [Threads -> Seq(State)]
      /\ future \in [Threads -> Seq(State)] /\ future' \in [Threads -> Seq(State)]
  BY DEF IInv, StackTypes, State
<1>2. thread[t] \in Thread /\ thread'[t] \in Thread
  BY DEF IInv, ThreadTypes
<1>3. thread[t].turns \in State /\ thread'[t].turns \in State
  BY <1>2 DEF Thread, State
<1>4. ASSUME NEW u \in Threads
      PROVE  /\ Lines[u] = LineOf(past[u], thread[u].turns, future[u])
             /\ Lines'[u] = LineOf(past'[u], thread'[u].turns, future'[u])
             /\ At[u] = Len(past[u]) + 1 /\ At'[u] = Len(past'[u]) + 1
  BY DEF Lines, At
<1>5. ASSUME NEW u \in Threads, u # t
      PROVE  Lines'[u] = Lines[u] /\ At'[u] = At[u]
  BY <1>4, <1>5
<1>. QED
  BY <1>1, <1>3, <1>4, <1>5

\* Only what one thread says now
LEMMA PutRewrites ==
  ASSUME IInv, IInv', NEW t \in Threads, NEW r, Put(t, r), UNCHANGED undoing
  PROVE  TL!Next
<1>1. \A u \in Threads : u # t => thread'[u] = thread[u]
  BY DEF Put, IInv, ThreadTypes
<1>2. past' = past /\ future' = future
  BY DEF undoing
<1>3. \A u \in Threads : u # t => /\ past'[u] = past[u] /\ future'[u] = future[u]
                                  /\ thread'[u].turns = thread[u].turns
  BY <1>1, <1>2
<1>. DEFINE x == thread[t].turns
            y == thread'[t].turns
<1>4. /\ \A u \in Threads : u # t => Lines'[u] = Lines[u] /\ At'[u] = At[u]
      /\ Lines[t] = LineOf(past[t], x, future[t])
      /\ Lines'[t] = LineOf(past[t], y, future[t])
      /\ At[t] = Len(past[t]) + 1 /\ At'[t] = Len(past[t]) + 1
      /\ past[t] \in Seq(State) /\ future[t] \in Seq(State)
      /\ x \in State /\ y \in State
  BY <1>2, <1>3, LinesMoved
<1>. HIDE DEF x, y
<1>5. /\ At'[t] = At[t]
      /\ Len(Lines'[t]) = Len(Lines[t])
      /\ \A i \in DOMAIN Lines[t] : i # At[t] => Lines'[t][i] = Lines[t][i]
  BY <1>4, LineRewritten
<1>. QED
  BY <1>4, <1>5, OneMoves

\* No thread says anything else, no stack is touched
LEMMA NothingSaid ==
  ASSUME IInv, IInv', UNCHANGED undoing,
         \A u \in Threads : thread'[u].turns = thread[u].turns
  PROVE  UNCHANGED TL!tvars
<1>1. past' = past /\ future' = future
  BY DEF undoing
<1>2. Lines' = Lines /\ At' = At
  BY <1>1 DEF Lines, At
<1>. QED
  BY <1>2, Zenon DEF TL!tvars, Lines, LineOf, At

\* A step on the stacks and the row of one thread
Step(t, r, p, f) ==
  /\ Put(t, r)
  /\ past' = [past EXCEPT ![t] = p]
  /\ future' = [future EXCEPT ![t] = f]
Moves(t, r, p, f) ==
  /\ \A u \in Threads : u # t => Lines'[u] = Lines[u] /\ At'[u] = At[u]
  /\ Lines[t] = LineOf(past[t], thread[t].turns, future[t])
  /\ Lines'[t] = LineOf(p, r.turns, f)
  /\ At[t] = Len(past[t]) + 1 /\ At'[t] = Len(p) + 1
  /\ past[t] \in Seq(State) /\ future[t] \in Seq(State)
  /\ p \in Seq(State) /\ f \in Seq(State)
  /\ thread[t].turns \in State /\ r.turns \in State
  /\ Len(past[t]) \in Nat /\ Len(p) \in Nat

LEMMA StepMoves ==
  ASSUME IInv, IInv', NEW t \in Threads, NEW r, NEW p, NEW f, Step(t, r, p, f)
  PROVE  Moves(t, r, p, f)
<1>1. thread'[t] = r /\ \A u \in Threads : u # t => thread'[u] = thread[u]
  BY DEF Step, Put, IInv, ThreadTypes
<1>2. /\ past'[t] = p /\ future'[t] = f
      /\ \A u \in Threads : u # t => past'[u] = past[u] /\ future'[u] = future[u]
  BY DEF Step, IInv, StackTypes
<1>3. \A u \in Threads : u # t => /\ past'[u] = past[u] /\ future'[u] = future[u]
                                  /\ thread'[u].turns = thread[u].turns
  BY <1>1, <1>2
<1>4. /\ \A u \in Threads : u # t => Lines'[u] = Lines[u] /\ At'[u] = At[u]
      /\ Lines[t] = LineOf(past[t], thread[t].turns, future[t])
      /\ Lines'[t] = LineOf(p, r.turns, f)
      /\ At[t] = Len(past[t]) + 1 /\ At'[t] = Len(p) + 1
      /\ past[t] \in Seq(State) /\ future[t] \in Seq(State)
      /\ p \in Seq(State) /\ f \in Seq(State)
      /\ thread[t].turns \in State /\ r.turns \in State
  BY <1>1, <1>2, <1>3, LinesMoved
<1>5. Len(past[t]) \in Nat /\ Len(p) \in Nat
  BY <1>4, LenProperties
<1>. QED
  BY <1>4, <1>5 DEF Moves

LEMMA BeginBranches ==
  ASSUME IInv, IInv', Begin
  PROVE  TL!Next
<1>. DEFINE t == loop.at
            x == thread[t].turns
            turn == [id |-> said + 1, answered |-> FALSE]
            r == [thread[t] EXCEPT !.state = "processing", !.turns = Append(x, turn)]
            q == past[t]
            f == future[t]
            p == PushUndo(q, x)
            kept == IF Len(q) + 1 > MaxCheckpoints THEN MaxCheckpoints ELSE Len(q) + 1
<1>1. t \in Threads /\ Step(t, r, p, << >>)
  BY DEF Begin, IInv, LoopFits, Step
<1>. HIDE DEF t, r, p
<1>2. Moves(t, r, p, << >>)
  BY <1>1, StepMoves
<1>3. /\ q \in Seq(State) /\ f \in Seq(State) /\ x \in State /\ r.turns \in State
      /\ Len(q) \in Nat
  BY <1>2 DEF Moves
<1>4. /\ Len(LineOf(p, r.turns, << >>)) = kept + 1 /\ Len(p) + 1 = kept + 1
      /\ \A i \in 1..kept :
           LineOf(p, r.turns, << >>)[i] = LineOf(q, x, f)[Len(q) + 1 - kept + i]
  <2>. HIDE DEF q, f, x
  <2>. QED
    BY <1>3, LineBranched DEF p
<1>5. kept = (IF At[t] > MaxCheckpoints THEN MaxCheckpoints ELSE At[t]) /\ kept \in Nat
  BY <1>2, <1>3, TalkAssumption DEF Moves
<1>6. /\ Lines[t] = LineOf(q, x, f) /\ Lines'[t] = LineOf(p, r.turns, << >>)
      /\ At[t] = Len(q) + 1 /\ At'[t] = Len(p) + 1
      /\ \A u \in Threads : u # t => Lines'[u] = Lines[u] /\ At'[u] = At[u]
  BY <1>2 DEF Moves
<1>. HIDE DEF q, f, x, kept
<1>7. /\ Len(Lines'[t]) = kept + 1
      /\ At'[t] = kept + 1
      /\ \A i \in 1..kept : Lines'[t][i] = Lines[t][At[t] - kept + i]
  <2>1. Len(Lines'[t]) = kept + 1 /\ At'[t] = kept + 1
    BY <1>4, <1>6, Zenon
  <2>2. ASSUME NEW i \in 1..kept PROVE Lines'[t][i] = Lines[t][At[t] - kept + i]
    <3>1. LineOf(p, r.turns, << >>)[i] = LineOf(q, x, f)[Len(q) + 1 - kept + i]
      BY <1>4, Zenon
    <3>2. Lines'[t] = LineOf(p, r.turns, << >>) /\ Lines[t] = LineOf(q, x, f)
      BY <1>6, Zenon
    <3>3. At[t] = Len(q) + 1
      BY <1>6, Zenon
    <3>4. Lines'[t][i] = LineOf(q, x, f)[Len(q) + 1 - kept + i]
      BY <3>1, <3>2, Zenon
    <3>5. Lines[t][At[t] - kept + i] = LineOf(q, x, f)[At[t] - kept + i]
      BY <3>2, Zenon
    <3>6. At[t] - kept + i = Len(q) + 1 - kept + i
      <4>1. kept \in Nat /\ Len(q) \in Nat /\ i \in Int
        BY <1>3, <1>5
      <4>2. \A a, k, j \in Int : (a + 1) - k + j = a + 1 - k + j
        OBVIOUS
      <4>. QED
        BY <3>3, <4>1, <4>2
    <3>. QED
      BY <3>4, <3>5, <3>6, Zenon
  <2>. QED
    BY <2>1, <2>2, Zenon
<1>8. LET k == IF At[t] > MaxCheckpoints THEN MaxCheckpoints ELSE At[t]
      IN /\ Len(Lines'[t]) = k + 1
         /\ At'[t] = k + 1
         /\ \A i \in 1..k : Lines'[t][i] = Lines[t][At[t] - k + i]
  BY <1>5, <1>7, Zenon
<1>. QED
  BY <1>1, <1>6, <1>8, OneMoves

LEMMA UndoMovesBack ==
  ASSUME IInv, IInv', NEW t \in Threads, Undo(t)
  PROVE  TL!Next
<1>1. CASE past[t] = << >>
  BY <1>1, PutRewrites DEF Undo
<1>2. CASE past[t] # << >>
  <2>. DEFINE x == thread[t].turns
              p == AllButLast(past[t])
              f == Append(future[t], x)
              r == RestoreFrom(Uncalled(t), Last(past[t]))
  <2>1. Step(t, r, p, f)
    BY <1>2 DEF Undo, Step
  <2>2. Command(t) /\ past[t] \in Seq(Seq(Turn))
    BY DEF Undo, IInv, StackTypes
  <2>3. Last(past[t]) \in Seq(Turn) /\ Len(p) = Len(past[t]) - 1 /\ Len(past[t]) \in Nat \ {0}
    BY <1>2, <2>2, FrontAndLast
  <2>4. r.turns = Last(past[t])
    BY <2>2, <2>3, RestoredRow
  <2>. HIDE DEF r
  <2>5. /\ \A u \in Threads : u # t => Lines'[u] = Lines[u] /\ At'[u] = At[u]
        /\ Lines[t] = LineOf(past[t], x, future[t])
        /\ Lines'[t] = LineOf(p, r.turns, f)
        /\ At[t] = Len(past[t]) + 1 /\ At'[t] = Len(p) + 1
        /\ past[t] \in Seq(State) /\ future[t] \in Seq(State) /\ x \in State
    BY <2>1, StepMoves DEF Moves
  <2>6. LineOf(p, Last(past[t]), f) = LineOf(past[t], x, future[t])
    BY <1>2, <2>5, LineSteppedBack
  <2>7. At[t] > 1 /\ At'[t] = At[t] - 1 /\ Lines'[t] = Lines[t]
    <3>1. At[t] > 1 /\ At'[t] = At[t] - 1
      BY <2>3, <2>5
    <3>2. Lines'[t] = Lines[t]
      BY <2>4, <2>5, <2>6, Zenon
    <3>. QED
      BY <3>1, <3>2
  <2>. QED
    BY <2>5, <2>7, OneMoves
<1>. QED
  BY <1>1, <1>2

LEMMA RedoMovesForward ==
  ASSUME IInv, IInv', NEW t \in Threads, Redo(t)
  PROVE  TL!Next
<1>1. CASE future[t] = << >>
  BY <1>1, PutRewrites DEF Redo
<1>2. CASE future[t] # << >>
  <2>. DEFINE x == thread[t].turns
              p == PushUndo(past[t], x)
              f == AllButLast(future[t])
              r == RestoreFrom(Uncalled(t), Last(future[t]))
  <2>1. Step(t, r, p, f)
    BY <1>2 DEF Redo, Step
  <2>2. Command(t) /\ future[t] \in Seq(Seq(Turn)) /\ x \in Seq(Turn)
    BY Commanded DEF Redo, IInv, StackTypes
  <2>3. Last(future[t]) \in Seq(Turn)
    BY <1>2, <2>2, FrontAndLast
  <2>4. r.turns = Last(future[t])
    BY <2>2, <2>3, RestoredRow
  <2>5. /\ Len(p) = Len(past[t]) + 1
        /\ \A i \in 1..Len(past[t]) : p[i] = past[t][i]
        /\ p[Len(past[t]) + 1] = x
        /\ Len(past[t]) \in Nat /\ Len(future[t]) \in Nat \ {0}
    BY <1>2, <2>2, RedoFits DEF IInv
  <2>. HIDE DEF r
  <2>6. /\ \A u \in Threads : u # t => Lines'[u] = Lines[u] /\ At'[u] = At[u]
        /\ Lines[t] = LineOf(past[t], x, future[t])
        /\ Lines'[t] = LineOf(p, r.turns, f)
        /\ At[t] = Len(past[t]) + 1 /\ At'[t] = Len(p) + 1
        /\ past[t] \in Seq(State) /\ future[t] \in Seq(State) /\ x \in State
        /\ p \in Seq(State)
    BY <2>1, StepMoves DEF Moves
  <2>. HIDE DEF p
  <2>7. LineOf(p, Last(future[t]), f) = LineOf(past[t], x, future[t])
    BY <1>2, <2>5, <2>6, LineSteppedForward
  <2>8. IsLine(Lines[t], past[t], x, future[t])
    BY <2>6, LineProperties
  <2>9. At[t] < Len(Lines[t]) /\ At'[t] = At[t] + 1
    <3>1. Len(Lines[t]) = Len(past[t]) + 1 + Len(future[t])
      BY <2>8 DEF IsLine
    <3>2. At[t] = Len(past[t]) + 1 /\ At'[t] = Len(p) + 1
      BY <2>6, Zenon
    <3>3. Len(p) = Len(past[t]) + 1 /\ Len(past[t]) \in Nat /\ Len(future[t]) \in Nat \ {0}
      BY <2>5, Zenon
    <3>4. \A a \in Nat, b \in Nat \ {0} : a + 1 < a + 1 + b
      OBVIOUS
    <3>. QED
      BY <3>1, <3>2, <3>3, <3>4, Zenon
  <2>10. Lines'[t] = Lines[t]
    BY <2>4, <2>6, <2>7, Zenon
  <2>. QED
    BY <2>6, <2>9, <2>10, OneMoves
<1>. QED
  BY <1>1, <1>2

LEMMA ResumeReturns ==
  ASSUME IInv, IInv', NEW t \in Threads, Resume(t)
  PROVE  TL!Next
<1>1. ASSUME NEW k \in DOMAIN past[t],
             future' = [future EXCEPT ![t] = << >>],
             past' = [past EXCEPT ![t] = SubSeq(past[t], 1, k - 1)],
             Put(t, RestoreFrom(Uncalled(t), past[t][k]))
      PROVE  TL!Next
  <2>. DEFINE x == thread[t].turns
              p == SubSeq(past[t], 1, k - 1)
              r == RestoreFrom(Uncalled(t), past[t][k])
  <2>1. Command(t) /\ past[t] \in Seq(Seq(Turn))
    BY DEF Resume, IInv, StackTypes
  <2>2. /\ k \in 1..Len(past[t]) /\ past[t][k] \in Seq(Turn) /\ Len(past[t]) \in Nat
        /\ Len(p) = k - 1 /\ \A i \in 1..(k - 1) : p[i] = past[t][i]
    BY <2>1, Below
  <2>3. r.turns = past[t][k]
    BY <2>1, <2>2, RestoredRow
  <2>4. Step(t, r, p, << >>)
    BY <1>1 DEF Step
  <2>. HIDE DEF p, r
  <2>5. /\ \A u \in Threads : u # t => Lines'[u] = Lines[u] /\ At'[u] = At[u]
        /\ Lines[t] = LineOf(past[t], x, future[t])
        /\ Lines'[t] = LineOf(p, r.turns, << >>)
        /\ At[t] = Len(past[t]) + 1 /\ At'[t] = Len(p) + 1
        /\ past[t] \in Seq(State) /\ future[t] \in Seq(State) /\ x \in State
        /\ p \in Seq(State)
    BY <2>4, StepMoves DEF Moves
  <2>6. /\ Len(LineOf(p, past[t][k], << >>)) = k
        /\ \A i \in 1..k : LineOf(p, past[t][k], << >>)[i] = LineOf(past[t], x, future[t])[i]
    BY <2>2, <2>5, LineReturned
  <2>7. At'[t] = k /\ At[t] - 1 = Len(past[t]) /\ Lines'[t] = LineOf(p, past[t][k], << >>)
    BY <2>2, <2>3, <2>5
  <2>8. /\ At'[t] \in 1..(At[t] - 1)
        /\ Len(Lines'[t]) = At'[t]
        /\ \A i \in 1..At'[t] : Lines'[t][i] = Lines[t][i]
    BY <2>2, <2>5, <2>6, <2>7
  <2>. QED
    BY <2>5, <2>8, OneMoves
<1>. QED
  BY <1>1, PutRewrites DEF Resume

LEMMA ClearForgets ==
  ASSUME IInv, IInv', NEW t \in Threads, Clear(t)
  PROVE  TL!Next
<1>. DEFINE r == [Uncalled(t) EXCEPT !.turns = << >>, !.state = "idle"]
<1>1. Step(t, r, << >>, << >>) /\ Command(t)
  BY DEF Clear, Step
<1>2. r.turns = << >>
  BY <1>1, Commanded DEF Thread
<1>. HIDE DEF r
<1>3. /\ \A u \in Threads : u # t => Lines'[u] = Lines[u] /\ At'[u] = At[u]
      /\ Lines'[t] = LineOf(<< >>, r.turns, << >>)
      /\ At'[t] = Len(<< >>) + 1
  BY <1>1, StepMoves DEF Moves
<1>4. Lines'[t] = << << >> >> /\ At'[t] = 1
  BY <1>2, <1>3, LineForgotten
<1>. QED
  BY <1>3, <1>4, OneMoves

\* Answers change the states of threads, not what was said
LEMMA AnswersSayNothing ==
  ASSUME IInv, IInv', NEW t \in Threads, Approve(t) \/ Reject(t)
  PROVE  UNCHANGED TL!tvars
<1>1. PICK u \in Threads, st \in States :
        thread' = [thread EXCEPT ![t].auth = FALSE, ![u].pending = NoPending, ![u].state = st]
  BY DEF Approve, Reject, States
<1>2. \A v \in Threads : thread[v] \in Thread
  BY DEF IInv, ThreadTypes
<1>3. ASSUME NEW v \in Threads PROVE thread'[v].turns = thread[v].turns
  BY <1>1, <1>2 DEF IInv, ThreadTypes, Thread
<1>4. UNCHANGED undoing
  BY DEF Approve, Reject
<1>. QED
  BY <1>3, <1>4, NothingSaid

LEMMA NextMoves ==
  ASSUME IInv, IInv', [Next]_vars
  PROVE  [TL!Next]_(TL!tvars)
<1>1. CASE UNCHANGED <<thread, undoing>>
  BY <1>1, NothingSaid
<1>2. CASE UNCHANGED undoing /\ \E t \in Threads : \E r : Put(t, r)
  BY <1>2, PutRewrites
<1>3. loop.at \in Threads \/ loop.phase = "idle"
  BY DEF IInv, LoopFits
<1>4. loop.on \in Threads \/ ~Working
  BY DEF IInv, LoopFits
<1>5. CASE Token \/ TokenChecked \/ AutoCompact
  BY <1>2, <1>3, <1>5 DEF Token, TokenChecked, AutoCompact
<1>6. CASE Begin
  BY <1>6, BeginBranches
<1>7. CASE Input \/ Calls \/ RunCall
  BY <1>1, <1>7 DEF Input, Calls, RunCall
<1>8. CASE Fail \/ CallAsksToken \/ CallAsksApproval
  BY <1>2, <1>4, <1>8 DEF Fail, CallAsksToken, CallAsksApproval, End, Working
<1>9. CASE Words \/ RunApproved
  BY <1>1, <1>2, <1>4, <1>9 DEF Words, RunApproved, End, Working
<1>10. ASSUME NEW t \in Threads, Submission(t)
       PROVE  [TL!Next]_(TL!tvars)
  <2>1. CASE Undo(t)
    BY <2>1, UndoMovesBack
  <2>2. CASE Redo(t)
    BY <2>2, RedoMovesForward
  <2>3. CASE Resume(t)
    BY <2>3, ResumeReturns
  <2>4. CASE Clear(t)
    BY <2>4, ClearForgets
  <2>5. CASE Interrupt(t) \/ Compact(t) \/ Leave(t) \/ NoSuchApproval(t)
    BY <1>2, <2>5 DEF Interrupt, Compact, Leave, NoSuchApproval
  <2>6. CASE Approve(t) \/ Reject(t)
    BY <2>6, AnswersSayNothing
  <2>. QED
    BY <1>10, <2>1, <2>2, <2>3, <2>4, <2>5, <2>6 DEF Submission
<1>11. CASE CancelAuth
  <2>1. active \in Threads
    BY <1>11 DEF CancelAuth, IInv, RestTypes
  <2>. QED
    BY <1>2, <1>11, <2>1 DEF CancelAuth
<1>12. CASE WebNewThread \/ (\E t \in Threads : Receive(t)) \/ UNCHANGED vars
  BY <1>1, <1>12 DEF WebNewThread, Receive, vars, undoing
<1>. QED
  BY <1>5, <1>6, <1>7, <1>8, <1>9, <1>10, <1>11, <1>12 DEF Next, Work

\* Every thread's history is a line with a cursor: undo and redo take back
\* each other, a new turn gives up what was undone and the oldest checkpoint
\* only, and nothing else touches what is behind or ahead (UndoManager)
THEOREM UndoIsALine == Spec => UndoLine
<1>1. Init => TL!Init
  <2>. SUFFICES ASSUME Init PROVE TL!Init
    OBVIOUS
  <2>1. /\ Lines = [t \in Threads |-> LineOf(<< >>, << >>, << >>)]
        /\ At = [t \in Threads |-> Len(<< >>) + 1]
    BY DEF Init, Lines, At, Unborn
  <2>2. Lines = [t \in Threads |-> << << >> >>] /\ At = [t \in Threads |-> 1]
    BY <2>1, LineForgotten
  <2>. QED
    BY <2>2, Zenon DEF TL!Init, Lines, LineOf, At
<1>2. IInv /\ IInv' /\ [Next]_vars => [TL!Next]_(TL!tvars)
  BY NextMoves
<1>. QED
  BY <1>1, <1>2, AlwaysIInv, PTL DEF Spec, UndoLine, TL!Spec
-----------------------------------------------------------------------------
(* A message is dealt with in a bounded number of steps *)

\* What a turn may still do from the LLM call of an iteration on: an iteration
\* is a call and at most MaxCalls tools.
InModel(iter) == (MaxIterations - iter) * (MaxCalls + 1) + 1

\* An upper bound on the steps the loop still takes on a message
StepsLeft(m) ==
  CASE m.phase = "idle"  -> 0
    [] m.phase = "token" -> 1
    [] m.phase = "model" -> InModel(m.iter)
    [] m.phase = "tools" -> InModel(m.iter) + m.left
    [] m.phase \in {"approved", "compacted"} -> InModel(0) + 1
    [] m.phase = "accepted" -> InModel(0) + 2
    [] m.phase = "received" -> InModel(0) + 3

\* Whatever is done about the message in the loop's hands brings it nearer its
\* end, and what others do leaves it as it is.
EndComesNearer ==
  /\ [](StepsLeft(loop) \in Nat)
  /\ [][loop.phase = "idle" \/ UNCHANGED loop \/ StepsLeft(loop') < StepsLeft(loop)]_vars

LEMMA OneRowMore ==
  ASSUME NEW n \in Nat, NEW w \in Nat
  PROVE  n * w \in Nat /\ (n + 1) * w = n * w + w
  OBVIOUS

LEMMA InModelFalls ==
  ASSUME NEW i \in 0..MaxIterations
  PROVE  /\ InModel(i) \in Nat \ {0}
         /\ i < MaxIterations => InModel(i) = InModel(i + 1) + MaxCalls + 1
<1>1. MaxIterations - i \in Nat /\ MaxCalls + 1 \in Nat
  BY TalkAssumption
<1>2. (MaxIterations - i) * (MaxCalls + 1) \in Nat
  BY <1>1, OneRowMore
<1>3. ASSUME i < MaxIterations PROVE InModel(i) = InModel(i + 1) + MaxCalls + 1
  <2> DEFINE n == MaxIterations - (i + 1)
             w == MaxCalls + 1
  <2>1. n \in Nat /\ w \in Nat /\ MaxIterations - i = n + 1
    BY <1>3, TalkAssumption
  <2>2. (n + 1) * w = n * w + w /\ n * w \in Nat
    BY <2>1, OneRowMore
  <2>3. InModel(i) = (n + 1) * w + 1 /\ InModel(i + 1) = n * w + 1
    BY <2>1 DEF InModel
  <2> HIDE DEF n
  <2>. QED
    BY <2>2, <2>3, TalkAssumption
<1>. QED
  BY <1>2, <1>3 DEF InModel

LEMMA Phases ==
  ASSUME NEW m \in Message
  PROVE  /\ m.iter \in 0..MaxIterations /\ InModel(m.iter) \in Nat \ {0}
         /\ m.left \in Nat /\ m.left <= MaxCalls
         /\ InModel(0) \in Nat \ {0}
         /\ m.phase = "idle" => StepsLeft(m) = 0
         /\ m.phase = "token" => StepsLeft(m) = 1
         /\ m.phase = "model" => StepsLeft(m) = InModel(m.iter)
         /\ m.phase = "tools" => StepsLeft(m) = InModel(m.iter) + m.left
         /\ m.phase \in {"approved", "compacted"} => StepsLeft(m) = InModel(0) + 1
         /\ m.phase = "accepted" => StepsLeft(m) = InModel(0) + 2
         /\ m.phase = "received" => StepsLeft(m) = InModel(0) + 3
         /\ m.phase # "idle" => StepsLeft(m) > 0
<1>1. m.iter \in 0..MaxIterations /\ m.left \in Nat /\ m.left <= MaxCalls
  BY TalkAssumption DEF Message
<1>2. InModel(0) \in Nat \ {0} /\ InModel(m.iter) \in Nat \ {0}
  BY <1>1, InModelFalls, TalkAssumption
<1>3. m.phase \in {"idle", "received", "token", "accepted", "compacted", "approved", "model", "tools"}
  BY DEF Message
<1>4. /\ m.phase = "idle" => StepsLeft(m) = 0
      /\ m.phase = "token" => StepsLeft(m) = 1
      /\ m.phase = "model" => StepsLeft(m) = InModel(m.iter)
      /\ m.phase = "tools" => StepsLeft(m) = InModel(m.iter) + m.left
      /\ m.phase \in {"approved", "compacted"} => StepsLeft(m) = InModel(0) + 1
      /\ m.phase = "accepted" => StepsLeft(m) = InModel(0) + 2
      /\ m.phase = "received" => StepsLeft(m) = InModel(0) + 3
  BY DEF StepsLeft
<1>. QED
  BY <1>1, <1>2, <1>3, <1>4

LEMMA DoneIsNearer ==
  ASSUME loop \in Message, loop.phase # "idle", loop' = NoMessage
  PROVE  StepsLeft(loop') < StepsLeft(loop)
<1>1. StepsLeft(NoMessage) = 0
  BY DEF StepsLeft, NoMessage
<1>. QED
  BY <1>1, Phases

LEMMA WorkIsNearer ==
  ASSUME IInv, Work
  PROVE  StepsLeft(loop') < StepsLeft(loop)
<1> DEFINE Goal == StepsLeft(loop') < StepsLeft(loop)
<1>0. loop \in Message /\ (loop.phase = "tools" => loop.left >= 1)
  BY DEF IInv, LoopFits, RestTypes
<1>1. loop' \in Message
  BY NextKeeps DEF IInv, RestTypes, Next
<1>2. CASE Done /\ loop.phase # "idle"
  BY <1>0, <1>2, DoneIsNearer DEF Done
\* The next phase of a message, and the first call of a turn
<1>3. ASSUME loop.phase = "received", loop'.phase \in {"token", "accepted", "approved"} PROVE Goal
  BY <1>0, <1>1, <1>3, Phases
<1>4. ASSUME loop.phase = "accepted", loop'.phase = "compacted" PROVE Goal
  BY <1>0, <1>1, <1>4, Phases
<1>5. ASSUME loop.phase \in {"compacted", "approved"}, loop'.phase = "model", loop'.iter = 0 PROVE Goal
  BY <1>0, <1>1, <1>5, Phases
<1>6. ASSUME NEW t \in Threads \cup {NoThread}, NEW used \in BOOLEAN,
             loop.phase \in {"compacted", "approved"}, Continue(t, used) PROVE Goal
  <2>1. loop'.phase = "model" /\ loop'.iter = 0
    BY <1>0, <1>6 DEF Continue, Message
  <2>. QED
    BY <1>5, <1>6, <2>1
<1>7. CASE Token \/ Input \/ AutoCompact
  <2>1. CASE Token
    BY <1>0, <1>3, <2>1 DEF Token, Message
  <2>2. CASE Input
    BY <1>0, <1>2, <1>3, <2>2 DEF Input, Message
  <2>3. CASE AutoCompact
    BY <1>0, <1>4, <2>3 DEF AutoCompact, Message
  <2>. QED
    BY <1>7, <2>1, <2>2, <2>3
<1>8. CASE Begin
  BY <1>0, <1>6, <1>8 DEF Begin, Message
<1>9. CASE RunApproved
  <2>1. loop.on \in Threads \cup {NoThread} /\ loop.phase = "approved"
    BY <1>0, <1>9 DEF RunApproved, Message
  <2>. QED
    BY <1>2, <1>6, <1>9, <2>1 DEF RunApproved, End
<1>10. CASE TokenChecked \/ Fail \/ CallAsksToken \/ CallAsksApproval
  BY <1>2, <1>10 DEF TokenChecked, Fail, CallAsksToken, CallAsksApproval, End
<1>11. CASE Words
  <2>1. CASE Done
    BY <1>2, <1>11, <2>1 DEF Words
  <2>2. CASE loop' = [loop EXCEPT !.iter = loop.iter + 1]
    <3>1. loop'.phase = "model" /\ loop'.iter = loop.iter + 1 /\ loop.phase = "model"
          /\ loop.iter < MaxIterations
      BY <1>0, <1>11, <2>2 DEF Words, Message
    <3>. QED
      BY <1>0, <1>1, <3>1, Phases, InModelFalls, TalkAssumption
  <2>. QED
    BY <1>11, <2>1, <2>2 DEF Words, End
<1>12. CASE Calls
  <2>1. PICK n \in 1..MaxCalls :
          loop' = [loop EXCEPT !.phase = "tools", !.iter = loop.iter + 1, !.used = TRUE, !.left = n]
    BY <1>12 DEF Calls
  <2>2. loop'.phase = "tools" /\ loop'.iter = loop.iter + 1 /\ loop'.left = n
        /\ loop.phase = "model" /\ loop.iter < MaxIterations
    BY <1>0, <1>12, <2>1 DEF Calls, Message
  <2>3. StepsLeft(loop') = InModel(loop.iter + 1) + n /\ StepsLeft(loop) = InModel(loop.iter)
    BY <1>0, <1>1, <2>2, Phases
  <2>4. InModel(loop.iter) = InModel(loop.iter + 1) + MaxCalls + 1
        /\ loop.iter + 1 \in 0..MaxIterations
    BY <1>0, <1>1, <2>2, Phases, InModelFalls
  <2>5. InModel(loop.iter + 1) \in Nat
    BY <2>4, InModelFalls
  <2>. QED
    BY <2>3, <2>4, <2>5, TalkAssumption
<1>13. CASE RunCall
  <2>1. loop.phase = "tools" /\ loop.left >= 1
        /\ loop' = [loop EXCEPT !.left = loop.left - 1,
                                !.phase = IF loop.left = 1 THEN "model" ELSE loop.phase]
    BY <1>0, <1>13 DEF RunCall
  <2>2. loop'.iter = loop.iter /\ loop'.left = loop.left - 1
        /\ loop'.phase \in {"model", "tools"}
    BY <1>0, <2>1 DEF Message
  <2>3. StepsLeft(loop) = InModel(loop.iter) + loop.left /\ InModel(loop.iter) \in Nat
    BY <1>0, <2>1, Phases
  <2>4. StepsLeft(loop') = InModel(loop.iter) \/ StepsLeft(loop') = InModel(loop.iter) + (loop.left - 1)
    BY <1>1, <2>2, Phases
  <2>5. loop.left \in Nat
    BY <1>0, Phases
  <2>. QED
    BY <2>1, <2>3, <2>4, <2>5
<1>14. ASSUME NEW t \in Threads, Submission(t) PROVE Goal
  <2>1. loop.phase = "received"
    BY <1>14 DEF Submission, Undo, Redo, Resume, Clear, Interrupt, Compact, Leave,
         NoSuchApproval, Approve, Reject, Command
  <2>2. Done \/ loop'.phase = "approved"
    BY <1>0, <1>14 DEF Submission, Undo, Redo, Resume, Clear, Interrupt, Compact, Leave,
         NoSuchApproval, Approve, Reject, Message
  <2>. QED
    BY <1>2, <1>3, <2>1, <2>2
<1>. QED
  BY <1>7, <1>8, <1>9, <1>10, <1>11, <1>12, <1>13, <1>14 DEF Work

\* However large an answer's batches and the limit of iterations, the loop comes
\* back to its stream: run_agentic_loop counts an iteration for every call of the
\* LLM, and nothing but the loop puts a message back.  With weak fairness of Work,
\* this is what MessageEnds rests on.
THEOREM MessageRunsDown == Spec => EndComesNearer
<1>1. IInv /\ [Next]_vars =>
        [loop.phase = "idle" \/ UNCHANGED loop \/ StepsLeft(loop') < StepsLeft(loop)]_vars
  <2> SUFFICES ASSUME IInv, Next
               PROVE  loop.phase = "idle" \/ UNCHANGED loop \/ StepsLeft(loop') < StepsLeft(loop)
    OBVIOUS
  <2>. QED
    BY WorkIsNearer DEF Next, WebNewThread, CancelAuth, Receive
<1>2. IInv => StepsLeft(loop) \in Nat
  BY Phases DEF IInv, RestTypes, Message
<1>. QED
  BY <1>1, <1>2, AlwaysIInv, PTL DEF Spec, EndComesNearer
=============================================================================
