------------------------------ MODULE Timeline ------------------------------
(***************************************************************************)
(* What undo and redo promise: a conversation is a line of states with a   *)
(* cursor on the current one.  Undo and redo only move the cursor, so each *)
(* takes back exactly what the other did; talking rewrites the state under *)
(* the cursor and nothing else; a new turn gives up what was undone and,   *)
(* once MaxCheckpoints states lie behind, the oldest of them.              *)
(***************************************************************************)
EXTENDS Integers, Sequences

CONSTANTS Threads, MaxCheckpoints

VARIABLES
  line,   \* per thread, the states that can be reached without saying more
  at      \* per thread, the cursor

tvars == <<line, at>>

Init ==
  /\ line = [t \in Threads |-> << << >> >>]
  /\ at = [t \in Threads |-> 1]

\* Reply, failure, compaction: the current state changes under the cursor
Rewrite(t) ==
  /\ at'[t] = at[t]
  /\ Len(line'[t]) = Len(line[t])
  /\ \A i \in DOMAIN line[t] : i # at[t] => line'[t][i] = line[t][i]

\* A new turn: all up to the cursor stays behind it, as far as it fits
Branch(t) ==
  LET kept == IF at[t] > MaxCheckpoints THEN MaxCheckpoints ELSE at[t]
  IN /\ Len(line'[t]) = kept + 1
     /\ at'[t] = kept + 1
     /\ \A i \in 1..kept : line'[t][i] = line[t][at[t] - kept + i]

Back(t) == at[t] > 1 /\ at'[t] = at[t] - 1 /\ line'[t] = line[t]

Forward(t) == at[t] < Len(line[t]) /\ at'[t] = at[t] + 1 /\ line'[t] = line[t]

\* To a checkpoint behind the cursor, giving up all that came after it
Return(t) ==
  /\ at'[t] \in 1..(at[t] - 1)
  /\ Len(line'[t]) = at'[t]
  /\ \A i \in 1..at'[t] : line'[t][i] = line[t][i]

Forget(t) == line'[t] = << << >> >> /\ at'[t] = 1

Move(t) == Rewrite(t) \/ Branch(t) \/ Back(t) \/ Forward(t) \/ Return(t) \/ Forget(t)

Next ==
  \E t \in Threads :
    /\ Move(t)
    /\ \A u \in Threads \ {t} : line'[u] = line[u] /\ at'[u] = at[u]

Spec == Init /\ [][Next]_tvars
=============================================================================
