----------------------------- MODULE WorkerPool -----------------------------
(***************************************************************************)
(* What the scheduler promises to whoever submits jobs: a bounded pool in  *)
(* which every job is executed at most once, whoever asks for it and       *)
(* however often, and a job that has left the pool never comes back.       *)
(***************************************************************************)
EXTENDS Naturals, FiniteSets

CONSTANTS Jobs, Size

VARIABLES running, finished

vars == <<running, finished>>

Init == running = {} /\ finished = {}

Start(j) ==
  /\ j \in Jobs \ (running \cup finished)
  /\ Cardinality(running) < Size
  /\ running' = running \cup {j}
  /\ UNCHANGED finished

Finish(j) ==
  /\ j \in running
  /\ running' = running \ {j}
  /\ finished' = finished \cup {j}

Next == \E j \in Jobs : Start(j) \/ Finish(j)

Spec == Init /\ [][Next]_vars
=============================================================================
