------------------------------ MODULE Delivery ------------------------------
(***************************************************************************)
(* What a way between two parties promises while nothing breaks: whatever  *)
(* is sent gets a number above all that were sent before, waits in a line  *)
(* and is taken from its front.  Once something has broken, a part of the  *)
(* line may be lost; nothing ever comes twice or overtakes.                *)
(***************************************************************************)
EXTENDS Integers, Sequences

CONSTANT MaySkip   \* not every number is of something sent

VARIABLES
  last,    \* the last number given
  line,    \* what has been sent and neither taken nor lost
  taken,   \* what has been taken
  broken   \* something has been lost, or may be

dvars == <<last, line, taken, broken>>

Init ==
  /\ last = 0
  /\ line = << >> /\ taken = << >>
  /\ broken = FALSE

Send == last' = last + 1 /\ line' = Append(line, last') /\ UNCHANGED taken

Skip == MaySkip /\ last' > last /\ UNCHANGED <<line, taken>>

Take ==
  /\ line # << >>
  /\ taken' = Append(taken, Head(line)) /\ line' = Tail(line)
  /\ UNCHANGED last

Lose ==
  /\ broken'
  /\ \E first \in 1..Len(line) + 1, end \in 0..Len(line) : line' = SubSeq(line, first, end)
  /\ UNCHANGED <<last, taken>>

Break == broken' /\ UNCHANGED <<last, line, taken>>

Next == (Send \/ Skip \/ Take \/ Lose \/ Break) /\ (broken => broken')

Spec == Init /\ [][Next]_dvars
=============================================================================
