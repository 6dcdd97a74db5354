----------------------------- MODULE LineBuffer -----------------------------
(* What the console promises: lines are edited until they are finished,    *)
(* and only then read, each character once and in the order typed.         *)
EXTENDS Naturals, Sequences

CONSTANTS Keys, Enders, Capacity

VARIABLES ready, line

Init == ready = <<>> /\ line = <<>>

Type(ch) ==
  LET typed == Append(line, ch)
      full == Len(ready) + Len(typed) = Capacity
  IN /\ Len(ready) + Len(line) < Capacity
     /\ IF ch \in Enders \/ full THEN ready' = ready \o typed /\ line' = <<>>
        ELSE line' = typed /\ UNCHANGED ready

Erase ==
  /\ line # <<>> /\ UNCHANGED ready
  /\ line' \in {<<>>, SubSeq(line, 1, Len(line) - 1)}

Read == ready # <<>> /\ ready' = Tail(ready) /\ UNCHANGED line

Next == Erase \/ Read \/ \E ch \in Keys : Type(ch)

Spec == Init /\ [][Next]_<<ready, line>>
=============================================================================
