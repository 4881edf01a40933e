------------------------------ MODULE Debounce ------------------------------
(***************************************************************************)
(* What a hall filter promises: its output takes over the value of the     *)
(* input once N samples in a row had it, and otherwise stays.              *)
(***************************************************************************)
EXTENDS Naturals

CONSTANT N   \* the length of a run that is believed, positive

VARIABLES
  z,      \* the output
  last,   \* the last sample
  run     \* how many of the last samples were equal to it, N at most

vars == <<z, last, run>>

Init == z = FALSE /\ last = FALSE /\ run = N

(* The longer run, of a full one no more than its length.                  *)
Longer(r) == IF r < N THEN r + 1 ELSE N

Sample(data) ==
  /\ z' = (IF run = N THEN last ELSE z)
  /\ last' = data
  /\ run' = (IF data = last THEN Longer(run) ELSE 1)

Next == \E data \in BOOLEAN : Sample(data)

Spec == Init /\ [][Next]_vars
=============================================================================
