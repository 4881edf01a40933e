------------------------------ MODULE AdcSample ------------------------------
(***************************************************************************)
(* What the ADC controller promises the rest of the drive: it does not run *)
(* while the stop button is held, nor by itself once that is released; the *)
(* output is Off until the operator starts it and from the instant he      *)
(* stops it; in between the output only changes to the reading that the    *)
(* converter completed last since the start.                               *)
(***************************************************************************)
EXTENDS Naturals

CONSTANTS
  Readings,  \* the values the output may hold
  Off        \* the one of them it holds while stopped

VARIABLES
  pressed,  \* is the stop button pressed?
  go_en,    \* started?
  reading,  \* the last conversion completed since the start, Off before it
  led       \* the output

vars == <<pressed, go_en, reading, led>>

Init == pressed \in BOOLEAN /\ go_en = FALSE /\ reading = Off /\ led = Off

Start == ~pressed /\ ~go_en /\ go_en' = TRUE /\ UNCHANGED <<pressed, reading, led>>

Stop ==
  /\ ~pressed /\ pressed' = TRUE
  /\ go_en' = FALSE
  /\ reading' = Off
  /\ led' = Off

(* The stop is released: nothing else moves.                               *)
Release == pressed /\ pressed' = FALSE /\ UNCHANGED <<go_en, reading, led>>

(* The converter completes a conversion.                                   *)
Complete(r) == go_en /\ reading' = r /\ UNCHANGED <<pressed, go_en, led>>

(* The output takes the reading over, at some later time.                  *)
Deliver == go_en /\ led' = reading /\ UNCHANGED <<pressed, go_en, reading>>

Next ==
  \/ Start
  \/ Stop
  \/ Release
  \/ \E r \in Readings : Complete(r)
  \/ Deliver

Spec == Init /\ [][Next]_vars
=============================================================================
