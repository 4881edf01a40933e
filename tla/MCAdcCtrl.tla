------------------------------ MODULE MCAdcCtrl ------------------------------
(* Values for the constants of AdcCtrl.                                    *)
EXTENDS AdcCtrl

(* Full scale, and the two patterns of alternating bits: any two of them   *)
(* mixed or shifted give a fourth.                                         *)
SomeWords ==
  {[i \in 0..11 |-> TRUE],
   [i \in 0..11 |-> i % 2 = 0],
   [i \in 0..11 |-> i % 2 = 1]}
=============================================================================
