---------------------------- MODULE MCCommutation ----------------------------
(***************************************************************************)
(* Values for the constants of Commutation.                                *)
(***************************************************************************)
EXTENDS Commutation

(* Every pattern three hall lines can show, the two invalid ones included. *)
AnyCode == 0..7
=============================================================================
