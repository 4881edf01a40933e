----------------------------- MODULE PatternPWM -----------------------------
(***************************************************************************)
(* The bridge driver, module pattern_PWM                                   *)
(* (code/pattern_generator/pattern_PWM.V): the commutation machine selects one   *)
(* high side and one low side, and the generator of the selected high side *)
(* chops it while the low side conducts steadily ("unipolar independent").  *)
(*                                                                         *)
(* One clock and one reset drive the commutation and the three generators, *)
(* so their clock edges are one action here; the hall lines, the direction *)
(* switch, the throttle and the reset move at any time between two edges.  *)
(* The generators are the module this one extends, one per leg.            *)
(***************************************************************************)
EXTENDS PwmGenerator

CONSTANT
  HallCodes     \* the values {HallA, HallB, HallC} may take

VARIABLES
  state_Q, state_D, hall_sensor, forward    \* of the commutation

Legs == {"a", "b", "c"}

ASSUME OneGeneratorPerLeg == Gens = Legs
ASSUME HallAssumption == HallCodes \subseteq 0..7

(* State A is code 0, what the registers of the device power up to; the    *)
(* captures torn by a moving hall line are the subject of Commutation.     *)
U0 == INSTANCE Commutation WITH
        PowerUp <- {0}, HallSkew <- FALSE, reset <- rst

commutation == <<state_Q, state_D, hall_sensor, forward>>
generators  == <<count_out, PWM_out, potensio_value, highs, held, sampled>>
bridge == <<commutation, generators, rst>>

BridgeInit == U0!Init /\ Init

-----------------------------------------------------------------------------
(* A high side that conducts for the whole of its sector.                  *)
PWM_HUnchopped(leg) == U0!HighOn(state_Q, forward, leg)

(* The gate signals: a generator's output passes while its leg's high side *)
(* is enabled; the low sides are the commutation's outputs as they are.    *)
PWM_H(leg) == U0!HighOn(state_Q, forward, leg) /\ PWM_out[leg]

(* Low sides driven by the complement of the chopped high side, the method *)
(* the source keeps commented out.                                         *)
PWM_LComplementary(leg) ==
  IF U0!HighOn(state_Q, forward, leg)
  THEN ~PWM_out[leg]
  ELSE U0!LowOn(state_Q, forward, leg)

PWM_L(leg) == U0!LowOn(state_Q, forward, leg)

-----------------------------------------------------------------------------
(* A clock edge that restarts the period when the sector changes.          *)
ClockRestartsPeriod ==
  /\ U0!PosedgeClock
  /\ PWM_out' = [g \in Legs |-> Comparator(g)]
  /\ count_out' = [g \in Legs |->
       IF state_Q' # state_Q THEN 0 ELSE NextCount(g)]
  /\ Record
  /\ UNCHANGED potensio_value

(* One edge of clk.                                                        *)
Clock == U0!PosedgeClock /\ PosedgeClk

HallChange(h) == U0!HallChange(h) /\ UNCHANGED generators

ForwardChange == U0!ForwardChange /\ UNCHANGED generators

ThrottleChange(v) == PotensioChange(v) /\ UNCHANGED commutation

ResetMoves(level) == U0!ResetChange(level) /\ ResetChange(level)

-----------------------------------------------------------------------------
(* Whatever the hall lines, the switch, the throttle and the reset do, the *)
(* gates never form more than the one loop the sector calls for: a high    *)
(* side only conducts together with the low side of another leg, and no    *)
(* second high side or low side is on.                                     *)
OneLoop ==
  /\ \A p, r \in Legs : PWM_H(p) /\ PWM_H(r) => p = r
  /\ \A p, r \in Legs : PWM_L(p) /\ PWM_L(r) => p = r
  /\ \A p \in Legs : PWM_H(p) => \E r \in Legs \ {p} : PWM_L(r)

(* The three generators look like one to the motor.  Across commutations,  *)
(* changes of direction and hall glitches, the chopping of "some high side *)
(* is on" is that of a single generator: a commutation moves the current   *)
(* to another leg in the middle of a period and neither lengthens, shortens *)
(* nor repeats the pulse.                                                  *)
One == INSTANCE PwmGenerator WITH
            Gens <- {"bridge"},
            count_out <- [g \in {"bridge"} |-> count_out["a"]],
            highs <- [g \in {"bridge"} |-> highs["a"]],
            PWM_out <- [g \in {"bridge"} |-> \E leg \in Legs : PWM_H(leg)]

ChopsAsOne == One!Spec
=============================================================================
