---------------------------- MODULE PwmGenerator ----------------------------
(***************************************************************************)
(* The pulse-width modulators of the high sides, module pwm_generator with *)
(* its counter_10bits (code/pattern_generator/pwm_generator.v).  Several   *)
(* instances run from one clock, one reset and one throttle value; Gens    *)
(* names them, since the drive has one per leg.                            *)
(*                                                                         *)
(* Period is 2^n, the number of values of a counter of n bits.             *)
(*                                                                         *)
(* highs, held and sampled are history variables: no register of the       *)
(* design holds them and no action reads them.                             *)
(***************************************************************************)
EXTENDS Integers

CONSTANTS
  Gens,         \* the instances
  Period,       \* 2^n
  ResetLevels   \* the levels the reset input may take ({FALSE} on the board)

ASSUME PwmAssumption ==
  /\ Gens # {}
  /\ Period \in Nat /\ Period > 0
  /\ FALSE \in ResetLevels /\ ResetLevels \subseteq BOOLEAN

VARIABLES
  count_out,       \* per instance: the free-running counter
  PWM_out,         \* per instance: the comparator's register
  potensio_value,  \* the throttle, n bits from the ADC
  rst,             \* the reset input, asynchronous for the counter
  highs,           \* per instance: clocks spent high since the counter was 0
  held,            \* has the throttle stood still since the counter was 0?
  sampled          \* the throttle the last clock edge compared

vars == <<count_out, PWM_out, potensio_value, rst, highs, held, sampled>>

Throttle == 0 .. Period - 1

Init ==
  /\ count_out = [g \in Gens |-> 0]
  /\ PWM_out = [g \in Gens |-> FALSE]
  /\ potensio_value \in Throttle
  /\ rst = FALSE
  /\ highs = [g \in Gens |-> 0]
  /\ held = FALSE
  /\ sampled = 0

-----------------------------------------------------------------------------
(* A comparator that is still high when the counter equals the throttle.   *)
ComparatorWithEqual(g) == potensio_value >= count_out[g]

(* The comparator: high while the counter is below the throttle.           *)
Comparator(g) == potensio_value > count_out[g]

(* What a clock edge leaves in a counter; it wraps at its width.           *)
NextCount(g) ==
  IF rst THEN 0 ELSE (count_out[g] + 1) % Period

(* The history of an edge: the on-time of the current period, and whether  *)
(* the throttle has been the same since the period began.                  *)
Record ==
  /\ highs' = [g \in Gens |->
       (IF count_out[g] = 0 THEN 0 ELSE highs[g])
         + (IF PWM_out'[g] THEN 1 ELSE 0)]
  /\ held' = (~rst /\ (held \/ \A g \in Gens : count_out[g] = 0))
  /\ sampled' = potensio_value

(* A rising edge of the clock.                                             *)
PosedgeClk ==
  /\ PWM_out' = [g \in Gens |-> Comparator(g)]
  /\ count_out' = [g \in Gens |-> NextCount(g)]
  /\ Record
  /\ UNCHANGED <<potensio_value, rst>>

(* The throttle moves between two edges, at any point of a period.         *)
PotensioChange(v) ==
  /\ v # potensio_value
  /\ potensio_value' = v
  /\ held' = FALSE
  /\ UNCHANGED <<count_out, PWM_out, rst, highs, sampled>>

(* The reset input moves; the counters clear at once, the comparators'     *)
(* registers have no reset.                                                *)
ResetChange(level) ==
  /\ level # rst
  /\ rst' = level
  /\ count_out' = IF level THEN [g \in Gens |-> 0] ELSE count_out
  /\ held' = FALSE
  /\ UNCHANGED <<PWM_out, potensio_value, highs, sampled>>

Next ==
  \/ PosedgeClk
  \/ \E v \in Throttle : PotensioChange(v)
  \/ \E level \in ResetLevels : ResetChange(level)

Spec == Init /\ [][Next]_vars

-----------------------------------------------------------------------------
(* Every variable holds a value of its width.                              *)
TypeOK ==
  /\ count_out \in [Gens -> 0 .. Period - 1]
  /\ PWM_out \in [Gens -> BOOLEAN]
  /\ potensio_value \in Throttle
  /\ rst \in BOOLEAN
  /\ highs \in [Gens -> 0 .. Period]
  /\ held \in BOOLEAN
  /\ sampled \in Throttle

(* If the throttle stood still for a whole period of the counter, the      *)
(* output was high for exactly as many clocks of it as the throttle says:  *)
(* 0 turns the bridge off, the largest value leaves one clock off          *)
(* (pwm_generator.v, lines 12-16 and 32-38).                               *)
DutyExact ==
  \A g \in Gens : held /\ count_out[g] = 0 => highs[g] = potensio_value

(* The throttle is not buffered until the end of a period, so it can reach *)
(* the comparator in the middle of one.  Even so an output only turns on   *)
(* where a period begins or at the first edge after the throttle moved:    *)
(* a steady throttle never makes the gate switch twice in a period.        *)
TurnsOnOncePerPeriod ==
  [][\A g \in Gens :
       ~PWM_out[g] /\ PWM_out'[g] =>
         count_out[g] = 0 \/ potensio_value # sampled]_vars

(* Instances on one clock and reset stay in step: whichever of them the    *)
(* commutation selects, the duty cycle continues where it was.             *)
InStep ==
  \A g, h \in Gens : count_out[g] = count_out[h] /\ PWM_out[g] = PWM_out[h]
=============================================================================
