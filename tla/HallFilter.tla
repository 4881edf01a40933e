----------------------------- MODULE HallFilter -----------------------------
(***************************************************************************)
(* The filter of one hall line, module edge_detection                      *)
(* (code/edge_detect/edge_detection.v) with its shift register shiftn and  *)
(* its sample clock clk_div (code/pattern_generator/clk_div.v); the drive  *)
(* has one per line (code/edge_detect/edge_detection_wrapper.v).           *)
(*                                                                         *)
(* The line is sampled once in 2^div clocks, at the rising edge of the     *)
(* divider's top bit.  The output machine goes to B when all n samples are *)
(* high, to A when all are low, one sample later.                          *)
(*                                                                         *)
(* since and run are history variables.                                    *)
(***************************************************************************)
EXTENDS Naturals

CONSTANTS
  n,            \* the length of the shift register, 20 on the board
  Divide,       \* 2^div, clocks per sample, 16 on the board
  PowerUp,      \* the codes state_Q may hold when the device is configured
  ResetLevels   \* the levels the reset input may take ({FALSE} on the board)

ASSUME FilterAssumption ==
  /\ n \in Nat /\ n > 0
  /\ Divide \in Nat /\ Divide > 1 /\ Divide % 2 = 0
  /\ PowerUp \subseteq 0..3
  /\ FALSE \in ResetLevels /\ ResetLevels \subseteq BOOLEAN

VARIABLES
  clock_cnt,   \* the divider
  Q,           \* the samples, the newest last
  state_Q,     \* the output machine
  state_D,     \* its next state, a latch for a code that is no state
  data,        \* the hall line
  reset,       \* asynchronous for the divider, synchronous for the rest
  since,       \* samples taken since the output moved, n at most
  run          \* how many of the last samples equal the newest, n at most

filter == <<Q, state_Q, state_D, since, run>>
vars == <<clock_cnt, filter, data, reset>>

A == 1
B == 2

-----------------------------------------------------------------------------
AllHigh(q) == \A i \in 1..n : q[i]    \* w[1]
AnyHigh(q) == \E i \in 1..n : q[i]    \* w[0]

(* An output that follows the newest sample down.                          *)
NextStateEager(s, q, d) ==
  CASE s = A -> (IF AllHigh(q) THEN B ELSE A)
    [] s = B -> (IF q[n] THEN B ELSE A)
    [] OTHER -> d

(* A third state for samples that disagree, which nothing leads out of.    *)
NextStateWaits(s, q, d) ==
  CASE s = A -> (IF AllHigh(q) THEN B ELSE A)
    [] s = B -> (IF AllHigh(q) THEN B ELSE 3)
    [] OTHER -> d

(* The next state of the output machine; d is what the latch holds.        *)
NextState(s, q, d) ==
  CASE s = A -> (IF AllHigh(q) THEN B ELSE A)
    [] s = B -> (IF AnyHigh(q) THEN B ELSE A)
    [] OTHER -> d

z == state_Q = B

Init ==
  /\ clock_cnt = 0
  /\ Q = [i \in 1..n |-> FALSE]
  /\ state_Q \in PowerUp
  /\ \E d \in 0..3 : state_D = NextState(state_Q, Q, d)
  /\ data \in BOOLEAN
  /\ reset = FALSE
  /\ since = n /\ run = n

(* A divider the reset does not stop.                                      *)
NextCountFree == (clock_cnt + 1) % Divide

(* What a clock leaves in the divider.                                     *)
NextCount == IF reset THEN 0 ELSE (clock_cnt + 1) % Divide

(* Does clock_div rise with this clock edge?                               *)
Rises == clock_cnt < Divide \div 2 /\ NextCount >= Divide \div 2

UpToN(k) == IF k < n THEN k ELSE n

(* One rising edge of the divided clock.                                   *)
PosedgeClkDiv ==
  /\ Q' = [i \in 1..n |-> ~reset /\ (IF i < n THEN Q[i + 1] ELSE data)]
  /\ state_Q' = IF reset THEN A ELSE state_D
  /\ state_D' = NextState(state_Q', Q', state_D)
  /\ since' = IF (state_Q' = B) # z THEN 0 ELSE UpToN(since + 1)
  /\ run' = IF Q'[n] = Q[n] THEN UpToN(run + 1) ELSE 1

PosedgeClock ==
  /\ clock_cnt' = NextCount
  /\ IF Rises THEN PosedgeClkDiv ELSE UNCHANGED filter
  /\ UNCHANGED <<data, reset>>

(* The hall line moves, or a glitch on it does, between two clocks.        *)
DataChange == data' = ~data /\ UNCHANGED <<clock_cnt, filter, reset>>

(* The reset clears the divider at once.                                   *)
ResetChange(level) ==
  /\ level # reset
  /\ reset' = level
  /\ clock_cnt' = IF level THEN 0 ELSE clock_cnt
  /\ UNCHANGED <<filter, data>>

Next ==
  \/ PosedgeClock
  \/ DataChange
  \/ \E level \in ResetLevels : ResetChange(level)

Spec == Init /\ [][Next]_vars

FairSpec == Spec /\ WF_vars(PosedgeClock)

-----------------------------------------------------------------------------
(* The filter believes a run of n equal samples and nothing less: no       *)
(* shorter disturbance of the line, of either polarity and in any          *)
(* succession, ever shows in the output, and every run of n does.          *)
Abstract == INSTANCE Debounce WITH N <- n, last <- Q[n]

BelievesRuns == Abstract!Spec

(* The output never pulses shorter than n samples, high or low.  This is   *)
(* what bounds the number of edges the speed calculation can see.          *)
MinimumPulse == [][z # z' => since >= n - 1]_vars

(* The reset is synchronous to a clock it stops: as long as it is high the *)
(* divider stands at zero, so no rising edge of clock_div ever meets it,   *)
(* and the reset branches of the shift register and of the output machine  *)
(* (lines 51-52 and 80-81) never execute.                                  *)
ResetNeverReaches == [][reset => UNCHANGED <<Q, state_Q>>]_vars

(* As the reset does not reach the output machine, power-up decides for    *)
(* good whether the filter works: from A or B it never leaves the two      *)
(* codes, and from a latch that holds neither it never finds them.         *)
PowerUpDecides == [][(state_D \in {A, B}) <=> (state_D' \in {A, B})]_vars

(* A line that comes to rest is followed, whatever came before.            *)
FollowsHall ==
  \A v \in BOOLEAN : <>[](data = v /\ ~reset) => <>[](z = v)
=============================================================================
