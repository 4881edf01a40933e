---------------------------- MODULE SpeedAverage ----------------------------
(***************************************************************************)
(* From three edge counts to one speed, module speed_calculation_wrapper   *)
(* (code/speed_calculation/speed_calculation_wrapper.v) with its tables    *)
(* rpm_lut and its halving registers divider_2.                            *)
(*                                                                         *)
(* The tables make an edge of a one-second gate worth 4 rpm and go up to   *)
(* 200 edges; their empty default keeps the last output for anything       *)
(* above, a latch.                                                         *)
(*                                                                         *)
(* old and age are history variables.                                      *)
(***************************************************************************)
EXTENDS Integers

CONSTANTS
  Counts,       \* the edge counts a gate may end with, within 0..255
  ResetLevels   \* the levels the reset input may take ({FALSE} on the board)

ASSUME AverageAssumption ==
  /\ 0 \in Counts /\ Counts \subseteq 0..255
  /\ FALSE \in ResetLevels /\ ResetLevels \subseteq BOOLEAN

VARIABLES
  rev,     \* the three edge counts
  table,   \* the three outputs of the tables
  div1,    \* the register S0
  rpm,     \* the register S1, the speed the processor reads
  reset,
  old,     \* the tables' outputs before the last gate
  age      \* clocks since the last gate, two at most

vars == <<rev, table, div1, rpm, reset, old, age>>

Lines == {"a", "b", "c"}
Zero  == [l \in Lines |-> 0]

(* Does the table have an entry for a count?                               *)
Listed(datain) == datain <= 200

(* The table: 4 rpm per edge, but for one entry; where it has none it      *)
(* holds.                                                                  *)
rpm_lut(datain, latched) ==
  IF ~Listed(datain) THEN latched
  ELSE IF datain = 123 THEN 491
  ELSE 4 * datain

(* A halving register whose output is two bits short.                      *)
HalfOfNarrow(sum) == (sum \div 2) % 512

(* What divider_2 registers of a sum of 11 bits.                           *)
HalfOf(sum) == (sum \div 2) % 1024

(* The second sum built from the wrong table.                              *)
sum1Wrong == div1 + table["b"]

(* The two sums of 11 bits.                                                *)
sum0 == (table["a"] + table["b"]) % 2048
sum1 == (div1 + table["c"]) % 2048

Init ==
  /\ rev = Zero /\ table = Zero
  /\ div1 = 0 /\ rpm = 0
  /\ reset = FALSE
  /\ old = Zero /\ age = 2

-----------------------------------------------------------------------------
(* What a clock edge leaves in the two halving registers.                  *)
Pipeline == div1' = HalfOf(sum0) /\ rpm' = HalfOf(sum1)

(* A clock edge within a gate.                                             *)
PosedgeClock ==
  /\ ~reset
  /\ Pipeline
  /\ age' = IF age < 2 THEN age + 1 ELSE 2
  /\ UNCHANGED <<rev, table, reset, old>>

(* The edge that ends a gate hands over three counts, and the tables       *)
(* follow.  A gate is far longer than the two clocks of the pipeline.      *)
GateEnds(counts) ==
  /\ ~reset /\ age = 2
  /\ Pipeline
  /\ rev' = counts
  /\ table' = [l \in Lines |-> rpm_lut(counts[l], table[l])]
  /\ old' = table
  /\ age' = 0
  /\ UNCHANGED reset

(* A clock edge in reset clears the counts and both registers.             *)
PosedgeReset ==
  /\ reset
  /\ rev' = Zero /\ table' = [l \in Lines |-> rpm_lut(0, table[l])]
  /\ div1' = 0 /\ rpm' = 0
  /\ old' = Zero /\ age' = 2
  /\ UNCHANGED reset

ResetChange(level) ==
  /\ level # reset
  /\ reset' = level
  /\ UNCHANGED <<rev, table, div1, rpm, old, age>>

Next ==
  \/ PosedgeClock \/ PosedgeReset
  \/ \E counts \in [Lines -> Counts] : GateEnds(counts)
  \/ \E level \in ResetLevels : ResetChange(level)

Spec == Init /\ [][Next]_vars

-----------------------------------------------------------------------------
(* Two clocks after a gate with counts the tables list, the speed is the   *)
(* weighted mean of the three lines, in which line c counts as much as a   *)
(* and b together, with all the rounding and the odd entry of the table    *)
(* costing at most 1 rpm: halving twice and the widths of 10 and 11 bits   *)
(* lose nothing.                                                           *)
MeanWithinOne ==
  (age = 2 /\ \A l \in Lines : Listed(rev[l])) =>
    LET mean == rev["a"] + rev["b"] + 2 * rev["c"]
    IN  rpm \in {mean - 1, mean}

(* On the way from one gate's speed to the next, and whatever the counts   *)
(* (those above 200 that leave a table at an older value included), the    *)
(* output is never outside what the lines have said in the two gates.      *)
NoOvershoot ==
  LET said == {table[l] : l \in Lines} \union {old[l] : l \in Lines}
  IN  (\E s \in said : s <= rpm) /\ (\E s \in said : rpm <= s)
=============================================================================
