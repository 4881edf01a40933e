-------------------------- MODULE SpeedCalculation --------------------------
(***************************************************************************)
(* The speed counter of one hall line, module speed_calculation            *)
(* (code/speed_calculation/speed_calculation.v): the rising edges of the   *)
(* line are counted over a gate of MAX_VALUE + 1 clocks (one second), and  *)
(* the count is handed over at the end of the gate.                        *)
(*                                                                         *)
(* count is the only register of the clock's domain that the edge counter  *)
(* sees: mec_cycles is clocked by the hall line and cleared, asynchronously *)
(* and for as long as it lasts, by count = 0.                              *)
(*                                                                         *)
(* That clear is decoded from all the bits of count.  While count steps to *)
(* a power of two all its ones go out, and before the new one comes in the *)
(* decoder may see zero for an instant: with DecodeGlitch every such step  *)
(* may clear the edge counter.                                             *)
(*                                                                         *)
(* seen to lost are history variables.                                     *)
(***************************************************************************)
EXTENDS Naturals

CONSTANTS
  MAX_VALUE,    \* the last value of the gate counter, 49,999,999 on the board
  Wrap,         \* 2^w for an edge counter of w bits, 2^8 on the board
  RstLevels,  \* the levels the reset input may take ({FALSE} on the board)
  DecodeGlitch, \* may the decoder of count = 0 glitch?
  MaxEdges      \* bound: rising edges of the line in one gate

ASSUME SpeedAssumption ==
  /\ MAX_VALUE \in Nat /\ MAX_VALUE > 0
  /\ Wrap \in Nat /\ Wrap > 1
  /\ FALSE \in RstLevels /\ RstLevels \subseteq BOOLEAN
  /\ DecodeGlitch \in BOOLEAN
  /\ MaxEdges \in Nat

VARIABLES
  count,        \* the gate
  mec_cycles,   \* the edges counted in this gate
  D,            \* the edges of the gate before
  hall_sensor,  \* the line
  rst,          \* the reset input, sampled by the clock
  seen,         \* edges since count left 0
  lastSeen,     \* edges in the gate before
  sure,         \* edges since a glitch was last possible in this gate
  lastSure,     \* the same at the end of the gate before
  torn,         \* has a glitch cleared the edge counter in this gate?
  lastTorn,     \* has one in the gate before?
  lost          \* has an edge come while count was 0?

registers == <<count, mec_cycles, D>>
history   == <<seen, lastSeen, sure, lastSure, torn, lastTorn, lost>>
gate == <<registers, hall_sensor, rst, history>>

GateInit ==
  /\ count = 0 /\ mec_cycles = 0 /\ D = 0
  /\ hall_sensor \in BOOLEAN
  /\ rst = FALSE
  /\ seen = 0 /\ lastSeen = 0
  /\ sure = 0 /\ lastSure = 0
  /\ torn = FALSE /\ lastTorn = FALSE
  /\ lost = FALSE

-----------------------------------------------------------------------------
(* A counter that stops at its largest value.                              *)
PlusEdgeSaturates(m, edge) ==
  IF edge /\ m < Wrap - 1 THEN m + 1 ELSE m

(* The edge counter after a rising edge, or none.                          *)
PlusEdge(m, edge) == IF edge THEN (m + 1) % Wrap ELSE m

(* A gate of one clock more, as the speed counter of the earlier design    *)
(* (speed_computation.v) has.                                              *)
NextCountLong ==
  IF rst \/ count = MAX_VALUE + 1 THEN 0 ELSE count + 1

(* What a clock edge leaves in the gate counter.                           *)
NextCount == IF rst \/ count = MAX_VALUE THEN 0 ELSE count + 1

(* A handover at the first clock of the next gate, after the clear.        *)
NextDLate == IF rst THEN 0 ELSE IF count = 0 THEN mec_cycles ELSE D

(* What a clock edge leaves in a register that takes new over at the end   *)
(* of the gate.                                                            *)
AtHandover(cleared, new, old) ==
  IF rst THEN cleared ELSE IF count = MAX_VALUE THEN new ELSE old

(* What a clock edge leaves in D.                                          *)
NextD == AtHandover(0, mec_cycles, D)

(* The edge counter while the gate counter is at c: held clear at 0.       *)
Counted(c, edge) == IF c = 0 THEN 0 ELSE PlusEdge(mec_cycles, edge)

(* Can the decoder glitch in the step of the gate counter to c?            *)
MayGlitch(c) == \E k \in 1..25 : c = 2^k

(* What a clock edge may leave in the edge counter; a glitch comes before  *)
(* the edge of the line or after it.                                       *)
CountedAtClock(c, edge) ==
  {Counted(c, edge)}
    \union (IF DecodeGlitch /\ MayGlitch(c) THEN {0, PlusEdge(0, edge)} ELSE {})

(* The history of an edge, or of none, while the gate counter is at c.     *)
Record(c, edge) ==
  /\ seen' = IF c = 0 THEN 0 ELSE IF edge THEN seen + 1 ELSE seen
  /\ lost' = (lost \/ (edge /\ c = 0))

(* A clock edge.  edge says whether the line rises just after it, as it    *)
(* does when the same clock drives the line.                               *)
Clocked(edge) ==
  /\ count' = NextCount
  /\ D' = NextD
  /\ mec_cycles' \in CountedAtClock(count', edge)
  /\ Record(count', edge)
  /\ sure' = IF count' = 0 \/ MayGlitch(count') THEN 0
             ELSE IF edge THEN sure + 1 ELSE sure
  /\ torn' = (count' # 0 /\ (torn \/ mec_cycles' # Counted(count', edge)))
  /\ lastSeen' = AtHandover(0, seen, lastSeen)
  /\ lastSure' = AtHandover(0, sure, lastSure)
  /\ lastTorn' = AtHandover(FALSE, torn, lastTorn)

PosedgeClk == Clocked(FALSE) /\ UNCHANGED <<hall_sensor, rst>>

(* The line rises between two clocks.                                      *)
PosedgeHall ==
  /\ ~hall_sensor /\ seen < MaxEdges
  /\ hall_sensor' = TRUE
  /\ mec_cycles' = Counted(count, TRUE)
  /\ Record(count, TRUE)
  /\ sure' = IF count = 0 THEN 0 ELSE sure + 1
  /\ UNCHANGED <<count, D, rst, lastSeen, lastSure, torn, lastTorn>>

NegedgeHall ==
  /\ hall_sensor
  /\ hall_sensor' = FALSE
  /\ UNCHANGED <<registers, rst, history>>

RstChange(level) ==
  /\ level # rst
  /\ rst' = level
  /\ UNCHANGED <<registers, hall_sensor, history>>

GateNext ==
  \/ PosedgeClk \/ PosedgeHall \/ NegedgeHall
  \/ \E level \in RstLevels : RstChange(level)

GateSpec == GateInit /\ [][GateNext]_gate

-----------------------------------------------------------------------------
GateTypeOK ==
  /\ count \in 0 .. MAX_VALUE
  /\ mec_cycles \in 0 .. Wrap - 1 /\ D \in 0 .. Wrap - 1
  /\ hall_sensor \in BOOLEAN /\ rst \in BOOLEAN
  /\ {seen, lastSeen, sure, lastSure} \subseteq Nat
  /\ {torn, lastTorn, lost} \subseteq BOOLEAN

(* The handover neither loses nor doubles an edge, whichever way the two   *)
(* clocks interleave: what is handed over at the end of a gate is the      *)
(* number of edges since the gate left zero, modulo the counter's width,   *)
(* unless the clear's decoder has glitched.                                *)
HandsOverTheGate ==
  /\ ~lastTorn => D = lastSeen % Wrap
  /\ ~torn => mec_cycles = seen % Wrap

(* A glitch of the decoder can only lose edges, and only those before the  *)
(* last power of two of the gate: the edges after it always reach D.  On   *)
(* the board that is 2^25 of 50,000,000 clocks, so two thirds of the speed *)
(* may be lost and one third never is.                                     *)
GlitchLosesBounded ==
  /\ lastSeen < Wrap => lastSure <= D /\ D <= lastSeen
  /\ seen < Wrap => sure <= mec_cycles /\ mec_cycles <= seen
=============================================================================
