---------------------------- MODULE SpeedChannel ----------------------------
(***************************************************************************)
(* One hall line from the connector to the edge count, as the top level    *)
(* DE0_NANO wires it (code/DE0-NANO-TOP/DE0_NANO.v, instances U4 and U5):   *)
(* the filter's output clocks the edge counter, and one oscillator drives  *)
(* the filter's divider and the gate counter.  A rise of the filter's      *)
(* output therefore comes just after an edge of the gate counter's clock.  *)
(*                                                                         *)
(* The filter is the module this one extends.  Its reset, tied low on the  *)
(* board, is allowed to move here, in pulses that last until a clock edge  *)
(* has seen them.                                                          *)
(***************************************************************************)
EXTENDS HallFilter

CONSTANTS
  MAX_VALUE,    \* of the gate counter
  Wrap          \* of the edge counter

ASSUME GateAssumption == MAX_VALUE \in Nat /\ MAX_VALUE > 0 /\ Wrap \in Nat /\ Wrap > 1
ASSUME WholeSamplesPerGate == (MAX_VALUE + 1) % Divide = 0

VARIABLES
  count, mec_cycles, D,                                       \* of the
  seen, lastSeen, sure, lastSure, torn, lastTorn, lost        \* counter

counter == <<count, mec_cycles, D, seen, lastSeen, sure, lastSure,
             torn, lastTorn, lost>>
channel == <<vars, counter>>

U5 == INSTANCE SpeedCalculation WITH
        hall_sensor <- z, rst <- reset, RstLevels <- ResetLevels,
        DecodeGlitch <- FALSE, MaxEdges <- 0

ChannelInit == Init /\ U5!GateInit

-----------------------------------------------------------------------------
Posedge == PosedgeClock /\ U5!Clocked(~z /\ z')

LineMoves == DataChange /\ UNCHANGED counter

ResetRises ==
  /\ TRUE \in ResetLevels
  /\ ResetChange(TRUE)
  /\ UNCHANGED counter

(* The gate counter is at 0 once a clock edge has seen the reset.          *)
ResetFalls ==
  /\ count = 0
  /\ ResetChange(FALSE)
  /\ UNCHANGED counter

ChannelNext == Posedge \/ LineMoves \/ ResetRises \/ ResetFalls

ChannelSpec == ChannelInit /\ [][ChannelNext]_channel

(* The oscillator never stops.                                             *)
ChannelFairSpec == ChannelSpec /\ WF_channel(Posedge)

-----------------------------------------------------------------------------
(* No edge is lost at the turn of the gate.  The edge counter is held clear *)
(* for the whole clock in which the gate counter is 0, and an edge in that *)
(* clock would vanish; none can come then, because the filter moves only   *)
(* in the middle of a sample period and a gate is a whole number of them.  *)
NoEdgeLost == ~lost
=============================================================================
