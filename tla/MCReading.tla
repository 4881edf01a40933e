------------------------------ MODULE MCReading ------------------------------
(* The way of a speed from the edges of a line to the display, for TLC.    *)
(* The counter of a line, the mean of three counts and the program that    *)
(* shows it share no variable, take whatever the one before may hand them, *)
(* and have properties of their own: so each is explored with the other    *)
(* two at rest, side by side instead of multiplied.                        *)
EXTENDS SpeedCalculation, SpeedAverage, Display

GateRests    == GateInit /\ ~hall_sensor
AverageRests == Init
DisplayRests == DisplayInit /\ SPEED_REF = CHOOSE v \in Speeds : TRUE

GateMoves    == GateNext /\ AverageRests /\ DisplayRests /\ UNCHANGED <<vars, display>>
AverageMoves == Next /\ GateRests /\ DisplayRests /\ UNCHANGED <<gate, display>>
DisplayMoves == DisplayNext /\ GateRests /\ AverageRests /\ UNCHANGED <<gate, vars>>

MCInit == GateInit /\ AverageRests /\ DisplayInit /\ (GateRests \/ DisplayRests)
MCNext == GateMoves \/ AverageMoves \/ DisplayMoves

MCSpec == /\ MCInit /\ [][MCNext]_<<gate, vars, display>>
          /\ WF_display(Write) /\ WF_display(ReadSpeed)
=============================================================================
