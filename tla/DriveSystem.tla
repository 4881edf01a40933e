----------------------------- MODULE DriveSystem -----------------------------
(***************************************************************************)
(* The path from the operator to the bridge as the top level DE0_NANO wires *)
(* it (code/DE0-NANO-TOP/DE0_NANO.v, instances U0 and U2): the ADC          *)
(* controller's output is the throttle of the bridge driver, the switch    *)
(* SW[0] gives the direction.  The bridge driver is the module this one    *)
(* extends.  Its reset is tied low on the board and may move here.         *)
(*                                                                         *)
(* The controller stands here as the abstract AdcSample, which AdcCtrl     *)
(* implements.  Its clock is slower than the driver's, so its output moves *)
(* at any time between two edges of CLOCK_50.                              *)
(***************************************************************************)
EXTENDS PatternPWM

VARIABLES pressed, go_en, reading    \* the stop button; of the ADC controller

U2 == INSTANCE AdcSample WITH
        Readings <- 0 .. Period - 1, Off <- 0, led <- potensio_value

adc   == <<pressed, go_en, reading>>
drive == <<adc, bridge>>

DriveInit == U2!Init /\ BridgeInit

-----------------------------------------------------------------------------
(* The throttle input of the driver becomes v.                             *)
ADC_data(v) ==
  IF v = potensio_value THEN UNCHANGED bridge ELSE ThrottleChange(v)

Start == U2!Start /\ UNCHANGED bridge

(* A stop that leaves the throttle to the next reading.                    *)
StopLater ==
  /\ ~pressed /\ pressed' = TRUE
  /\ go_en' = FALSE /\ reading' = 0
  /\ UNCHANGED bridge

(* The operator presses KEY[0].                                            *)
Stop == U2!Stop /\ ADC_data(0)

Release == U2!Release /\ UNCHANGED bridge

Complete(r) == U2!Complete(r) /\ UNCHANGED bridge

Deliver == U2!Deliver /\ ADC_data(reading)

DriveClock == Clock /\ UNCHANGED adc

DriveNext ==
  \/ Start \/ Stop \/ Release \/ Deliver
  \/ \E r \in 0 .. Period - 1 : Complete(r)
  \/ DriveClock
  \/ ForwardChange /\ UNCHANGED adc
  \/ \E h \in HallCodes : HallChange(h) /\ UNCHANGED adc
  \/ \E level \in ResetLevels : ResetMoves(level) /\ UNCHANGED adc

DriveSpec == DriveInit /\ [][DriveNext]_drive

(* The oscillator never stops; a running controller delivers.              *)
DriveFairSpec == DriveSpec /\ WF_drive(DriveClock) /\ WF_drive(Deliver)

-----------------------------------------------------------------------------
HighSideOn == \E leg \in Legs : PWM_H(leg)

(* A stopped drive is off and stays off: the clock edge after the stop     *)
(* leaves no high side on, and from then on none turns on by itself, not   *)
(* when the rotor is turned by hand, not when the direction switch or the  *)
(* reset moves.  Only a start by the operator can.                         *)
StoppedMeansOff ==
  [][/\ ~go_en /\ ~HighSideOn => ~HighSideOn'
     /\ ~go_en /\ Clock => ~HighSideOn']_drive

(* What the operator asks for arrives: a potentiometer left at a position  *)
(* while the controller runs chops the bridge with that duty cycle for     *)
(* good, and one left at zero leaves it off, unless the reset holds the    *)
(* counters.                                                               *)
ThrottleArrives ==
  /\ \A r \in 1 .. Period - 1 :
       <>[](go_en /\ reading = r /\ ~rst) =>
         []<>(held /\ count_out["a"] = 0 /\ highs["a"] = r) /\ []<>HighSideOn /\ []<>~HighSideOn
  /\ <>[](reading = 0) => <>[]~HighSideOn
=============================================================================
