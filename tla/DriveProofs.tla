----------------------------- MODULE DriveProofs -----------------------------
(***************************************************************************)
(* Proofs about the drive, from the operator to the gates, for every       *)
(* period of the generators, every set of hall patterns and reset levels.  *)
(*                                                                         *)
(* The first part is about the generators alone, any number of them on one *)
(* clock and reset (PwmGenerator).  What it shows holds of the three of    *)
(* the drive, since every step of the drive is one of theirs or leaves     *)
(* them alone (DriveRunsGenerators).  The second part is about the drive.  *)
(***************************************************************************)
EXTENDS DriveSystem, TLAPS

Smaller(x, y) == IF x <= y THEN x ELSE y

(* How far an instance is in its period: a full one when it wrapped.       *)
Done(g) == IF count_out[g] = 0 THEN Period ELSE count_out[g]

(* The types of the variables, without a bound on the on-time.             *)
Types ==
  /\ count_out \in [Gens -> 0 .. Period - 1]
  /\ PWM_out \in [Gens -> BOOLEAN]
  /\ potensio_value \in Throttle
  /\ rst \in BOOLEAN
  /\ highs \in [Gens -> Nat]
  /\ held \in BOOLEAN
  /\ sampled \in Throttle

(* The on-time cannot outrun the period.                                   *)
HighsBounded == \A g \in Gens : highs[g] <= Done(g)

(* Under a steady throttle the on-time so far is exactly the clocks of the *)
(* period in which the counter was below the throttle.                     *)
HighsExact ==
  held => \A g \in Gens : highs[g] = Smaller(potensio_value, Done(g))

(* An output that is low has passed the throttle it was compared with.     *)
LowHasPassed ==
  \A g \in Gens : ~PWM_out[g] /\ count_out[g] # 0 => sampled < count_out[g]

IInv == Types /\ HighsBounded /\ HighsExact /\ LowHasPassed /\ InStep

-----------------------------------------------------------------------------
(* The invariant holds out of reset.                                       *)
LEMMA InitIInv == Init => IInv
<1> SUFFICES ASSUME Init PROVE IInv
  OBVIOUS
<1>1. Types
  <2>1. 0 \in 0 .. Period - 1
    BY PwmAssumption
  <2>2. /\ count_out \in [Gens -> 0 .. Period - 1]
        /\ highs \in [Gens -> Nat]
        /\ PWM_out \in [Gens -> BOOLEAN]
    BY <2>1 DEF Init
  <2>3. QED
    BY <2>1, <2>2 DEF Init, Types, Throttle
<1>2. HighsBounded
  <2>1. \A g \in Gens : highs[g] = 0 /\ count_out[g] = 0
    BY DEF Init
  <2>2. 0 <= Period
    BY PwmAssumption
  <2>3. \A g \in Gens : Done(g) = Period
    BY <2>1 DEF Done
  <2>4. QED
    BY <2>1, <2>2, <2>3 DEF HighsBounded
<1>3. HighsExact /\ LowHasPassed /\ InStep
  BY DEF Init, HighsExact, LowHasPassed, InStep
<1>4. QED
  BY <1>1, <1>2, <1>3 DEF IInv

(* A clock edge keeps the invariant.                                       *)
LEMMA PosedgeIInv ==
  ASSUME IInv, PosedgeClk
  PROVE  IInv'
<1> USE PwmAssumption
<1>1. Types
  BY DEF IInv
<1>2. \A g \in Gens :
        /\ count_out'[g] \in 0 .. Period - 1
        /\ count_out'[g] = IF rst \/ count_out[g] = Period - 1
                           THEN 0 ELSE count_out[g] + 1
        /\ PWM_out'[g] = (potensio_value > count_out[g])
        /\ PWM_out'[g] \in BOOLEAN
  <2> SUFFICES ASSUME NEW g \in Gens
               PROVE  /\ count_out'[g] \in 0 .. Period - 1
                      /\ count_out'[g] = IF rst \/ count_out[g] = Period - 1
                                         THEN 0 ELSE count_out[g] + 1
                      /\ PWM_out'[g] = (potensio_value > count_out[g])
                      /\ PWM_out'[g] \in BOOLEAN
    OBVIOUS
  <2>1. count_out'[g] = (IF rst THEN 0 ELSE (count_out[g] + 1) % Period)
    BY DEF PosedgeClk, NextCount
  <2>2. PWM_out'[g] = (potensio_value > count_out[g])
    BY DEF PosedgeClk, Comparator
  <2>3. count_out[g] \in 0 .. Period - 1
    BY <1>1 DEF Types
  <2>4. (count_out[g] + 1) % Period
          = IF count_out[g] = Period - 1 THEN 0 ELSE count_out[g] + 1
    BY <2>3
  <2>5. PWM_out'[g] \in BOOLEAN
    BY <2>2
  <2>6. QED
    BY <2>1, <2>2, <2>3, <2>4, <2>5
<1>3. \A g \in Gens :
        /\ highs'[g] = (IF count_out[g] = 0 THEN 0 ELSE highs[g])
                         + (IF PWM_out'[g] THEN 1 ELSE 0)
        /\ highs'[g] \in Nat
  BY <1>1 DEF Types, PosedgeClk, Record
<1>4. /\ potensio_value' = potensio_value /\ rst' = rst
      /\ sampled' = potensio_value
      /\ held' = (~rst /\ (held \/ \A g \in Gens : count_out[g] = 0))
  BY DEF PosedgeClk, Record
<1>5. Types'
  <2>1. /\ count_out' = [g \in Gens |-> NextCount(g)]
        /\ PWM_out' = [g \in Gens |-> Comparator(g)]
        /\ DOMAIN highs' = Gens /\ highs' = [g \in Gens |-> highs'[g]]
    BY DEF PosedgeClk, Record
  <2>2. count_out' \in [Gens -> 0 .. Period - 1] /\ highs' \in [Gens -> Nat]
    BY <1>2, <1>3, <2>1
  <2>3. PWM_out' \in [Gens -> BOOLEAN]
    BY <1>2, <2>1
  <2>4. QED
    BY <1>1, <1>4, <2>2, <2>3 DEF Types
<1>6. HighsBounded'
  <2> SUFFICES ASSUME NEW g \in Gens PROVE highs'[g] <= Done(g)'
    BY DEF HighsBounded
  <2>1. highs[g] <= Done(g) /\ highs[g] \in Nat /\ count_out[g] \in 0 .. Period - 1
    BY <1>1 DEF IInv, HighsBounded, Types
  <2>2. QED
    BY <1>2, <1>3, <2>1 DEF Done
<1>7. HighsExact'
  <2> SUFFICES ASSUME held', NEW g \in Gens
               PROVE  highs'[g] = Smaller(potensio_value, Done(g)')
    BY <1>4 DEF HighsExact
  <2>1. ~rst /\ highs[g] \in Nat /\ count_out[g] \in 0 .. Period - 1
        /\ potensio_value \in 0 .. Period - 1
    BY <1>1, <1>4 DEF Types, Throttle
  <2>2. CASE count_out[g] = 0
    BY <1>2, <1>3, <2>1, <2>2 DEF Done, Smaller
  <2>3. CASE count_out[g] # 0
    <3>1. highs[g] = Smaller(potensio_value, count_out[g])
      BY <1>4, <2>3 DEF IInv, HighsExact, Done
    <3>2. QED
      BY <1>2, <1>3, <2>1, <2>3, <3>1 DEF Done, Smaller
  <2>4. QED
    BY <2>2, <2>3
<1>8. LowHasPassed'
  BY <1>1, <1>2, <1>4 DEF LowHasPassed, Types, Throttle
<1>9. InStep'
  BY <1>2 DEF IInv, InStep
<1>10. QED
  BY <1>5, <1>6, <1>7, <1>8, <1>9 DEF IInv

(* A move of the throttle keeps it.                                        *)
LEMMA PotensioIInv ==
  ASSUME IInv, NEW v \in Throttle, PotensioChange(v)
  PROVE  IInv'
<1>1. Types'
  BY DEF IInv, Types, PotensioChange
<1>2. HighsBounded' /\ HighsExact'
  BY DEF IInv, HighsBounded, HighsExact, Done, PotensioChange
<1>3. LowHasPassed' /\ InStep'
  BY DEF IInv, LowHasPassed, InStep, PotensioChange
<1>4. QED
  BY <1>1, <1>2, <1>3 DEF IInv

(* So does an edge of the reset.                                           *)
LEMMA ResetIInv ==
  ASSUME IInv, NEW level \in ResetLevels, ResetChange(level)
  PROVE  IInv'
<1> USE PwmAssumption
<1>1. Types'
  <2>1. 0 \in 0 .. Period - 1 /\ level \in BOOLEAN
    OBVIOUS
  <2>2. count_out' \in [Gens -> 0 .. Period - 1]
    BY <2>1 DEF IInv, Types, ResetChange
  <2>3. QED
    BY <2>1, <2>2 DEF IInv, Types, ResetChange
<1>2. CASE level
  <2>1. \A g \in Gens : count_out'[g] = 0 /\ highs'[g] = highs[g]
    BY <1>2 DEF ResetChange
  <2>2. HighsBounded'
    <3> SUFFICES ASSUME NEW g \in Gens PROVE highs'[g] <= Done(g)'
      BY DEF HighsBounded
    <3>1. highs[g] <= Period
      BY DEF IInv, HighsBounded, Types, Done
    <3>2. QED
      BY <2>1, <3>1 DEF Done
  <2>3. HighsExact' /\ LowHasPassed' /\ InStep'
    BY <2>1 DEF IInv, HighsExact, LowHasPassed, InStep, ResetChange
  <2>4. QED
    BY <1>1, <2>2, <2>3 DEF IInv
<1>3. CASE ~level
  BY <1>1, <1>3 DEF IInv, HighsBounded, HighsExact, LowHasPassed, InStep, Done, ResetChange
<1>4. QED
  BY <1>2, <1>3

(* The inductive invariant.                                                *)
THEOREM Invariance == Spec => []IInv
<1>1. IInv /\ [Next]_vars => IInv'
  <2> SUFFICES ASSUME IInv, [Next]_vars PROVE IInv'
    OBVIOUS
  <2>1. CASE UNCHANGED vars
    BY <2>1 DEF vars, IInv, Types, HighsBounded, HighsExact, LowHasPassed, InStep, Done
  <2>2. QED
    BY <2>1, PosedgeIInv, PotensioIInv, ResetIInv DEF Next
<1>2. QED
  BY <1>1, InitIInv, PTL DEF Spec

-----------------------------------------------------------------------------
(* Every variable keeps a value of its width.                              *)
THEOREM TypeCorrect == Spec => []TypeOK
<1>1. IInv => TypeOK
  <2> SUFFICES ASSUME IInv PROVE TypeOK
    OBVIOUS
  <2>1. \A g \in Gens : highs[g] \in 0 .. Period
    <3> SUFFICES ASSUME NEW g \in Gens PROVE highs[g] \in 0 .. Period
      OBVIOUS
    <3>1. highs[g] \in Nat /\ count_out[g] \in 0 .. Period - 1
      BY DEF IInv, Types
    <3>2. highs[g] <= Done(g)
      BY DEF IInv, HighsBounded
    <3>3. QED
      BY <3>1, <3>2, PwmAssumption DEF Done
  <2>2. highs \in [Gens -> 0 .. Period]
    BY <2>1 DEF IInv, Types
  <2>3. QED
    BY <2>2 DEF IInv, Types, TypeOK
<1>2. QED
  BY <1>1, Invariance, PTL

(* A whole period under one throttle value has exactly that many clocks    *)
(* of output, for every width of the counter.                              *)
THEOREM DutyIsExact == Spec => []DutyExact
<1>1. IInv => DutyExact
  <2> SUFFICES ASSUME IInv, held, NEW g \in Gens, count_out[g] = 0
               PROVE  highs[g] = potensio_value
    BY DEF DutyExact
  <2>1. highs[g] = Smaller(potensio_value, Period)
    BY DEF IInv, HighsExact, Done
  <2>2. QED
    BY <2>1, PwmAssumption DEF IInv, Types, Throttle, Smaller
<1>2. QED
  BY <1>1, Invariance, PTL

(* Any number of instances stays in step.                                  *)
THEOREM StayInStep == Spec => []InStep
<1>1. IInv => InStep
  BY DEF IInv
<1>2. QED
  BY <1>1, Invariance, PTL

(* A steady throttle never turns an output on twice in a period.           *)
THEOREM OnePulsePerPeriod == Spec => TurnsOnOncePerPeriod
<1>1. IInv /\ [Next]_vars =>
        [\A g \in Gens :
           ~PWM_out[g] /\ PWM_out'[g] =>
             count_out[g] = 0 \/ potensio_value # sampled]_vars
  <2> SUFFICES ASSUME IInv, Next, NEW g \in Gens, ~PWM_out[g], PWM_out'[g],
                      count_out[g] # 0
               PROVE  potensio_value # sampled
    OBVIOUS
  <2>1. CASE PosedgeClk
    <3>1. potensio_value > count_out[g]
      BY <2>1 DEF PosedgeClk, Comparator
    <3>2. sampled < count_out[g]
      BY DEF IInv, LowHasPassed
    <3>3. QED
      BY <3>1, <3>2, PwmAssumption DEF IInv, Types, Throttle
  <2>2. ASSUME NEW v \in Throttle, PotensioChange(v) PROVE FALSE
    BY <2>2 DEF PotensioChange
  <2>3. ASSUME NEW level \in ResetLevels, ResetChange(level) PROVE FALSE
    BY <2>3 DEF ResetChange
  <2>4. QED
    BY <2>1, <2>2, <2>3 DEF Next
<1>2. QED
  BY <1>1, Invariance, PTL DEF Spec, TurnsOnOncePerPeriod

-----------------------------------------------------------------------------
(* The machine is in one of the six sectors and heads for one.             *)
Sectors ==
  /\ state_Q \in U0!States /\ state_D \in U0!States
  /\ hall_sensor \in 0..7 /\ forward \in BOOLEAN

(* A stopped controller holds nothing that could become a throttle.        *)
StoppedIsZero ==
  /\ go_en \in BOOLEAN /\ reading \in Throttle
  /\ ~go_en => reading = 0 /\ potensio_value = 0

DriveInv == Sectors /\ StoppedIsZero /\ IInv

-----------------------------------------------------------------------------
(* From a sector the next-state table leads to a sector.                   *)
LEMMA SectorNext ==
  ASSUME NEW q \in U0!States, NEW h \in 0..7, NEW d
  PROVE  U0!NextState(q, h, d) \in U0!States
  BY DEF U0!NextState, U0!SectorOf, U0!States, U0!ValidHall,
         U0!A, U0!B, U0!C, U0!D, U0!E, U0!F

(* The invariant holds out of reset.                                       *)
LEMMA DriveInitInv == DriveInit => DriveInv
<1> SUFFICES ASSUME DriveInit PROVE DriveInv
  OBVIOUS
<1>1. IInv
  BY InitIInv DEF DriveInit, BridgeInit
<1>2. Sectors
  <2>1. state_Q \in U0!States /\ hall_sensor \in 0..7 /\ forward \in BOOLEAN
    BY HallAssumption DEF DriveInit, BridgeInit, U0!Init, U0!States, U0!A
  <2>2. PICK d \in 0..7 : state_D = U0!NextState(state_Q, hall_sensor, d)
    BY DEF DriveInit, BridgeInit, U0!Init
  <2>3. QED
    BY <2>1, <2>2, SectorNext DEF Sectors
<1>3. StoppedIsZero
  <2>1. go_en = FALSE /\ reading = 0 /\ potensio_value = 0
    BY DEF DriveInit, U2!Init
  <2>2. 0 \in Throttle
    BY PwmAssumption DEF Throttle
  <2>3. QED
    BY <2>1, <2>2 DEF StoppedIsZero
<1>4. QED
  BY <1>1, <1>2, <1>3 DEF DriveInv

(* Every step of the drive is one of the generators or leaves them alone.  *)
LEMMA GeneratorStep ==
  ASSUME StoppedIsZero, [DriveNext]_drive
  PROVE  [Next]_vars
<1>1. CASE Start \/ Release
  BY <1>1 DEF Start, Release, bridge, generators, vars
<1>2. CASE Stop
  <2>1. 0 \in Throttle
    BY PwmAssumption DEF Throttle
  <2>2. QED
    BY <1>2, <2>1 DEF Stop, ADC_data, ThrottleChange, bridge, generators, vars, Next
<1>3. CASE Deliver
  BY <1>3 DEF Deliver, ADC_data, ThrottleChange, bridge, generators, vars, Next, StoppedIsZero
<1>4. ASSUME NEW r \in 0 .. Period - 1, Complete(r) PROVE [Next]_vars
  BY <1>4 DEF Complete, bridge, generators, vars
<1>5. CASE DriveClock
  BY <1>5 DEF DriveClock, Clock, Next
<1>6. CASE ForwardChange /\ UNCHANGED adc
  BY <1>6 DEF ForwardChange, U0!ForwardChange, generators, vars
<1>7. ASSUME NEW h \in HallCodes, HallChange(h) PROVE [Next]_vars
  BY <1>7 DEF HallChange, U0!HallChange, generators, vars
<1>8. ASSUME NEW level \in ResetLevels, ResetMoves(level) PROVE [Next]_vars
  BY <1>8 DEF ResetMoves, Next
<1>9. CASE UNCHANGED drive
  BY <1>9 DEF drive, bridge, generators, vars
<1>10. QED
  BY <1>1, <1>2, <1>3, <1>4, <1>5, <1>6, <1>7, <1>8, <1>9 DEF DriveNext

(* Every step keeps the invariant.                                         *)
LEMMA DriveStepInv ==
  ASSUME DriveInv, [DriveNext]_drive
  PROVE  DriveInv'
<1>1. Sectors /\ StoppedIsZero /\ IInv
  BY DEF DriveInv
<1>2. IInv'
  <2>1. [Next]_vars
    BY <1>1, GeneratorStep
  <2>2. CASE UNCHANGED vars
    BY <1>1, <2>2 DEF vars, IInv, Types, HighsBounded, HighsExact, LowHasPassed, InStep, Done
  <2>3. QED
    BY <1>1, <2>1, <2>2, PosedgeIInv, PotensioIInv, ResetIInv DEF Next
<1>3. Sectors'
  <2>1. CASE Start \/ Stop \/ Release \/ Deliver \/ \E r \in 0 .. Period - 1 : Complete(r)
    <3>1. UNCHANGED <<state_Q, state_D, hall_sensor, forward>>
      BY <2>1 DEF Start, Stop, Release, Deliver, Complete, ADC_data, ThrottleChange, bridge, commutation
    <3>2. QED
      BY <1>1, <3>1 DEF Sectors
  <2>2. CASE DriveClock
    <3>1. state_Q' \in U0!States
      BY <1>1, <2>2 DEF DriveClock, Clock, U0!PosedgeClock, Sectors, U0!States, U0!A
    <3>2. QED
      BY <1>1, <2>2, <3>1, SectorNext DEF DriveClock, Clock, U0!PosedgeClock, Sectors
  <2>3. ASSUME NEW h \in HallCodes, HallChange(h) PROVE Sectors'
    <3>1. h \in 0..7
      BY HallAssumption
    <3>2. QED
      BY <1>1, <2>3, <3>1, SectorNext DEF HallChange, U0!HallChange, Sectors
  <2>4. CASE ForwardChange /\ UNCHANGED adc
    BY <1>1, <2>4 DEF ForwardChange, U0!ForwardChange, Sectors
  <2>5. ASSUME NEW level \in ResetLevels, ResetMoves(level) PROVE Sectors'
    BY <1>1, <2>5 DEF ResetMoves, U0!ResetChange, Sectors
  <2>6. CASE UNCHANGED drive
    BY <1>1, <2>6 DEF drive, bridge, commutation, Sectors
  <2>7. QED
    BY <2>1, <2>2, <2>3, <2>4, <2>5, <2>6 DEF DriveNext
<1>4. StoppedIsZero'
  <2>1. 0 \in Throttle
    BY PwmAssumption DEF Throttle
  <2>2. CASE Start
    BY <1>1, <2>2 DEF Start, U2!Start, bridge, generators, StoppedIsZero, Throttle
  <2>3. CASE Stop
    BY <2>1, <2>3 DEF Stop, U2!Stop, StoppedIsZero, Throttle
  <2>12. CASE Release
    BY <1>1, <2>12 DEF Release, U2!Release, bridge, generators, StoppedIsZero, Throttle
  <2>4. CASE Deliver
    BY <1>1, <2>4 DEF Deliver, U2!Deliver, StoppedIsZero, Throttle
  <2>5. ASSUME NEW r \in 0 .. Period - 1, Complete(r) PROVE StoppedIsZero'
    BY <1>1, <2>5 DEF Complete, U2!Complete, StoppedIsZero, Throttle
  <2>6. CASE DriveClock
    BY <1>1, <2>6 DEF DriveClock, Clock, PosedgeClk, adc, StoppedIsZero, Throttle
  <2>7. CASE ForwardChange /\ UNCHANGED adc
    BY <1>1, <2>7 DEF ForwardChange, generators, adc, StoppedIsZero, Throttle
  <2>8. ASSUME NEW h \in HallCodes, HallChange(h), UNCHANGED adc PROVE StoppedIsZero'
    BY <1>1, <2>8 DEF HallChange, generators, adc, StoppedIsZero, Throttle
  <2>9. ASSUME NEW level \in ResetLevels, ResetMoves(level), UNCHANGED adc PROVE StoppedIsZero'
    BY <1>1, <2>9 DEF ResetMoves, ResetChange, adc, StoppedIsZero, Throttle
  <2>10. CASE UNCHANGED drive
    BY <1>1, <2>10 DEF drive, adc, bridge, generators, StoppedIsZero, Throttle
  <2>11. QED
    BY <2>2, <2>3, <2>4, <2>5, <2>6, <2>7, <2>8, <2>9, <2>10, <2>12 DEF DriveNext
<1>5. QED
  BY <1>2, <1>3, <1>4 DEF DriveInv

(* The inductive invariant of the drive.                                   *)
THEOREM DriveInvariance == DriveSpec => []DriveInv
<1>1. DriveInv /\ [DriveNext]_drive => DriveInv'
  BY DriveStepInv
<1>2. QED
  BY <1>1, DriveInitInv, PTL DEF DriveSpec

(* The three generators of the drive are generators as PwmProofs has them. *)
THEOREM DriveRunsGenerators == DriveSpec => Spec
<1>1. DriveInit => Init
  BY DEF DriveInit, BridgeInit
<1>2. DriveInv /\ [DriveNext]_drive => [Next]_vars
  BY GeneratorStep DEF DriveInv
<1>3. QED
  BY <1>1, <1>2, DriveInvariance, PTL DEF DriveSpec, Spec
-----------------------------------------------------------------------------
(* The leg whose high side is enabled, and the one whose low side is.      *)
HighLeg == IF forward
           THEN (IF state_Q \in {3, 4} THEN "a" ELSE IF state_Q \in {0, 5} THEN "b" ELSE "c")
           ELSE (IF state_Q \in {0, 1} THEN "a" ELSE IF state_Q \in {2, 3} THEN "b" ELSE "c")
LowLeg  == IF forward
           THEN (IF state_Q \in {0, 1} THEN "a" ELSE IF state_Q \in {2, 3} THEN "b" ELSE "c")
           ELSE (IF state_Q \in {3, 4} THEN "a" ELSE IF state_Q \in {0, 5} THEN "b" ELSE "c")

(* In a sector just one leg's high side is enabled, and just one low side  *)
(* is on.                                                                  *)
LEMMA Selected ==
  ASSUME Sectors
  PROVE  /\ HighLeg \in Legs /\ LowLeg \in Legs /\ HighLeg # LowLeg
         /\ \A leg \in Legs : U0!HighOn(state_Q, forward, leg) <=> leg = HighLeg
         /\ \A leg \in Legs : U0!LowOn(state_Q, forward, leg) <=> leg = LowLeg
<1>1. /\ U0!HighStates("a") = {0, 1} /\ U0!HighStates("b") = {2, 3} /\ U0!HighStates("c") = {4, 5}
      /\ U0!LowStates("a") = {3, 4} /\ U0!LowStates("b") = {0, 5} /\ U0!LowStates("c") = {1, 2}
  BY DEF U0!HighStates, U0!LowStates, U0!A, U0!B, U0!C, U0!D, U0!E, U0!F
<1>2. state_Q \in 0..5 /\ forward \in BOOLEAN
  BY DEF Sectors, U0!States, U0!A, U0!B, U0!C, U0!D, U0!E, U0!F
<1>3. CASE forward
  BY <1>1, <1>2, <1>3 DEF Legs, HighLeg, LowLeg, U0!HighOn, U0!LowOn
<1>4. CASE ~forward
  BY <1>1, <1>2, <1>4 DEF Legs, HighLeg, LowLeg, U0!HighOn, U0!LowOn
<1>5. QED
  BY <1>3, <1>4

(* The gates never form more than one loop through two different legs,     *)
(* whatever the operator, the rotor and the reset do (pattern_PWM.V, lines *)
(* 99-104).                                                                *)
THEOREM OneLoopAlways == DriveSpec => []OneLoop
<1>1. DriveInv => OneLoop
  BY Selected DEF DriveInv, OneLoop, PWM_H, PWM_L
<1>2. QED
  BY <1>1, DriveInvariance, PTL

(* The duty cycle of the drive is exact, since its generators' is.         *)
THEOREM DriveDutyExact == DriveSpec => []DutyExact
BY DriveRunsGenerators, DutyIsExact, PTL

(* Some high side is on exactly when the generator of leg a is high: the   *)
(* commutation always enables one leg, and the generators are in step.     *)
LEMMA ChoppedByAny ==
  ASSUME DriveInv
  PROVE  /\ HighSideOn <=> PWM_out["a"]
         /\ HighSideOn \in BOOLEAN /\ PWM_out["a"] \in BOOLEAN
<1>1. Sectors /\ InStep /\ PWM_out \in [Legs -> BOOLEAN] /\ "a" \in Legs
  BY OneGeneratorPerLeg DEF DriveInv, IInv, Types, Legs
<1>2. HighSideOn <=> PWM_out[HighLeg]
  BY <1>1, Selected DEF HighSideOn, PWM_H
<1>3. PWM_out[HighLeg] = PWM_out["a"]
  BY <1>1, Selected, OneGeneratorPerLeg DEF InStep
<1>4. QED
  BY <1>1, <1>2, <1>3 DEF HighSideOn

(* A stop is felt at the next clock, and only a start ends it: from then   *)
(* on no clock, no turn of the rotor, no switch turns a high side on       *)
(* (ADC_CTRL.v, lines 42-51 and 92-95).                                    *)
THEOREM StopHolds == DriveSpec => StoppedMeansOff
<1>0. (DriveInv => (HighSideOn <=> PWM_out["a"]))'
  <2>1. DriveInv => (HighSideOn <=> PWM_out["a"])
    BY ChoppedByAny
  <2>2. QED
    BY <2>1, PTL
<1>1. ASSUME DriveInv, DriveInv', [DriveNext]_drive, ~go_en
      PROVE  /\ ~HighSideOn => ~HighSideOn'
             /\ Clock => ~HighSideOn'
  <2>1. HighSideOn <=> PWM_out["a"]
    BY <1>1, ChoppedByAny
  <2>2. HighSideOn' <=> PWM_out'["a"]
    BY <1>0, <1>1
  <2>3. potensio_value = 0 /\ count_out["a"] \in 0 .. Period - 1 /\ "a" \in Gens
    BY <1>1, OneGeneratorPerLeg DEF DriveInv, StoppedIsZero, IInv, Types, Legs
  <2>4. PosedgeClk => ~PWM_out'["a"]
    <3>1. PosedgeClk => PWM_out'["a"] = Comparator("a")
      BY <2>3, Zenon DEF PosedgeClk
    <3>2. Comparator("a") = FALSE
      BY <2>3, PwmAssumption DEF Comparator
    <3>3. QED
      BY <3>1, <3>2
  <2>5. [Next]_vars
    BY <1>1, GeneratorStep DEF DriveInv
  <2>6. ~PosedgeClk => PWM_out' = PWM_out
    BY <2>5 DEF Next, PotensioChange, ResetChange, vars
  <2>7. QED
    BY <2>1, <2>2, <2>4, <2>6 DEF Clock
<1>2. DriveInv /\ DriveInv' /\ [DriveNext]_drive =>
        [/\ ~go_en /\ ~HighSideOn => ~HighSideOn'
         /\ ~go_en /\ Clock => ~HighSideOn']_drive
  BY <1>1
<1>3. QED
  BY <1>2, DriveInvariance, PTL DEF DriveSpec, StoppedMeansOff
-----------------------------------------------------------------------------
(* The three generators behind the commutation are one generator: every    *)
(* step of the drive is a step of a single generator whose output is       *)
(* "some high side is on", or leaves it alone (pattern_PWM.V, lines 78-99). *)
THEOREM DriveChopsAsOne == DriveSpec => ChopsAsOne
<1>0. (DriveInv => HighSideOn = PWM_out["a"])'
  <2>1. DriveInv => HighSideOn = PWM_out["a"]
    BY ChoppedByAny
  <2>2. QED
    BY <2>1, PTL
<1>1. DriveInit => One!Init
  <2> SUFFICES ASSUME DriveInit PROVE One!Init
    OBVIOUS
  <2>1. Init /\ "a" \in Gens /\ DriveInv
    BY OneGeneratorPerLeg, DriveInitInv DEF DriveInit, BridgeInit, Legs
  <2>2. PWM_out["a"] = FALSE /\ count_out["a"] = 0 /\ highs["a"] = 0
    BY <2>1 DEF Init
  <2>3. ~HighSideOn
    BY <2>1, <2>2, ChoppedByAny
  <2>4. QED
    BY <2>1, <2>2, <2>3 DEF Init, One!Init, HighSideOn, Throttle, One!Throttle
<1>2. ASSUME DriveInv, DriveInv', [DriveNext]_drive
      PROVE  [One!Next]_(One!vars)
  <2>1. HighSideOn = PWM_out["a"] /\ HighSideOn' = PWM_out'["a"]
    BY <1>0, <1>2, ChoppedByAny
  <2>2. "a" \in Gens /\ InStep /\ IInv
    BY <1>2, OneGeneratorPerLeg DEF DriveInv, IInv, Legs
  <2>3. /\ HighSideOn = \E leg \in Legs : PWM_H(leg)
        /\ HighSideOn' = \E leg \in Legs : PWM_H(leg)'
    BY DEF HighSideOn
  <2>4. CASE PosedgeClk
    <3>1. PWM_out'["a"] = Comparator("a")
      BY <2>2, <2>4, Zenon DEF PosedgeClk
    <3>2. count_out'["a"] = NextCount("a")
      BY <2>2, <2>4, Zenon DEF PosedgeClk
    <3>3. highs'["a"] = (IF count_out["a"] = 0 THEN 0 ELSE highs["a"]) + (IF PWM_out'["a"] THEN 1 ELSE 0)
      BY <2>2, <2>4 DEF PosedgeClk, Record
    <3>4. held' = (~rst /\ (held \/ count_out["a"] = 0))
      BY <2>2, <2>4 DEF PosedgeClk, Record, InStep
    <3>5. UNCHANGED <<potensio_value, rst>> /\ sampled' = potensio_value
      BY <2>4 DEF PosedgeClk, Record
    <3>6. [g \in {"bridge"} |-> HighSideOn'] = [g \in {"bridge"} |-> One!Comparator(g)]
      <4>1. One!Comparator("bridge") = Comparator("a")
        BY DEF One!Comparator, Comparator
      <4>2. QED
        BY <2>1, <3>1, <4>1
    <3>7. [g \in {"bridge"} |-> count_out'["a"]] = [g \in {"bridge"} |-> One!NextCount(g)]
      <4>1. One!NextCount("bridge") = NextCount("a")
        BY DEF One!NextCount, NextCount
      <4>2. QED
        BY <3>2, <4>1
    <3>8. One!Record
      BY <2>1, <2>3, <3>3, <3>4, <3>5 DEF One!Record
    <3>9. One!PosedgeClk
      BY <2>3, <3>5, <3>6, <3>7, <3>8 DEF One!PosedgeClk
    <3>10. QED
      BY <3>9 DEF One!Next
  <2>5. ASSUME NEW v \in Throttle, PotensioChange(v) PROVE One!PotensioChange(v)
    <3>1. HighSideOn' = HighSideOn
      BY <2>1, <2>5 DEF PotensioChange
    <3>2. QED
      BY <2>3, <2>5, <3>1 DEF PotensioChange, One!PotensioChange
  <2>6. ASSUME NEW level \in ResetLevels, ResetChange(level) PROVE One!ResetChange(level)
    <3>1. HighSideOn' = HighSideOn
      BY <2>1, <2>6 DEF ResetChange
    <3>2. count_out'["a"] = IF level THEN 0 ELSE count_out["a"]
      BY <2>2, <2>6 DEF ResetChange
    <3>3. [g \in {"bridge"} |-> count_out'["a"]]
            = IF level THEN [g \in {"bridge"} |-> 0] ELSE [g \in {"bridge"} |-> count_out["a"]]
      BY <3>2
    <3>4. QED
      BY <2>3, <2>6, <3>1, <3>3 DEF ResetChange, One!ResetChange
  <2>7. CASE UNCHANGED vars
    <3>1. HighSideOn' = HighSideOn
      BY <2>1, <2>7 DEF vars
    <3>2. QED
      BY <2>3, <2>7, <3>1 DEF vars, One!vars
  <2>8. [Next]_vars
    BY <1>2, GeneratorStep DEF DriveInv
  <2>9. QED
    BY <2>4, <2>5, <2>6, <2>7, <2>8 DEF Next, One!Next, Throttle, One!Throttle
<1>3. QED
  BY <1>1, <1>2, DriveInvariance, PTL DEF DriveSpec, ChopsAsOne, One!Spec
=============================================================================
