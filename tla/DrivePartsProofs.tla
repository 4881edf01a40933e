-------------------------- MODULE DrivePartsProofs --------------------------
(***************************************************************************)
(* Proofs about what selects the gates of the drive and what sets its      *)
(* throttle, each by itself.                                               *)
(*                                                                         *)
(* The first part is about the commutation (Commutation), for every set of *)
(* power-up codes, hall patterns and reset levels, with and without torn   *)
(* captures.  The second is about the controller of the converter          *)
(* (AdcCtrl), for all conversions and every channel and whatever the       *)
(* buttons do; it shows that the controller implements AdcSample, by which *)
(* the drive has it.                                                       *)
(***************************************************************************)
EXTENDS Commutation, AdcCtrl, TLAPS

(* The next-state table drives a word of three bits.                       *)
LEMMA NextStateType ==
  ASSUME NEW q \in 0..7, NEW h \in 0..7, NEW d \in 0..7
  PROVE  NextState(q, h, d) \in 0..7
  BY DEF NextState, SectorOf, States, ValidHall, A, B, C, D, E, F

(* From a sector the next-state table drives a sector.                     *)
LEMMA NextStateSector ==
  ASSUME NEW q \in States, NEW h \in 0..7, NEW d \in 0..7
  PROVE  NextState(q, h, d) \in States
  BY DEF NextState, SectorOf, States, ValidHall, A, B, C, D, E, F

(* A torn capture is still a word of three bits.                           *)
LEMMA MixType == \A x, y : Mix(x, y) \subseteq 0..7
  BY DEF Mix

(* Every variable keeps a value of its width.                              *)
THEOREM TypeCorrect == Spec => []TypeOK
<1>1. Init => TypeOK
  BY CommutationAssumption, NextStateType DEF Init, TypeOK
<1>2. TypeOK /\ [Next]_vars => TypeOK'
  <2> SUFFICES ASSUME TypeOK, [Next]_vars PROVE TypeOK'
    OBVIOUS
  <2>1. CASE PosedgeClock
    <3>1. state_Q' \in 0..7
      BY <2>1 DEF PosedgeClock, TypeOK, A
    <3>2. QED
      BY <2>1, <3>1, NextStateType DEF PosedgeClock, TypeOK
  <2>2. ASSUME NEW h \in HallCodes, HallChange(h) PROVE TypeOK'
    <3>1. h \in 0..7
      BY CommutationAssumption
    <3>2. QED
      BY <2>2, <3>1, NextStateType DEF HallChange, TypeOK
  <2>3. CASE ForwardChange
    BY <2>3 DEF ForwardChange, TypeOK
  <2>4. ASSUME NEW level \in ResetLevels, ResetChange(level) PROVE TypeOK'
    BY <2>4, CommutationAssumption DEF ResetChange, TypeOK
  <2>5. ASSUME NEW h \in HallCodes, SkewedClock(h) PROVE TypeOK'
    <3>1. h \in 0..7
      BY CommutationAssumption
    <3> DEFINE captured == Mix(state_D, NextState(state_Q, h, state_D))
    <3>2. PICK d \in captured :
            state_Q' \in captured /\ state_D' = NextState(state_Q', h, d)
      BY <2>5 DEF SkewedClock
    <3>3. state_Q' \in 0..7 /\ d \in 0..7
      BY <3>2, MixType
    <3>4. state_D' \in 0..7
      BY <3>1, <3>2, <3>3, NextStateType
    <3>5. QED
      BY <2>5, <3>1, <3>3, <3>4 DEF SkewedClock, TypeOK
  <2>6. CASE UNCHANGED vars
    BY <2>6 DEF vars, TypeOK
  <2>7. QED
    BY <2>1, <2>2, <2>3, <2>4, <2>5, <2>6 DEF Next
<1>3. QED
  BY <1>1, <1>2, PTL DEF Spec

(* The legs that conduct in a sector in reverse; forward exchanges them.   *)
HighLeg(q) == IF q \in {A, B} THEN "a" ELSE IF q \in {C, D} THEN "b" ELSE "c"
LowLeg(q)  == IF q \in {D, E} THEN "a" ELSE IF q \in {A, F} THEN "b" ELSE "c"

(* In a sector the sets of high and of low switches are singletons.        *)
LEMMA PairOfSector ==
  ASSUME NEW q \in States
  PROVE  /\ High(q, FALSE) = {HighLeg(q)} /\ Low(q, FALSE) = {LowLeg(q)}
         /\ High(q, TRUE) = {LowLeg(q)} /\ Low(q, TRUE) = {HighLeg(q)}
<1>1. /\ HighStates("a") = {A, B} /\ HighStates("b") = {C, D}
      /\ HighStates("c") = {E, F}
      /\ LowStates("a") = {D, E} /\ LowStates("b") = {A, F}
      /\ LowStates("c") = {B, C}
  BY DEF HighStates, LowStates
<1>2. \A leg \in Legs : /\ q \in HighStates(leg) <=> leg = HighLeg(q)
                        /\ q \in LowStates(leg) <=> leg = LowLeg(q)
  BY <1>1 DEF Legs, States, A, B, C, D, E, F, HighLeg, LowLeg
<1>3. HighLeg(q) \in Legs /\ LowLeg(q) \in Legs
  BY DEF Legs, HighLeg, LowLeg
<1>4. {leg \in Legs : q \in HighStates(leg)} = {HighLeg(q)}
      /\ {leg \in Legs : q \in LowStates(leg)} = {LowLeg(q)}
  BY <1>2, <1>3
<1>5. QED
  BY <1>4 DEF High, Low, HighOn, LowOn

(* Each of the eight codes turns on a pair of different legs or nothing.   *)
LEMMA PairOfCode ==
  ASSUME NEW q \in 0..7, NEW fwd \in BOOLEAN
  PROVE  IF q \in States
         THEN \E p, r \in Legs :
                p # r /\ High(q, fwd) = {p} /\ Low(q, fwd) = {r}
         ELSE High(q, fwd) = {} /\ Low(q, fwd) = {}
<1>1. CASE q \in States
  <2>1. /\ HighLeg(q) \in Legs /\ LowLeg(q) \in Legs
        /\ HighLeg(q) # LowLeg(q)
    BY <1>1 DEF HighLeg, LowLeg, Legs, States, A, B, C, D, E, F
  <2>2. CASE fwd
    BY <1>1, <2>1, <2>2, PairOfSector
  <2>3. CASE ~fwd
    BY <1>1, <2>1, <2>3, PairOfSector
  <2>4. QED
    BY <2>2, <2>3
<1>2. CASE q \notin States
  <2>1. \A leg \in Legs : q \notin HighStates(leg) /\ q \notin LowStates(leg)
    BY <1>2 DEF Legs, HighStates, LowStates, States
  <2>2. QED
    BY <1>2, <2>1 DEF High, Low, HighOn, LowOn
<1>3. QED
  BY <1>1, <1>2

(* No reachable state of the drive shorts the supply through the bridge,   *)
(* torn captures, resets and flips of the direction switch included.       *)
THEOREM NeverShoots == Spec => []OnePhasePair
<1>1. TypeOK => OnePhasePair
  BY PairOfCode DEF TypeOK, OnePhasePair
<1>2. QED
  BY <1>1, TypeCorrect, PTL

-----------------------------------------------------------------------------
(* With hall inputs that respect the set-up time, a machine that powers up *)
(* in a sector never leaves the six of them.                               *)
THEOREM StaysInSector ==
  ASSUME ~HallSkew, PowerUp \subseteq States
  PROVE  Spec => []InSector
<1>1. Init => InSector
  <2> SUFFICES ASSUME Init PROVE InSector
    OBVIOUS
  <2>1. state_Q \in States /\ hall_sensor \in 0..7
    BY CommutationAssumption DEF Init
  <2>2. QED
    BY <2>1, NextStateSector DEF Init, InSector
<1>2. TypeOK /\ InSector /\ [Next]_vars => InSector'
  <2> SUFFICES ASSUME TypeOK, InSector, [Next]_vars PROVE InSector'
    OBVIOUS
  <2>1. state_Q \in States /\ state_D \in States /\ state_D \in 0..7
    BY DEF TypeOK, InSector
  <2>2. CASE PosedgeClock
    <3>1. state_Q' \in States
      BY <2>1, <2>2 DEF PosedgeClock, States
    <3>2. state_D' \in States
      BY <2>1, <2>2, <3>1, NextStateSector DEF PosedgeClock, TypeOK
    <3>3. QED
      BY <3>1, <3>2 DEF InSector
  <2>3. ASSUME NEW h \in HallCodes, HallChange(h) PROVE InSector'
    <3>1. h \in 0..7
      BY CommutationAssumption
    <3>2. QED
      BY <2>1, <2>3, <3>1, NextStateSector DEF HallChange, InSector
  <2>4. CASE ForwardChange
    BY <2>1, <2>4 DEF ForwardChange, InSector
  <2>5. ASSUME NEW level \in ResetLevels, ResetChange(level) PROVE InSector'
    BY <2>1, <2>5 DEF ResetChange, InSector
  <2>6. ASSUME NEW h \in HallCodes, SkewedClock(h) PROVE InSector'
    BY <2>6 DEF SkewedClock
  <2>7. CASE UNCHANGED vars
    BY <2>1, <2>7 DEF vars, InSector
  <2>8. QED
    BY <2>2, <2>3, <2>4, <2>5, <2>6, <2>7 DEF Next
<1>3. QED
  BY <1>1, <1>2, TypeCorrect, PTL DEF Spec

-----------------------------------------------------------------------------
(* An advance by one sector exchanges one switch and lets the other        *)
(* conduct on; no leg goes from one of its switches to the other.          *)
LEMMA AdvanceOfPair ==
  ASSUME NEW q, NEW r, Adjacent(q, r), NEW fwd \in BOOLEAN
  PROVE  /\ (High(q, fwd) = High(r, fwd)) # (Low(q, fwd) = Low(r, fwd))
         /\ High(q, fwd) \intersect Low(r, fwd) = {}
         /\ Low(q, fwd) \intersect High(r, fwd) = {}
<1>1. /\ q \in States /\ r \in States
      /\ q = (r + 1) % 6 \/ r = (q + 1) % 6
  BY DEF Adjacent
<1>2. ASSUME NEW x \in States, NEW y \in States, y = (x + 1) % 6
      PROVE  /\ (HighLeg(x) = HighLeg(y)) # (LowLeg(x) = LowLeg(y))
             /\ HighLeg(x) # LowLeg(y) /\ LowLeg(x) # HighLeg(y)
  <2>1. y = IF x = 5 THEN 0 ELSE x + 1
    BY <1>2 DEF States, A, B, C, D, E, F
  <2>2. QED
    BY <2>1 DEF HighLeg, LowLeg, States, A, B, C, D, E, F
<1>3. /\ (HighLeg(q) = HighLeg(r)) # (LowLeg(q) = LowLeg(r))
      /\ HighLeg(q) # LowLeg(r) /\ LowLeg(q) # HighLeg(r)
  <2>1. CASE r = (q + 1) % 6
    BY <1>1, <1>2, <2>1
  <2>2. CASE q = (r + 1) % 6
    <3>1. /\ (HighLeg(r) = HighLeg(q)) # (LowLeg(r) = LowLeg(q))
          /\ HighLeg(r) # LowLeg(q) /\ LowLeg(r) # HighLeg(q)
      BY <1>1, <1>2, <2>2
    <3>2. QED
      BY <3>1
  <2>3. QED
    BY <1>1, <2>1, <2>2
<1>4. CASE fwd
  <2>1. /\ High(q, fwd) = {LowLeg(q)} /\ Low(q, fwd) = {HighLeg(q)}
        /\ High(r, fwd) = {LowLeg(r)} /\ Low(r, fwd) = {HighLeg(r)}
    BY <1>1, <1>4, PairOfSector
  <2>2. QED
    BY <1>3, <2>1
<1>5. CASE ~fwd
  <2>1. /\ High(q, fwd) = {HighLeg(q)} /\ Low(q, fwd) = {LowLeg(q)}
        /\ High(r, fwd) = {HighLeg(r)} /\ Low(r, fwd) = {LowLeg(r)}
    BY <1>1, <1>5, PairOfSector
  <2>2. QED
    BY <1>3, <2>1
<1>6. QED
  BY <1>4, <1>5

(* In every behaviour, torn captures and resets included, an advance of    *)
(* the machine by one sector needs no dead time.                           *)
THEOREM AdvanceIsSafe == Spec => AdvanceMovesOneSwitch
<1>1. TypeOK /\ [Next]_vars =>
        [(Adjacent(state_Q, state_Q') /\ forward' = forward) =>
           LET high == High(state_Q, forward)   high2 == High(state_Q', forward)
               low  == Low(state_Q, forward)    low2  == Low(state_Q', forward)
           IN  /\ (high = high2) # (low = low2)
               /\ high \intersect low2 = {}
               /\ low \intersect high2 = {}]_vars
  BY AdvanceOfPair DEF TypeOK
<1>2. QED
  BY <1>1, TypeCorrect, PTL DEF Spec, AdvanceMovesOneSwitch

-----------------------------------------------------------------------------
(* From a sector the machine is driven to a sector.                        *)
DrivenToSector == state_Q \in States => state_D \in States

(* A word mixed from two neighbouring sectors is a sector, unless all      *)
(* three bits differ.                                                      *)
LEMMA MixOfNeighbours ==
  ASSUME NEW x, NEW y, Adjacent(x, y), NEW m \in Mix(x, y), m \notin States
  PROVE  {x, y} = {D, E}
<1>1. /\ x \in 0..5 /\ y \in 0..5 /\ m \in 6..7
      /\ (y = IF x = 5 THEN 0 ELSE x + 1) \/ (x = IF y = 5 THEN 0 ELSE y + 1)
  <2>1. x \in 0..5 /\ y \in 0..5 /\ (y = (x + 1) % 6 \/ x = (y + 1) % 6)
    BY DEF Adjacent, States, A, B, C, D, E, F
  <2>2. m \in 6..7
    BY DEF Mix, States, A, B, C, D, E, F
  <2>3. QED
    BY <2>1, <2>2
<1>2. /\ (m \div 2) % 2 = 1 /\ (m \div 4) % 2 = 1
  BY <1>1
<1>3. /\ (x \div 2) % 2 = 1 \/ (y \div 2) % 2 = 1
      /\ (x \div 4) % 2 = 1 \/ (y \div 4) % 2 = 1
  BY <1>2 DEF Mix, Bit
<1>4. (x = 3 /\ y = 4) \/ (x = 4 /\ y = 3)
  <2>1. \A v \in 0..5 : /\ (v \div 2) % 2 = 1 => v \in 2..3
                        /\ (v \div 4) % 2 = 1 => v \in 4..5
    OBVIOUS
  <2>2. /\ x \in 2..3 \/ y \in 2..3
        /\ x \in 4..5 \/ y \in 4..5
    BY <1>1, <1>3, <2>1
  <2>3. QED
    BY <1>1, <2>2
<1>5. QED
  BY <1>4 DEF D, E

(* Every step keeps it.                                                    *)
LEMMA DrivenStep ==
  ASSUME TypeOK, DrivenToSector, [Next]_vars PROVE DrivenToSector'
<1>1. state_Q \in 0..7 /\ state_D \in 0..7 /\ hall_sensor \in 0..7
  BY DEF TypeOK
<1>2. CASE PosedgeClock
  <2>1. state_D' = NextState(state_Q', hall_sensor, state_D)
    BY <1>2 DEF PosedgeClock
  <2>2. QED
    BY <1>1, <2>1, NextStateSector DEF DrivenToSector
<1>3. ASSUME NEW h \in HallCodes, HallChange(h) PROVE DrivenToSector'
  <2>1. h \in 0..7 /\ state_D' = NextState(state_Q, h, state_D) /\ state_Q' = state_Q
    BY <1>3, CommutationAssumption DEF HallChange
  <2>2. QED
    BY <1>1, <2>1, NextStateSector DEF DrivenToSector
<1>4. ASSUME NEW h \in HallCodes, SkewedClock(h) PROVE DrivenToSector'
  <2>1. h \in 0..7
    BY CommutationAssumption
  <2>2. PICK d \in 0..7 : state_D' = NextState(state_Q', h, d)
    BY <1>4, MixType DEF SkewedClock
  <2>3. QED
    BY <2>1, <2>2, NextStateSector DEF DrivenToSector
<1>5. ASSUME UNCHANGED <<state_Q, state_D>> PROVE DrivenToSector'
  BY <1>5 DEF DrivenToSector
<1>6. QED
  BY <1>2, <1>3, <1>4, <1>5 DEF Next, ForwardChange, ResetChange, vars

(* A machine in the six sectors leaves them only by a hall line caught in  *)
(* the set-up window, and, if the rotor advances by one sector, only on    *)
(* the boundary of D and E.                                                *)
THEOREM TornWhereAllBitsChange == Spec => TornOnlyBetweenDAndE
<1>1. Init => DrivenToSector
  <2> SUFFICES ASSUME Init, state_Q \in States PROVE state_D \in States
    BY DEF DrivenToSector
  <2>1. hall_sensor \in 0..7
    BY CommutationAssumption DEF Init
  <2>2. QED
    BY <2>1, NextStateSector DEF Init
<1>2. TypeOK /\ DrivenToSector /\ [Next]_vars => DrivenToSector'
  BY DrivenStep
<1>3. TypeOK /\ DrivenToSector /\ [Next]_vars =>
        [(state_Q \in States /\ state_Q' \notin States) =>
           /\ hall_sensor' # hall_sensor
           /\ (/\ hall_sensor' \in ValidHall
               /\ Adjacent(state_D, SectorOf(hall_sensor')))
              => {state_D, SectorOf(hall_sensor')} = {D, E}]_vars
  <2> SUFFICES ASSUME TypeOK, DrivenToSector, [Next]_vars,
                      state_Q \in States, state_Q' \notin States
               PROVE  /\ hall_sensor' # hall_sensor
                      /\ (/\ hall_sensor' \in ValidHall
                          /\ Adjacent(state_D, SectorOf(hall_sensor')))
                         => {state_D, SectorOf(hall_sensor')} = {D, E}
    OBVIOUS
  <2>1. state_D \in States
    BY DEF DrivenToSector
  <2>2. ~PosedgeClock
    BY <2>1 DEF PosedgeClock, States
  <2>3. PICK h \in HallCodes : SkewedClock(h)
    BY <2>2 DEF Next, HallChange, ForwardChange, ResetChange, vars
  <2>4. hall_sensor' = h /\ h # hall_sensor /\ state_Q' \in Mix(state_D, NextState(state_Q, h, state_D))
    BY <2>3 DEF SkewedClock
  <2>5. h \in ValidHall => NextState(state_Q, h, state_D) = SectorOf(h)
    BY DEF NextState
  <2>6. QED
    BY <2>4, <2>5, MixOfNeighbours
<1>4. QED
  BY <1>1, <1>2, <1>3, TypeCorrect, PTL DEF Spec, TornOnlyBetweenDAndE

-----------------------------------------------------------------------------
(***************************************************************************)
(* The controller of the throttle's converter, module AdcCtrl.             *)
(***************************************************************************)
(* The types, of the variables the proof looks into.                        *)
AdcTypes ==
  /\ cont \in 0..15 /\ m_cont \in 0..15 /\ clocks \in 0..16
  /\ adc_data \in Word
  /\ word \in Word
  /\ address \in [0..2 -> BOOLEAN]
  /\ data \in BOOLEAN
  /\ iDOUT \in BOOLEAN
  /\ go_en \in BOOLEAN /\ iRST \in BOOLEAN

(* Stopped, the controller is cleared: all but the delayed copy m_cont and *)
(* the address line, which only the other clock moves (lines 64-68).       *)
Cleared ==
  ~go_en => /\ cont = 0 /\ clocks = 0
            /\ adc_data = Zero
            /\ led = TopOf(Zero) /\ reading = TopOf(Zero)

(* Running, the controller's counter and the converter's agree.  Between a *)
(* falling edge and the rising one the delayed copy agrees too, except in  *)
(* the first half clock of a start that came while iCLK was low: then it   *)
(* is left over from the last frame, and the register is clear.            *)
FrameInStep ==
  go_en => IF iCLK
           THEN \/ clocks = 0 /\ cont = 0 /\ adc_data = Zero
                \/ clocks \in 1..16 /\ cont = IF clocks = 16 THEN 0 ELSE clocks
           ELSE /\ clocks = cont + 1
                /\ m_cont = cont \/ (cont = 0 /\ adc_data = Zero)

(* What the converter has on its line: the bit its own count says, and     *)
(* zeros before that.                                                      *)
Sent ==
  go_en /\ ~iCLK => IF clocks > 4 THEN iDOUT = word[16 - clocks]
                                  ELSE iDOUT = FALSE

(* The lowest bit of this frame that the register has stored.              *)
LowestStored == IF iCLK THEN 16 - clocks ELSE 17 - clocks

(* Every bit stored is the frame's.                                        *)
Gathered ==
  go_en => \A i \in 0..11 : i >= LowestStored => adc_data[i] = word[i]

(* Until the frame's first bit is stored, and once its last one is, the    *)
(* register holds the last reading that was sent whole.                    *)
KeptWhole ==
  go_en /\ (clocks <= 4 \/ (iCLK /\ clocks = 16)) =>
    reading = TopOf(adc_data)

(* The address bits the converter has read are the channel's, and the one  *)
(* it is about to read too.                                                *)
LowestHeard == IF iCLK THEN 5 - clocks ELSE 6 - clocks

Heard ==
  go_en => /\ ~iCLK /\ clocks \in 3..5 => data = iCHBit(5 - clocks)
           /\ \A i \in 0..2 : i >= LowestHeard => address[i] = iCHBit(i)

AdcInv ==
  AdcTypes /\ Cleared /\ FrameInStep /\ Sent /\ Gathered /\ KeptWhole /\ Heard

-----------------------------------------------------------------------------
(* The wrap-around of the two counters.                                    *)
LEMMA Counters ==
  /\ \A c \in 0..15 : (c + 1) % 16 = IF c = 15 THEN 0 ELSE c + 1
  /\ \A c \in 0..16 : c % 16 = IF c = 16 THEN 0 ELSE c
  OBVIOUS

(* The cleared register is a word.                                         *)
LEMMA ZeroType == Zero \in Word /\ \A i \in 0..11 : Zero[i] = FALSE
  BY DEF Zero, Word

(* So are the conversions.                                                 *)
LEMMA WordsAreWords == Words \subseteq Word
  BY AdcAssumption DEF Word

(* The invariant holds at power-up.                                        *)
LEMMA AdcPowersUp ==
  ASSUME AdcInit
  PROVE  AdcInv
<1>1. AdcTypes
  <2>1. word \in Word /\ adc_data \in Word
    BY ZeroType, WordsAreWords DEF AdcInit
  <2>2. address \in [0..2 -> BOOLEAN]
    BY DEF AdcInit
  <2>3. /\ data \in BOOLEAN /\ iDOUT \in BOOLEAN
        /\ go_en \in BOOLEAN /\ iRST \in BOOLEAN
    BY Zenon DEF AdcInit
  <2>4. cont \in 0..15 /\ m_cont \in 0..15 /\ clocks \in 0..16
    BY DEF AdcInit
  <2>5. QED
    BY <2>1, <2>2, <2>3, <2>4, Zenon DEF AdcTypes
<1>2. ~go_en /\ Cleared
  BY DEF AdcInit, Cleared
<1>3. QED
  BY <1>1, <1>2, Zenon DEF AdcInv, FrameInStep, Sent, Gathered, KeptWhole, Heard

(* A rising edge while the controller runs: a bit goes into the register,  *)
(* the last one completes the reading, and what led takes over, if         *)
(* anything, is the last whole reading.                                    *)
LEMMA AdcRises ==
  ASSUME AdcInv, PosedgeCLK, go_en
  PROVE  /\ AdcInv'
         /\ clocks = 16 => reading' = TopOf(word) /\ led' = led
         /\ clocks # 16 => reading' = reading /\ (led' = led \/ led' = reading)
<1>1. /\ ~iCLK /\ iCLK' /\ go_en'
      /\ cont' = NextCont /\ adc_data' = Capture(adc_data) /\ led' = Deliver
      /\ reading' = IF clocks = 16 THEN TopOf(word) ELSE reading
      /\ clocks' = clocks /\ word' = word /\ iDOUT' = iDOUT
      /\ m_cont' = m_cont /\ data' = data /\ iRST' = iRST /\ go_en' = go_en
  BY Zenon DEF PosedgeCLK, ChipRises
<1>2. /\ cont \in 0..15 /\ m_cont \in 0..15 /\ clocks \in 0..16
      /\ clocks = cont + 1
      /\ m_cont = cont \/ (cont = 0 /\ adc_data = Zero)
      /\ adc_data \in Word /\ word \in Word
  BY <1>1, Zenon DEF AdcInv, AdcTypes, FrameInStep
<1>3. cont' = IF clocks = 16 THEN 0 ELSE clocks
  BY <1>1, <1>2, Counters DEF NextCont
<1>4. IF clocks > 4 THEN iDOUT = word[16 - clocks] ELSE iDOUT = FALSE
  BY <1>1, Zenon DEF AdcInv, Sent
<1>5. /\ adc_data' \in Word
      /\ clocks <= 4 => adc_data' = adc_data
      /\ clocks > 4 => adc_data' = [adc_data EXCEPT ![16 - clocks] = word[16 - clocks]]
  <2>1. iDOUT \in BOOLEAN
    BY Zenon DEF AdcInv, AdcTypes
  <2>2. CASE clocks > 4
    <3>1. m_cont = clocks - 1 /\ m_cont \in 4..15 /\ 15 - m_cont = 16 - clocks
      BY <1>2, <2>2
    <3>2. adc_data' = [adc_data EXCEPT ![16 - clocks] = iDOUT]
      BY <1>1, <3>1, Zenon DEF Capture
    <3>3. adc_data' = [adc_data EXCEPT ![16 - clocks] = word[16 - clocks]]
      BY <1>4, <2>2, <3>2, Zenon
    <3>4. adc_data' \in Word
      BY <1>2, <2>1, <3>2, Zenon DEF Word
    <3>5. QED
      BY <1>2, <2>2, <3>3, <3>4
  <2>3. CASE ~(clocks > 4)
    <3>1. clocks <= 4
      BY <1>2, <2>3
    <3>2. adc_data' = adc_data
      <4>1. CASE m_cont \in 4..15
        <5>1. adc_data = Zero /\ iDOUT = FALSE
          BY <1>2, <1>4, <2>3, <3>1, <4>1
        <5>2. 15 - m_cont \in 0..11
          BY <1>2, <4>1
        <5>3. adc_data' = [Zero EXCEPT ![15 - m_cont] = FALSE]
          BY <1>1, <4>1, <5>1, Zenon DEF Capture
        <5>4. [Zero EXCEPT ![15 - m_cont] = FALSE] = Zero
          BY <5>2, Zenon DEF Zero
        <5>5. QED
          BY <5>1, <5>3, <5>4
      <4>2. CASE m_cont \notin 4..15
        BY <1>1, <4>2, Zenon DEF Capture
      <4>3. QED
        BY <4>1, <4>2
    <3>3. QED
      BY <1>2, <2>3, <3>2
  <2>4. QED
    BY <2>2, <2>3
<1>6. FrameInStep'
  BY <1>1, <1>2, <1>3 DEF FrameInStep
<1>7. \A i \in 0..11 : i >= 16 - clocks => adc_data'[i] = word[i]
  <2> SUFFICES ASSUME NEW i \in 0..11, i >= 16 - clocks PROVE adc_data'[i] = word[i]
    OBVIOUS
  <2>1. clocks > 4
    BY <1>2
  <2>2. CASE i = 16 - clocks
    BY <1>2, <1>5, <2>1, <2>2 DEF Word
  <2>3. CASE i # 16 - clocks
    <3>1. i >= 17 - clocks
      BY <1>2, <2>3
    <3>2. adc_data[i] = word[i]
      BY <1>1, <3>1, Zenon DEF AdcInv, Gathered, LowestStored
    <3>3. adc_data'[i] = adc_data[i]
      BY <1>2, <1>5, <2>1, <2>3 DEF Word
    <3>4. QED
      BY <3>2, <3>3
  <2>4. QED
    BY <2>2, <2>3
<1>8. Gathered'
  BY <1>1, <1>7, Zenon DEF Gathered, LowestStored
<1>9. clocks <= 4 => reading = TopOf(adc_data)
  BY <1>1, Zenon DEF AdcInv, KeptWhole
<1>10. clocks = 16 => TopOf(adc_data') = TopOf(word)
  <2> SUFFICES ASSUME clocks = 16 PROVE TopOf(adc_data') = TopOf(word)
    OBVIOUS
  <2>1. \A i \in 0..11 : adc_data'[i] = word[i]
    BY <1>7
  <2>2. \A i \in 0..7 : i + 4 \in 0..11
    OBVIOUS
  <2>3. \A i \in 0..7 : adc_data'[i + 4] = word[i + 4]
    BY <2>1, <2>2
  <2>4. QED
    BY <2>3 DEF TopOf
<1>11. KeptWhole'
  <2> SUFFICES ASSUME clocks <= 4 \/ clocks = 16 PROVE reading' = TopOf(adc_data')
    BY <1>1, Zenon DEF KeptWhole
  <2>1. CASE clocks = 16
    BY <1>1, <1>10, <2>1
  <2>2. CASE clocks <= 4
    <3>1. clocks # 16
      BY <1>2, <2>2
    <3>2. QED
      BY <1>1, <1>5, <1>9, <2>2, <3>1, Zenon
  <2>3. QED
    BY <2>1, <2>2
<1>12. Sent'
  BY <1>1, Zenon DEF Sent
<1>13. Heard'
  <2>1. ~iCLK /\ clocks \in 3..5 => data = iCHBit(5 - clocks)
    BY Zenon DEF AdcInv, Heard
  <2>2. \A i \in 0..2 : i >= 6 - clocks => address[i] = iCHBit(i)
    BY <1>1, Zenon DEF AdcInv, Heard, LowestHeard
  <2>3. address \in [0..2 -> BOOLEAN] /\ data \in BOOLEAN
    BY Zenon DEF AdcInv, AdcTypes
  <2>4. address' = IF clocks \in 3..5 THEN [address EXCEPT ![5 - clocks] = data] ELSE address
    BY Zenon DEF PosedgeCLK, ChipRises
  <2>5. ASSUME NEW i \in 0..2, i >= 5 - clocks PROVE address'[i] = iCHBit(i)
    <3>1. CASE i = 5 - clocks
      <4>1. clocks \in 3..5
        BY <1>2, <2>5, <3>1
      <4>2. address'[i] = data
        BY <2>3, <2>4, <3>1, <4>1, Zenon
      <4>3. QED
        BY <1>1, <2>1, <3>1, <4>1, <4>2, Zenon
    <3>2. CASE i # 5 - clocks
      <4>1. i >= 6 - clocks
        BY <1>2, <2>5, <3>2
      <4>2. address'[i] = address[i]
        BY <2>3, <2>4, <3>2, Zenon
      <4>3. QED
        BY <2>2, <4>1, <4>2, Zenon
    <3>3. QED
      BY <3>1, <3>2
  <2>6. QED
    BY <1>1, <2>5, Zenon DEF Heard, LowestHeard
<1>14. AdcTypes'
  <2>1. address' \in [0..2 -> BOOLEAN]
    <3>1. address \in [0..2 -> BOOLEAN] /\ data \in BOOLEAN
      BY Zenon DEF AdcInv, AdcTypes
    <3>2. address' = IF clocks \in 3..5 THEN [address EXCEPT ![5 - clocks] = data] ELSE address
      BY Zenon DEF PosedgeCLK, ChipRises
    <3>3. QED
      BY <3>1, <3>2, Zenon
  <2>2. cont' \in 0..15
    BY <1>2, <1>3
  <2>3. QED
    BY <1>1, <1>5, <2>1, <2>2, Zenon DEF AdcInv, AdcTypes
<1>15. Cleared'
  BY <1>1, Zenon DEF Cleared
<1>16. AdcInv'
  BY <1>6, <1>8, <1>11, <1>12, <1>13, <1>14, <1>15, Zenon DEF AdcInv
<1>17. led' = led \/ (clocks <= 4 /\ led' = reading)
  <2>1. CASE m_cont = 1
    <3>1. clocks <= 4
      BY <1>2, <2>1
    <3>2. led' = TopOf(adc_data)
      BY <1>1, <2>1, Zenon DEF Deliver
    <3>3. QED
      BY <1>9, <3>1, <3>2
  <2>2. CASE m_cont # 1
    BY <1>1, <2>2, Zenon DEF Deliver
  <2>3. QED
    BY <2>1, <2>2
<1>18. QED
  BY <1>1, <1>2, <1>16, <1>17

(* A falling edge: the converter drives the bit that the next rising edge  *)
(* stores.                                                                 *)
LEMMA AdcFalls ==
  ASSUME AdcInv, PosedgeCLKn, go_en
  PROVE  AdcInv'
<1>1. /\ iCLK /\ iCLK' = FALSE /\ go_en'
      /\ m_cont' = cont /\ cont' = cont /\ data' = AddressBit
      /\ UNCHANGED <<go_en, iRST, adc_data, led, reading, address>>
      /\ clocks' = (clocks % 16) + 1
      /\ IF clocks' = 1 THEN word' \in Words ELSE word' = word
      /\ iDOUT' = (clocks' > 4 /\ word'[16 - clocks'])
  BY Zenon DEF PosedgeCLKn, ChipFalls, AddressBit
<1>2. /\ cont \in 0..15 /\ clocks \in 0..16 /\ adc_data \in Word
      /\ word' \in Word
  BY <1>1, WordsAreWords, Zenon DEF AdcInv, AdcTypes
<1>3. \/ clocks = 0 /\ cont = 0 /\ adc_data = Zero
      \/ clocks \in 1..16 /\ cont = IF clocks = 16 THEN 0 ELSE clocks
  BY <1>1, Zenon DEF AdcInv, FrameInStep
<1>4. clocks' = IF clocks = 16 THEN 1 ELSE clocks + 1
  BY <1>1, <1>2, Counters
<1>5. clocks' = cont + 1 /\ clocks' \in 1..16
  BY <1>2, <1>3, <1>4
<1>6. FrameInStep'
  BY <1>1, <1>5, Zenon DEF FrameInStep
<1>7. Sent'
  <2>1. CASE clocks' > 4
    <3>1. word'[16 - clocks'] \in BOOLEAN
      <4>1. 16 - clocks' \in 0..11
        BY <1>5, <2>1
      <4>2. QED
        BY <1>2, <4>1, Zenon DEF Word
    <3>2. iDOUT' = word'[16 - clocks']
      BY <1>1, <2>1, <3>1, Zenon
    <3>3. QED
      BY <2>1, <3>2, Zenon DEF Sent
  <2>2. CASE ~(clocks' > 4)
    <3>1. iDOUT' = FALSE
      BY <1>1, <2>2, Zenon
    <3>2. QED
      BY <2>2, <3>1, Zenon DEF Sent
  <2>3. QED
    BY <2>1, <2>2
<1>8. Gathered'
  <2> SUFFICES ASSUME NEW i \in 0..11, i >= 17 - clocks' PROVE adc_data'[i] = word'[i]
    BY <1>1, Zenon DEF Gathered, LowestStored
  <2>1. clocks' # 1 /\ i >= 16 - clocks
    BY <1>2, <1>4, <1>5
  <2>2. adc_data[i] = word[i]
    BY <1>1, <2>1, Zenon DEF AdcInv, Gathered, LowestStored
  <2>3. QED
    BY <1>1, <2>1, <2>2, Zenon
<1>9. KeptWhole'
  <2> SUFFICES ASSUME clocks' <= 4 PROVE reading = TopOf(adc_data)
    BY <1>1, Zenon DEF KeptWhole
  <2>1. clocks <= 4 \/ clocks = 16
    BY <1>2, <1>4
  <2>2. QED
    BY <1>1, <2>1, Zenon DEF AdcInv, KeptWhole
<1>10. Heard'
  <2>1. ASSUME clocks' \in 3..5 PROVE data' = iCHBit(5 - clocks')
    <3>1. cont \in 2..4 /\ 4 - cont = 5 - clocks'
      BY <1>2, <1>5, <2>1
    <3>2. data' = iCHBit(4 - cont)
      BY <1>1, <3>1, Zenon DEF AddressBit, iCHBit
    <3>3. QED
      BY <3>1, <3>2, Zenon
  <2>2. ASSUME NEW i \in 0..2, i >= 6 - clocks' PROVE address'[i] = iCHBit(i)
    <3>1. i >= 5 - clocks
      BY <1>2, <1>4, <1>5, <2>2
    <3>2. QED
      BY <1>1, <3>1, Zenon DEF AdcInv, Heard, LowestHeard
  <2>3. QED
    BY <1>1, <2>1, <2>2, Zenon DEF Heard, LowestHeard
<1>11. AdcTypes'
  <2>1. data' \in BOOLEAN
    BY <1>1, Zenon DEF AddressBit
  <2>2. iDOUT' \in BOOLEAN
    BY <1>1, Zenon
  <2>3. clocks' \in 0..16
    BY <1>5
  <2>4. QED
    BY <1>1, <1>2, <2>1, <2>2, <2>3, Zenon DEF AdcInv, AdcTypes
<1>12. QED
  BY <1>1, <1>6, <1>7, <1>8, <1>9, <1>10, <1>11, Zenon DEF AdcInv, Cleared

(* iGO is released while the controller stands.  With iCLK low that is the *)
(* frame's first falling edge, and m_cont may still hold any value.        *)
LEMMA AdcStarts ==
  ASSUME AdcInv, ReleaseGO, ~go_en
  PROVE  AdcInv' /\ UNCHANGED <<reading, led>>
<1>1. /\ UNCHANGED <<iCLK, iRST, cont, m_cont, data, adc_data, led, reading, address>>
      /\ go_en' = (iRST \/ go_en)
      /\ IF iRST /\ ~go_en /\ ~iCLK THEN ChipFalls(0) ELSE UNCHANGED chip
  BY Zenon DEF ReleaseGO, ChipFalls, chip
<1>2. /\ cont = 0 /\ clocks = 0 /\ adc_data = Zero /\ reading = TopOf(Zero)
      /\ led = TopOf(Zero)
  BY Zenon DEF AdcInv, Cleared
<1>3. CASE iRST /\ ~iCLK
  <2>1. /\ clocks' = (0 % 16) + 1
        /\ IF clocks' = 1 THEN word' \in Words ELSE word' = word
        /\ iDOUT' = (clocks' > 4 /\ word'[16 - clocks'])
    BY <1>1, <1>3, Zenon DEF ChipFalls
  <2>2. clocks' = 1 /\ clocks' \in 0..16 /\ ~(clocks' > 4)
    BY <2>1
  <2>3. word' \in Word /\ iDOUT' = FALSE
    BY <2>1, <2>2, WordsAreWords, Zenon
  <2>4. AdcTypes'
    BY <1>1, <2>2, <2>3, Zenon DEF AdcInv, AdcTypes
  <2>5. go_en' /\ ~iCLK'
    BY <1>1, <1>3, Zenon
  <2>6. FrameInStep'
    BY <1>1, <1>2, <2>2, <2>5 DEF FrameInStep
  <2>7. \A i \in 0..11 : ~(i >= 17 - 1)
    OBVIOUS
  <2>8. \A i \in 0..2 : ~(i >= 6 - 1)
    OBVIOUS
  <2>9. ~(clocks' \in 3..5)
    BY <2>2
  <2>10. QED
    BY <1>1, <1>2, <2>2, <2>3, <2>4, <2>5, <2>6, <2>7, <2>8, <2>9, Zenon
    DEF AdcInv, Cleared, Sent, Gathered, LowestStored, KeptWhole, Heard, LowestHeard
<1>4. CASE iRST /\ iCLK
  <2>1. go_en' /\ iCLK' /\ UNCHANGED <<clocks, word, iDOUT, address>>
    BY <1>1, <1>4, Zenon DEF chip
  <2>2. AdcTypes'
    BY <1>1, <2>1, Zenon DEF AdcInv, AdcTypes
  <2>3. \A i \in 0..11 : ~(i >= 16 - 0)
    OBVIOUS
  <2>4. \A i \in 0..2 : ~(i >= 5 - 0)
    OBVIOUS
  <2>5. QED
    BY <1>1, <1>2, <2>1, <2>2, <2>3, <2>4, Zenon
    DEF AdcInv, Cleared, FrameInStep, Sent, Gathered, LowestStored, KeptWhole, Heard, LowestHeard
<1>5. CASE ~iRST
  <2>1. ~go_en' /\ UNCHANGED <<clocks, word, iDOUT, address>>
    BY <1>1, <1>5, Zenon DEF chip
  <2>2. AdcTypes'
    BY <1>1, <2>1, Zenon DEF AdcInv, AdcTypes
  <2>3. QED
    BY <1>1, <1>2, <2>1, <2>2, Zenon
    DEF AdcInv, Cleared, FrameInStep, Sent, Gathered, KeptWhole, Heard
<1>6. QED
  BY <1>1, <1>3, <1>4, <1>5, Zenon

(* iRST clears whatever a frame has gathered.                              *)
LEMMA AdcStops ==
  ASSUME AdcInv, PressRST
  PROVE  AdcInv'
<1>1. /\ go_en' = FALSE /\ iRST' = FALSE /\ cont' = 0 /\ data' = FALSE /\ adc_data' = Zero
      /\ led' = TopOf(Zero) /\ clocks' = 0 /\ reading' = TopOf(Zero)
      /\ UNCHANGED <<m_cont, word, iDOUT, address>>
  BY Zenon DEF PressRST
<1>2. AdcTypes'
  <2>1. cont' \in 0..15 /\ clocks' \in 0..16
    BY <1>1
  <2>2. QED
    BY <1>1, <2>1, ZeroType, Zenon DEF AdcInv, AdcTypes
<1>3. QED
  BY <1>1, <1>2, Zenon DEF AdcInv, Cleared, FrameInStep, Sent, Gathered, KeptWhole, Heard

(* A step that moves only a button, or only the clock, its delayed copy    *)
(* and the address line of a controller that stands.                       *)
LEMMA AdcRests ==
  ASSUME AdcInv,
         \/ /\ UNCHANGED <<go_en, cont, clocks, word, iDOUT, address, adc_data, led, reading>>
            /\ ~go_en
            /\ m_cont' \in 0..15
            /\ data' \in BOOLEAN
            /\ iRST' \in BOOLEAN
         \/ UNCHANGED <<iCLK, control, chip, reading>> /\ iRST' \in BOOLEAN
  PROVE  AdcInv' /\ UNCHANGED <<go_en, led, reading>>
<1>1. CASE UNCHANGED <<iCLK, control, chip, reading>> /\ iRST' \in BOOLEAN
  BY <1>1, Zenon
  DEF AdcInv, AdcTypes, Cleared, FrameInStep, Sent, Gathered, LowestStored, KeptWhole,
      Heard, LowestHeard, control, chip
<1>2. CASE /\ UNCHANGED <<go_en, cont, clocks, word, iDOUT, address, adc_data, led, reading>>
           /\ ~go_en
           /\ m_cont' \in 0..15
           /\ data' \in BOOLEAN
           /\ iRST' \in BOOLEAN
  BY <1>2, Zenon
  DEF AdcInv, AdcTypes, Cleared, FrameInStep, Sent, Gathered, KeptWhole, Heard
<1>3. QED
  BY <1>1, <1>2

(* Every step keeps the invariant, and is a step of the abstract           *)
(* controller or leaves what it shows alone.                               *)
LEMMA AdcStep ==
  ASSUME AdcInv, [AdcNext]_adc
  PROVE  AdcInv' /\ [Abstract!Next]_(Abstract!vars)
<1>1. CASE PosedgeCLK /\ go_en
  <2>1. /\ AdcInv' /\ go_en' = go_en
        /\ clocks = 16 => reading' = TopOf(word) /\ led' = led
        /\ clocks # 16 => reading' = reading /\ (led' = led \/ led' = reading)
    BY <1>1, AdcRises, Zenon DEF PosedgeCLK
  <2>2. TopOf(word) \in Byte
    <3>1. word \in Word
      BY Zenon DEF AdcInv, AdcTypes
    <3>2. \A i \in 0..7 : i + 4 \in 0..11
      OBVIOUS
    <3>3. \A i \in 0..7 : word[i + 4] \in BOOLEAN
      BY <3>1, <3>2, Zenon DEF Word
    <3>4. QED
      BY <3>3, Zenon DEF TopOf, Byte
  <2>3. UNCHANGED iRST
    BY <1>1, Zenon DEF PosedgeCLK
  <2>4. QED
    BY <1>1, <2>1, <2>2, <2>3, Zenon
    DEF Abstract!Next, Abstract!vars, Abstract!Complete, Abstract!Deliver
<1>2. CASE PosedgeCLKn /\ go_en
  <2>1. AdcInv'
    BY <1>2, AdcFalls
  <2>2. QED
    BY <1>2, <2>1, Zenon DEF PosedgeCLKn, Abstract!vars
<1>3. CASE PosedgeCLK /\ ~go_en
  BY <1>3, AdcRests, Zenon DEF PosedgeCLK, AdcInv, AdcTypes, chip, Abstract!vars
<1>4. CASE PosedgeCLKn /\ ~go_en
  <2>1. /\ m_cont' \in 0..15 /\ data' \in BOOLEAN
        /\ iRST' \in BOOLEAN /\ iRST' = iRST
    BY <1>4, Zenon DEF PosedgeCLKn, AdcInv, AdcTypes
  <2>2. UNCHANGED <<go_en, cont, clocks, word, iDOUT, address, adc_data, led, reading>>
    BY <1>4, Zenon DEF PosedgeCLKn, chip
  <2>3. QED
    BY <1>4, <2>1, <2>2, AdcRests, Zenon DEF Abstract!vars
<1>5. CASE ReleaseGO /\ ~go_en
  <2>1. AdcInv' /\ UNCHANGED <<reading, led>>
    BY <1>5, AdcStarts
  <2>2. /\ go_en' = (iRST \/ go_en) /\ iRST \in BOOLEAN /\ go_en \in BOOLEAN
        /\ iRST' = iRST
    BY <1>5, Zenon DEF ReleaseGO, AdcInv, AdcTypes
  <2>3. CASE iRST
    BY <1>5, <2>1, <2>2, <2>3, Zenon DEF Abstract!Next, Abstract!Start
  <2>4. CASE ~iRST
    <3>1. go_en' = go_en
      BY <1>5, <2>2, <2>4, Zenon
    <3>2. QED
      BY <2>1, <2>2, <3>1, Zenon DEF Abstract!vars
  <2>5. QED
    BY <2>3, <2>4
<1>6. CASE ReleaseGO /\ go_en
  <2>1. /\ go_en' = (iRST \/ go_en) /\ iRST \in BOOLEAN /\ go_en \in BOOLEAN
        /\ UNCHANGED <<iCLK, iRST, cont, m_cont, data, adc_data, led, chip, reading>>
    BY <1>6, Zenon DEF ReleaseGO, AdcInv, AdcTypes
  <2>2. go_en' = go_en
    BY <1>6, <2>1, Zenon
  <2>3. QED
    BY <2>1, <2>2, AdcRests, Zenon DEF control, Abstract!vars
<1>7. CASE PressRST
  <2>1. AdcInv'
    BY <1>7, AdcStops
  <2>2. /\ go_en' = FALSE /\ led' = TopOf(Zero) /\ reading' = TopOf(Zero)
        /\ ~~iRST /\ (~iRST)' = TRUE
    BY <1>7, Zenon DEF PressRST
  <2>3. QED
    BY <2>1, <2>2, Zenon DEF Abstract!Next, Abstract!Stop
<1>8. CASE PressGO
  <2>1. UNCHANGED <<iCLK, control, chip, reading>> /\ iRST' \in BOOLEAN /\ iRST' = iRST
    BY <1>8, Zenon DEF PressGO, AdcInv, AdcTypes
  <2>2. QED
    BY <2>1, AdcRests, Zenon DEF Abstract!vars
<1>11. CASE ReleaseRST
  <2>1. /\ UNCHANGED <<iCLK, control, chip, reading>> /\ iRST' \in BOOLEAN
        /\ ~iRST /\ (~iRST)' = FALSE
    BY <1>11, Zenon DEF ReleaseRST, AdcInv, AdcTypes
  <2>2. QED
    BY <2>1, AdcRests, Zenon DEF Abstract!Next, Abstract!Release
<1>9. CASE UNCHANGED adc
  <2>1. UNCHANGED <<iCLK, control, chip, reading>> /\ iRST' \in BOOLEAN /\ iRST' = iRST
    BY <1>9, Zenon DEF adc, AdcInv, AdcTypes
  <2>2. QED
    BY <2>1, AdcRests, Zenon DEF Abstract!vars
<1>10. QED
  BY <1>1, <1>2, <1>3, <1>4, <1>5, <1>6, <1>7, <1>8, <1>9, <1>11 DEF AdcNext

(* The controller and the converter stay in step whatever the buttons do.  *)
THEOREM AdcInvariant == AdcSpec => []AdcInv
<1>1. AdcInit => AdcInv
  BY AdcPowersUp
<1>2. AdcInv /\ [AdcNext]_adc => AdcInv'
  BY AdcStep
<1>3. QED
  BY <1>1, <1>2, PTL DEF AdcSpec

(* Whatever the buttons do, the converter hears the channel asked for in   *)
(* every frame (ADC_CTRL.v, lines 53-89).                                  *)
THEOREM ChannelIsHeard == AdcSpec => []ChannelHeard
<1>. AdcSpec => []AdcInv
  BY AdcInvariant
<1>1. AdcInv => ChannelHeard
  <2> SUFFICES ASSUME AdcInv, go_en, iCLK, clocks \in 5..16, NEW i \in 0..2
               PROVE  address[i] = iCHBit(i)
    BY DEF ChannelHeard
  <2>1. i >= 5 - clocks
    OBVIOUS
  <2>2. QED
    BY <2>1, Zenon DEF AdcInv, Heard, LowestHeard
<1>2. QED
  BY <1>1, PTL

(* The controller implements AdcSample, the module that stands for it in   *)
(* the drive: it stands while the stop is held, led never mixes two        *)
(* conversions and is clear from a stop on, also when a start finds m_cont *)
(* in the middle of the last frame (ADC_CTRL.v, lines 42-51, 64-68 and     *)
(* 91-131).                                                                *)
THEOREM ReadingsAreWhole == AdcSpec => WholeReadings
<1>. AdcSpec => []AdcInv
  BY AdcInvariant
<1>1. AdcInit => Abstract!Init
  BY Zenon DEF AdcInit, Abstract!Init
<1>2. AdcInv /\ [AdcNext]_adc => [Abstract!Next]_(Abstract!vars)
  BY AdcStep
<1>3. QED
  BY <1>1, <1>2, PTL DEF AdcSpec, WholeReadings, Abstract!Spec
=============================================================================
