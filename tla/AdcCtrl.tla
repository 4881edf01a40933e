------------------------------- MODULE AdcCtrl -------------------------------
(***************************************************************************)
(* The serial controller of the throttle's ADC, module ADC_CTRL            *)
(* (code/DE0-NANO-TOP/ADC_CTRL.v), with the converter it talks to.         *)
(*                                                                         *)
(* iCLK and iCLK_n are the two outputs of the PLL, half a period apart, so *)
(* a rising edge of iCLK_n is a falling edge of iCLK.  cont counts rising  *)
(* edges; m_cont is its copy of half a period later and decides what the   *)
(* next rising edge does.  The two push buttons act at any time: iGO       *)
(* starts on its rising edge, iRST stops while it is low.                  *)
(*                                                                         *)
(* The converter is not part of the repository.  It is modelled from how   *)
(* the controller uses it: frames of 16 clocks while the chip select is    *)
(* low; three address bits read at rising edges 3, 4 and 5; four zeros and *)
(* then the 12 bits of a conversion, most significant first, driven at the *)
(* falling edges.                                                          *)
(***************************************************************************)
EXTENDS Naturals

CONSTANTS
  Words,  \* the conversions the ADC may deliver, functions [0..11 -> BOOLEAN]
  iCH     \* the channel asked for, 0 on the board

ASSUME AdcAssumption ==
  /\ Words \subseteq [0..11 -> BOOLEAN]
  /\ iCH \in 0..7

VARIABLES
  iCLK,                  \* the clock's level
  iRST, iGO,             \* the buttons' levels, TRUE when released
  go_en,                 \* running?
  cont, m_cont,          \* the frame counter and its delayed copy
  data,                  \* the address line
  adc_data,              \* the shift-in register
  led,                   \* the reading shown to the drive
  clocks, word, iDOUT, address, \* the converter: falling edges seen in this
                                \* frame, conversion, output line, address heard
  reading                \* history: the last conversion that was sent whole

control == <<go_en, cont, m_cont, data, adc_data, led>>
chip    == <<clocks, word, iDOUT, address>>
adc == <<iCLK, iRST, iGO, control, chip, reading>>

Word == [0..11 -> BOOLEAN]
Byte == [0..7 -> BOOLEAN]

Zero      == [i \in 0..11 |-> FALSE]
TopOf(w)  == [i \in 0..7 |-> w[i + 4]]      \* bits 11 to 4
iCHBit(i) == (iCH \div 2^i) % 2 = 1

(* iRST is pressed or released at power-up; the registers are 0.           *)
AdcInit ==
  /\ iCLK \in BOOLEAN
  /\ iRST \in BOOLEAN
  /\ iGO = TRUE
  /\ go_en = FALSE
  /\ cont = 0 /\ m_cont = 0
  /\ data = FALSE
  /\ adc_data = Zero
  /\ led = TopOf(Zero)
  /\ clocks = 0
  /\ word \in Words
  /\ iDOUT = FALSE
  /\ address = [i \in 0..2 |-> FALSE]
  /\ reading = TopOf(Zero)

-----------------------------------------------------------------------------
(* The converter sees a falling edge of its clock: a frame begins with a   *)
(* new conversion, and the next bit goes out.  before is its edge count.   *)
ChipFalls(before) ==
  /\ clocks' = (before % 16) + 1
  /\ IF clocks' = 1 THEN word' \in Words ELSE word' = word
  /\ iDOUT' = (clocks' > 4 /\ word'[16 - clocks'])
  /\ UNCHANGED address

(* It sees a rising edge: the address goes in at edges 3, 4 and 5.         *)
ChipRises ==
  /\ address' = IF clocks \in 3..5
                THEN [address EXCEPT ![5 - clocks] = data]
                ELSE address
  /\ UNCHANGED <<clocks, word, iDOUT>>

-----------------------------------------------------------------------------
(* The frame counter, of four bits.                                        *)
NextCont == (cont + 1) % 16

(* Bits stored one place late.                                             *)
CaptureLate(bits) ==
  IF m_cont \in 5..15 THEN [bits EXCEPT ![16 - m_cont] = iDOUT] ELSE bits

(* What a rising edge leaves in adc_data: m_cont 4 to 15 store the bits 11 *)
(* to 0.                                                                   *)
Capture(bits) ==
  IF m_cont \in 4..15 THEN [bits EXCEPT ![15 - m_cont] = iDOUT] ELSE bits

(* A reading taken over while its bits still arrive.                       *)
DeliverEarly == IF m_cont = 9 THEN TopOf(adc_data) ELSE led

(* What it leaves in led: the reading is taken over once the next frame    *)
(* has begun.                                                              *)
Deliver == IF m_cont = 1 THEN TopOf(adc_data) ELSE led

(* The address sent one clock late.                                        *)
AddressBitLate == cont \in 3..5 /\ iCHBit(5 - cont)

(* What a falling edge leaves on the address line.                         *)
AddressBit == cont \in 2..4 /\ iCHBit(4 - cont)

(* Rising edge of iCLK.                                                    *)
PosedgeCLK ==
  /\ ~iCLK /\ iCLK' = TRUE
  /\ IF go_en
     THEN /\ cont' = NextCont
          /\ adc_data' = Capture(adc_data)
          /\ led' = Deliver
          /\ ChipRises
          /\ reading' = IF clocks = 16 THEN TopOf(word) ELSE reading
     ELSE UNCHANGED <<cont, adc_data, led, chip, reading>>
  /\ UNCHANGED <<iRST, iGO, go_en, m_cont, data>>

(* Rising edge of iCLK_n.                                                  *)
PosedgeCLKn ==
  /\ iCLK /\ iCLK' = FALSE
  /\ m_cont' = cont
  /\ data' = (go_en /\ AddressBit)
  /\ IF go_en THEN ChipFalls(clocks) ELSE UNCHANGED chip
  /\ UNCHANGED <<iRST, iGO, go_en, cont, adc_data, led, reading>>

(* Released, iGO starts the controller unless iRST is held.  The chip      *)
(* select falls and the gated clock leaves its idle high level: if iCLK is *)
(* low that is already the frame's first falling edge.                     *)
ReleaseGO ==
  /\ ~iGO /\ iGO' = TRUE
  /\ go_en' = (iRST \/ go_en)
  /\ IF iRST /\ ~go_en /\ ~iCLK THEN ChipFalls(0) ELSE UNCHANGED chip
  /\ UNCHANGED <<iCLK, iRST, cont, m_cont, data, adc_data, led, reading>>

PressGO ==
  /\ iGO /\ iGO' = FALSE
  /\ UNCHANGED <<iCLK, iRST, control, chip, reading>>

(* Pressed, iRST clears go_en and, through it, everything but m_cont.      *)
PressRST ==
  /\ iRST /\ iRST' = FALSE
  /\ go_en' = FALSE
  /\ cont' = 0
  /\ data' = FALSE
  /\ adc_data' = Zero
  /\ led' = TopOf(Zero)
  /\ clocks' = 0
  /\ reading' = TopOf(Zero)
  /\ UNCHANGED <<iCLK, iGO, m_cont, word, iDOUT, address>>

(* Released, it starts nothing: that takes another edge of iGO.            *)
ReleaseRST ==
  /\ ~iRST /\ iRST' = TRUE
  /\ UNCHANGED <<iCLK, iGO, control, chip, reading>>

AdcNext ==
  \/ PosedgeCLK \/ PosedgeCLKn
  \/ PressGO \/ ReleaseGO \/ PressRST \/ ReleaseRST

AdcSpec == AdcInit /\ [][AdcNext]_adc

(* The PLL's outputs never stop.                                           *)
AdcFairSpec == AdcSpec /\ WF_adc(PosedgeCLK) /\ WF_adc(PosedgeCLKn)

-----------------------------------------------------------------------------
(* The drive never sees a reading that mixes the bits of two conversions,  *)
(* misses a bit, or is left over from before a stop, whatever the buttons  *)
(* do and wherever in a frame they do it.  m_cont is not cleared by a stop *)
(* (lines 64-68): restarted before the next edge of iCLK_n, the controller *)
(* stores one bit where the last frame left off, and only the zeros the    *)
(* converter leads with make that harmless.  It never runs while the stop  *)
(* is held, and the two buttons, released in either order, start nothing   *)
(* but by an edge of iGO after the stop (lines 42-51).                     *)
Abstract == INSTANCE AdcSample WITH
  Readings <- Byte, Off <- TopOf(Zero), pressed <- ~iRST

WholeReadings == Abstract!Spec

(* In every frame the converter hears the channel asked for, although the  *)
(* counter that times the address bits and the converter's own are started *)
(* by an asynchronous button.                                              *)
ChannelHeard ==
  go_en /\ iCLK /\ clocks \in 5..16 => \A i \in 0..2 : address[i] = iCHBit(i)

(* If the input stays at one value while the controller runs, the output   *)
(* becomes that value's top byte and stays there.                          *)
TracksInput ==
  \A w \in Words : <>[](go_en /\ word = w) => <>[](led = TopOf(w))
=============================================================================
