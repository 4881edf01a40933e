----------------------------- MODULE Commutation -----------------------------
(***************************************************************************)
(* The six-step commutation machine of the drive, module fw_rv_commutation *)
(* (code/pattern_generator/fw_rv_commutation.v).                           *)
(*                                                                         *)
(* A 3-bit register state_Q holds the sector of the rotor.  The            *)
(* combinational state_D is its next value; because the case statement     *)
(* that computes it has an empty default, state_D is a latch while state_Q *)
(* holds one of the two codes that name no sector.  The six gate signals   *)
(* are decoded from state_Q and the direction switch.                      *)
(*                                                                         *)
(* Nothing synchronises the hall inputs to the clock.  With HallSkew, a    *)
(* hall line may move inside the set-up window of a clock edge; every bit  *)
(* of state_Q then captures the old or the new next state on its own.      *)
(***************************************************************************)
EXTENDS Naturals

CONSTANTS
  PowerUp,      \* the codes state_Q may hold when the device is configured
  HallCodes,    \* the values {halla, hallb, hallc} may take
  ResetLevels,  \* the levels the reset input may take ({FALSE} on the board)
  HallSkew      \* may a hall line move inside the set-up window of the clock?

ASSUME CommutationAssumption ==
  /\ PowerUp \subseteq 0..7
  /\ HallCodes \subseteq 0..7
  /\ FALSE \in ResetLevels /\ ResetLevels \subseteq BOOLEAN
  /\ HallSkew \in BOOLEAN

VARIABLES
  state_Q,      \* the state register
  state_D,      \* its next value, as the combinational logic drives it
  hall_sensor,  \* {halla, hallb, hallc}, a number of three bits
  forward,      \* the direction switch
  reset         \* the reset input, sampled by the clock

vars == <<state_Q, state_D, hall_sensor, forward, reset>>

-----------------------------------------------------------------------------
(* The codes of the six sectors.                                           *)
A == 0
B == 1
C == 2
D == 3
E == 4
F == 5

States == {A, B, C, D, E, F}
Legs   == {"a", "b", "c"}

(* The hall patterns that name a sector: 101, 100, 110, 010, 011 and 001.  *)
(* No rotor position produces 000 or 111.                                  *)
ValidHall == 1..6

(* The sector a hall pattern names.                                        *)
SectorOf(h) ==
  CASE h = 5 -> A
    [] h = 4 -> B
    [] h = 6 -> C
    [] h = 2 -> D
    [] h = 3 -> E
    [] h = 1 -> F

(* A next-state table that counts on instead of holding on an invalid      *)
(* pattern.                                                                *)
NextStateRunsOff(q, h, d) ==
  IF q \in States
  THEN (IF h \in ValidHall THEN SectorOf(h) ELSE q + 1)
  ELSE d

(* The value the case statement drives on state_D: every row follows a     *)
(* valid pattern to its sector and holds on an invalid one; the empty      *)
(* default leaves d, the value state_D had.                                *)
NextState(q, h, d) ==
  IF q \in States
  THEN (IF h \in ValidHall THEN SectorOf(h) ELSE q)
  ELSE d

(* The codes that turn on a leg's high side in reverse, and its low side   *)
(* forward.                                                                *)
HighStates(leg) ==
  CASE leg = "a" -> {A, B} [] leg = "b" -> {C, D} [] leg = "c" -> {E, F}

(* Phase C's low side also on in F.                                        *)
LowStatesOverlap(leg) ==
  CASE leg = "a" -> {D, E} [] leg = "b" -> {A, F} [] leg = "c" -> {B, C, F}

(* The low sides wired one leg on.                                         *)
LowStatesRotated(leg) ==
  CASE leg = "a" -> {C, D} [] leg = "b" -> {E, F} [] leg = "c" -> {A, B}

(* The codes that turn on a leg's low side in reverse, and its high side   *)
(* forward.                                                                *)
LowStates(leg) ==
  CASE leg = "a" -> {D, E} [] leg = "b" -> {A, F} [] leg = "c" -> {B, C}

HighOn(q, fwd, leg) ==
  q \in (IF fwd THEN LowStates(leg) ELSE HighStates(leg))

LowOn(q, fwd, leg) ==
  q \in (IF fwd THEN HighStates(leg) ELSE LowStates(leg))

High(q, fwd) == {leg \in Legs : HighOn(q, fwd, leg)}
Low(q, fwd)  == {leg \in Legs : LowOn(q, fwd, leg)}

-----------------------------------------------------------------------------
Init ==
  /\ state_Q \in PowerUp
  /\ hall_sensor \in HallCodes
  /\ forward \in BOOLEAN
  /\ reset = FALSE
  /\ \E d \in 0..7 : state_D = NextState(state_Q, hall_sensor, d)

(* A clock edge whose register enable is inverted: it loads only on an     *)
(* invalid pattern.                                                        *)
PosedgeClockStuckAtHall ==
  /\ state_Q' = IF hall_sensor \in ValidHall THEN state_Q ELSE state_D
  /\ state_D' = NextState(state_Q', hall_sensor, state_D)
  /\ UNCHANGED <<hall_sensor, forward, reset>>

(* A rising edge of the clock.                                             *)
PosedgeClock ==
  /\ state_Q' = IF reset THEN A ELSE state_D
  /\ state_D' = NextState(state_Q', hall_sensor, state_D)
  /\ UNCHANGED <<hall_sensor, forward, reset>>

(* The rotor, or noise on a line, moves the hall inputs between two edges. *)
HallChange(h) ==
  /\ h # hall_sensor
  /\ hall_sensor' = h
  /\ state_D' = NextState(state_Q, h, state_D)
  /\ UNCHANGED <<state_Q, forward, reset>>

(* The operator flips the direction switch.                                *)
ForwardChange ==
  /\ forward' = ~forward
  /\ UNCHANGED <<state_Q, state_D, hall_sensor, reset>>

ResetChange(level) ==
  /\ level # reset
  /\ reset' = level
  /\ UNCHANGED <<state_Q, state_D, hall_sensor, forward>>

Bit(v, weight) == (v \div weight) % 2

(* The words each of whose three bits is that of x or that of y.           *)
Mix(x, y) ==
  {m \in 0..7 : \A weight \in {1, 2, 4} : Bit(m, weight) \in {Bit(x, weight), Bit(y, weight)}}

(* A clock edge while a hall line moves.  If the captured word names no    *)
(* sector the latch on state_D closes on an input that was still moving.   *)
SkewedClock(h) ==
  /\ HallSkew
  /\ ~reset
  /\ h # hall_sensor
  /\ hall_sensor' = h
  /\ LET captured == Mix(state_D, NextState(state_Q, h, state_D))
     IN  /\ state_Q' \in captured
         /\ \E d \in captured : state_D' = NextState(state_Q', h, d)
  /\ UNCHANGED <<forward, reset>>

Next ==
  \/ PosedgeClock
  \/ \E h \in HallCodes : HallChange(h)
  \/ ForwardChange
  \/ \E level \in ResetLevels : ResetChange(level)
  \/ \E h \in HallCodes : SkewedClock(h)

Spec == Init /\ [][Next]_vars

(* The oscillator never stops.                                             *)
FairSpec == Spec /\ WF_vars(PosedgeClock)

-----------------------------------------------------------------------------
(* Every variable holds a value of its width.                              *)
TypeOK ==
  /\ state_Q \in 0..7
  /\ state_D \in 0..7
  /\ hall_sensor \in 0..7
  /\ forward \in BOOLEAN
  /\ reset \in BOOLEAN

(* The six gate signals never short the supply: they turn on exactly one   *)
(* high side and one low side, of different legs, or nothing when state_Q  *)
(* names no sector -- in either direction and whatever the hall lines did, *)
(* a capture torn by a hall edge included (fw_rv_commutation.v, the        *)
(* assignments of ha .. lc).                                               *)
OnePhasePair ==
  LET high == High(state_Q, forward)
      low  == Low(state_Q, forward)
  IN  IF state_Q \in States
      THEN \E p, r \in Legs : p # r /\ high = {p} /\ low = {r}
      ELSE high = {} /\ low = {}

(* Without skew and started in a sector, the machine stays in one: neither an invalid hall  *)
(* pattern, nor a reset, nor any order of inputs reaches the two codes the *)
(* case statement does not list, from which only a reset recovers.         *)
InSector == state_Q \in States /\ state_D \in States

(* Neighbouring sectors of the electrical revolution.                      *)
Adjacent(q, r) ==
  /\ q \in States /\ r \in States
  /\ q = (r + 1) % 6 \/ r = (q + 1) % 6

(* When the rotor advances to a neighbouring sector and the direction      *)
(* stands still, one of the two conducting switches is exchanged and the   *)
(* other keeps conducting, and no leg goes straight from one of its        *)
(* switches to the other, which would need a dead time this design does    *)
(* not insert (pattern_PWM.V, lines 134-135).                              *)
AdvanceMovesOneSwitch ==
  [][(Adjacent(state_Q, state_Q') /\ forward' = forward) =>
       LET high == High(state_Q, forward)   high2 == High(state_Q', forward)
           low  == Low(state_Q, forward)    low2  == Low(state_Q', forward)
       IN  /\ (high = high2) # (low = low2)
           /\ high \intersect low2 = {}
           /\ low \intersect high2 = {}]_vars

(* The encoding of the sectors decides where a hall edge caught in the     *)
(* set-up window can lose the machine.  The step out of the six sectors    *)
(* needs a hall line that moves; and if the rotor advances to the          *)
(* neighbouring sector the step is only possible on the boundary of D      *)
(* (011) and E (100), the one where all three bits change.                 *)
TornOnlyBetweenDAndE ==
  [][(state_Q \in States /\ state_Q' \notin States) =>
       /\ hall_sensor' # hall_sensor
       /\ (/\ hall_sensor' \in ValidHall
           /\ Adjacent(state_D, SectorOf(hall_sensor')))
          => {state_D, SectorOf(hall_sensor')} = {D, E}]_vars

(* If the rotor comes to rest in a sector, a machine that is in one of the *)
(* six settles on that sector and stays there, wherever the captures of    *)
(* the moving lines had left it.                                           *)
SettlesOnRotor ==
  \A h \in ValidHall :
    <>[](hall_sensor = h /\ ~reset /\ state_Q \in States)
      => <>[](state_Q = SectorOf(h))
=============================================================================
