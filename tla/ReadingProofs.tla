---------------------------- MODULE ReadingProofs ----------------------------
(***************************************************************************)
(* Proofs about the speed, from the edges of a hall line to a reading.     *)
(*                                                                         *)
(* The first part is about SpeedCalculation, for every length of the gate, *)
(* every width of the edge counter and every interleaving of the clock,    *)
(* the line and the reset, with and without glitches of the clear's        *)
(* decoder.  The second is about SpeedAverage, for every set of counts of  *)
(* 8 bits and every sequence of gates, clocks and resets.  The third is    *)
(* about the program that shows the speed, Display, for every clock of the *)
(* processor, every loop it sleeps in and every display that is fast       *)
(* enough for it.                                                          *)
(***************************************************************************)
EXTENDS SpeedCalculation, SpeedAverage, Display, SequenceTheorems, TLAPS

(* A quotient and a remainder are unique.                                  *)
LEMMA QuotientUnique ==
  ASSUME NEW w \in Nat, w > 0,
         NEW q1 \in Int, NEW r1 \in 0 .. w - 1, NEW q2 \in Int, NEW r2 \in 0 .. w - 1,
         w * q1 + r1 = w * q2 + r2
  PROVE  r1 = r2
<1>1. w * (q1 - q2) = r2 - r1
  OBVIOUS
<1>2. CASE q1 = q2
  BY <1>1, <1>2
<1>3. CASE q1 - q2 >= 1
  <2>1. w * (q1 - q2) >= w * 1
    BY <1>3
  <2>2. QED
    BY <1>1, <2>1
<1>4. CASE q2 - q1 >= 1
  <2>1. w * (q2 - q1) >= w * 1
    BY <1>4
  <2>2. w * (q2 - q1) = r1 - r2
    OBVIOUS
  <2>3. QED
    BY <2>1, <2>2
<1>5. QED
  BY <1>2, <1>3, <1>4

(* Counting on modulo w.                                                   *)
LEMMA PlusOneMod ==
  ASSUME NEW w \in Nat, w > 1, NEW m \in Nat
  PROVE  ((m % w) + 1) % w = (m + 1) % w
<1> DEFINE q == m \div w   r == m % w
           p == (r + 1) \div w   s == (r + 1) % w
           t == (m + 1) \div w   u == (m + 1) % w
<1>1. q \in Int /\ r \in 0 .. w - 1 /\ m = w * q + r
  OBVIOUS
<1>2. p \in Int /\ s \in 0 .. w - 1 /\ r + 1 = w * p + s
  BY <1>1
<1>3. t \in Int /\ u \in 0 .. w - 1 /\ m + 1 = w * t + u
  OBVIOUS
<1> HIDE DEF q, r, p, s, t, u
<1>4. w * (q + p) + s = w * t + u
  BY <1>1, <1>2, <1>3
<1>5. s = u
  BY <1>1, <1>2, <1>3, <1>4, QuotientUnique
<1>6. QED
  BY <1>5 DEF s, u, r
-----------------------------------------------------------------------------
(* The clear leaves nothing of the gate before.                            *)
ClearAtZero == count = 0 => seen = 0 /\ mec_cycles = 0 /\ sure = 0 /\ ~torn

SpeedInv == GateTypeOK /\ ClearAtZero /\ HandsOverTheGate /\ GlitchLosesBounded

(* The invariant holds at power-up.                                        *)
LEMMA SpeedInitInv == GateInit => SpeedInv
<1> SUFFICES ASSUME GateInit PROVE SpeedInv
  OBVIOUS
<1>1. 0 \in 0 .. Wrap - 1 /\ 0 \in 0 .. MAX_VALUE /\ 0 % Wrap = 0
  BY SpeedAssumption
<1>2. /\ count = 0 /\ mec_cycles = 0 /\ D = 0 /\ seen = 0 /\ lastSeen = 0 /\ sure = 0 /\ lastSure = 0
      /\ torn = FALSE /\ lastTorn = FALSE /\ lost = FALSE /\ rst = FALSE /\ hall_sensor \in BOOLEAN
  BY DEF GateInit
<1>3. GateTypeOK
  <2>1. torn \in BOOLEAN /\ lastTorn \in BOOLEAN /\ lost \in BOOLEAN /\ rst \in BOOLEAN
    BY <1>2
  <2>2. {seen, lastSeen, sure, lastSure} \subseteq Nat
    BY <1>2
  <2>3. QED
    BY <1>1, <1>2, <2>1, <2>2 DEF GateTypeOK
<1>4. ClearAtZero /\ HandsOverTheGate /\ GlitchLosesBounded
  BY <1>1, <1>2 DEF ClearAtZero, HandsOverTheGate, GlitchLosesBounded
<1>5. QED
  BY <1>3, <1>4 DEF SpeedInv

(* A clock edge: what the gate leaves behind, and what it hands over.      *)
LEMMA ClockInv ==
  ASSUME SpeedInv, PosedgeClk
  PROVE  SpeedInv'
<1> USE SpeedAssumption
<1>1. GateTypeOK /\ ClearAtZero /\ HandsOverTheGate /\ GlitchLosesBounded
  BY DEF SpeedInv
<1>2. count' \in 0 .. MAX_VALUE
  BY <1>1 DEF GateTypeOK, PosedgeClk, Clocked, NextCount
<1>3. /\ UNCHANGED <<hall_sensor, rst>>
      /\ seen' = IF count' = 0 THEN 0 ELSE seen
      /\ lost' = lost
  BY <1>1 DEF GateTypeOK, PosedgeClk, Clocked, Record
<1>4. /\ mec_cycles' = 0 \/ (count' # 0 /\ mec_cycles' = mec_cycles)
      /\ count' # 0 /\ mec_cycles' # mec_cycles => MayGlitch(count')
      /\ count' = 0 => mec_cycles' = 0
  BY DEF PosedgeClk, Clocked, CountedAtClock, Counted, PlusEdge
<1>5. /\ torn' = (count' # 0 /\ (torn \/ mec_cycles' # mec_cycles))
      /\ sure' = IF count' = 0 \/ MayGlitch(count') THEN 0 ELSE sure
  <2>1. count' # 0 => Counted(count', FALSE) = mec_cycles
    BY DEF Counted, PlusEdge
  <2>2. QED
    BY <2>1 DEF PosedgeClk, Clocked
<1>6. \/ /\ rst
         /\ D' = 0 /\ lastSeen' = 0 /\ lastSure' = 0 /\ lastTorn' = FALSE
      \/ D' = mec_cycles /\ lastSeen' = seen /\ lastSure' = sure /\ lastTorn' = torn
      \/ D' = D /\ lastSeen' = lastSeen /\ lastSure' = lastSure /\ lastTorn' = lastTorn
  BY DEF PosedgeClk, Clocked, NextD, AtHandover
<1>7. GateTypeOK'
  <2>1. mec_cycles' \in 0 .. Wrap - 1 /\ seen' \in Nat /\ sure' \in Nat /\ torn' \in BOOLEAN
    BY <1>1, <1>3, <1>4, <1>5 DEF GateTypeOK
  <2>2. D' \in 0 .. Wrap - 1 /\ lastSeen' \in Nat /\ lastSure' \in Nat /\ lastTorn' \in BOOLEAN
    <3>1. lastTorn \in BOOLEAN /\ torn \in BOOLEAN
      BY <1>1 DEF GateTypeOK
    <3>2. lastTorn' \in BOOLEAN
      BY <1>6, <3>1
    <3>3. D' \in 0 .. Wrap - 1 /\ lastSeen' \in Nat /\ lastSure' \in Nat
      BY <1>1, <1>6 DEF GateTypeOK
    <3>4. QED
      BY <3>2, <3>3
  <2>3. QED
    BY <1>1, <1>2, <1>3, <2>1, <2>2 DEF GateTypeOK
<1>8. ClearAtZero'
  BY <1>3, <1>4, <1>5 DEF ClearAtZero
<1>9. HandsOverTheGate'
  <2>1. ~torn' => mec_cycles' = seen' % Wrap
    <3>1. CASE count' = 0
      <4>1. 0 % Wrap = 0
        OBVIOUS
      <4>2. QED
        BY <1>3, <1>4, <3>1, <4>1
    <3>2. CASE count' # 0
      <4>1. ~torn' => ~torn /\ mec_cycles' = mec_cycles
        BY <1>5, <3>2
      <4>2. QED
        BY <1>1, <1>3, <3>2, <4>1 DEF HandsOverTheGate
    <3>3. QED
      BY <3>1, <3>2
  <2>2. ~lastTorn' => D' = lastSeen' % Wrap
    BY <1>1, <1>6 DEF HandsOverTheGate
  <2>3. QED
    BY <2>1, <2>2 DEF HandsOverTheGate
<1>10. GlitchLosesBounded'
  <2>1. seen' < Wrap => sure' <= mec_cycles' /\ mec_cycles' <= seen'
    BY <1>1, <1>3, <1>4, <1>5 DEF GlitchLosesBounded, GateTypeOK
  <2>2. lastSeen' < Wrap => lastSure' <= D' /\ D' <= lastSeen'
    BY <1>1, <1>6 DEF GlitchLosesBounded, GateTypeOK
  <2>3. QED
    BY <2>1, <2>2 DEF GlitchLosesBounded
<1>11. QED
  BY <1>7, <1>8, <1>9, <1>10 DEF SpeedInv

(* An edge of the line, counted unless the clear is on.                    *)
LEMMA HallInv ==
  ASSUME SpeedInv, PosedgeHall
  PROVE  SpeedInv'
<1> USE SpeedAssumption
<1>1. GateTypeOK /\ ClearAtZero /\ HandsOverTheGate /\ GlitchLosesBounded
  BY DEF SpeedInv
<1>2. UNCHANGED <<count, D, rst, lastSeen, lastSure, torn, lastTorn>> /\ hall_sensor' = TRUE
  BY DEF PosedgeHall
<1>3. CASE count = 0
  <2>1. mec_cycles' = 0 /\ seen' = 0 /\ sure' = 0 /\ lost' \in BOOLEAN
    BY <1>3 DEF PosedgeHall, Counted, Record
  <2>2. 0 \in 0 .. Wrap - 1 /\ 0 % Wrap = 0
    OBVIOUS
  <2>3. QED
    BY <1>1, <1>2, <1>3, <2>1, <2>2
    DEF SpeedInv, GateTypeOK, ClearAtZero, HandsOverTheGate, GlitchLosesBounded
<1>4. CASE count # 0
  <2>1. /\ mec_cycles' = (mec_cycles + 1) % Wrap
        /\ seen' = seen + 1 /\ sure' = sure + 1 /\ lost' \in BOOLEAN
    BY <1>1, <1>4 DEF PosedgeHall, Counted, PlusEdge, Record, GateTypeOK
  <2>2. mec_cycles' \in 0 .. Wrap - 1
    BY <1>1, <2>1 DEF GateTypeOK
  <2>3. ~torn => mec_cycles' = seen' % Wrap
    BY <1>1, <2>1, PlusOneMod DEF HandsOverTheGate, GateTypeOK
  <2>4. seen' < Wrap => sure' <= mec_cycles' /\ mec_cycles' <= seen'
    <3> SUFFICES ASSUME seen' < Wrap PROVE sure' <= mec_cycles' /\ mec_cycles' <= seen'
      OBVIOUS
    <3>1. sure <= mec_cycles /\ mec_cycles <= seen /\ seen + 1 < Wrap
      BY <1>1, <2>1 DEF GlitchLosesBounded, GateTypeOK
    <3>2. (mec_cycles + 1) % Wrap = mec_cycles + 1
      BY <1>1, <3>1 DEF GateTypeOK
    <3>3. QED
      BY <1>1, <2>1, <3>1, <3>2 DEF GateTypeOK
  <2>5. QED
    BY <1>1, <1>2, <1>4, <2>1, <2>2, <2>3, <2>4
    DEF SpeedInv, GateTypeOK, ClearAtZero, HandsOverTheGate, GlitchLosesBounded
<1>5. QED
  BY <1>3, <1>4

(* The inductive invariant.                                                *)
THEOREM SpeedInvariance == GateSpec => []SpeedInv
<1>1. SpeedInv /\ [GateNext]_gate => SpeedInv'
  <2> SUFFICES ASSUME SpeedInv, [GateNext]_gate PROVE SpeedInv'
    OBVIOUS
  <2>1. CASE NegedgeHall
    BY <2>1 DEF NegedgeHall, registers, history, SpeedInv, GateTypeOK, ClearAtZero,
                HandsOverTheGate, GlitchLosesBounded
  <2>2. ASSUME NEW level \in RstLevels, RstChange(level) PROVE SpeedInv'
    BY <2>2, SpeedAssumption DEF RstChange, registers, history, SpeedInv, GateTypeOK,
                ClearAtZero, HandsOverTheGate, GlitchLosesBounded
  <2>3. CASE UNCHANGED gate
    BY <2>3 DEF gate, registers, history, SpeedInv, GateTypeOK, ClearAtZero,
                HandsOverTheGate, GlitchLosesBounded
  <2>4. QED
    BY <2>1, <2>2, <2>3, ClockInv, HallInv DEF GateNext
<1>2. QED
  BY <1>1, SpeedInitInv, PTL DEF GateSpec

(* The registers keep their widths.                                        *)
THEOREM SpeedTypeCorrect == GateSpec => []GateTypeOK
BY SpeedInvariance, PTL DEF SpeedInv

(* What a gate hands over is the number of its edges modulo the counter's  *)
(* width, for every order of clocks and edges (speed_calculation.v, lines  *)
(* 20-44).                                                                 *)
THEOREM HandoverExact == GateSpec => []HandsOverTheGate
BY SpeedInvariance, PTL DEF SpeedInv

(* A glitch of the clear's decoder loses no edge after the last power of   *)
(* two of the gate and adds none (speed_calculation.v, line 32).           *)
THEOREM GlitchesOnlyLose == GateSpec => []GlitchLosesBounded
BY SpeedInvariance, PTL DEF SpeedInv

-----------------------------------------------------------------------------
(***************************************************************************)
(* The speed of three counts, module SpeedAverage.                         *)
(***************************************************************************)
Byte == 0..255
Word == 0..1023     \* a register of ten bits, and what a table shows

(* What a table may show for a count it lists.                            *)
Entries(datain) == {4 * datain - 1, 4 * datain}

(* The types.                                                              *)
Types ==
  /\ rev \in [Lines -> Byte]
  /\ table \in [Lines -> Word]
  /\ old \in [Lines -> Word]
  /\ div1 \in Word /\ rpm \in Word
  /\ age \in 0..2

(* A table shows the entry of its count wherever it has one.               *)
TablesFollow == \A l \in Lines : Listed(rev[l]) => table[l] = rpm_lut(rev[l], 0)

(* One clock after a gate the first register has what the tables show, and *)
(* one later the second has it too.                                        *)
Settled ==
  /\ age >= 1 => div1 = HalfOf(sum0)
  /\ age = 2 => rpm = HalfOf(sum1)

(* The two tables lie between lo and hi, before the last gate and since.   *)
Bounded(lo, hi) == \A l \in Lines : /\ lo <= table[l] /\ table[l] <= hi
                                    /\ lo <= old[l] /\ old[l] <= hi

(* Whatever bounds the tables bounds the registers.                        *)
Between ==
  \A lo, hi \in Int : Bounded(lo, hi) => /\ lo <= div1 /\ div1 <= hi
                                         /\ lo <= rpm /\ rpm <= hi

IInv == Types /\ TablesFollow /\ Settled /\ Between

-----------------------------------------------------------------------------
(* Of two terms of at most 10 bits a register keeps the whole half.        *)
LEMMA HalfOfTwo ==
  ASSUME NEW x \in Word, NEW y \in Word
  PROVE  /\ (x + y) % 2048 = x + y
         /\ HalfOf(x + y) = (x + y) \div 2
         /\ HalfOf(x + y) \in Word
  BY DEF HalfOf, Word

(* A half lies between any bounds of its two terms.                        *)
LEMMA HalfBetween ==
  ASSUME NEW x \in Word, NEW y \in Word, NEW lo \in Int, NEW hi \in Int,
         lo <= x, x <= hi, lo <= y, y <= hi
  PROVE  lo <= HalfOf(x + y) /\ HalfOf(x + y) <= hi
<1>1. HalfOf(x + y) = (x + y) \div 2
  BY HalfOfTwo
<1>2. lo <= (x + y) \div 2 /\ (x + y) \div 2 <= hi
  BY DEF Word
<1>3. QED
  BY <1>1, <1>2

(* An entry of the tables.                                                 *)
LEMMA Entry ==
  ASSUME NEW datain \in Byte, NEW latched \in Word
  PROVE  /\ rpm_lut(datain, latched) \in Word
         /\ Listed(datain) => /\ rpm_lut(datain, latched) = rpm_lut(datain, 0)
                              /\ rpm_lut(datain, 0) \in Entries(datain)
  BY DEF rpm_lut, Listed, Byte, Word, Entries

(* The two halves that the next clock registers.                           *)
LEMMA Halves ==
  ASSUME Types
  PROVE  /\ sum0 = table["a"] + table["b"] /\ sum1 = div1 + table["c"]
         /\ HalfOf(sum0) = (table["a"] + table["b"]) \div 2
         /\ HalfOf(sum1) = (div1 + table["c"]) \div 2
         /\ HalfOf(sum0) \in Word /\ HalfOf(sum1) \in Word
<1>1. /\ table["a"] \in Word /\ table["b"] \in Word
      /\ table["c"] \in Word /\ div1 \in Word
  BY DEF Types, Lines
<1>2. sum0 = table["a"] + table["b"] /\ sum1 = div1 + table["c"]
  BY <1>1, HalfOfTwo DEF sum0, sum1
<1>3. QED
  BY <1>1, <1>2, HalfOfTwo

(* They lie within any bounds of what they halve.                          *)
LEMMA HalvesBetween ==
  ASSUME Types, NEW lo \in Int, NEW hi \in Int,
         \A l \in Lines : lo <= table[l] /\ table[l] <= hi
  PROVE  /\ lo <= HalfOf(sum0) /\ HalfOf(sum0) <= hi
         /\ lo <= div1 /\ div1 <= hi =>
              lo <= HalfOf(sum1) /\ HalfOf(sum1) <= hi
<1>1. /\ table["a"] \in Word /\ table["b"] \in Word
      /\ table["c"] \in Word /\ div1 \in Word
  BY DEF Types, Lines
<1>2. /\ lo <= table["a"] /\ table["a"] <= hi
      /\ lo <= table["b"] /\ table["b"] <= hi
      /\ lo <= table["c"] /\ table["c"] <= hi
  BY DEF Lines
<1>3. sum0 = table["a"] + table["b"] /\ sum1 = div1 + table["c"]
  BY Halves
<1>4. lo <= HalfOf(sum0) /\ HalfOf(sum0) <= hi
  BY <1>1, <1>2, <1>3, HalfBetween
<1>5. ASSUME lo <= div1, div1 <= hi
      PROVE  lo <= HalfOf(sum1) /\ HalfOf(sum1) <= hi
  BY <1>1, <1>2, <1>3, <1>5, HalfBetween
<1>6. QED
  BY <1>4, <1>5

-----------------------------------------------------------------------------
(* The invariant holds at power-up.                                        *)
LEMMA InitIInv == Init => IInv
<1> SUFFICES ASSUME Init PROVE IInv
  OBVIOUS
<1> USE DEF Init
<1>1. \A l \in Lines : rev[l] = 0 /\ table[l] = 0 /\ old[l] = 0
  BY DEF Zero
<1>2. Types
  BY DEF Types, Zero, Byte, Word
<1>3. TablesFollow
  BY <1>1 DEF TablesFollow, rpm_lut, Listed
<1>4. Settled
  BY <1>1 DEF Settled, HalfOf, sum0, sum1, Lines
<1>5. Between
  BY <1>1 DEF Between, Bounded, Lines
<1>6. QED
  BY <1>2, <1>3, <1>4, <1>5 DEF IInv

(* A clock edge within a gate keeps it.                                    *)
LEMMA ClockIInv ==
  ASSUME IInv, PosedgeClock
  PROVE  IInv'
<1>0. Types /\ TablesFollow /\ Settled /\ Between
  BY DEF IInv
<1>1. /\ div1' = HalfOf(sum0) /\ rpm' = HalfOf(sum1)
      /\ rev' = rev /\ table' = table /\ old' = old
      /\ age' = IF age < 2 THEN age + 1 ELSE 2
  BY DEF PosedgeClock, Pipeline
<1>2. Types'
  BY <1>0, <1>1, Halves DEF Types
<1>3. TablesFollow'
  BY <1>0, <1>1 DEF TablesFollow
<1>4. Settled'
  <2>1. sum0' = sum0
    BY <1>1 DEF sum0
  <2>2. age' = 2 => sum1' = sum1
    BY <1>0, <1>1 DEF Settled, Types, sum1
  <2>3. QED
    BY <1>0, <1>1, <2>1, <2>2 DEF Settled, Types, HalfOf
<1>5. Between'
  <2>1. SUFFICES ASSUME NEW lo \in Int, NEW hi \in Int, Bounded(lo, hi)
                 PROVE  /\ lo <= div1' /\ div1' <= hi
                        /\ lo <= rpm' /\ rpm' <= hi
    BY <1>1 DEF Between, Bounded
  <2>2. lo <= div1 /\ div1 <= hi
    BY <1>0, <2>1 DEF Between
  <2>3. QED
    BY <1>0, <1>1, <2>1, <2>2, HalvesBetween DEF Bounded
<1>6. QED
  BY <1>2, <1>3, <1>4, <1>5 DEF IInv

(* So does the edge that ends a gate: the registers are settled by then,   *)
(* and follow the tables that become the old ones.                         *)
LEMMA GateIInv ==
  ASSUME IInv, NEW counts \in [Lines -> Counts], GateEnds(counts)
  PROVE  IInv'
<1>0. Types /\ TablesFollow /\ Settled /\ Between
  BY DEF IInv
<1>1. /\ div1' = HalfOf(sum0) /\ rpm' = HalfOf(sum1)
      /\ rev' = counts /\ old' = table
      /\ table' = [l \in Lines |-> rpm_lut(counts[l], table[l])]
      /\ age = 2 /\ age' = 0
  BY DEF GateEnds, Pipeline
<1>2. \A l \in Lines : /\ counts[l] \in Byte /\ table[l] \in Word
                       /\ table'[l] = rpm_lut(counts[l], table[l])
  <2>1. Counts \subseteq Byte
    BY AverageAssumption DEF Byte
  <2>2. QED
    BY <1>0, <1>1, <2>1 DEF Types
<1>3. \A l \in Lines : /\ table'[l] \in Word
                       /\ Listed(counts[l]) => table'[l] = rpm_lut(counts[l], 0)
  BY <1>2, Entry
<1>4. Types'
  <2>1. table' \in [Lines -> Word]
    BY <1>1, <1>2, <1>3
  <2>2. counts \in [Lines -> Byte]
    BY <1>2
  <2>3. QED
    BY <1>0, <1>1, <2>1, <2>2, Halves DEF Types
<1>5. TablesFollow'
  BY <1>1, <1>3 DEF TablesFollow
<1>6. Settled'
  BY <1>1 DEF Settled
<1>7. Between'
  <2>1. SUFFICES ASSUME NEW lo \in Int, NEW hi \in Int,
                        \A l \in Lines : lo <= table[l] /\ table[l] <= hi
                 PROVE  /\ lo <= div1' /\ div1' <= hi
                        /\ lo <= rpm' /\ rpm' <= hi
    BY <1>1 DEF Between, Bounded
  <2>2. div1 = HalfOf(sum0)
    BY <1>0, <1>1 DEF Settled
  <2>3. QED
    BY <1>0, <1>1, <2>1, <2>2, HalvesBetween
<1>8. QED
  BY <1>4, <1>5, <1>6, <1>7 DEF IInv

(* So does a clock edge in reset.                                          *)
LEMMA ResetIInv ==
  ASSUME IInv, PosedgeReset
  PROVE  IInv'
<1>1. /\ rev' = Zero /\ old' = Zero /\ div1' = 0 /\ rpm' = 0
      /\ age' = 2
      /\ table' = [l \in Lines |-> rpm_lut(0, table[l])]
  BY DEF PosedgeReset
<1>2. \A l \in Lines : rev'[l] = 0 /\ table'[l] = 0 /\ old'[l] = 0
  <2>1. \A l \in Lines : rpm_lut(0, table[l]) = 0
    BY DEF rpm_lut, Listed
  <2>2. QED
    BY <1>1, <2>1 DEF Zero
<1>3. Types'
  <2>1. table' \in [Lines -> Word]
    BY <1>1, <1>2 DEF Word
  <2>2. QED
    BY <1>1, <2>1 DEF Types, Zero, Byte, Word
<1>4. TablesFollow'
  BY <1>2 DEF TablesFollow, rpm_lut, Listed
<1>5. Settled'
  BY <1>1, <1>2 DEF Settled, HalfOf, sum0, sum1, Lines
<1>6. Between'
  BY <1>1, <1>2 DEF Between, Bounded, Lines
<1>7. QED
  BY <1>3, <1>4, <1>5, <1>6 DEF IInv

(* Every step keeps it.                                                    *)
LEMMA StepIInv == IInv /\ [Next]_vars => IInv'
<1> SUFFICES ASSUME IInv, [Next]_vars PROVE IInv'
  OBVIOUS
<1>1. CASE PosedgeClock
  BY <1>1, ClockIInv
<1>2. CASE PosedgeReset
  BY <1>2, ResetIInv
<1>3. CASE \E counts \in [Lines -> Counts] : GateEnds(counts)
  BY <1>3, GateIInv
<1>4. CASE UNCHANGED <<rev, table, div1, rpm, old, age>>
  <2>1. Types' = Types /\ TablesFollow' = TablesFollow
    BY <1>4 DEF Types, TablesFollow
  <2>2. Settled' = Settled
    BY <1>4 DEF Settled, sum0, sum1
  <2>3. Between' = Between
    BY <1>4 DEF Between, Bounded
  <2>4. QED
    BY <2>1, <2>2, <2>3 DEF IInv
<1>5. CASE \E level \in ResetLevels : ResetChange(level)
  BY <1>4, <1>5 DEF ResetChange
<1>6. CASE UNCHANGED vars
  BY <1>4, <1>6 DEF vars
<1>7. QED
  BY <1>1, <1>2, <1>3, <1>5, <1>6 DEF Next

(* The invariant of the averaging.                                         *)
THEOREM AverageInvariant == Spec => []IInv
  BY InitIInv, StepIInv, PTL DEF Spec

-----------------------------------------------------------------------------
(* The tables' rounding and both halvings together cost at most 1 rpm.     *)
LEMMA MeanOfEntries ==
  ASSUME NEW ra \in Byte, NEW rb \in Byte, NEW rc \in Byte,
         NEW ta \in Entries(ra), NEW tb \in Entries(rb), NEW tc \in Entries(rc)
  PROVE  ((ta + tb) \div 2 + tc) \div 2
            \in {(ra + rb + 2 * rc) - 1, ra + rb + 2 * rc}
<1>1. /\ ra \in Int /\ rb \in Int /\ rc \in Int
      /\ ta \in {4 * ra - 1, 4 * ra} /\ tb \in {4 * rb - 1, 4 * rb}
      /\ tc \in {4 * rc - 1, 4 * rc}
  BY DEF Byte, Entries
<1>2. (ta + tb) \div 2 \in {(2 * ra + 2 * rb) - 1, 2 * ra + 2 * rb}
  BY <1>1
<1>3. QED
  BY <1>1, <1>2

(* So the mean follows from the invariant.                                 *)
LEMMA MeanOfIInv == IInv => MeanWithinOne
<1>1. ASSUME IInv, age = 2, \A l \in Lines : Listed(rev[l])
      PROVE  rpm \in {(rev["a"] + rev["b"] + 2 * rev["c"]) - 1,
                      rev["a"] + rev["b"] + 2 * rev["c"]}
  <2>1. Types /\ TablesFollow /\ Settled
    BY <1>1 DEF IInv
  <2>2. \A l \in Lines : rev[l] \in Byte /\ table[l] \in Word /\ 0 \in Word
    BY <2>1 DEF Types, Word
  <2>3. \A l \in Lines : rev[l] \in Byte /\ table[l] \in Entries(rev[l])
    BY <1>1, <2>1, <2>2, Entry DEF TablesFollow
  <2>4. div1 = HalfOf(sum0) /\ rpm = HalfOf(sum1)
    BY <1>1, <2>1 DEF Settled
  <2>5. rpm = ((table["a"] + table["b"]) \div 2 + table["c"]) \div 2
    BY <2>1, <2>4, Halves
  <2>6. "a" \in Lines /\ "b" \in Lines /\ "c" \in Lines
    BY DEF Lines
  <2>7. QED
    BY <2>3, <2>5, <2>6, MeanOfEntries
<1>2. QED
  BY <1>1 DEF MeanWithinOne

(* The speed of a settled gate is the weighted mean of its three counts,   *)
(* to 1 rpm, for all counts the tables list: the pipeline's widths of 10   *)
(* and 11 bits never cut a sum.                                            *)
THEOREM SpeedIsTheMean == Spec => []MeanWithinOne
  BY AverageInvariant, MeanOfIInv, PTL

(* Between what bounds the tables there is a table on either side.         *)
LEMMA SaidOnBothSides == IInv => NoOvershoot
<1> SUFFICES ASSUME IInv PROVE NoOvershoot
  OBVIOUS
<1> DEFINE said == {table[l] : l \in Lines} \union {old[l] : l \in Lines}
<1>1. Types /\ Between
  BY DEF IInv
<1>2. \A x \in Word : x \in Int /\ 0 <= x /\ x <= 1023
  BY DEF Word
<1>3. /\ rpm \in Int
      /\ \A l \in Lines : /\ table[l] \in Int /\ 0 <= table[l] /\ table[l] <= 1023
                          /\ old[l] \in Int /\ 0 <= old[l] /\ old[l] <= 1023
  BY <1>1, <1>2 DEF Types
<1>4. \E s \in said : s <= rpm
  <2> SUFFICES ASSUME \A l \in Lines : ~(table[l] <= rpm) /\ ~(old[l] <= rpm)
               PROVE  FALSE
    OBVIOUS
  <2>1. Bounded(rpm + 1, 1023)
    BY <1>3 DEF Bounded
  <2>2. rpm + 1 <= rpm
    BY <1>1, <1>3, <2>1 DEF Between
  <2>3. QED
    BY <1>3, <2>2
<1>5. \E s \in said : rpm <= s
  <2> SUFFICES ASSUME \A l \in Lines : ~(rpm <= table[l]) /\ ~(rpm <= old[l])
               PROVE  FALSE
    OBVIOUS
  <2>1. Bounded(0, rpm - 1)
    BY <1>3 DEF Bounded
  <2>2. rpm <= rpm - 1
    BY <1>1, <1>3, <2>1 DEF Between
  <2>3. QED
    BY <1>3, <2>2
<1>6. QED
  BY <1>4, <1>5 DEF NoOvershoot

(* On its way from one gate's speed to the next the output stays within    *)
(* what the tables have shown in the two gates, latched values included.   *)
THEOREM SpeedNeverOvershoots == Spec => []NoOvershoot
  BY AverageInvariant, SaidOnBothSides, PTL

-----------------------------------------------------------------------------
(***************************************************************************)
(* The program that reads rpm and shows it, module Display.                *)
(***************************************************************************)
(* Division by a positive number, and its rest.                            *)
LEMMA Division ==
  ASSUME NEW x \in Nat, NEW y \in Nat, y > 0
  PROVE  /\ x \div y \in Nat /\ x % y \in 0 .. y - 1
         /\ x = y * (x \div y) + (x % y)
  OBVIOUS

(* A sleep of us microseconds is shorter than it says by less than one     *)
(* pass of its loop in each (alt_busy_sleep.c, lines 78-129).              *)
LEMMA SleepIsLong ==
  ASSUME NEW us \in Nat, us > 0
  PROVE  /\ alt_busy_sleep(us) \in Nat
         /\ alt_busy_sleep(us) >= us * (ALT_CPU_FREQ - cycles_per_loop)
<1> DEFINE F == ALT_CPU_FREQ
           c == cycles_per_loop
           p == PassesPerUs
           longest == INT_MAX \div p
           big == us \div longest
           rest == us % longest
           passes == IF big = 0 THEN us * p
                     ELSE big * INT_MAX + (IF rest = 0 THEN 2 * INT_MAX + 2 ELSE rest * p)
<1>1. /\ c \in Nat /\ c > 0 /\ F \in Nat /\ F >= c
      /\ INT_MAX \in Nat /\ INT_MAX >= F
  BY DisplayAssumption
<1>2. p \in Nat /\ F % c \in 0 .. c - 1 /\ F = c * p + (F % c)
  BY <1>1, Division DEF PassesPerUs
<1>3. c * p >= F - c /\ p >= 1
  <2>1. p # 0
    BY <1>1, <1>2
  <2>2. QED
    BY <1>1, <1>2, <2>1
<1>4. p <= F
  <2>1. c * p >= 1 * p
    BY <1>1, <1>2
  <2>2. QED
    BY <1>1, <1>2, <2>1
<1>5. longest \in Nat /\ INT_MAX % p \in 0 .. p - 1 /\ INT_MAX = p * longest + (INT_MAX % p)
  BY <1>1, <1>2, <1>3, Division
<1>6. longest > 0
  BY <1>1, <1>2, <1>3, <1>4, <1>5
<1> HIDE DEF longest
<1>7. big \in Nat /\ rest \in Nat /\ us = longest * big + rest
  BY <1>5, <1>6, Division
<1> HIDE DEF p, big, rest
<1>8. passes \in Nat /\ passes >= us * p
  <2>1. us * p \in Nat /\ big * INT_MAX \in Nat /\ rest * p \in Nat
    BY <1>1, <1>2, <1>7
  <2>2. big * INT_MAX >= big * (p * longest)
    <3>1. INT_MAX >= p * longest
      BY <1>2, <1>5
    <3>2. p * longest \in Nat
      BY <1>2, <1>5
    <3> DEFINE q == p * longest
    <3> HIDE DEF q
    <3>3. big * INT_MAX >= big * q
      BY <1>1, <1>7, <3>1, <3>2 DEF q
    <3>4. QED
      BY <3>3 DEF q
  <2>3. us * p = big * (p * longest) + rest * p
    BY <1>2, <1>5, <1>7
  <2>4. \A x, y, z, w \in Nat : x = y + z /\ w >= y =>
          /\ w + z >= x
          /\ z = 0 => w + (2 * INT_MAX + 2) >= x
    BY <1>1
  <2>5. /\ big * INT_MAX + rest * p >= us * p
        /\ rest = 0 => big * INT_MAX + (2 * INT_MAX + 2) >= us * p
    <3>1. big * (p * longest) \in Nat
      BY <1>2, <1>5, <1>7
    <3>2. rest = 0 => rest * p = 0
      BY <1>2
    <3>3. QED
      BY <2>1, <2>2, <2>3, <2>4, <3>1, <3>2, Zenon
  <2>6. /\ big * INT_MAX + rest * p \in Nat
        /\ big * INT_MAX + (2 * INT_MAX + 2) \in Nat
        /\ us * p >= us * p
    BY <1>1, <2>1
  <2>7. \/ passes = us * p
        \/ rest = 0 /\ passes = big * INT_MAX + (2 * INT_MAX + 2)
        \/ passes = big * INT_MAX + rest * p
    <3>1. CASE big = 0
      BY <3>1
    <3>2. CASE big # 0 /\ rest = 0
      BY <3>2
    <3>3. CASE big # 0 /\ rest # 0
      BY <3>3
    <3>4. QED
      BY <3>1, <3>2, <3>3
  <2> HIDE DEF passes
  <2>8. CASE passes = us * p
    BY <2>1, <2>6, <2>8
  <2>9. CASE rest = 0 /\ passes = big * INT_MAX + (2 * INT_MAX + 2)
    <3>1. big * INT_MAX + (2 * INT_MAX + 2) >= us * p
      BY <2>5, <2>9
    <3>2. QED
      BY <2>6, <2>9, <3>1
  <2>10. CASE passes = big * INT_MAX + rest * p
    <3>1. big * INT_MAX + rest * p >= us * p
      BY <2>5
    <3>2. QED
      BY <2>6, <2>10, <3>1
  <2>11. QED
    BY <2>7, <2>8, <2>9, <2>10
<1>9. alt_busy_sleep(us) = passes * c
  BY DEF alt_busy_sleep, p, longest, big, rest
<1> HIDE DEF passes
<1>10. passes * c >= (us * p) * c /\ passes * c \in Nat
  <2> DEFINE q == us * p
  <2>1. q \in Nat
    BY <1>2
  <2> HIDE DEF q
  <2>2. passes * c >= q * c /\ passes * c \in Nat
    BY <1>1, <1>8, <2>1 DEF q
  <2>3. QED
    BY <2>2 DEF q
<1>11. (us * p) * c = us * (c * p)
  BY <1>1, <1>2
<1>12. us * (c * p) >= us * (F - c)
  <2> DEFINE q == c * p
             r == F - c
  <2>1. q \in Nat /\ r \in Nat /\ q >= r
    BY <1>1, <1>2, <1>3
  <2> HIDE DEF q, r
  <2>2. us * q >= us * r
    BY <2>1
  <2>3. QED
    BY <2>2 DEF q, r
<1>13. QED
  <2> DEFINE a == passes * c
             b == us * (c * p)
             d == us * (F - c)
  <2>1. a \in Int /\ b \in Int /\ d \in Int
    BY <1>1, <1>2, <1>10
  <2>2. a >= b /\ b >= d
    BY <1>10, <1>11, <1>12
  <2> HIDE DEF a, b, d
  <2>3. a >= d
    BY <2>1, <2>2
  <2>4. QED
    BY <1>9, <1>10, <2>3 DEF a, d

-----------------------------------------------------------------------------
(* What SendCommand and SendData put on the port.                          *)
Sendable == [RS : BOOLEAN, byte : Nat]

(* What one pass of the loop sends.                                        *)
PassOf(text) == Append(SendMessage(text), Clear)

(* With left still to send and s writes of its first byte done, the bytes  *)
(* of the pass that the display has taken are those before left, and the   *)
(* first of left once E has fallen for it.                                 *)
Progress(text, left, s, out) ==
  LET n     == Len(text)
      taken == n + 1 - Len(left) + (IF s = 2 THEN 1 ELSE 0)
  IN  /\ Len(left) <= n + 1
      /\ \A i \in 1 .. Len(left) : left[i] = PassOf(text)[n + 1 - Len(left) + i]
      /\ Len(out) = IF taken <= n THEN taken ELSE 0
      /\ \A i \in 1 .. Len(out) : out[i] = text[i]

(* The display's text after a byte that finds it ready.                    *)
Takes(out, sent) ==
  IF sent = Clear THEN <<>> ELSE IF sent.RS THEN Append(out, sent.byte) ELSE out

(* The first of a sequence and the rest.                                   *)
LEMMA FirstOf ==
  ASSUME NEW S, NEW s \in Seq(S), s # <<>>
  PROVE  /\ Head(s) = s[1] /\ Tail(s) \in Seq(S) /\ Len(Tail(s)) = Len(s) - 1
         /\ Len(s) \in Nat /\ Len(s) > 0
         /\ \A i \in 1 .. Len(s) - 1 : Tail(s)[i] = s[i + 1]
  BY HeadTailProperties

(* A number is printed with one to four digits.                            *)
LEMMA MessageType ==
  ASSUME NEW v \in Nat
  PROVE  Message(v) \in Seq(Nat)
<1> DEFINE digit == <<v \div 1000, (v \div 100) % 10, (v \div 10) % 10, v % 10>>
           Leads(i) == (digit[i] # 0 \/ i = 4) /\ \A j \in 1 .. i - 1 : digit[j] = 0
           first == CHOOSE i \in 1..4 : Leads(i)
<1>1. \A i \in 1..4 : digit[i] \in Nat
  <2>1. v \div 1000 \in Nat /\ v \div 100 \in Nat /\ v \div 10 \in Nat
    OBVIOUS
  <2>2. (v \div 100) % 10 \in Nat /\ (v \div 10) % 10 \in Nat /\ v % 10 \in Nat
    BY <2>1
  <2> DEFINE a == v \div 1000  b == (v \div 100) % 10  c == (v \div 10) % 10  d == v % 10
  <2>3. a \in Nat /\ b \in Nat /\ c \in Nat /\ d \in Nat /\ digit = <<a, b, c, d>>
    BY <2>1, <2>2
  <2> HIDE DEF a, b, c, d
  <2>4. QED
    BY <2>3
<1> HIDE DEF digit
<1>2. \E i \in 1..4 : Leads(i)
  <2>1. CASE digit[1] # 0
    <3>1. Leads(1)
      BY <2>1
    <3>2. QED
      BY <3>1
  <2>2. CASE digit[1] = 0 /\ digit[2] # 0
    <3>1. Leads(2)
      BY <2>2
    <3>2. QED
      BY <3>1
  <2>3. CASE digit[1] = 0 /\ digit[2] = 0 /\ digit[3] # 0
    <3>1. Leads(3)
      BY <2>3
    <3>2. QED
      BY <3>1
  <2>4. CASE digit[1] = 0 /\ digit[2] = 0 /\ digit[3] = 0
    <3>1. Leads(4)
      BY <2>4
    <3>2. QED
      BY <3>1
  <2>5. QED
    BY <2>1, <2>2, <2>3, <2>4
<1> HIDE DEF Leads
<1>3. first \in 1..4
  BY <1>2
<1>4. Str(v) = [i \in 1 .. 5 - first |-> 48 + digit[first + i - 1]]
  BY DEF Str, digit, Leads
<1> HIDE DEF first
<1>5. Str(v) \in Seq(Nat)
  <2>1. \A i \in 1 .. 5 - first : 48 + digit[first + i - 1] \in Nat
    <3> SUFFICES ASSUME NEW i \in 1 .. 5 - first PROVE 48 + digit[first + i - 1] \in Nat
      OBVIOUS
    <3>1. first + i - 1 \in 1..4
      BY <1>3
    <3>2. digit[first + i - 1] \in Nat
      BY <1>1, <3>1
    <3>3. QED
      BY <3>2
  <2>2. 5 - first \in Nat
    BY <1>3
  <2>3. QED
    BY <1>4, <2>1, <2>2, IsASeq
<1>6. Prompt \in Seq(Nat)
  BY DEF Prompt
<1>7. QED
  BY <1>5, <1>6, ConcatProperties DEF Message

(* A pass is the characters of its text, and a clear.                      *)
LEMMA PassShape ==
  ASSUME NEW text \in Seq(Nat)
  PROVE  /\ PassOf(text) \in Seq(Sendable)
         /\ Len(PassOf(text)) = Len(text) + 1
         /\ \A i \in 1 .. Len(text) : PassOf(text)[i] = Data(text[i])
         /\ PassOf(text)[Len(text) + 1] = Clear
<1>1. Len(text) \in Nat /\ \A i \in 1 .. Len(text) : text[i] \in Nat
  BY LenProperties, ElementOfSeq
<1>2. \A k \in Nat : Data(k) \in Sendable
  BY Zenon DEF Data, Sendable
<1>3. SendMessage(text) \in Seq(Sendable)
  BY <1>1, <1>2, IsASeq DEF SendMessage
<1>4. Len(SendMessage(text)) = Len(text)
      /\ \A i \in 1 .. Len(text) : SendMessage(text)[i] = Data(text[i])
  BY <1>1 DEF SendMessage
<1>5. Clear \in Sendable
  <2>1. 1 \in Nat
    OBVIOUS
  <2>2. QED
    BY <2>1, Zenon DEF Clear, Command, Sendable
<1>6. QED
  BY <1>3, <1>4, <1>5, AppendProperties DEF PassOf

(* No character is taken for a clear.                                      *)
LEMMA DataOrClear ==
  ASSUME NEW char
  PROVE  Data(char).RS /\ Data(char).byte = char /\ Data(char) # Clear
<1>1. Data(char).RS = TRUE
  BY DEF Data
<1>2. Data(char).byte = char
  BY DEF Data
<1>3. Clear.RS = FALSE
  BY DEF Clear, Command
<1>4. QED
  BY <1>1, <1>2, <1>3, Zenon

(* E falls: the display takes the first byte of left.                      *)
LEMMA ProgressTake ==
  ASSUME NEW text \in Seq(Nat), NEW left \in Seq(Sendable), left # <<>>,
         NEW out \in Seq(Nat), Progress(text, left, 1, out)
  PROVE  Progress(text, left, 2, Takes(out, Head(left)))
<1> DEFINE n == Len(text)
           k == n + 1 - Len(left)
<1>1. n \in Nat /\ Len(left) \in Nat /\ Len(left) > 0 /\ Head(left) = left[1]
  BY FirstOf, LenProperties
<1>2. /\ Len(left) <= n + 1
      /\ \A i \in 1 .. Len(left) : left[i] = PassOf(text)[n + 1 - Len(left) + i]
      /\ Len(out) = IF k <= n THEN k ELSE 0
      /\ \A i \in 1 .. Len(out) : out[i] = text[i]
  BY <1>1 DEF Progress
<1>3. k \in 0 .. n /\ Len(out) = k
  BY <1>1, <1>2
<1>4. Head(left) = PassOf(text)[k + 1]
  BY <1>1, <1>2
<1>5. CASE k + 1 <= n
  <2>1. k + 1 \in 1 .. n
    BY <1>1, <1>3, <1>5
  <2>2. Head(left) = Data(text[k + 1])
    BY <1>4, <2>1, PassShape
  <2>3. Takes(out, Head(left)) = Append(out, text[k + 1])
    BY <2>2, DataOrClear, Zenon DEF Takes
  <2>4. text[k + 1] \in Nat
    BY <2>1, ElementOfSeq
  <2>5. /\ Len(Append(out, text[k + 1])) = k + 1
        /\ \A i \in 1 .. k : Append(out, text[k + 1])[i] = out[i]
        /\ Append(out, text[k + 1])[k + 1] = text[k + 1]
    BY <1>3, <2>4, AppendProperties
  <2>6. \A i \in 1 .. k + 1 : Append(out, text[k + 1])[i] = text[i]
    <3>1. \A i \in 1 .. k + 1 : i \in 1 .. k \/ i = k + 1
      BY <1>3
    <3>2. \A i \in 1 .. k : Append(out, text[k + 1])[i] = text[i]
      BY <1>2, <1>3, <2>5, Zenon
    <3>3. QED
      BY <2>5, <3>1, <3>2, Zenon
  <2>7. QED
    BY <1>1, <1>2, <1>3, <1>5, <2>3, <2>5, <2>6 DEF Progress
<1>6. CASE k = n
  <2>1. Head(left) = Clear
    BY <1>4, <1>6, PassShape
  <2>2. Takes(out, Head(left)) = <<>>
    BY <2>1 DEF Takes
  <2>3. Len(<<>>) = 0
    OBVIOUS
  <2>4. QED
    BY <1>1, <1>2, <1>3, <1>6, <2>2, <2>3 DEF Progress
<1>7. QED
  BY <1>1, <1>3, <1>5, <1>6

(* E is high again: the program goes on to the next byte.                  *)
LEMMA ProgressNext ==
  ASSUME NEW text \in Seq(Nat), NEW left \in Seq(Sendable), left # <<>>,
         NEW out \in Seq(Nat), Progress(text, left, 2, out)
  PROVE  Progress(text, Tail(left), 0, out)
<1> DEFINE n == Len(text)
<1>1. /\ n \in Nat /\ Len(left) \in Nat /\ Len(left) > 0
      /\ Tail(left) \in Seq(Sendable) /\ Len(Tail(left)) = Len(left) - 1
      /\ \A i \in 1 .. Len(left) - 1 : Tail(left)[i] = left[i + 1]
  BY FirstOf, LenProperties
<1>2. /\ Len(left) <= n + 1
      /\ \A i \in 1 .. Len(left) : left[i] = PassOf(text)[n + 1 - Len(left) + i]
  BY DEF Progress
<1>3. \A i \in 1 .. Len(Tail(left)) :
        Tail(left)[i] = PassOf(text)[n + 1 - Len(Tail(left)) + i]
  <2> SUFFICES ASSUME NEW i \in 1 .. Len(Tail(left))
               PROVE  Tail(left)[i] = PassOf(text)[n + 1 - Len(Tail(left)) + i]
    OBVIOUS
  <2>1. i \in 1 .. Len(left) - 1 /\ i + 1 \in 1 .. Len(left)
    BY <1>1
  <2>2. Tail(left)[i] = PassOf(text)[n + 1 - Len(left) + (i + 1)]
    BY <1>1, <1>2, <2>1
  <2>3. n + 1 - Len(left) + (i + 1) = n + 1 - Len(Tail(left)) + i
    BY <1>1, <2>1
  <2>4. QED
    BY <2>2, <2>3
<1>4. n + 1 - Len(left) + 1 = n + 1 - Len(Tail(left)) + 0
  BY <1>1
<1>5. QED
  BY <1>1, <1>2, <1>3, <1>4 DEF Progress

(* A pass begins with a blank display.                                     *)
LEMMA ProgressBegin ==
  ASSUME NEW text \in Seq(Nat)
  PROVE  Progress(text, PassOf(text), 0, <<>>)
<1>1. Len(text) \in Nat /\ Len(PassOf(text)) = Len(text) + 1 /\ Len(<<>>) = 0
  BY PassShape, LenProperties
<1>2. QED
  BY <1>1 DEF Progress

-----------------------------------------------------------------------------
Sleep == alt_busy_sleep(1000)

(* What a sleep of 1 ms is sure to last, three times, covers a clear: at   *)
(* 50 MHz and 9 clocks a pass that is 2.46 ms.                             *)
ClearsInTime == Recovery <= 3 * (1000 * (ALT_CPU_FREQ - cycles_per_loop))

(* The types.                                                              *)
DisplayTypes ==
  /\ SPEED_REF \in Speeds
  /\ speed_datain \in Nat
  /\ todo \in Seq(Sendable)
  /\ strobe \in 0..2
  /\ shown \in Seq(Nat)
  /\ busy \in Nat
  /\ E \in BOOLEAN /\ missed \in BOOLEAN

(* A clear is over when E falls for the next byte: by then three sleeps    *)
(* have passed, the one after the fall, the one after E is high again and  *)
(* the one of the next byte's first write.                                 *)
InTime ==
  /\ ~missed
  /\ strobe = 0 => busy <= Sleep
  /\ strobe = 1 => busy = 0 /\ E
  /\ strobe = 2 => busy <= 2 * Sleep /\ ~E
  /\ todo = <<>> => strobe = 0

(* Before the loop only commands go out, and the display stays blank.      *)
Starting ==
  /\ shown = <<>>
  /\ \A i \in 1 .. Len(todo) : todo[i].RS = FALSE

(* In the loop it shows the beginning of the message of the value read.    *)
Looping == Progress(Message(speed_datain), todo, strobe, shown)

DisplayInv == DisplayTypes /\ InTime /\ (Starting \/ Looping)

(* The invariant holds at power-up.                                        *)
LEMMA DisplayStart ==
  ASSUME DisplayInit
  PROVE  DisplayInv
<1>1. Sleep \in Nat
  BY SleepIsLong DEF Sleep
<1>2. ASSUME NEW k \in Nat PROVE Command(k) \in Sendable /\ Command(k).RS = FALSE
  <2>1. Command(k) \in Sendable
    BY Zenon DEF Command, Sendable
  <2>2. Command(k).RS = FALSE
    BY DEF Command
  <2>3. QED
    BY <2>1, <2>2
<1>3. Initialize \in Seq(Sendable) /\ \A i \in 1 .. Len(Initialize) : Initialize[i].RS = FALSE
  <2> DEFINE a == Command(56)  b == Command(15)  c == Clear  d == Command(6)
  <2>1. /\ a \in Sendable /\ b \in Sendable /\ c \in Sendable /\ d \in Sendable
        /\ a.RS = FALSE /\ b.RS = FALSE /\ c.RS = FALSE /\ d.RS = FALSE
    <3>1. 56 \in Nat /\ 15 \in Nat /\ 1 \in Nat /\ 6 \in Nat
      OBVIOUS
    <3>2. a \in Sendable /\ a.RS = FALSE
      BY <1>2, <3>1
    <3>3. b \in Sendable /\ b.RS = FALSE
      BY <1>2, <3>1
    <3>4. c \in Sendable /\ c.RS = FALSE
      BY <1>2, <3>1 DEF Clear
    <3>5. d \in Sendable /\ d.RS = FALSE
      BY <1>2, <3>1
    <3>6. QED
      BY <3>2, <3>3, <3>4, <3>5
  <2>2. Initialize = <<a, b, c, d>>
    BY DEF Initialize
  <2> HIDE DEF a, b, c, d
  <2>3. /\ Initialize \in Seq(Sendable) /\ Len(Initialize) = 4
        /\ Initialize[1] = a /\ Initialize[2] = b /\ Initialize[3] = c /\ Initialize[4] = d
    BY <2>1, <2>2
  <2>4. \A i \in 1..4 : i = 1 \/ i = 2 \/ i = 3 \/ i = 4
    OBVIOUS
  <2>5. QED
    BY <2>1, <2>3, <2>4
<1>4. Initialize # <<>>
  BY DEF Initialize
<1>5. DisplayTypes
  <2>1. 0 \in Nat /\ 0 \in 0..2 /\ <<>> \in Seq(Nat)
    OBVIOUS
  <2>2. QED
    BY <1>3, <2>1, Zenon DEF DisplayInit, DisplayTypes
<1>6. InTime
  BY <1>1, <1>4 DEF DisplayInit, InTime
<1>7. Starting
  BY <1>3, Zenon DEF DisplayInit, Starting
<1>8. QED
  BY <1>5, <1>6, <1>7 DEF DisplayInv

(* A write of the port, with the sleep after it.                           *)
LEMMA DisplayWrites ==
  ASSUME ClearsInTime, DisplayInv, Write
  PROVE  DisplayInv'
<1>1. Sleep \in Nat /\ Recovery \in Nat /\ Recovery <= 3 * Sleep
  <2>1. Sleep \in Nat /\ Sleep >= 1000 * (ALT_CPU_FREQ - cycles_per_loop)
    BY SleepIsLong DEF Sleep
  <2>2. ALT_CPU_FREQ \in Nat /\ cycles_per_loop \in Nat /\ Recovery \in Nat
    BY DisplayAssumption
  <2>3. QED
    BY <2>1, <2>2 DEF ClearsInTime
<1>2. /\ todo \in Seq(Sendable) /\ todo # <<>> /\ strobe \in 0..2 /\ shown \in Seq(Nat)
      /\ busy \in Nat /\ E \in BOOLEAN /\ speed_datain \in Nat
  BY Zenon DEF DisplayInv, DisplayTypes, Write
<1>3. /\ strobe' = (strobe + 1) % 3
      /\ todo' = IF strobe = 2 THEN Tail(todo) ELSE todo
      /\ Strobe(Levels, Head(todo), Sleep)
  BY Zenon DEF Write, SleepEach, Sleep
<1>4. SPEED_REF' = SPEED_REF /\ SPEED_REF \in Speeds /\ speed_datain' = speed_datain
  BY Zenon DEF Write, DisplayInv, DisplayTypes
<1>5. PICK head : head = Head(todo)
  OBVIOUS
<1>6. head \in Sendable /\ head = todo[1] /\ Len(todo) \in Nat /\ Len(todo) > 0
  BY <1>2, <1>5, FirstOf, ElementOfSeq
<1>7. CASE strobe = 1
  <2>1. ~missed /\ busy = 0 /\ E
    BY <1>7, Zenon DEF DisplayInv, InTime
  <2>2. strobe' = 2 /\ todo' = todo
    BY <1>3, <1>7
  <2>3. strobe \notin {0, 2} /\ ~(busy > 0)
    BY <1>7, <2>1
  <2>4. /\ E' = Levels
        /\ missed' = (missed \/ ((E /\ ~Levels) /\ busy > 0))
        /\ shown' = IF ~(E /\ ~Levels) \/ busy > 0 THEN shown
                    ELSE IF head = Clear THEN <<>>
                    ELSE IF head.RS THEN Append(shown, head.byte)
                    ELSE shown
    BY <1>3, <1>5, Zenon DEF Strobe
  <2>5. E' = FALSE /\ missed' = FALSE
    <3>1. E' = FALSE
      <4>1. Levels = FALSE
        BY <2>3 DEF Levels
      <4>2. QED
        BY <2>4, <4>1
    <3>2. missed' = FALSE
      BY <2>1, <2>3, <2>4
    <3>3. QED
      BY <3>1, <3>2
  <2>6. shown' = Takes(shown, head)
    <3>1. ~Levels
      BY <2>3 DEF Levels
    <3>2. QED
      BY <2>1, <2>3, <2>4, <3>1, Zenon DEF Takes
  <2>7. busy' \in Nat /\ busy' <= 2 * Sleep
    <3>1. PICK wait \in {Recovery, busy} :
            busy' = IF wait > Sleep THEN wait - Sleep ELSE 0
      BY <1>3, Zenon DEF Strobe
    <3>2. QED
      BY <1>1, <2>1, <3>1
  <2>8. shown' \in Seq(Nat)
    <3>1. head.byte \in Nat
      BY <1>6, Zenon DEF Sendable
    <3>2. Append(shown, head.byte) \in Seq(Nat) /\ <<>> \in Seq(Nat)
      BY <1>2, <3>1, AppendProperties, EmptySeq
    <3>3. QED
      BY <1>2, <2>6, <3>2 DEF Takes
  <2>9. DisplayTypes'
    <3>1. strobe' \in 0..2
      BY <2>2
    <3>2. QED
      BY <1>2, <1>4, <2>2, <2>5, <2>7, <2>8, <3>1, Zenon DEF DisplayTypes
  <2>10. InTime'
    BY <1>2, <2>2, <2>5, <2>7 DEF InTime
  <2>11. CASE Starting
    <3>1. head.RS = FALSE /\ shown = <<>>
      BY <1>6, <2>11 DEF Starting
    <3>2. shown' = <<>>
      BY <2>6, <3>1, Zenon DEF Takes
    <3>3. Starting'
      BY <2>2, <2>11, <3>2, Zenon DEF Starting
    <3>4. QED
      BY <2>9, <2>10, <3>3 DEF DisplayInv
  <2>12. CASE Looping
    <3>1. Progress(Message(speed_datain), todo, 2, Takes(shown, head))
      BY <1>2, <1>5, <1>7, <2>12, MessageType, ProgressTake DEF Looping
    <3>2. Looping'
      BY <1>4, <2>2, <2>6, <3>1, Zenon DEF Looping
    <3>3. QED
      BY <2>9, <2>10, <3>2 DEF DisplayInv
  <2>13. QED
    BY <2>11, <2>12 DEF DisplayInv
<1>8. CASE strobe \in {0, 2}
  <2>1. ~missed
    BY Zenon DEF DisplayInv, InTime
  <2>2. E' = TRUE /\ missed' = FALSE /\ shown' = shown
        /\ busy' = IF busy > Sleep THEN busy - Sleep ELSE 0
    <3>1. /\ E' = Levels
          /\ missed' = (missed \/ ((E /\ ~Levels) /\ busy > 0))
          /\ shown' = IF ~(E /\ ~Levels) \/ busy > 0 THEN shown
                      ELSE IF head = Clear THEN <<>>
                      ELSE IF head.RS THEN Append(shown, head.byte)
                      ELSE shown
      BY <1>3, <1>5, Zenon DEF Strobe
    <3>2. busy' = IF busy > Sleep THEN busy - Sleep ELSE 0
      <4> DEFINE wait == IF (E /\ ~Levels) /\ head = Clear /\ busy = 0 THEN Recovery ELSE busy
      <4>1. busy' = IF wait > Sleep THEN wait - Sleep ELSE 0
        BY <1>3, <1>5, Zenon DEF Strobe
      <4>2. ~(E /\ ~Levels)
        BY <1>8 DEF Levels
      <4>3. wait = busy
        BY <4>2
      <4> HIDE DEF wait
      <4>4. QED
        BY <4>1, <4>3, Zenon
    <3>3. Levels
      BY <1>8 DEF Levels
    <3>4. E' = TRUE
      BY <1>8, <3>1 DEF Levels
    <3>5. missed' = FALSE
      BY <2>1, <3>1, <3>3
    <3>6. shown' = shown
      BY <3>1, <3>3, Zenon
    <3>7. QED
      BY <3>2, <3>4, <3>5, <3>6
  <2>3. /\ strobe = 0 => busy' = 0
        /\ strobe = 2 => busy' <= Sleep
        /\ busy' \in Nat
    <3>1. /\ strobe = 0 => busy <= Sleep
          /\ strobe = 2 => busy <= 2 * Sleep
      BY Zenon DEF DisplayInv, InTime
    <3>2. QED
      BY <1>1, <1>2, <2>2, <3>1
  <2>4. CASE strobe = 0
    <3>1. strobe' = 1 /\ todo' = todo
      BY <1>3, <2>4
    <3>2. DisplayTypes'
      <4>1. strobe' \in 0..2
        BY <3>1
      <4>2. QED
        BY <1>2, <1>4, <2>2, <2>3, <3>1, <4>1, Zenon DEF DisplayTypes
    <3>3. InTime'
      BY <1>2, <2>2, <2>3, <2>4, <3>1 DEF InTime
    <3>4. Starting => Starting'
      BY <2>2, <3>1, Zenon DEF Starting
    <3>5. Looping => Looping'
      <4>1. \A text, left, out : Progress(text, left, 0, out) => Progress(text, left, 1, out)
        BY DEF Progress
      <4>2. QED
        BY <1>4, <2>2, <2>4, <3>1, <4>1, Zenon DEF Looping
    <3>6. QED
      BY <3>2, <3>3, <3>4, <3>5 DEF DisplayInv
  <2>5. CASE strobe = 2
    <3>1. strobe' = 0 /\ todo' = Tail(todo)
      BY <1>3, <2>5
    <3>2. /\ Tail(todo) \in Seq(Sendable) /\ Len(Tail(todo)) = Len(todo) - 1
          /\ \A i \in 1 .. Len(todo) - 1 : Tail(todo)[i] = todo[i + 1]
      BY <1>2, FirstOf
    <3>3. DisplayTypes'
      <4>1. strobe' \in 0..2
        BY <3>1
      <4>2. QED
        BY <1>2, <1>4, <2>2, <2>3, <3>1, <3>2, <4>1, Zenon DEF DisplayTypes
    <3>4. InTime'
      BY <2>2, <2>3, <2>5, <3>1 DEF InTime
    <3>5. Starting => Starting'
      <4> SUFFICES ASSUME Starting, NEW i \in 1 .. Len(Tail(todo)) PROVE Tail(todo)[i].RS = FALSE
        BY <2>2, <3>1, Zenon DEF Starting
      <4>1. i \in 1 .. Len(todo) - 1 /\ i + 1 \in 1 .. Len(todo)
        BY <1>6, <3>2
      <4>2. Tail(todo)[i] = todo[i + 1] /\ todo[i + 1].RS = FALSE
        BY <3>2, <4>1 DEF Starting
      <4>3. QED
        BY <4>2, Zenon
    <3>6. Looping => Looping'
      <4>1. Looping => Progress(Message(speed_datain), Tail(todo), 0, shown)
        BY <1>2, <2>5, MessageType, ProgressNext DEF Looping
      <4>2. QED
        BY <1>4, <2>2, <3>1, <4>1, Zenon DEF Looping
    <3>7. QED
      BY <3>3, <3>4, <3>5, <3>6 DEF DisplayInv
  <2>6. QED
    BY <1>8, <2>4, <2>5
<1>9. QED
  BY <1>2, <1>7, <1>8

(* The head of the loop.                                                   *)
LEMMA DisplayReads ==
  ASSUME DisplayInv, ReadSpeed
  PROVE  DisplayInv'
<1>1. /\ todo = <<>> /\ speed_datain' = SPEED_REF
      /\ todo' = PassOf(Message(SPEED_REF))
      /\ UNCHANGED <<SPEED_REF, strobe, E, shown, busy, missed>>
  BY Zenon DEF ReadSpeed, PassOf, lcd
<1>2. SPEED_REF \in Nat
  BY DisplayAssumption DEF DisplayInv, DisplayTypes
<1>3. Message(SPEED_REF) \in Seq(Nat) /\ PassOf(Message(SPEED_REF)) \in Seq(Sendable)
  BY <1>2, MessageType, PassShape
<1>4. DisplayTypes'
  BY <1>1, <1>2, <1>3, Zenon DEF DisplayInv, DisplayTypes
<1>5. strobe = 0
  BY <1>1, Zenon DEF DisplayInv, InTime
<1>6. InTime'
  BY <1>1, <1>5, Zenon DEF DisplayInv, InTime
<1>7. shown = <<>>
  <2>1. CASE Starting
    BY <2>1, Zenon DEF Starting
  <2>2. CASE Looping
    <3>1. Message(speed_datain) \in Seq(Nat) /\ shown \in Seq(Nat)
      BY MessageType DEF DisplayInv, DisplayTypes
    <3>2. Len(<<>>) = 0 /\ Len(Message(speed_datain)) \in Nat
      BY <3>1, LenProperties
    <3>3. Progress(Message(speed_datain), <<>>, 0, shown)
      BY <1>1, <1>5, <2>2, Zenon DEF Looping
    <3>4. Len(shown) = 0
      BY <3>2, <3>3 DEF Progress
    <3>5. QED
      BY <3>1, <3>4, EmptySeq
  <2>3. QED
    BY <2>1, <2>2 DEF DisplayInv
<1>8. Looping'
  <2>1. Progress(Message(SPEED_REF), PassOf(Message(SPEED_REF)), 0, <<>>)
    BY <1>3, ProgressBegin
  <2>2. QED
    BY <1>1, <1>5, <1>7, <2>1, Zenon DEF Looping
<1>9. QED
  BY <1>4, <1>6, <1>8 DEF DisplayInv

(* If three times what a sleep of 1 ms is sure to last covers a clear, the *)
(* display keeps up with the program.                                      *)
THEOREM DisplayInvariant ==
  ASSUME ClearsInTime
  PROVE  DisplaySpec => []DisplayInv
<1>1. DisplayInit => DisplayInv
  BY DisplayStart
<1>2. DisplayInv /\ [DisplayNext]_display => DisplayInv'
  <2> SUFFICES ASSUME DisplayInv, [DisplayNext]_display PROVE DisplayInv'
    OBVIOUS
  <2>1. CASE Write
    BY <2>1, DisplayWrites
  <2>2. CASE ReadSpeed
    BY <2>2, DisplayReads
  <2>3. ASSUME NEW v \in Speeds, RpmChange(v) PROVE DisplayInv'
    <3>1. SPEED_REF' \in Speeds /\ UNCHANGED <<speed_datain, todo, strobe, E, lcd>>
      BY <2>3 DEF RpmChange
    <3>2. QED
      <4>1. DisplayTypes' /\ InTime'
        BY <3>1, Zenon DEF lcd, DisplayInv, DisplayTypes, InTime
      <4>2. (Starting => Starting') /\ (Looping => Looping')
        BY <3>1, Zenon DEF lcd, Starting, Looping
      <4>3. QED
        BY <4>1, <4>2, Zenon DEF DisplayInv
  <2>4. CASE UNCHANGED display
    BY <2>4, Zenon DEF display, lcd, DisplayInv, DisplayTypes, InTime, Starting, Looping
  <2>5. QED
    BY <2>1, <2>2, <2>3, <2>4 DEF DisplayNext
<1>3. QED
  BY <1>1, <1>2, PTL DEF DisplaySpec

(* Every byte reaches the display, for every clock of the processor, every *)
(* loop that sleeps and every display that clears in time                  *)
(* (hello_world_small.c, lines 128-154).                                   *)
THEOREM EveryByteTaken ==
  ASSUME ClearsInTime
  PROVE  DisplaySpec => []NothingMissed
<1>. DisplaySpec => []DisplayInv
  BY DisplayInvariant
<1>1. DisplayInv => NothingMissed
  BY DEF DisplayInv, InTime, NothingMissed
<1>2. QED
  BY <1>1, PTL

(* What the display shows is the beginning of the message of the value     *)
(* that this pass has read, whenever the speed changes                     *)
(* (hello_world_small.c, lines 108-123).                                   *)
THEOREM OneReadingShown ==
  ASSUME ClearsInTime
  PROVE  DisplaySpec => []ShowsOneReading
<1>. DisplaySpec => []DisplayInv
  BY DisplayInvariant
<1>1. DisplayInv => ShowsOneReading
  <2> SUFFICES ASSUME DisplayInv PROVE ShowsOneReading
    OBVIOUS
  <2> DEFINE text == Message(speed_datain)
  <2>1. text \in Seq(Nat) /\ shown \in Seq(Nat) /\ Len(text) \in Nat /\ Len(shown) \in Nat
    BY MessageType, LenProperties DEF DisplayInv, DisplayTypes
  <2>2. Len(shown) <= Len(text) /\ \A i \in 1 .. Len(shown) : shown[i] = text[i]
    <3>1. CASE Starting
      <4>1. shown = <<>> /\ Len(<<>>) = 0
        BY <3>1 DEF Starting
      <4>2. QED
        BY <2>1, <4>1
    <3>2. CASE Looping
      BY <2>1, <3>2 DEF Looping, Progress
    <3>3. QED
      BY <3>1, <3>2 DEF DisplayInv
  <2> HIDE DEF text
  <2>3. shown = SubSeq(text, 1, Len(shown))
    <3>1. SubSeq(text, 1, Len(shown)) \in Seq(Nat)
          /\ Len(SubSeq(text, 1, Len(shown))) = Len(shown)
          /\ \A i \in 1 .. Len(shown) : SubSeq(text, 1, Len(shown))[i] = text[i]
      BY <2>1, <2>2
    <3>2. QED
      BY <2>1, <2>2, <3>1, SeqEqual
  <2>4. QED
    BY <2>2, <2>3 DEF ShowsOneReading, text
<1>2. QED
  BY <1>1, PTL
=============================================================================
