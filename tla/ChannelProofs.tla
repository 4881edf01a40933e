---------------------------- MODULE ChannelProofs ----------------------------
(***************************************************************************)
(* Proofs about one hall line, from the connector to the edge count, for   *)
(* every length of the filter, every divider and every gate of a whole     *)
(* number of samples, and every sequence of inputs and resets.             *)
(*                                                                         *)
(* The first part is about the filter alone (HallFilter), the second about *)
(* the filter and the counter it clocks (SpeedChannel).                    *)
(***************************************************************************)
EXTENDS SpeedChannel, Integers, TLAPS

(* The types, without the bounds the runs check.                           *)
Types ==
  /\ Q \in [1..n -> BOOLEAN]
  /\ state_Q \in {A, B}
  /\ data \in BOOLEAN
  /\ since \in 0..n
  /\ run \in 1..n

(* The latch on the next state is transparent.                             *)
Transparent == state_D = NextState(state_Q, Q, state_D)

(* run is the length of the run that the newest sample ends.               *)
RunEndsHere ==
  /\ \A i \in 1..n : i > n - run => Q[i] = Q[n]
  /\ run < n => Q[n - run] # Q[n]

(* The oldest samples are those that made the output move.                 *)
OldSamplesAgree == \A i \in 1..n : i + since <= n - 1 => Q[i] = z

IInv == Types /\ Transparent /\ RunEndsHere /\ OldSamplesAgree

-----------------------------------------------------------------------------
(* A rising edge of the divided clock never meets the reset.               *)
LEMMA RisesOutOfReset == Rises => ~reset
  BY FilterAssumption DEF Rises, NextCount

(* What a sample does to the registers.                                    *)
LEMMA SampleEffect ==
  ASSUME Types, PosedgeClkDiv, ~reset
  PROVE  /\ \A i \in 1..n : i < n => Q'[i] = Q[i + 1]
         /\ Q'[n] = data
         /\ Q' \in [1..n -> BOOLEAN]
         /\ state_Q' = state_D
         /\ state_D' = NextState(state_D, Q', state_D)
<1> USE FilterAssumption DEF Types, PosedgeClkDiv
<1>1. Q' = [i \in 1..n |-> ~reset /\ (IF i < n THEN Q[i + 1] ELSE data)]
  OBVIOUS
<1>2. \A i \in 1..n : Q'[i] = (IF i < n THEN Q[i + 1] ELSE data)
  <2> SUFFICES ASSUME NEW i \in 1..n
               PROVE  Q'[i] = (IF i < n THEN Q[i + 1] ELSE data)
    OBVIOUS
  <2>1. Q'[i] = (~reset /\ (IF i < n THEN Q[i + 1] ELSE data))
    BY <1>1
  <2>2. (IF i < n THEN Q[i + 1] ELSE data) \in BOOLEAN
    OBVIOUS
  <2>3. QED
    BY <2>1, <2>2
<1>3. \A i \in 1..n : (IF i < n THEN Q[i + 1] ELSE data) \in BOOLEAN
  OBVIOUS
<1>4. Q' \in [1..n -> BOOLEAN]
  BY <1>1, <1>2, <1>3
<1>5. QED
  BY <1>2, <1>4

(* A full run decides the next state, a shorter one keeps the state.       *)
LEMMA NextStateOfRun ==
  ASSUME Types, Transparent, RunEndsHere
  PROVE  /\ state_D \in {A, B}
         /\ (state_D = B) = (IF run = n THEN Q[n] ELSE z)
<1> USE FilterAssumption DEF Types
<1>1. state_D = IF state_Q = A THEN (IF AllHigh(Q) THEN B ELSE A)
                               ELSE (IF AnyHigh(Q) THEN B ELSE A)
  BY DEF Transparent, NextState, A, B
<1>2. state_D \in {A, B}
  BY <1>1
<1>3. CASE run = n
  <2>1. \A i \in 1..n : Q[i] = Q[n]
    BY <1>3 DEF RunEndsHere
  <2>2. AllHigh(Q) = Q[n] /\ AnyHigh(Q) = Q[n]
    BY <2>1 DEF AllHigh, AnyHigh
  <2>3. QED
    BY <1>1, <1>2, <1>3, <2>2 DEF A, B
<1>4. CASE run # n
  <2>1. n - run \in 1..n /\ Q[n - run] # Q[n]
    BY <1>4 DEF RunEndsHere
  <2>2. ~AllHigh(Q) /\ AnyHigh(Q)
    BY <2>1 DEF AllHigh, AnyHigh
  <2>3. QED
    BY <1>1, <1>2, <1>4, <2>2 DEF A, B, z
<1>5. QED
  BY <1>2, <1>3, <1>4

-----------------------------------------------------------------------------
(* The invariant holds at power-up.                                        *)
LEMMA InitIInv ==
  ASSUME PowerUp \subseteq {A, B}, Init
  PROVE  IInv
<1> USE FilterAssumption
<1>1. \A i \in 1..n : Q[i] = FALSE
  BY DEF Init
<1>2. Types
  BY DEF Init, Types
<1>3. Transparent
  <2>1. PICK d \in 0..3 : state_D = NextState(state_Q, Q, d)
    BY DEF Init
  <2>2. QED
    BY <1>2, <2>1 DEF Transparent, NextState, Types, A, B
<1>4. RunEndsHere /\ OldSamplesAgree
  <2>1. since = n /\ run = n /\ n \in 1..n
    BY DEF Init
  <2>2. \A i \in 1..n : ~(i + since <= n - 1)
    BY <2>1
  <2>3. \A i \in 1..n : Q[i] = Q[n]
    BY <1>1, <2>1
  <2>4. RunEndsHere
    BY <2>1, <2>3 DEF RunEndsHere
  <2>5. OldSamplesAgree
    BY <2>1, <2>2 DEF OldSamplesAgree
  <2>6. QED
    BY <2>4, <2>5
<1>5. QED
  BY <1>2, <1>3, <1>4 DEF IInv

(* A sample keeps the invariant.                                           *)
LEMMA SampleIInv ==
  ASSUME IInv, PosedgeClkDiv, ~reset, UNCHANGED data
  PROVE  IInv'
<1> USE FilterAssumption
<1>1. Types /\ Transparent /\ RunEndsHere /\ OldSamplesAgree
  BY DEF IInv
<1>2. /\ \A i \in 1..n : i < n => Q'[i] = Q[i + 1]
      /\ Q'[n] = data
      /\ Q' \in [1..n -> BOOLEAN]
      /\ state_Q' = state_D
      /\ state_D' = NextState(state_D, Q', state_D)
  BY <1>1, SampleEffect
<1>3. /\ state_D \in {A, B}
      /\ (state_D = B) = (IF run = n THEN Q[n] ELSE z)
  BY <1>1, NextStateOfRun
<1>4. /\ since' = IF (state_Q' = B) # z THEN 0 ELSE UpToN(since + 1)
      /\ run' = IF Q'[n] = Q[n] THEN UpToN(run + 1) ELSE 1
  BY DEF PosedgeClkDiv
<1>5. Types'
  <2>1. since' \in 0..n /\ run' \in 1..n
    BY <1>1, <1>4 DEF Types, UpToN
  <2>2. QED
    BY <1>1, <1>2, <1>3, <2>1 DEF Types
<1>6. Transparent'
  BY <1>2, <1>3 DEF Transparent, NextState, A, B
<1>7. RunEndsHere'
  <2>1. n \in 1..n /\ run \in 1..n
    BY <1>1 DEF Types
  <2>2. CASE Q'[n] = Q[n]
    <3>1. run' = IF run < n THEN run + 1 ELSE n
      BY <1>4, <2>1, <2>2 DEF UpToN
    <3>2. ASSUME NEW i \in 1..n, i > n - run' PROVE Q'[i] = Q'[n]
      <4>1. CASE i = n
        BY <4>1
      <4>2. CASE i < n
        <5>1. i + 1 \in 1..n /\ i + 1 > n - run
          BY <2>1, <3>1, <3>2, <4>2
        <5>2. QED
          BY <1>1, <1>2, <2>2, <4>2, <5>1 DEF RunEndsHere
      <4>3. QED
        BY <4>1, <4>2
    <3>3. ASSUME run' < n PROVE Q'[n - run'] # Q'[n]
      <4>1. run < n /\ run' = run + 1 /\ n - run' \in 1..n /\ n - run' < n
            /\ (n - run') + 1 = n - run
        BY <2>1, <3>1, <3>3
      <4>2. QED
        BY <1>1, <1>2, <2>2, <4>1 DEF RunEndsHere
    <3>4. QED
      BY <3>2, <3>3 DEF RunEndsHere
  <2>3. CASE Q'[n] # Q[n]
    <3>1. run' = 1
      BY <1>4, <2>3
    <3>2. ASSUME run' < n PROVE Q'[n - run'] # Q'[n]
      <4>1. n - 1 \in 1..n /\ n - 1 < n /\ (n - 1) + 1 = n
        BY <3>1, <3>2
      <4>2. QED
        BY <1>2, <2>3, <3>1, <4>1
    <3>3. \A i \in 1..n : i > n - run' => i = n
      BY <3>1
    <3>4. QED
      BY <3>2, <3>3 DEF RunEndsHere
  <2>4. QED
    BY <2>2, <2>3
<1>8. OldSamplesAgree'
  <2> SUFFICES ASSUME NEW i \in 1..n, i + since' <= n - 1
               PROVE  Q'[i] = z'
    BY DEF OldSamplesAgree
  <2>1. z' = (state_D = B) /\ z' \in BOOLEAN
    BY <1>2 DEF z
  <2>2. CASE z' = z
    <3>1. since' = UpToN(since + 1) /\ since \in 0..n
      BY <1>1, <1>4, <2>2 DEF z, Types
    <3>2. i < n /\ i + 1 \in 1..n /\ (i + 1) + since <= n - 1
      BY <3>1 DEF UpToN
    <3>3. QED
      BY <1>1, <1>2, <2>2, <3>2 DEF OldSamplesAgree
  <2>3. CASE z' # z
    <3>1. since' = 0
      BY <1>4, <2>3 DEF z
    <3>2. i < n /\ i + 1 \in 1..n
      BY <3>1
    <3>3. run = n /\ z' = Q[n]
      BY <1>3, <2>1, <2>3
    <3>4. Q[i + 1] = Q[n]
      BY <1>1, <3>2, <3>3 DEF RunEndsHere
    <3>5. QED
      BY <1>2, <3>2, <3>3, <3>4
  <2>4. QED
    BY <2>2, <2>3
<1>9. QED
  BY <1>5, <1>6, <1>7, <1>8 DEF IInv

(* Every other step leaves alone what the invariant is about.              *)
LEMMA QuietIInv ==
  ASSUME IInv, UNCHANGED filter, data' \in BOOLEAN
  PROVE  IInv'
  BY DEF IInv, Types, Transparent, RunEndsHere, OldSamplesAgree, filter, z

(* A step is a sample out of reset, or leaves the filter as it is.         *)
LEMMA SampleOrQuiet ==
  ASSUME [Next]_vars, data \in BOOLEAN
  PROVE  \/ PosedgeClkDiv /\ ~reset /\ UNCHANGED data
         \/ UNCHANGED filter /\ data' \in BOOLEAN
<1>1. CASE PosedgeClock
  BY <1>1, RisesOutOfReset DEF PosedgeClock
<1>2. CASE DataChange
  BY <1>2 DEF DataChange
<1>3. ASSUME NEW level \in ResetLevels, ResetChange(level)
      PROVE  UNCHANGED filter /\ data' \in BOOLEAN
  BY <1>3 DEF ResetChange
<1>4. CASE UNCHANGED vars
  BY <1>4 DEF vars, filter
<1>5. QED
  BY <1>1, <1>2, <1>3, <1>4 DEF Next

(* The inductive invariant of a filter that powers up in A or B.           *)
THEOREM Invariance ==
  ASSUME PowerUp \subseteq {A, B}
  PROVE  Spec => []IInv
<1>1. Init => IInv
  BY InitIInv
<1>2. IInv /\ [Next]_vars => IInv'
  <2> SUFFICES ASSUME IInv, [Next]_vars PROVE IInv'
    OBVIOUS
  <2>1. data \in BOOLEAN
    BY DEF IInv, Types
  <2>2. QED
    BY <2>1, SampleOrQuiet, SampleIInv, QuietIInv
<1>3. QED
  BY <1>1, <1>2, PTL DEF Spec

-----------------------------------------------------------------------------
(* The filter implements Debounce: it believes runs of n samples.          *)
THEOREM Refinement ==
  ASSUME PowerUp \subseteq {A}
  PROVE  Spec => BelievesRuns
<1> USE FilterAssumption
<1>1. Init => Abstract!Init
  <2> SUFFICES ASSUME Init PROVE Abstract!Init
    OBVIOUS
  <2>1. state_Q # B
    BY DEF Init, A, B
  <2>2. QED
    BY <2>1 DEF Init, Abstract!Init, z
<1>2. IInv /\ [Next]_vars => [Abstract!Next]_(Abstract!vars)
  <2> SUFFICES ASSUME IInv, [Next]_vars
               PROVE  [Abstract!Next]_(Abstract!vars)
    OBVIOUS
  <2>1. CASE UNCHANGED filter
    BY <2>1 DEF filter, Abstract!vars, z
  <2>2. CASE PosedgeClkDiv /\ ~reset /\ UNCHANGED data
    <3>1. Types /\ Transparent /\ RunEndsHere
      BY DEF IInv
    <3>2. z' = IF run = n THEN Q[n] ELSE z
      BY <2>2, <3>1, NextStateOfRun DEF PosedgeClkDiv, z
    <3>3. Q'[n] = data /\ data \in BOOLEAN
      BY <2>2, <3>1, SampleEffect DEF Types
    <3>4. run' = IF data = Q[n] THEN Abstract!Longer(run) ELSE 1
      BY <2>2, <3>1, <3>3 DEF PosedgeClkDiv, UpToN, Abstract!Longer, Types
    <3>5. Abstract!Sample(data)
      BY <3>2, <3>3, <3>4 DEF Abstract!Sample
    <3>6. QED
      BY <3>3, <3>5 DEF Abstract!Next
  <2>3. QED
    BY <2>1, <2>2, SampleOrQuiet DEF IInv, Types
<1>3. Spec => []IInv
  BY Invariance
<1>4. QED
  BY <1>1, <1>2, <1>3, PTL DEF Spec, BelievesRuns, Abstract!Spec

(* The output never pulses shorter than n samples.                         *)
THEOREM PulsesAreLong ==
  ASSUME PowerUp \subseteq {A, B}
  PROVE  Spec => MinimumPulse
<1> USE FilterAssumption
<1>1. IInv /\ [Next]_vars => [z # z' => since >= n - 1]_vars
  <2> SUFFICES ASSUME IInv, [Next]_vars, z # z' PROVE since >= n - 1
    OBVIOUS
  <2>1. Types /\ Transparent /\ RunEndsHere /\ OldSamplesAgree
    BY DEF IInv
  <2>2. PosedgeClkDiv /\ ~reset
    <3>1. ~UNCHANGED filter
      BY DEF filter, z
    <3>2. QED
      BY <2>1, <3>1, SampleOrQuiet DEF Types
  <2>3. z' = (IF run = n THEN Q[n] ELSE z)
    BY <2>1, <2>2, NextStateOfRun DEF PosedgeClkDiv, z
  <2>4. Q[1] = Q[n] /\ Q[n] # z
    BY <2>1, <2>3 DEF RunEndsHere, Types
  <2>5. ~(1 + since <= n - 1)
    BY <2>1, <2>4 DEF OldSamplesAgree
  <2>6. QED
    BY <2>1, <2>5 DEF Types
<1>2. Spec => []IInv
  BY Invariance
<1>3. QED
  BY <1>1, <1>2, PTL DEF Spec, MinimumPulse

(* The reset branches of the filter are dead code.                         *)
THEOREM ResetIsDead == Spec => ResetNeverReaches
<1>1. [Next]_vars => [reset => UNCHANGED <<Q, state_Q>>]_vars
  <2> SUFFICES ASSUME [Next]_vars, reset PROVE UNCHANGED <<Q, state_Q>>
    OBVIOUS
  <2>1. CASE PosedgeClock
    BY <2>1, RisesOutOfReset DEF PosedgeClock, filter
  <2>2. CASE DataChange
    BY <2>2 DEF DataChange, filter
  <2>3. ASSUME NEW level \in ResetLevels, ResetChange(level)
        PROVE  UNCHANGED <<Q, state_Q>>
    BY <2>3 DEF ResetChange, filter
  <2>4. CASE UNCHANGED vars
    BY <2>4 DEF vars, filter
  <2>5. QED
    BY <2>1, <2>2, <2>3, <2>4 DEF Next
<1>2. QED
  BY <1>1, PTL DEF Spec, ResetNeverReaches

(* Whether the filter works is decided at power-up.                        *)
THEOREM PowerUpIsFinal == Spec => PowerUpDecides
<1>1. [Next]_vars => [(state_D \in {A, B}) <=> (state_D' \in {A, B})]_vars
  <2> SUFFICES ASSUME [Next]_vars
               PROVE  (state_D \in {A, B}) <=> (state_D' \in {A, B})
    OBVIOUS
  <2>1. CASE PosedgeClkDiv /\ ~reset
    <3>1. state_D' = NextState(state_D, Q', state_D)
      BY <2>1 DEF PosedgeClkDiv
    <3>2. QED
      BY <3>1 DEF NextState, A, B
  <2>2. CASE UNCHANGED filter
    BY <2>2 DEF filter
  <2>3. CASE PosedgeClock
    BY <2>1, <2>2, <2>3, RisesOutOfReset DEF PosedgeClock
  <2>4. CASE DataChange
    BY <2>2, <2>4 DEF DataChange
  <2>5. ASSUME NEW level \in ResetLevels, ResetChange(level) PROVE UNCHANGED filter
    BY <2>5 DEF ResetChange
  <2>6. CASE UNCHANGED vars
    BY <2>6 DEF vars, filter
  <2>7. QED
    BY <2>2, <2>3, <2>4, <2>5, <2>6 DEF Next
<1>2. QED
  BY <1>1, PTL DEF Spec, PowerUpDecides

-----------------------------------------------------------------------------
(* A quotient and a remainder are unique.                                  *)
LEMMA QuotientUnique ==
  ASSUME NEW w \in Nat, w > 0,
         NEW q1 \in Int, NEW r1 \in 0 .. w - 1, NEW q2 \in Int, NEW r2 \in 0 .. w - 1,
         w * q1 + r1 = w * q2 + r2
  PROVE  r1 = r2
<1>1. w * (q1 - q2) = r2 - r1
  OBVIOUS
<1>2. CASE q1 = q2
  BY <1>1, <1>2
<1>3. CASE q1 - q2 >= 1
  <2>1. w * (q1 - q2) >= w * 1
    BY <1>3
  <2>2. QED
    BY <1>1, <2>1
<1>4. CASE q2 - q1 >= 1
  <2>1. w * (q2 - q1) >= w * 1
    BY <1>4
  <2>2. w * (q2 - q1) = r1 - r2
    OBVIOUS
  <2>3. QED
    BY <2>1, <2>2
<1>5. QED
  BY <1>2, <1>3, <1>4

(* Counting on modulo w.                                                   *)
LEMMA PlusOneMod ==
  ASSUME NEW w \in Nat, w > 1, NEW m \in Nat
  PROVE  ((m % w) + 1) % w = (m + 1) % w
<1> DEFINE q == m \div w   r == m % w
           p == (r + 1) \div w   s == (r + 1) % w
           t == (m + 1) \div w   u == (m + 1) % w
<1>1. q \in Int /\ r \in 0 .. w - 1 /\ m = w * q + r
  OBVIOUS
<1>2. p \in Int /\ s \in 0 .. w - 1 /\ r + 1 = w * p + s
  BY <1>1
<1>3. t \in Int /\ u \in 0 .. w - 1 /\ m + 1 = w * t + u
  OBVIOUS
<1> HIDE DEF q, r, p, s, t, u
<1>4. w * (q + p) + s = w * t + u
  BY <1>1, <1>2, <1>3
<1>5. s = u
  BY <1>1, <1>2, <1>3, <1>4, QuotientUnique
<1>6. QED
  BY <1>5 DEF s, u, r
(* The divider is the gate counter modulo the clocks of a sample; a reset  *)
(* stops the divider at zero and ends with the gate counter at zero.       *)
InPhase ==
  /\ count \in 0 .. MAX_VALUE /\ clock_cnt \in 0 .. Divide - 1
  /\ reset \in BOOLEAN
  /\ clock_cnt = IF reset THEN 0 ELSE count % Divide

ChannelInv == InPhase /\ lost = FALSE

(* The invariant holds at power-up.                                        *)
LEMMA ChannelInitInv == ChannelInit => ChannelInv
<1> SUFFICES ASSUME ChannelInit PROVE ChannelInv
  OBVIOUS
<1>1. count = 0 /\ clock_cnt = 0 /\ reset = FALSE /\ lost = FALSE
  BY DEF ChannelInit, Init, U5!GateInit
<1>2. 0 % Divide = 0 /\ 0 \in 0 .. MAX_VALUE /\ 0 \in 0 .. Divide - 1
  BY FilterAssumption, GateAssumption
<1>3. QED
  BY <1>1, <1>2 DEF ChannelInv, InPhase

(* A clock edge keeps the phase, and so the filter's output does not move  *)
(* in the clock in which the edge counter is held clear.                   *)
LEMMA PosedgeInv ==
  ASSUME ChannelInv, Posedge
  PROVE  ChannelInv'
<1> USE FilterAssumption, GateAssumption
<1>1. InPhase /\ lost = FALSE
  BY DEF ChannelInv
<1>2. /\ clock_cnt' = IF reset THEN 0 ELSE (clock_cnt + 1) % Divide
      /\ count' = IF reset \/ count = MAX_VALUE THEN 0 ELSE count + 1
      /\ reset' = reset
      /\ lost' = (lost \/ (~z /\ z' /\ count' = 0))
  BY DEF Posedge, PosedgeClock, NextCount, U5!Clocked, U5!NextCount, U5!Record
<1>3. count' \in 0 .. MAX_VALUE /\ clock_cnt' \in 0 .. Divide - 1
  BY <1>1, <1>2 DEF InPhase
<1>4. clock_cnt' = IF reset' THEN 0 ELSE count' % Divide
  <2>1. CASE reset
    BY <1>2, <2>1
  <2>2. CASE ~reset
    <3>1. clock_cnt' = (count + 1) % Divide
      <4>1. count \in Nat /\ Divide \in Nat /\ Divide > 1
        BY <1>1 DEF InPhase
      <4>2. ((count % Divide) + 1) % Divide = (count + 1) % Divide
        BY <4>1, PlusOneMod
      <4>3. QED
        BY <1>1, <1>2, <2>2, <4>2 DEF InPhase
    <3>2. 0 % Divide = 0
      OBVIOUS
    <3>3. QED
      BY <1>1, <1>2, <2>2, <3>1, <3>2, WholeSamplesPerGate DEF InPhase
  <2>3. QED
    BY <2>1, <2>2
<1>5. lost' = FALSE
  <2>1. CASE count' = 0
    <3>1. NextCount = 0
      <4>1. clock_cnt' = 0
        <5>1. 0 % Divide = 0
          OBVIOUS
        <5>2. QED
          BY <1>4, <2>1, <5>1
      <4>2. QED
        BY <4>1 DEF Posedge, PosedgeClock
    <3>2. ~Rises
      <4>1. Divide \div 2 > 0
        OBVIOUS
      <4>2. QED
        BY <3>1, <4>1 DEF Rises
    <3>3. z' = z
      BY <3>2 DEF Posedge, PosedgeClock, filter, z
    <3>4. QED
      BY <1>1, <1>2, <3>3
  <2>2. CASE count' # 0
    BY <1>1, <1>2, <2>2
  <2>3. QED
    BY <2>1, <2>2
<1>6. QED
  BY <1>1, <1>2, <1>3, <1>4, <1>5 DEF ChannelInv, InPhase

(* No edge of the line is lost at the turn of a gate, whatever the line    *)
(* and the reset do (speed_calculation.v, line 33).                        *)
THEOREM EdgesAllCount == ChannelSpec => []NoEdgeLost
<1>1. ChannelInv /\ [ChannelNext]_channel => ChannelInv'
  <2> SUFFICES ASSUME ChannelInv, [ChannelNext]_channel PROVE ChannelInv'
    OBVIOUS
  <2>1. CASE LineMoves
    BY <2>1 DEF LineMoves, DataChange, counter, ChannelInv, InPhase
  <2>2. CASE ResetRises
    <3>1. 0 \in 0 .. Divide - 1
      BY FilterAssumption
    <3>2. QED
      BY <2>2, <3>1 DEF ResetRises, ResetChange, counter, ChannelInv, InPhase
  <2>3. CASE ResetFalls
    <3>1. 0 % Divide = 0
      BY FilterAssumption
    <3>2. QED
      BY <2>3, <3>1 DEF ResetFalls, ResetChange, counter, ChannelInv, InPhase
  <2>4. CASE UNCHANGED channel
    BY <2>4 DEF channel, vars, counter, ChannelInv, InPhase
  <2>5. QED
    BY <2>1, <2>2, <2>3, <2>4, PosedgeInv DEF ChannelNext
<1>2. ChannelInv => NoEdgeLost
  BY DEF ChannelInv, NoEdgeLost
<1>3. QED
  BY <1>1, <1>2, ChannelInitInv, PTL DEF ChannelSpec
=============================================================================
